--------------------------- MODULE SearchMainProofs ---------------------------
(***************************************************************************)
(* The options of the search, for every order N and any command lines.     *)
(***************************************************************************)
EXTENDS SearchMain, HamGraphsProofs

-----------------------------------------------------------------------------
(***************************************************************************)
(* The digits of a case number.                                            *)
(***************************************************************************)
LEMMA BaseFacts == base \in Nat /\ base >= 4 /\ base = N + 1
BY NAssumption DEF base

\* A number whose last digit is r and whose other digits are those of x.  It is
\* left unexpanded wherever it is not the arithmetic that matters.
Value(x, r) == base * x + r

LEMMA ValueFacts ==
    ASSUME NEW x \in Nat, NEW r \in 0 .. base - 1
    PROVE  Value(x, r) \in Nat /\ Value(x, r) \div base = x /\ Value(x, r) % base = r
<1>1. ASSUME NEW b \in Nat, b >= 1, r \in 0 .. b - 1
      PROVE  (b * x + r) \div b = x /\ (b * x + r) % b = r
  BY <1>1
<1>2. ASSUME NEW b \in Nat, r \in 0 .. b - 1
      PROVE  b * x + r \in Nat
  BY <1>2
<1>. QED
  BY <1>1, <1>2, BaseFacts DEF Value

LEMMA ValueOf ==
    ASSUME NEW m \in Nat
    PROVE  \E x \in Nat, r \in 0 .. base - 1 : m = Value(x, r)
<1>. DEFINE Divides(y) == \E q \in Nat, r \in 0 .. base - 1 : y = Value(q, r)
            Bad == {y \in Nat : ~ Divides(y)}
<1>1. ASSUME NEW y \in Nat, y < base  PROVE Divides(y)
  <2>1. y \in 0 .. base - 1 /\ 0 \in Nat
    BY <1>1, BaseFacts
  <2>2. y = Value(0, y)
    BY <2>1, BaseFacts DEF Value
  <2>. QED
    BY <2>1, <2>2
<1>2. ASSUME NEW y \in Nat, Divides(y)  PROVE Divides(y + base)
  <2>1. PICK q \in Nat, r \in 0 .. base - 1 : y = Value(q, r)
    BY <1>2
  <2>2. Value(q, r) + base = Value(q + 1, r) /\ q + 1 \in Nat
    BY BaseFacts DEF Value
  <2>. QED
    BY <2>1, <2>2
<1>. HIDE DEF Divides
<1>3. Bad = {}
  <2>1. SUFFICES ASSUME Bad # {}  PROVE FALSE
    OBVIOUS
  <2>2. PICK y \in Bad : \A z \in Bad : y <= z
    BY <2>1, LeastNat
  <2>3. y \in Nat /\ y >= base
    BY <1>1, <2>2, BaseFacts
  <2>4. y - base \in Nat /\ y - base < y /\ (y - base) + base = y
    BY <2>3, BaseFacts
  <2>5. Divides(y - base)
    BY <2>2, <2>4
  <2>. QED
    BY <1>2, <2>2, <2>4, <2>5
<1>. QED
  BY <1>3 DEF Divides

LEMMA Divided ==
    ASSUME NEW m \in Nat
    PROVE  m \div base \in Nat /\ Value(m, 0) \in Nat
<1>1. PICK x \in Nat, r \in 0 .. base - 1 : m = Value(x, r)
  BY ValueOf
<1>2. Value(x, r) \div base = x
  BY ValueFacts
<1>3. m \div base = x
  BY <1>1, <1>2
<1>4. 0 \in 0 .. base - 1
  BY BaseFacts
<1>5. Value(m, 0) \in Nat
  BY <1>4, ValueFacts
<1>. QED
  BY <1>3, <1>5

\* The numbers below Value(C, 0) are those whose other digits make one below C.
LEMMA ValueBelow ==
    ASSUME NEW C \in Nat, NEW x \in Nat, NEW r \in 0 .. base - 1
    PROVE  Value(C, 0) \in Nat /\ (Value(x, r) < Value(C, 0) <=> x < C)
<1>1. ASSUME NEW b \in Nat  PROVE b * x \in Nat /\ b * C \in Nat /\ b * (x + 1) = b * x + b
  OBVIOUS
<1>2. ASSUME NEW b \in Nat, x + 1 <= C  PROVE b * (x + 1) <= b * C
  BY <1>2
<1>3. ASSUME NEW b \in Nat, C <= x  PROVE b * C <= b * x
  BY <1>3
<1>. DEFINE u == base * x
            w == base * C
            v == base * (x + 1)
<1>4. u \in Nat /\ w \in Nat /\ v = u + base /\ (x + 1 <= C => v <= w) /\ (C <= x => w <= u)
  BY <1>1, <1>2, <1>3, BaseFacts
<1>5. Value(C, 0) = w + 0 /\ Value(x, r) = u + r
  BY DEF Value
<1>. HIDE DEF u, v, w
<1>. QED
  BY <1>4, <1>5, BaseFacts

\* What is left of num after each place, and the numbers of digits, as the
\* recursive functions that define them.
LEMMA QuotientIs ==
    ASSUME NEW num, NEW l \in Nat
    PROVE  quotient(num, l) = [j \in 0 .. l |-> IF j = 0 THEN num
                                               ELSE quotient(num, l)[j - 1] \div base]
<1>. DEFINE Ok(k) == \E q : q = [j \in 0 .. k |-> IF j = 0 THEN num ELSE q[j - 1] \div base]
            Bad == {k \in Nat : ~ Ok(k)}
<1>1. Ok(0)
  <2>1. [j \in {0} |-> num] = [j \in 0 .. 0 |-> IF j = 0 THEN num ELSE [i \in {0} |-> num][j - 1] \div base]
    OBVIOUS
  <2>. QED
    BY <2>1
<1>2. ASSUME NEW k \in Nat, Ok(k)  PROVE Ok(k + 1)
  <2>1. PICK q : q = [j \in 0 .. k |-> IF j = 0 THEN num ELSE q[j - 1] \div base]
    BY <1>2
  <2>. DEFINE p == [j \in 0 .. k + 1 |-> IF j = k + 1 THEN q[k] \div base ELSE q[j]]
  <2>2. ASSUME NEW j \in 0 .. k + 1
        PROVE  p[j] = IF j = 0 THEN num ELSE p[j - 1] \div base
    <3>1. CASE j = k + 1
      BY <3>1
    <3>2. CASE j # k + 1
      <4>1. p[j] = q[j] /\ j \in 0 .. k
        BY <3>2
      <4>2. q[j] = IF j = 0 THEN num ELSE q[j - 1] \div base
        BY <2>1, <4>1
      <4>3. j # 0 => p[j - 1] = q[j - 1]
        BY <4>1
      <4>. QED
        BY <4>1, <4>2, <4>3
    <3>. QED
      BY <3>1, <3>2
  <2>3. p = [j \in 0 .. k + 1 |-> IF j = 0 THEN num ELSE p[j - 1] \div base]
    BY <2>2
  <2>. QED
    BY <2>3
<1>. HIDE DEF Ok
<1>3. Bad = {}
  <2>1. SUFFICES ASSUME Bad # {}  PROVE FALSE
    OBVIOUS
  <2>2. PICK k \in Bad : \A m \in Bad : k <= m
    BY <2>1, LeastNat
  <2>3. k \in Nat /\ k # 0 /\ ~ Ok(k)
    BY <1>1, <2>2
  <2>4. k - 1 \in Nat /\ (k - 1) + 1 = k /\ Ok(k - 1)
    BY <2>2, <2>3
  <2>. QED
    BY <1>2, <2>3, <2>4
<1>4. \E q : q = [j \in 0 .. l |-> IF j = 0 THEN num ELSE q[j - 1] \div base]
  BY <1>3 DEF Ok
<1>. QED
  BY <1>4 DEF quotient

LEMMA CountIs ==
    ASSUME NEW l \in Nat
    PROVE  count(l) = [j \in 0 .. l |-> IF j = 0 THEN 1 ELSE base * count(l)[j - 1]]
<1>. DEFINE Ok(k) == \E q : q = [j \in 0 .. k |-> IF j = 0 THEN 1 ELSE base * q[j - 1]]
            Bad == {k \in Nat : ~ Ok(k)}
<1>1. Ok(0)
  <2>1. [j \in {0} |-> 1] = [j \in 0 .. 0 |-> IF j = 0 THEN 1 ELSE base * [i \in {0} |-> 1][j - 1]]
    OBVIOUS
  <2>. QED
    BY <2>1
<1>2. ASSUME NEW k \in Nat, Ok(k)  PROVE Ok(k + 1)
  <2>1. PICK q : q = [j \in 0 .. k |-> IF j = 0 THEN 1 ELSE base * q[j - 1]]
    BY <1>2
  <2>. DEFINE p == [j \in 0 .. k + 1 |-> IF j = k + 1 THEN base * q[k] ELSE q[j]]
  <2>2. ASSUME NEW j \in 0 .. k + 1
        PROVE  p[j] = IF j = 0 THEN 1 ELSE base * p[j - 1]
    <3>1. CASE j = k + 1
      BY <3>1
    <3>2. CASE j # k + 1
      <4>1. p[j] = q[j] /\ j \in 0 .. k
        BY <3>2
      <4>2. q[j] = IF j = 0 THEN 1 ELSE base * q[j - 1]
        BY <2>1, <4>1
      <4>3. j # 0 => p[j - 1] = q[j - 1]
        BY <4>1
      <4>. QED
        BY <4>1, <4>2, <4>3
    <3>. QED
      BY <3>1, <3>2
  <2>3. p = [j \in 0 .. k + 1 |-> IF j = 0 THEN 1 ELSE base * p[j - 1]]
    BY <2>2
  <2>. QED
    BY <2>3
<1>. HIDE DEF Ok
<1>3. Bad = {}
  <2>1. SUFFICES ASSUME Bad # {}  PROVE FALSE
    OBVIOUS
  <2>2. PICK k \in Bad : \A m \in Bad : k <= m
    BY <2>1, LeastNat
  <2>3. k \in Nat /\ k # 0 /\ ~ Ok(k)
    BY <1>1, <2>2
  <2>4. k - 1 \in Nat /\ (k - 1) + 1 = k /\ Ok(k - 1)
    BY <2>2, <2>3
  <2>. QED
    BY <1>2, <2>3, <2>4
<1>4. \E q : q = [j \in 0 .. l |-> IF j = 0 THEN 1 ELSE base * q[j - 1]]
  BY <1>3 DEF Ok
<1>. QED
  BY <1>4 DEF count

\* With one place more, the first places are those of the number divided once,
\* and there are base times as many numbers.
LEMMA QuotientNext ==
    ASSUME NEW num \in Nat, NEW l \in Nat
    PROVE  /\ quotient(num, l)[0] = num
           /\ \A j \in 0 .. l : /\ quotient(num, l)[j] \in Nat
                                /\ quotient(num, l + 1)[j + 1] = quotient(num \div base, l)[j]
<1>. DEFINE q == quotient(num, l)
            p == quotient(num, l + 1)
            r == quotient(num \div base, l)
            Ok(j) == q[j] \in Nat /\ p[j + 1] = r[j]
            Bad == {j \in 0 .. l : ~ Ok(j)}
<1>1. /\ \A j \in 0 .. l : q[j] = IF j = 0 THEN num ELSE q[j - 1] \div base
      /\ \A j \in 0 .. l + 1 : p[j] = IF j = 0 THEN num ELSE p[j - 1] \div base
      /\ \A j \in 0 .. l : r[j] = IF j = 0 THEN num \div base ELSE r[j - 1] \div base
  <2>1. /\ q = [j \in 0 .. l |-> IF j = 0 THEN num ELSE q[j - 1] \div base]
        /\ p = [j \in 0 .. l + 1 |-> IF j = 0 THEN num ELSE p[j - 1] \div base]
        /\ r = [j \in 0 .. l |-> IF j = 0 THEN num \div base ELSE r[j - 1] \div base]
    <3>1. num \div base \in Nat /\ l + 1 \in Nat
      BY Divided
    <3>2. q = [j \in 0 .. l |-> IF j = 0 THEN num ELSE q[j - 1] \div base]
      BY QuotientIs
    <3>3. p = [j \in 0 .. l + 1 |-> IF j = 0 THEN num ELSE p[j - 1] \div base]
      BY <3>1, QuotientIs
    <3>4. r = [j \in 0 .. l |-> IF j = 0 THEN num \div base ELSE r[j - 1] \div base]
      BY <3>1, QuotientIs
    <3>. QED
      BY <3>2, <3>3, <3>4
  <2>. HIDE DEF q, p, r
  <2>2. \A j \in 0 .. l : q[j] = IF j = 0 THEN num ELSE q[j - 1] \div base
    BY <2>1
  <2>3. \A j \in 0 .. l + 1 : p[j] = IF j = 0 THEN num ELSE p[j - 1] \div base
    BY <2>1
  <2>4. \A j \in 0 .. l : r[j] = IF j = 0 THEN num \div base ELSE r[j - 1] \div base
    BY <2>1
  <2>. QED
    BY <2>2, <2>3, <2>4
<1>. HIDE DEF q, p, r
<1>2. Ok(0)
  BY <1>1
<1>3. ASSUME NEW j \in 0 .. l, j # 0, Ok(j - 1)  PROVE Ok(j)
  <2>1. j - 1 \in 0 .. l /\ q[j - 1] \in Nat /\ p[(j - 1) + 1] = r[j - 1] /\ (j - 1) + 1 = j
    BY <1>3
  <2>2. q[j] = q[j - 1] \div base /\ p[j + 1] = p[j] \div base /\ r[j] = r[j - 1] \div base
    BY <1>1, <1>3
  <2>3. q[j - 1] \div base \in Nat
    BY <2>1, Divided
  <2>. QED
    BY <2>1, <2>2, <2>3
<1>. HIDE DEF Ok
<1>4. Bad = {}
  <2>1. SUFFICES ASSUME Bad # {}  PROVE FALSE
    OBVIOUS
  <2>2. PICK j \in Bad : \A k \in Bad : j <= k
    <3>1. Bad \subseteq Nat
      OBVIOUS
    <3>. QED
      BY <2>1, <3>1, LeastNat
  <2>3. j # 0 /\ j \in 0 .. l /\ j - 1 \in 0 .. l /\ ~ Ok(j)
    BY <1>2, <2>2
  <2>4. Ok(j - 1)
    BY <2>2, <2>3
  <2>. QED
    BY <1>3, <2>3, <2>4
<1>5. \A j \in 0 .. l : Ok(j)
  BY <1>4
<1>6. q[0] = num
  BY <1>1
<1>. QED
  BY <1>5, <1>6 DEF Ok, q, p, r

LEMMA CountNext ==
    ASSUME NEW l \in Nat
    PROVE  /\ count(l)[l] \in Nat /\ count(0)[0] = 1
           /\ count(l + 1)[l + 1] = Value(count(l)[l], 0)
<1>. DEFINE c == count(l)
            d == count(l + 1)
            Ok(j) == c[j] \in Nat /\ d[j] = c[j]
            Bad == {j \in 0 .. l : ~ Ok(j)}
<1>1. /\ \A j \in 0 .. l : c[j] = IF j = 0 THEN 1 ELSE base * c[j - 1]
      /\ \A j \in 0 .. l + 1 : d[j] = IF j = 0 THEN 1 ELSE base * d[j - 1]
  <2>1. c = [j \in 0 .. l |-> IF j = 0 THEN 1 ELSE base * c[j - 1]]
    BY CountIs
  <2>2. d = [j \in 0 .. l + 1 |-> IF j = 0 THEN 1 ELSE base * d[j - 1]]
    <3>1. l + 1 \in Nat
      OBVIOUS
    <3>. QED
      BY <3>1, CountIs
  <2>. HIDE DEF c, d
  <2>3. \A j \in 0 .. l : c[j] = IF j = 0 THEN 1 ELSE base * c[j - 1]
    BY <2>1
  <2>4. \A j \in 0 .. l + 1 : d[j] = IF j = 0 THEN 1 ELSE base * d[j - 1]
    BY <2>2
  <2>. QED
    BY <2>3, <2>4
<1>2. count(0)[0] = 1
  <2>1. count(0) = [j \in 0 .. 0 |-> IF j = 0 THEN 1 ELSE base * count(0)[j - 1]]
    BY CountIs
  <2>. QED
    BY <2>1
<1>. HIDE DEF c, d
<1>3. Ok(0)
  BY <1>1
<1>4. ASSUME NEW j \in 0 .. l, j # 0, Ok(j - 1)  PROVE Ok(j)
  <2>1. c[j - 1] \in Nat /\ d[j - 1] = c[j - 1]
    BY <1>4
  <2>2. c[j] = base * c[j - 1] /\ d[j] = base * d[j - 1]
    BY <1>1, <1>4
  <2>3. base * c[j - 1] \in Nat
    BY <2>1, BaseFacts
  <2>. QED
    BY <2>1, <2>2, <2>3
<1>. HIDE DEF Ok
<1>5. Bad = {}
  <2>1. SUFFICES ASSUME Bad # {}  PROVE FALSE
    OBVIOUS
  <2>2. PICK j \in Bad : \A k \in Bad : j <= k
    <3>1. Bad \subseteq Nat
      OBVIOUS
    <3>. QED
      BY <2>1, <3>1, LeastNat
  <2>3. j # 0 /\ j \in 0 .. l /\ j - 1 \in 0 .. l /\ ~ Ok(j)
    BY <1>3, <2>2
  <2>4. Ok(j - 1)
    BY <2>2, <2>3
  <2>. QED
    BY <1>4, <2>3, <2>4
<1>6. c[l] \in Nat /\ d[l] = c[l]
  BY <1>5 DEF Ok
<1>7. d[l + 1] = Value(c[l], 0)
  <2>1. d[l + 1] = base * d[l]
    BY <1>1
  <2>2. base * c[l] \in Nat
    BY <1>6, BaseFacts
  <2>. QED
    BY <1>6, <2>1, <2>2 DEF Value
<1>. QED
  BY <1>2, <1>6, <1>7 DEF c, d

\* A sequence of digits is read in exactly one number with so many digits.
LEMMA NumberOf ==
    ASSUME NEW l \in Nat, NEW d \in [1 .. l -> 0 .. N]
    PROVE  \E num \in caseNumbers(l) :
              /\ \A j \in 1 .. l : digit(num, j, l) = d[j]
              /\ \A k \in caseNumbers(l) : (\A j \in 1 .. l : digit(k, j, l) = d[j]) => k = num
<1>. DEFINE Reads(num, f, k) == \A j \in 1 .. k : digit(num, j, k) = f[j]
            Ok(k) == \A f \in [1 .. k -> 0 .. N] :
                        \E num \in caseNumbers(k) :
                            Reads(num, f, k) /\ \A m \in caseNumbers(k) : Reads(m, f, k) => m = num
            Bad == {k \in Nat : ~ Ok(k)}
<1>1. Ok(0)
  <2>1. count(0)[0] = 1
    BY CountNext
  <2>2. caseNumbers(0) = {0}
    BY <2>1 DEF caseNumbers
  <2>3. \A num, f : Reads(num, f, 0)
    OBVIOUS
  <2>. HIDE DEF Reads
  <2>. QED
    BY <2>2, <2>3
<1>2. ASSUME NEW k \in Nat, Ok(k)  PROVE Ok(k + 1)
  <2>1. SUFFICES ASSUME NEW f \in [1 .. k + 1 -> 0 .. N]
                 PROVE  \E num \in caseNumbers(k + 1) :
                            /\ Reads(num, f, k + 1)
                            /\ \A m \in caseNumbers(k + 1) : Reads(m, f, k + 1) => m = num
    OBVIOUS
  <2>. DEFINE g == [j \in 1 .. k |-> f[j]]
              last == f[k + 1]
              C == count(k)[k]
  <2>2. C \in Nat /\ Value(C, 0) \in Nat /\ count(k + 1)[k + 1] = Value(C, 0)
    <3>1. C \in Nat /\ count(k + 1)[k + 1] = Value(C, 0)
      BY CountNext
    <3>. QED
      BY <3>1, Divided
  <2>3. caseNumbers(k) = 0 .. C - 1 /\ caseNumbers(k + 1) = 0 .. Value(C, 0) - 1
    BY <2>2 DEF caseNumbers
  <2>4. last \in 0 .. base - 1
    <3>1. last \in 0 .. N
      OBVIOUS
    <3>. QED
      BY <3>1, BaseFacts, VFacts
  \* The digits of a number are its last one and those of the number divided.
  <2>5. ASSUME NEW m \in Nat
        PROVE  /\ digit(m, k + 1, k + 1) = m % base
               /\ \A j \in 1 .. k : digit(m, j, k + 1) = digit(m \div base, j, k)
    <3>1. quotient(m, k + 1)[0] = m
      BY QuotientNext
    <3>2. digit(m, k + 1, k + 1) = m % base
      BY <3>1 DEF digit
    <3>3. ASSUME NEW j \in 1 .. k
          PROVE  digit(m, j, k + 1) = digit(m \div base, j, k)
      <4>1. k - j \in 0 .. k /\ (k - j) + 1 = k + 1 - j
        OBVIOUS
      <4>2. quotient(m, k + 1)[(k - j) + 1] = quotient(m \div base, k)[k - j]
        BY <4>1, QuotientNext
      <4>. QED
        BY <4>1, <4>2 DEF digit
    <3>. QED
      BY <3>2, <3>3
  <2>6. ASSUME NEW m \in Nat
        PROVE  Reads(m, f, k + 1) <=> m % base = last /\ Reads(m \div base, g, k)
    <3>1. (k + 1) \in 1 .. k + 1 /\ \A j \in 1 .. k : j \in 1 .. k + 1 /\ g[j] = f[j]
      OBVIOUS
    <3>2. \A j \in 1 .. k + 1 : j = k + 1 \/ j \in 1 .. k
      OBVIOUS
    <3>. QED
      BY <2>5, <3>1, <3>2
  <2>7. g \in [1 .. k -> 0 .. N]
    OBVIOUS
  <2>8. PICK num \in caseNumbers(k) :
            Reads(num, g, k) /\ \A m \in caseNumbers(k) : Reads(m, g, k) => m = num
    BY <1>2, <2>7
  <2>. HIDE DEF Reads, g, last, C
  <2>9. num \in Nat /\ num <= C - 1
    BY <2>2, <2>3, <2>8
  <2>. DEFINE next == Value(num, last)
  <2>10. next \in Nat /\ next \div base = num /\ next % base = last
    BY <2>4, <2>9, ValueFacts
  <2>11. next < Value(C, 0)
    BY <2>2, <2>4, <2>9, ValueBelow
  <2>. HIDE DEF next
  <2>12. next \in caseNumbers(k + 1)
    BY <2>2, <2>3, <2>10, <2>11
  <2>13. ASSUME NEW m \in caseNumbers(k + 1), Reads(m, f, k + 1)
         PROVE  m = next
    <3>1. m \in Nat /\ m < Value(C, 0)
      BY <2>2, <2>3
    <3>2. PICK x \in Nat, r \in 0 .. base - 1 : m = Value(x, r)
      BY <3>1, ValueOf
    <3>3. m \div base = x /\ m % base = r
      BY <3>2, ValueFacts
    <3>4. r = last /\ Reads(x, g, k)
      BY <2>6, <2>13, <3>1, <3>3
    <3>5. x < C
      BY <2>2, <3>1, <3>2, ValueBelow
    <3>6. x \in caseNumbers(k)
      BY <2>2, <2>3, <3>5
    <3>7. x = num
      BY <2>8, <3>4, <3>6
    <3>. QED
      BY <3>2, <3>4, <3>7 DEF next
  <2>14. Reads(next, f, k + 1)
    BY <2>6, <2>8, <2>10
  <2>. QED
    BY <2>12, <2>13, <2>14
<1>. HIDE DEF Ok
<1>3. Bad = {}
  <2>1. SUFFICES ASSUME Bad # {}  PROVE FALSE
    OBVIOUS
  <2>2. PICK k \in Bad : \A m \in Bad : k <= m
    BY <2>1, LeastNat
  <2>3. k \in Nat /\ k # 0 /\ ~ Ok(k)
    BY <1>1, <2>2
  <2>4. k - 1 \in Nat /\ (k - 1) + 1 = k /\ Ok(k - 1)
    BY <2>2, <2>3
  <2>. QED
    BY <1>2, <2>3, <2>4
<1>. QED
  BY <1>3 DEF Ok

\* A number with so many digits does not run past the array.
LEMMA NothingOver ==
    ASSUME NEW l \in Nat, NEW num \in caseNumbers(l)
    PROVE  num \in Nat /\ quotient(num, l)[l] = 0
<1>. DEFINE Ok(k) == \A m \in caseNumbers(k) : m \in Nat /\ quotient(m, k)[k] = 0
            Bad == {k \in Nat : ~ Ok(k)}
<1>1. Ok(0)
  <2>1. count(0)[0] = 1
    BY CountNext
  <2>2. caseNumbers(0) = {0}
    BY <2>1 DEF caseNumbers
  <2>3. quotient(0, 0)[0] = 0
    BY QuotientNext
  <2>. QED
    BY <2>2, <2>3
<1>2. ASSUME NEW k \in Nat, Ok(k)  PROVE Ok(k + 1)
  <2>1. SUFFICES ASSUME NEW m \in caseNumbers(k + 1)
                 PROVE  m \in Nat /\ quotient(m, k + 1)[k + 1] = 0
    OBVIOUS
  <2>. DEFINE C == count(k)[k]
  <2>2. C \in Nat /\ Value(C, 0) \in Nat /\ count(k + 1)[k + 1] = Value(C, 0)
    <3>1. C \in Nat /\ count(k + 1)[k + 1] = Value(C, 0)
      BY CountNext
    <3>. QED
      BY <3>1, Divided
  <2>3. caseNumbers(k) = 0 .. C - 1 /\ caseNumbers(k + 1) = 0 .. Value(C, 0) - 1
    BY <2>2 DEF caseNumbers
  <2>. HIDE DEF C
  <2>4. m \in Nat /\ m < Value(C, 0)
    BY <2>2, <2>3
  <2>5. PICK x \in Nat, r \in 0 .. base - 1 : m = Value(x, r)
    BY <2>4, ValueOf
  <2>6. quotient(m, k + 1)[k + 1] = quotient(x, k)[k]
    <3>1. m \div base = x
      BY <2>5, ValueFacts
    <3>2. k \in 0 .. k
      OBVIOUS
    <3>3. quotient(m, k + 1)[k + 1] = quotient(m \div base, k)[k]
      BY <2>4, <3>2, QuotientNext
    <3>. QED
      BY <3>1, <3>3
  <2>7. x < C
    BY <2>2, <2>4, <2>5, ValueBelow
  <2>8. x \in caseNumbers(k)
    BY <2>2, <2>3, <2>7
  <2>. QED
    BY <1>2, <2>4, <2>6, <2>8
<1>. HIDE DEF Ok
<1>3. Bad = {}
  <2>1. SUFFICES ASSUME Bad # {}  PROVE FALSE
    OBVIOUS
  <2>2. PICK k \in Bad : \A m \in Bad : k <= m
    BY <2>1, LeastNat
  <2>3. k \in Nat /\ k # 0 /\ ~ Ok(k)
    BY <1>1, <2>2
  <2>4. k - 1 \in Nat /\ (k - 1) + 1 = k /\ Ok(k - 1)
    BY <2>2, <2>3
  <2>. QED
    BY <1>2, <2>3, <2>4
<1>. QED
  BY <1>3 DEF Ok

-----------------------------------------------------------------------------
(***************************************************************************)
(* Types.                                                                  *)
(***************************************************************************)
Model == [allowed : SUBSET Graphs, zeros : SUBSET SUBSET V, crashed : BOOLEAN]

TypeInv == line \in CommandLines /\ model \in Model

LEMMA ModIn == ASSUME NEW x \in Int PROVE Mod(x) \in V
<1>1. ASSUME NEW b \in Nat, b >= 1  PROVE x % b \in 0 .. b - 1
  BY <1>1
<1>. QED
  BY <1>1, VFacts DEF Mod, V

LEMMA KchordsIn ==
    ASSUME NEW k \in Int
    PROVE  kchords(k) \subseteq SUBSET V
<1>1. ASSUME NEW i \in V  PROVE chord(i, k) \in SUBSET V
  <2>1. i \in Int
    BY VFacts
  <2>2. i - k \in Int
    BY <2>1
  <2>3. Mod(i - k) \in V
    BY <2>2, ModIn
  <2>. QED
    BY <2>3 DEF chord, Edge
<1>. QED
  BY <1>1 DEF kchords

ModelOf(a, z, c) == [allowed |-> a, zeros |-> z, crashed |-> c]

LEMMA Parts ==
    ASSUME NEW a, NEW z, NEW c
    PROVE  /\ ModelOf(a, z, c).allowed = a
           /\ ModelOf(a, z, c).zeros = z
           /\ ModelOf(a, z, c).crashed = c
BY DEF ModelOf

LEMMA Posted ==
    ASSUME NEW a, NEW z, NEW c, NEW gs
    PROVE  Post(ModelOf(a, z, c), gs) = ModelOf(a \cap gs, z, c)
BY DEF ModelOf, Post

LEMMA ModelIs ==
    ASSUME NEW m \in Model
    PROVE  \E a \in SUBSET Graphs, z \in SUBSET SUBSET V, c \in BOOLEAN : m = ModelOf(a, z, c)
BY DEF Model, ModelOf

LEMMA IsModel ==
    ASSUME NEW a \in SUBSET Graphs, NEW z \in SUBSET SUBSET V, NEW c \in BOOLEAN
    PROVE  ModelOf(a, z, c) \in Model
BY DEF Model, ModelOf

\* What each option posts is a model that allows no more.
LEMMA PostType ==
    ASSUME NEW m \in Model, NEW gs
    PROVE  /\ Post(m, gs) \in Model
           /\ Post(m, gs).allowed = m.allowed \cap gs
           /\ Post(m, gs).zeros = m.zeros /\ Post(m, gs).crashed = m.crashed
<1>1. PICK a \in SUBSET Graphs, z \in SUBSET SUBSET V, c \in BOOLEAN : m = ModelOf(a, z, c)
  BY ModelIs
<1>2. Post(m, gs) = ModelOf(a \cap gs, z, c)
  BY <1>1, Posted
<1>3. a \cap gs \in SUBSET Graphs
  OBVIOUS
<1>4. Post(m, gs) \in Model
  BY <1>2, <1>3, IsModel
<1>. QED
  BY <1>1, <1>2, <1>4, Parts

LEMMA CrashType ==
    ASSUME NEW m \in Model
    PROVE  [m EXCEPT !.crashed = TRUE] \in Model /\ [m EXCEPT !.crashed = TRUE].crashed = TRUE
<1>1. PICK a \in SUBSET Graphs, z \in SUBSET SUBSET V, c \in BOOLEAN : m = ModelOf(a, z, c)
  BY ModelIs
<1>2. ASSUME NEW b, NEW d  PROVE [ModelOf(a, z, d) EXCEPT !.crashed = b] = ModelOf(a, z, b)
  BY DEF ModelOf
<1>3. [m EXCEPT !.crashed = TRUE] = ModelOf(a, z, TRUE)
  BY <1>1, <1>2
<1>4. ModelOf(a, z, TRUE) \in Model
  BY IsModel
<1>5. ModelOf(a, z, TRUE).crashed = TRUE
  BY DEF ModelOf
<1>. QED
  BY <1>3, <1>4, <1>5, Zenon

LEMMA SumsType ==
    ASSUME NEW m \in Model, NEW gs, NEW full \in BOOLEAN
    PROVE  /\ PostSums(m, full, gs) \in Model
           /\ ~ PostSums(m, full, gs).crashed => full /\ PostSums(m, full, gs) = Post(m, gs)
BY PostType, CrashType DEF PostSums

LEMMA FixType ==
    ASSUME NEW m \in Model, NEW edges \in SUBSET SUBSET V
    PROVE  /\ fixToZero(m, edges) \in Model
           /\ fixToZero(m, edges).allowed = {g \in m.allowed : g \cap (edges \ Cycle) = {}}
           /\ fixToZero(m, edges).zeros = m.zeros \cup (edges \ Cycle)
           /\ fixToZero(m, edges).crashed = m.crashed
BY DEF Model, fixToZero

LEMMA LinesFacts ==
    ASSUME line \in CommandLines
    PROVE  /\ line.sb \in BOOLEAN /\ line.dsIndex \in Int /\ line.minDeg \in Int /\ line.maxDeg \in Int
           /\ line.chords \in Int /\ line.shortest \in Int /\ line.longest \in Int
           /\ line.girth \in Int /\ line.split \in Int /\ line.splitLevel \in 1 .. N - 2
           /\ line.deg \in Int
BY CommandLinesAssumption

LEMMA TypeStep == TypeInv /\ [Next]_vars => TypeInv'
<1>1. SUFFICES ASSUME line \in CommandLines, model \in Model, [Next]_vars  PROVE TypeInv'
  BY DEF TypeInv
<1>2. ASSUME NEW here, NEW there, NEW given, NEW posted \in Model, At(here, there, given, posted)
      PROVE  TypeInv'
  BY <1>1, <1>2 DEF At, TypeInv
<1>3. ASSUME NoSB  PROVE TypeInv'
  <2>1. symmetryBreaking(model) \in Model
    BY <1>1, PostType DEF symmetryBreaking
  <2>. QED
    BY <1>2, <1>3, <2>1 DEF NoSB
<1>4. \A ds : fixDegrees(model, ds) \in Model
  BY <1>1, SumsType DEF fixDegrees, PostRows
<1>5. ASSUME NearlyCubic  PROVE TypeInv'
  BY <1>2, <1>4, <1>5 DEF NearlyCubic
<1>6. ASSUME MinDeg  PROVE TypeInv'
  <2>1. minDegree(model, line.minDeg) \in Model
    BY <1>1, SumsType DEF minDegree, PostRows
  <2>. QED
    BY <1>2, <1>6, <2>1 DEF MinDeg
<1>7. ASSUME MaxDeg  PROVE TypeInv'
  <2>1. maxDegree(model, line.maxDeg) \in Model
    BY <1>1, SumsType DEF maxDegree, PostRows
  <2>. QED
    BY <1>2, <1>7, <2>1 DEF MaxDeg
<1>8. ASSUME NumberOfChords  PROVE TypeInv'
  <2>1. numberOfChords(model, line.chords) \in Model
    BY <1>1, SumsType DEF numberOfChords, PostChords
  <2>. QED
    BY <1>2, <1>8, <2>1 DEF NumberOfChords
<1>9. ASSUME Shortest  PROVE TypeInv'
  <2>. DEFINE edges == UNION {kchords(len) : len \in 2 .. line.shortest - 1}
  <2>1. line.shortest \in Int
    BY <1>1, LinesFacts
  <2>2. edges \in SUBSET SUBSET V
    <3>1. \A len \in 2 .. line.shortest - 1 : kchords(len) \subseteq SUBSET V
      BY <2>1, KchordsIn
    <3>. QED
      BY <3>1
  <2>. HIDE DEF edges
  <2>3. fixToZero(model, edges) \in Model
    BY <1>1, <2>2, FixType
  <2>4. shortestChord(model, line.shortest) \in Model
    <3>1. shortestChord(model, line.shortest)
            = Post(fixToZero(model, edges), {g \in model.allowed : g \cap kchords(line.shortest) # {}})
      BY DEF shortestChord, edges
    <3>. QED
      BY <2>3, <3>1, PostType
  <2>. QED
    BY <1>2, <1>9, <2>4 DEF Shortest
<1>10. ASSUME Longest  PROVE TypeInv'
  <2>. DEFINE edges == UNION {kchords(len) : len \in line.longest + 1 .. N \div 2}
  <2>1. line.longest \in Int /\ N \div 2 \in Int
    BY <1>1, LinesFacts, NAssumption
  <2>2. edges \in SUBSET SUBSET V
    <3>1. \A len \in line.longest + 1 .. N \div 2 : kchords(len) \subseteq SUBSET V
      BY <2>1, KchordsIn
    <3>. QED
      BY <3>1
  <2>. HIDE DEF edges
  <2>3. fixToZero(model, edges) \in Model
    BY <1>1, <2>2, FixType
  <2>4. longestChord(model, line.longest) \in Model
    <3>1. longestChord(model, line.longest)
            = Post(fixToZero(model, edges), {g \in model.allowed : g \cap kchords(line.longest) # {}})
      BY DEF longestChord, edges
    <3>. QED
      BY <2>3, <3>1, PostType
  <2>. QED
    BY <1>2, <1>10, <2>4 DEF Longest
<1>11. ASSUME Girth  PROVE TypeInv'
  <2>1. girthAtLeast(model, line.girth) \in Model
    BY <1>1, PostType DEF girthAtLeast
  <2>. QED
    BY <1>2, <1>11, <2>1 DEF Girth
<1>12. ASSUME Split  PROVE TypeInv'
  <2>2. setCase(model, line.split, line.splitLevel) \in Model
    BY <1>1, CrashType, PostType DEF setCase
  <2>. QED
    BY <1>2, <1>12, <2>2 DEF Split
<1>13. ASSUME Regular  PROVE TypeInv'
  BY <1>2, <1>4, <1>13 DEF Regular, regular
<1>14. CASE UNCHANGED vars
  BY <1>1, <1>14 DEF vars, TypeInv
<1>. QED
  BY <1>1, <1>3, <1>5, <1>6, <1>7, <1>8, <1>9, <1>10, <1>11, <1>12, <1>13, <1>14 DEF Next

LEMMA TypeInvariant == Spec => []TypeInv
<1>1. Init => TypeInv
  BY DEF Init, TypeInv, Model, newModel
<1>. QED
  BY <1>1, TypeStep, PTL DEF Spec

-----------------------------------------------------------------------------
(***************************************************************************)
(* The cases of a split.                                                   *)
(***************************************************************************)
\* The chords of a length are at most N.
LEMMA SumIn ==
    ASSUME NEW g, NEW k
    PROVE  sum(g, kchords(k)) \in 0 .. N
<1>. DEFINE f == [i \in V |-> chord(i, k)]
<1>1. f \in Surjection(V, kchords(k))
  BY Fun_IsSurj DEF kchords
<1>2. IsFiniteSet(kchords(k)) /\ Cardinality(kchords(k)) <= N
  <2>. HIDE DEF f
  <2>. QED
    BY <1>1, VFacts, FS_Surjection
<1>3. IsFiniteSet(g \cap kchords(k)) /\ Cardinality(g \cap kchords(k)) <= Cardinality(kchords(k))
  BY <1>2, FS_Intersection
<1>. QED
  BY <1>2, <1>3, VFacts, FS_CardinalityType DEF sum

\* For every order and every level, each graph that the options before it
\* leave belongs to exactly one case number of a split.
THEOREM CasesArePartition == Spec => []CasesPartition
<1>1. TypeInv => CasesPartition
  <2>1. SUFFICES ASSUME TypeInv, NEW g \in model.allowed
                 PROVE  Cardinality({num \in caseNumbers(line.splitLevel) :
                            g \in setCase([model EXCEPT !.allowed = {g}], num,
                                          line.splitLevel).allowed}) = 1
    BY DEF CasesPartition
  <2>. DEFINE l == line.splitLevel
              m == [model EXCEPT !.allowed = {g}]
              d == [j \in 1 .. l |-> sum(g, kchords(j + 1))]
  <2>2. l \in Nat
    BY <2>1, LinesFacts, VFacts DEF TypeInv
  <2>3. m \in Model /\ m.allowed = {g}
    BY <2>1 DEF TypeInv, Model
  <2>4. d \in [1 .. l -> 0 .. N]
    BY SumIn
  <2>. HIDE DEF l, m
  <2>5. ASSUME NEW num \in caseNumbers(l)
        PROVE  g \in setCase(m, num, l).allowed <=> \A j \in 1 .. l : digit(num, j, l) = d[j]
    <3>1. ~ (quotient(num, l)[l] > 0)
      <4>1. quotient(num, l)[l] = 0
        BY <2>2, NothingOver
      <4>. QED
        BY <4>1
    <3>. DEFINE gs == {h \in m.allowed : \A j \in 1 .. l : sum(h, kchords(j + 1)) = digit(num, j, l)}
    <3>2. setCase(m, num, l) = Post(m, gs)
      BY <3>1 DEF setCase
    <3>3. g \in gs <=> \A j \in 1 .. l : digit(num, j, l) = d[j]
      BY <2>3
    <3>. HIDE DEF gs
    <3>4. setCase(m, num, l).allowed = {g} \cap gs
      BY <2>3, <3>2, PostType
    <3>. QED
      BY <3>3, <3>4
  <2>. HIDE DEF d
  <2>6. PICK num \in caseNumbers(l) :
              /\ \A j \in 1 .. l : digit(num, j, l) = d[j]
              /\ \A k \in caseNumbers(l) : (\A j \in 1 .. l : digit(k, j, l) = d[j]) => k = num
    BY <2>2, <2>4, NumberOf
  <2>7. {k \in caseNumbers(l) : g \in setCase(m, k, l).allowed} = {num}
    BY <2>5, <2>6
  <2>8. Cardinality({k \in caseNumbers(l) : g \in setCase(m, k, l).allowed}) = 1
    BY <2>7, FS_Singleton
  <2>. QED
    BY <2>8 DEF l, m
<1>. QED
  BY <1>1, TypeInvariant, PTL

-----------------------------------------------------------------------------
(***************************************************************************)
(* The girth: balls and shortest ways.                                     *)
(***************************************************************************)
Wider(g, S) == S \cup UNION {Nbrs(g, u) : u \in S}

LEMMA BallIs ==
    ASSUME NEW g, NEW x
    PROVE  Ball(g, x) = [r \in 0 .. N |-> IF r = 0 THEN {x} ELSE Wider(g, Ball(g, x)[r - 1])]
<1>. DEFINE Ok(k) == \E q : q = [r \in 0 .. k |-> IF r = 0 THEN {x} ELSE Wider(g, q[r - 1])]
            Bad == {k \in Nat : ~ Ok(k)}
<1>1. Ok(0)
  <2>1. [r \in {0} |-> {x}] = [r \in 0 .. 0 |-> IF r = 0 THEN {x} ELSE Wider(g, [i \in {0} |-> {x}][r - 1])]
    OBVIOUS
  <2>. QED
    BY <2>1
<1>2. ASSUME NEW k \in Nat, Ok(k)  PROVE Ok(k + 1)
  <2>1. PICK q : q = [r \in 0 .. k |-> IF r = 0 THEN {x} ELSE Wider(g, q[r - 1])]
    BY <1>2
  <2>. DEFINE p == [r \in 0 .. k + 1 |-> IF r = k + 1 THEN Wider(g, q[k]) ELSE q[r]]
  <2>2. ASSUME NEW r \in 0 .. k + 1
        PROVE  p[r] = IF r = 0 THEN {x} ELSE Wider(g, p[r - 1])
    <3>1. CASE r = k + 1
      BY <3>1
    <3>2. CASE r # k + 1
      <4>1. p[r] = q[r] /\ r \in 0 .. k
        BY <3>2
      <4>2. q[r] = IF r = 0 THEN {x} ELSE Wider(g, q[r - 1])
        BY <2>1, <4>1
      <4>3. r # 0 => p[r - 1] = q[r - 1]
        BY <4>1
      <4>. QED
        BY <4>1, <4>2, <4>3
    <3>. QED
      BY <3>1, <3>2
  <2>3. p = [r \in 0 .. k + 1 |-> IF r = 0 THEN {x} ELSE Wider(g, p[r - 1])]
    BY <2>2
  <2>. QED
    BY <2>3
<1>. HIDE DEF Ok
<1>3. Bad = {}
  <2>1. SUFFICES ASSUME Bad # {}  PROVE FALSE
    OBVIOUS
  <2>2. PICK k \in Bad : \A m \in Bad : k <= m
    BY <2>1, LeastNat
  <2>3. k \in Nat /\ k # 0 /\ ~ Ok(k)
    BY <1>1, <2>2
  <2>4. k - 1 \in Nat /\ (k - 1) + 1 = k /\ Ok(k - 1)
    BY <2>2, <2>3
  <2>. QED
    BY <1>2, <2>3, <2>4
<1>4. Ok(N)
  BY <1>3, VFacts
<1>5. \E q : q = [r \in 0 .. N |-> IF r = 0 THEN {x} ELSE Wider(g, q[r - 1])]
  BY <1>4 DEF Ok
<1>6. Ball(g, x) = CHOOSE q : q = [r \in 0 .. N |-> IF r = 0 THEN {x} ELSE Wider(g, q[r - 1])]
  BY DEF Ball, Wider
<1>. QED
  BY <1>5, <1>6

LEMMA BallFacts ==
    ASSUME NEW g, NEW x
    PROVE  /\ Ball(g, x)[0] = {x}
           /\ \A r \in 1 .. N : Ball(g, x)[r] = Wider(g, Ball(g, x)[r - 1])
<1>. DEFINE b == Ball(g, x)
<1>1. b = [r \in 0 .. N |-> IF r = 0 THEN {x} ELSE Wider(g, b[r - 1])]
  BY BallIs
<1>. HIDE DEF b
<1>2. N \in Nat
  BY VFacts
<1>3. 0 \in 0 .. N /\ \A r \in 1 .. N : r \in 0 .. N /\ r # 0
  BY <1>2
<1>4. \A r \in 0 .. N : b[r] = IF r = 0 THEN {x} ELSE Wider(g, b[r - 1])
  BY <1>1
<1>5. b[0] = {x} /\ \A r \in 1 .. N : b[r] = Wider(g, b[r - 1])
  BY <1>3, <1>4
<1>. QED
  BY <1>5 DEF b

LEMMA BallsGrow ==
    ASSUME NEW g, NEW x, NEW r \in 0 .. N - 1
    PROVE  /\ Ball(g, x)[r] \subseteq Ball(g, x)[r + 1]
           /\ \A u \in Ball(g, x)[r] : Nbrs(g, u) \subseteq Ball(g, x)[r + 1]
           /\ \A v \in Ball(g, x)[r + 1] : v \in Ball(g, x)[r] \/ \E u \in Ball(g, x)[r] : v \in Nbrs(g, u)
<1>1. r + 1 \in 1 .. N /\ (r + 1) - 1 = r
  BY VFacts
<1>2. Ball(g, x)[r + 1] = Wider(g, Ball(g, x)[r])
  BY <1>1, BallFacts
<1>. QED
  BY <1>2 DEF Wider

\* A way along edges of g leaves no ball too early.
LEMMA WaysInBalls ==
    ASSUME NEW g, NEW x, NEW n \in 0 .. N, NEW w, w[0] = x,
           \A i \in 0 .. n - 1 : w[i + 1] \in Nbrs(g, w[i])
    PROVE  w[n] \in Ball(g, x)[n]
<1>. DEFINE Bad == {i \in 0 .. n : w[i] \notin Ball(g, x)[i]}
<1>1. N \in Nat
  BY VFacts
<1>2. Bad = {}
  <2>1. SUFFICES ASSUME Bad # {}  PROVE FALSE
    OBVIOUS
  <2>2. PICK i \in Bad : \A m \in Bad : i <= m
    <3>1. Bad \subseteq Nat
      OBVIOUS
    <3>. HIDE DEF Bad
    <3>. QED
      BY <2>1, <3>1, LeastNat
  <2>3. i # 0
    <3>1. w[0] \in Ball(g, x)[0]
      BY BallFacts
    <3>. QED
      BY <2>2, <3>1
  <2>4. i - 1 \in 0 .. N - 1 /\ i - 1 \in 0 .. n - 1 /\ (i - 1) + 1 = i
    BY <1>1, <2>3
  <2>5. w[i - 1] \in Ball(g, x)[i - 1]
    BY <2>2, <2>4
  <2>6. w[i] \in Nbrs(g, w[i - 1])
    BY <2>4
  <2>. QED
    BY <2>2, <2>4, <2>5, <2>6, BallsGrow
<1>. QED
  BY <1>1, <1>2

\* There is a way to each vertex of a ball that leaves each ball as soon as it can.
LEMMA ShortestWay ==
    ASSUME NEW g, NEW x \in V, NEW r \in 0 .. N, NEW y \in Ball(g, x)[r],
           \A j \in 0 .. r - 1 : y \notin Ball(g, x)[j]
    PROVE  \E w \in [0 .. r -> V] :
              /\ w[0] = x /\ w[r] = y
              /\ \A i \in 0 .. r - 1 : w[i + 1] \in Nbrs(g, w[i])
              /\ \A i, j \in 0 .. r : i < j => w[i] \in Ball(g, x)[i] /\ w[j] \notin Ball(g, x)[i]
<1>. DEFINE Way(n, v, w) == /\ w[0] = x /\ w[n] = v
                            /\ \A i \in 0 .. n - 1 : w[i + 1] \in Nbrs(g, w[i])
                            /\ \A i, j \in 0 .. n : i < j => w[i] \in Ball(g, x)[i] /\ w[j] \notin Ball(g, x)[i]
            First(n, v) == v \in Ball(g, x)[n] /\ \A j \in 0 .. n - 1 : v \notin Ball(g, x)[j]
            Ok(n) == \A v : First(n, v) => \E w \in [0 .. n -> V] : Way(n, v, w)
            Bad == {n \in 0 .. N : ~ Ok(n)}
<1>0. N \in Nat
  BY VFacts
<1>1. Ok(0)
  <2>1. SUFFICES ASSUME NEW v, First(0, v)  PROVE \E w \in [0 .. 0 -> V] : Way(0, v, w)
    OBVIOUS
  <2>2. v = x
    BY <2>1, BallFacts
  <2>. DEFINE w == [i \in 0 .. 0 |-> x]
  <2>3. w \in [0 .. 0 -> V] /\ w[0] = x
    OBVIOUS
  <2>4. Way(0, v, w)
    BY <2>2, <2>3
  <2>. QED
    BY <2>3, <2>4
<1>2. ASSUME NEW n \in 0 .. N - 1, Ok(n)  PROVE Ok(n + 1)
  <2>1. SUFFICES ASSUME NEW v, First(n + 1, v)
                 PROVE  \E w \in [0 .. n + 1 -> V] : Way(n + 1, v, w)
    OBVIOUS
  <2>2. v \in Ball(g, x)[n + 1] /\ \A j \in 0 .. n : v \notin Ball(g, x)[j]
    BY <1>0, <2>1
  <2>3. v \notin Ball(g, x)[n]
    BY <1>0, <2>2
  <2>4. PICK u \in Ball(g, x)[n] : v \in Nbrs(g, u)
    BY <2>2, <2>3, BallsGrow
  <2>5. First(n, u)
    <3>1. SUFFICES ASSUME NEW j \in 0 .. n - 1, u \in Ball(g, x)[j]  PROVE FALSE
      BY <2>4
    <3>2. j \in 0 .. N - 1 /\ j + 1 \in 0 .. n
      BY <1>0
    <3>3. v \in Ball(g, x)[j + 1]
      BY <2>4, <3>1, <3>2, BallsGrow
    <3>. QED
      BY <2>2, <3>2, <3>3
  <2>6. PICK t \in [0 .. n -> V] : Way(n, u, t)
    BY <1>2, <2>5
  <2>. DEFINE w == [i \in 0 .. n + 1 |-> IF i = n + 1 THEN v ELSE t[i]]
  <2>7. v \in V
    BY <2>4, NbrsFacts
  <2>8. /\ w \in [0 .. n + 1 -> V] /\ w[n + 1] = v
        /\ \A i \in 0 .. n : w[i] = t[i]
    <3>1. \A i \in 0 .. n : t[i] \in V
      OBVIOUS
    <3>. QED
      BY <2>7, <3>1
  <2>. HIDE DEF w
  <2>9. w[0] = x /\ t[n] = u
    BY <2>6, <2>8
  <2>10. \A i \in 0 .. n : w[i + 1] \in Nbrs(g, w[i])
    <3>1. SUFFICES ASSUME NEW i \in 0 .. n  PROVE w[i + 1] \in Nbrs(g, w[i])
      OBVIOUS
    <3>2. CASE i = n
      BY <2>4, <2>8, <2>9, <3>2
    <3>3. CASE i # n
      <4>1. i \in 0 .. n - 1 /\ i + 1 \in 0 .. n
        BY <3>3
      <4>2. t[i + 1] \in Nbrs(g, t[i])
        BY <2>6, <4>1
      <4>. QED
        BY <2>8, <4>1, <4>2
    <3>. QED
      BY <3>2, <3>3
  <2>11. ASSUME NEW i \in 0 .. n + 1, NEW j \in 0 .. n + 1, i < j
         PROVE  w[i] \in Ball(g, x)[i] /\ w[j] \notin Ball(g, x)[i]
    <3>1. i \in 0 .. n
      BY <2>11
    <3>2. i = n => w[i] \in Ball(g, x)[i]
      BY <2>4, <2>8, <2>9, <3>1
    <3>3. i # n => w[i] \in Ball(g, x)[i]
      <4>1. i # n => i < n /\ n \in 0 .. n
        BY <3>1
      <4>. QED
        BY <2>6, <2>8, <3>1, <4>1
    <3>4. j = n + 1 => w[j] \notin Ball(g, x)[i]
      BY <2>2, <2>8, <3>1
    <3>5. j # n + 1 => w[j] \notin Ball(g, x)[i]
      <4>1. j # n + 1 => j \in 0 .. n
        OBVIOUS
      <4>. QED
        BY <2>6, <2>8, <2>11, <3>1, <4>1
    <3>. QED
      BY <3>2, <3>3, <3>4, <3>5
  <2>12. \A i \in 0 .. (n + 1) - 1 : w[i + 1] \in Nbrs(g, w[i])
    BY <2>10
  <2>13. Way(n + 1, v, w)
    BY <2>8, <2>9, <2>11, <2>12
  <2>. QED
    BY <2>8, <2>13
<1>. HIDE DEF Ok
<1>3. Bad = {}
  <2>1. SUFFICES ASSUME Bad # {}  PROVE FALSE
    OBVIOUS
  <2>2. PICK k \in Bad : \A m \in Bad : k <= m
    <3>1. Bad \subseteq Nat
      OBVIOUS
    <3>. HIDE DEF Bad
    <3>. QED
      BY <2>1, <3>1, LeastNat
  <2>3. k \in 0 .. N /\ k # 0 /\ ~ Ok(k)
    BY <1>1, <2>2
  <2>4. k - 1 \in 0 .. N - 1 /\ k - 1 \in 0 .. N /\ (k - 1) + 1 = k /\ k - 1 < k
    BY <1>0, <2>3
  <2>5. Ok(k - 1)
    BY <2>2, <2>4
  <2>. QED
    BY <1>2, <2>3, <2>4, <2>5
<1>4. Ok(r)
  BY <1>3
<1>5. First(r, y)
  OBVIOUS
<1>. QED
  BY <1>4, <1>5 DEF Ok

LEMMA MinOf ==
    ASSUME NEW S, S \subseteq Nat, S # {}
    PROVE  Min(S) \in S /\ \A y \in S : Min(S) <= y
BY LeastNat DEF Min

LEMMA MaxOf ==
    ASSUME NEW n \in Nat, NEW S, S \subseteq 0 .. n, S # {}
    PROVE  Max(S) \in S /\ \A y \in S : y <= Max(S)
<1>. DEFINE T == {n - y : y \in S}
<1>1. T \subseteq Nat /\ T # {}
  <2>1. \A y \in S : n - y \in Nat
    OBVIOUS
  <2>. QED
    BY <2>1
<1>2. \E z \in T : \A t \in T : z <= t
  <2>. HIDE DEF T
  <2>. QED
    BY <1>1, LeastNat
<1>3. PICK x \in S : \A y \in S : n - x <= n - y
  BY <1>2
<1>4. \A y \in S : y <= x
  BY <1>3
<1>. QED
  BY <1>4 DEF Max

\* An edge has a lesser and a greater end.
LEMMA EdgeIs ==
    ASSUME NEW d \in AllEdges
    PROVE  /\ Min(d) \in V /\ Max(d) \in V /\ Min(d) < Max(d) /\ d = Edge(Min(d), Max(d))
           /\ \A a, b \in V : a < b /\ d = Edge(a, b) => a = Min(d) /\ b = Max(d)
<1>1. PICK u \in V, v \in V : d = Edge(u, v) /\ u # v
  BY DEF AllEdges, Edge
<1>2. d \subseteq 0 .. N - 1 /\ d # {} /\ d \subseteq Nat /\ N - 1 \in Nat
  BY <1>1, VFacts DEF Edge, V
<1>3. Min(d) \in d /\ (\A y \in d : Min(d) <= y) /\ Max(d) \in d /\ \A y \in d : y <= Max(d)
  BY <1>2, MinOf, MaxOf
<1>4. Min(d) \in Nat /\ Max(d) \in Nat
  BY <1>2, <1>3
<1>5. ASSUME NEW a \in V, NEW b \in V, a < b, d = Edge(a, b)
      PROVE  Min(d) = a /\ Max(d) = b
  <2>1. a \in d /\ b \in d /\ a \in Nat /\ b \in Nat
    BY <1>5, VFacts DEF Edge
  <2>2. Min(d) <= a /\ b <= Max(d)
    BY <1>3, <2>1
  <2>3. (Min(d) = a \/ Min(d) = b) /\ (Max(d) = a \/ Max(d) = b)
    BY <1>3, <1>5 DEF Edge
  <2>. QED
    BY <1>5, <2>1, <2>2, <2>3
<1>6. \E a, b \in V : a < b /\ d = Edge(a, b)
  <2>1. u < v \/ v < u
    BY <1>1, VFacts
  <2>2. Edge(u, v) = Edge(v, u)
    BY DEF Edge
  <2>. QED
    BY <1>1, <2>1, <2>2
<1>. QED
  BY <1>5, <1>6

LEMMA GraphIs ==
    ASSUME NEW g
    PROVE  g \in Graphs <=> Cycle \subseteq g /\ g \subseteq AllEdges
<1>1. ASSUME NEW cs \in SUBSET Chords, g = Cycle \cup {ends(c) : c \in cs}
      PROVE  Cycle \subseteq g /\ g \subseteq AllEdges
  BY <1>1, CycleIn, ChordFacts
<1>2. ASSUME Cycle \subseteq g, g \subseteq AllEdges  PROVE g \in Graphs
  <2>. DEFINE cs == {c \in Chords : ends(c) \in g}
  <2>1. \A d \in g : d \in Cycle \/ \E c \in cs : d = ends(c)
    BY <1>2, CycleOrChord
  <2>2. g = Cycle \cup {ends(c) : c \in cs}
    BY <1>2, <2>1
  <2>3. cs \in SUBSET Chords
    OBVIOUS
  <2>. QED
    BY <2>2, <2>3 DEF Graphs
<1>. QED
  BY <1>1, <1>2 DEF Graphs

-----------------------------------------------------------------------------
LEMMA DistanceIs ==
    ASSUME NEW g, NEW x, NEW y
    PROVE  /\ Distance(g, x, y) \in 0 .. N
           /\ \A r \in 0 .. N : y \in Ball(g, x)[r] => Distance(g, x, y) <= r
           /\ Distance(g, x, y) # N => y \in Ball(g, x)[Distance(g, x, y)]
<1>. DEFINE S == {r \in 0 .. N : y \in Ball(g, x)[r]} \cup {N}
<1>1. S \subseteq Nat /\ S # {} /\ S \subseteq 0 .. N /\ N \in Nat
  BY VFacts
<1>2. Distance(g, x, y) = Min(S)
  BY DEF Distance
<1>3. Min(S) \in S /\ \A r \in S : Min(S) <= r
  <2>. HIDE DEF S
  <2>. QED
    BY <1>1, MinOf
<1>. QED
  BY <1>1, <1>2, <1>3

\* The other way round a cycle is at least as long as the distance.
LEMMA WayRound ==
    ASSUME NEW g, NEW len \in 3 .. N, NEW q \in [1 .. len -> V],
           \A i, j \in 1 .. len : q[i] = q[j] => i = j,
           \A i \in 1 .. len - 1 : Edge(q[i], q[i + 1]) \in g
    PROVE  Distance(g \ {Edge(q[1], q[len])}, q[1], q[len]) <= len - 1
<1>. DEFINE d == Edge(q[1], q[len])
            h == g \ {d}
            w == [i \in 0 .. len - 1 |-> q[i + 1]]
<1>1. N \in Nat /\ len \in Nat /\ len >= 3 /\ len <= N
  BY VFacts
<1>2. \A i \in 0 .. len - 1 : i + 1 \in 1 .. len /\ w[i] = q[i + 1]
  BY <1>1
<1>3. w[0] = q[1] /\ w[len - 1] = q[len]
  BY <1>1
<1>4. ASSUME NEW i \in 0 .. (len - 1) - 1
      PROVE  w[i + 1] \in Nbrs(h, w[i])
  <2>1. i + 1 \in 1 .. len /\ i + 2 \in 1 .. len /\ i + 1 \in 1 .. len - 1 /\ 1 \in 1 .. len /\ len \in 1 .. len
    BY <1>1
  <2>2. w[i] = q[i + 1] /\ w[i + 1] = q[i + 2]
    BY <1>1, <2>1
  <2>3. Edge(q[i + 1], q[i + 2]) \in g
    <3>1. (i + 1) + 1 = i + 2
      OBVIOUS
    <3>. QED
      BY <2>1, <3>1
  <2>4. q[i + 1] # q[i + 2] /\ q[i + 1] \in V /\ q[i + 2] \in V
    BY <2>1
  <2>5. Edge(q[i + 1], q[i + 2]) # d
    <3>1. SUFFICES ASSUME Edge(q[i + 1], q[i + 2]) = d  PROVE FALSE
      OBVIOUS
    <3>2. (q[i + 1] = q[1] /\ q[i + 2] = q[len]) \/ (q[i + 1] = q[len] /\ q[i + 2] = q[1])
      BY <3>1, EdgeEnds
    <3>3. (i + 1 = 1 /\ i + 2 = len) \/ (i + 1 = len /\ i + 2 = 1)
      BY <2>1, <3>2
    <3>. QED
      BY <1>1, <3>3
  <2>6. Edge(q[i + 1], q[i + 2]) \in h
    BY <2>3, <2>5
  <2>. HIDE DEF h, w
  <2>7. q[i + 2] \in Nbrs(h, q[i + 1])
    <3>1. Edge(q[i + 2], q[i + 1]) = Edge(q[i + 1], q[i + 2])
      BY DEF Edge
    <3>. QED
      BY <2>4, <2>6, <3>1 DEF Nbrs
  <2>. QED
    BY <2>2, <2>7
<1>. HIDE DEF h, w, d
<1>5. w[len - 1] \in Ball(h, q[1])[len - 1]
  <2>1. len - 1 \in 0 .. N
    BY <1>1
  <2>. QED
    BY <1>3, <1>4, <2>1, WaysInBalls
<1>6. Distance(h, q[1], q[len]) <= len - 1
  BY <1>1, <1>3, <1>5, DistanceIs
<1>. QED
  BY <1>6 DEF h, d

LEMMA NextPlace ==
    ASSUME NEW len \in Nat, NEW i \in 1 .. len
    PROVE  (i % len) + 1 = IF i = len THEN 1 ELSE i + 1
OBVIOUS

\* A cycle of g gives an edge whose ends are near without it.
LEMMA CycleIsRound ==
    ASSUME NEW g, g \subseteq AllEdges, NEW len \in Nat, len >= 3, HasCycle(g, len)
    PROVE  \E d \in g : Distance(g \ {d}, Min(d), Max(d)) + 1 <= len
<1>1. PICK p \in [1 .. len -> V] :
            /\ \A i, j \in 1 .. len : p[i] = p[j] => i = j
            /\ \A i \in 1 .. len : Edge(p[i], p[(i % len) + 1]) \in g
  BY DEF HasCycle
<1>2. len <= N
  <2>1. p \in Injection(1 .. len, V)
    BY <1>1 DEF Injection, IsInjective
  <2>2. IsFiniteSet(1 .. len) /\ Cardinality(1 .. len) = len
    BY FS_Interval
  <2>. QED
    BY <2>1, <2>2, VFacts, FS_Injection
<1>. DEFINE d == Edge(p[1], p[len])
<1>3. d \in g /\ p[1] \in V /\ p[len] \in V /\ 1 \in 1 .. len /\ len \in 1 .. len /\ p[1] # p[len]
  <2>1. Edge(p[len], p[(len % len) + 1]) \in g /\ 1 \in 1 .. len /\ len \in 1 .. len
    BY <1>1
  <2>2. (len % len) + 1 = 1
    BY <2>1, NextPlace
  <2>3. Edge(p[len], p[1]) = Edge(p[1], p[len])
    BY DEF Edge
  <2>. QED
    BY <1>1, <2>1, <2>2, <2>3
<1>4. \A i \in 1 .. len - 1 : Edge(p[i], p[i + 1]) \in g
  <2>1. SUFFICES ASSUME NEW i \in 1 .. len - 1  PROVE Edge(p[i], p[i + 1]) \in g
    OBVIOUS
  <2>2. i \in 1 .. len /\ i # len
    OBVIOUS
  <2>3. (i % len) + 1 = i + 1
    BY <2>2, NextPlace
  <2>. QED
    BY <1>1, <2>2, <2>3
<1>5. len \in 3 .. N /\ N \in Nat
  BY <1>2, VFacts
<1>6. Distance(g \ {d}, p[1], p[len]) <= len - 1
  BY <1>1, <1>4, <1>5, WayRound
<1>7. Distance(g \ {d}, p[len], p[1]) <= len - 1
  <2>. DEFINE q == [i \in 1 .. len |-> p[len + 1 - i]]
  <2>1. \A i \in 1 .. len : len + 1 - i \in 1 .. len /\ q[i] = p[len + 1 - i]
    OBVIOUS
  <2>2. q \in [1 .. len -> V]
    BY <2>1
  <2>3. q[1] = p[len] /\ q[len] = p[1]
    BY <1>5
  <2>. HIDE DEF q
  <2>4. \A i, j \in 1 .. len : q[i] = q[j] => i = j
    <3>1. SUFFICES ASSUME NEW i \in 1 .. len, NEW j \in 1 .. len, q[i] = q[j]  PROVE i = j
      OBVIOUS
    <3>2. len + 1 - i = len + 1 - j
      BY <1>1, <2>1, <3>1
    <3>. QED
      BY <3>2
  <2>5. \A i \in 1 .. len - 1 : Edge(q[i], q[i + 1]) \in g
    <3>1. SUFFICES ASSUME NEW i \in 1 .. len - 1  PROVE Edge(q[i], q[i + 1]) \in g
      OBVIOUS
    <3>2. i \in 1 .. len /\ i + 1 \in 1 .. len /\ len - i \in 1 .. len - 1
      OBVIOUS
    <3>3. q[i] = p[(len - i) + 1] /\ q[i + 1] = p[len - i]
      <4>1. len + 1 - i = (len - i) + 1 /\ len + 1 - (i + 1) = len - i
        OBVIOUS
      <4>. QED
        BY <2>1, <3>2, <4>1
    <3>4. Edge(p[len - i], p[(len - i) + 1]) \in g
      BY <1>4, <3>2
    <3>. QED
      BY <3>3, <3>4 DEF Edge
  <2>6. Distance(g \ {Edge(q[1], q[len])}, q[1], q[len]) <= len - 1
    BY <1>5, <2>2, <2>4, <2>5, WayRound
  <2>7. Edge(q[1], q[len]) = d
    BY <2>3 DEF Edge
  <2>. QED
    BY <2>3, <2>6, <2>7
<1>8. p[1] < p[len] \/ p[len] < p[1]
  <2>1. p[1] \in Nat /\ p[len] \in Nat
    BY <1>3, VFacts
  <2>. QED
    BY <1>3, <2>1
<1>9. (Min(d) = p[1] /\ Max(d) = p[len]) \/ (Min(d) = p[len] /\ Max(d) = p[1])
  <2>1. d \in AllEdges /\ d = Edge(p[len], p[1])
    BY <1>3 DEF Edge
  <2>. HIDE DEF d
  <2>2. d = Edge(p[1], p[len])
    BY DEF d
  <2>. QED
    BY <1>3, <1>8, <2>1, <2>2, EdgeIs
<1>10. Distance(g \ {d}, Min(d), Max(d)) <= len - 1 /\ Distance(g \ {d}, Min(d), Max(d)) \in Int
  BY <1>6, <1>7, <1>9, DistanceIs
<1>. HIDE DEF d
<1>11. Distance(g \ {d}, Min(d), Max(d)) + 1 <= len
  BY <1>10
<1>. QED
  BY <1>3, <1>11

LEMMA FixedHasCycle == ASSUME NEW g, Cycle \subseteq g  PROVE HasCycle(g, N)
<1>. DEFINE p == [i \in 1 .. N |-> i - 1]
<1>1. N \in Nat /\ N >= 3
  BY VFacts
<1>2. p \in [1 .. N -> V] /\ \A i \in 1 .. N : p[i] = i - 1 /\ i - 1 \in V
  BY <1>1 DEF V
<1>. HIDE DEF p
<1>3. \A i, j \in 1 .. N : p[i] = p[j] => i = j
  BY <1>2
<1>4. ASSUME NEW i \in 1 .. N  PROVE Edge(p[i], p[(i % N) + 1]) \in g
  <2>1. (i % N) + 1 = IF i = N THEN 1 ELSE i + 1
    BY <1>1, NextPlace
  <2>2. (i % N) + 1 \in 1 .. N
    BY <1>1, <2>1
  <2>3. p[(i % N) + 1] = Mod((i - 1) + 1)
    <3>1. Mod((i - 1) + 1) = IF i = N THEN 0 ELSE i
      <4>1. (i - 1) + 1 = i
        OBVIOUS
      <4>. QED
        BY <1>1, <4>1, ModFacts
    <3>. QED
      BY <1>1, <1>2, <2>1, <2>2, <3>1
  <2>4. Edge(i - 1, Mod((i - 1) + 1)) \in Cycle
    BY <1>2 DEF Cycle
  <2>. QED
    BY <1>2, <2>3, <2>4
<1>. QED
  BY <1>2, <1>3, <1>4 DEF HasCycle

\* An edge whose ends are near without it lies on a short cycle.
LEMMA NearIsCycle ==
    ASSUME NEW g, g \subseteq AllEdges, Cycle \subseteq g, NEW d \in g, NEW k \in Int,
           Distance(g \ {d}, Min(d), Max(d)) + 1 < k
    PROVE  \E len \in 3 .. k - 1 : HasCycle(g, len)
<1>. DEFINE x == Min(d)
            y == Max(d)
            h == g \ {d}
            r == Distance(h, x, y)
<1>1. N \in Nat /\ N >= 3
  BY VFacts
<1>2. x \in V /\ y \in V /\ x # y /\ d = Edge(x, y)
  <2>1. d \in AllEdges
    OBVIOUS
  <2>2. x < y /\ x \in V /\ y \in V
    BY <2>1, EdgeIs
  <2>3. x \in Int /\ y \in Int
    <3>1. \A z \in V : z \in Int
      BY VFacts
    <3>. QED
      BY <2>2, <3>1
  <2>4. x # y
    BY <2>2, <2>3
  <2>. QED
    BY <2>1, <2>2, <2>4, EdgeIs
<1>3. r \in 0 .. N /\ (\A j \in 0 .. N : y \in Ball(h, x)[j] => r <= j) /\ (r # N => y \in Ball(h, x)[r])
  BY DistanceIs
<1>4. CASE r = N
  <2>1. N \in 3 .. k - 1
    BY <1>1, <1>4
  <2>. QED
    BY <2>1, FixedHasCycle
<1>5. CASE r # N
  <2>. HIDE DEF r, x, y, h
  <2>1. y \in Ball(h, x)[r] /\ r \in 0 .. N - 1
    BY <1>1, <1>3, <1>5
  <2>2. \A j \in 0 .. r - 1 : y \notin Ball(h, x)[j]
    <3>1. SUFFICES ASSUME NEW j \in 0 .. r - 1, y \in Ball(h, x)[j]  PROVE FALSE
      OBVIOUS
    <3>2. j \in 0 .. N /\ j < r
      BY <1>1, <2>1
    <3>. QED
      BY <1>3, <2>1, <3>1, <3>2
  <2>3. PICK w \in [0 .. r -> V] :
              /\ w[0] = x /\ w[r] = y
              /\ \A i \in 0 .. r - 1 : w[i + 1] \in Nbrs(h, w[i])
              /\ \A i, j \in 0 .. r : i < j => w[i] \in Ball(h, x)[i] /\ w[j] \notin Ball(h, x)[i]
    BY <1>2, <1>3, <2>1, <2>2, ShortestWay
  <2>4. \A i, j \in 0 .. r : w[i] = w[j] => i = j
    <3>1. \A i, j \in 0 .. r : i < j => w[i] # w[j]
      BY <2>3
    <3>2. \A i, j \in 0 .. r : i = j \/ i < j \/ j < i
      OBVIOUS
    <3>. QED
      BY <3>1, <3>2
  <2>5. ASSUME NEW i \in 0 .. r - 1  PROVE Edge(w[i], w[i + 1]) \in h
    <3>1. w[i + 1] \in Nbrs(h, w[i])
      BY <2>3
    <3>2. Edge(w[i + 1], w[i]) = Edge(w[i], w[i + 1])
      BY DEF Edge
    <3>. QED
      BY <3>1, <3>2 DEF Nbrs
  <2>6. r >= 2
    <3>1. r # 0
      BY <1>2, <2>3
    <3>2. ASSUME r = 1  PROVE FALSE
      <4>1. Edge(w[0], w[1]) \in h
        <5>1. 0 \in 0 .. r - 1 /\ 0 + 1 = 1
          BY <3>2
        <5>. QED
          BY <2>5, <5>1
      <4>2. Edge(x, y) \in h
        BY <2>3, <3>2, <4>1
      <4>. QED
        BY <1>2, <4>2 DEF h
    <3>. QED
      BY <2>1, <3>1, <3>2
  <2>. DEFINE len == r + 1
              p == [i \in 1 .. len |-> w[i - 1]]
  <2>7. len \in 3 .. k - 1 /\ len \in Nat
    <3>1. r + 1 < k
      BY DEF r, x, y, h
    <3>. QED
      BY <2>1, <2>6, <3>1
  <2>8. \A i \in 1 .. len : i - 1 \in 0 .. r /\ p[i] = w[i - 1]
    BY <2>1
  <2>9. p \in [1 .. len -> V]
    BY <2>8
  <2>. HIDE DEF p
  <2>10. \A i, j \in 1 .. len : p[i] = p[j] => i = j
    <3>1. SUFFICES ASSUME NEW i \in 1 .. len, NEW j \in 1 .. len, p[i] = p[j]  PROVE i = j
      OBVIOUS
    <3>2. i - 1 = j - 1
      BY <2>4, <2>8, <3>1
    <3>. QED
      BY <3>2
  <2>11. ASSUME NEW i \in 1 .. len  PROVE Edge(p[i], p[(i % len) + 1]) \in g
    <3>1. (i % len) + 1 = IF i = len THEN 1 ELSE i + 1
      BY <2>7, NextPlace
    <3>2. CASE i = len
      <4>1. p[i] = y /\ p[1] = x
        <5>1. len - 1 = r /\ 1 - 1 = 0 /\ 1 \in 1 .. len
          BY <2>1
        <5>. QED
          BY <2>3, <2>8, <3>2, <5>1
      <4>2. Edge(y, x) = d
        BY <1>2 DEF Edge
      <4>. QED
        BY <3>1, <3>2, <4>1, <4>2
    <3>3. CASE i # len
      <4>1. i - 1 \in 0 .. r - 1 /\ i + 1 \in 1 .. len /\ (i + 1) - 1 = (i - 1) + 1
        BY <2>1, <3>3
      <4>2. p[i] = w[i - 1] /\ p[i + 1] = w[(i - 1) + 1]
        BY <2>8, <4>1
      <4>3. Edge(p[i], p[i + 1]) \in h
        BY <2>5, <4>1, <4>2
      <4>. QED
        BY <3>1, <3>3, <4>3 DEF h
    <3>. QED
      BY <3>2, <3>3
  <2>12. HasCycle(g, len)
    <3>. HIDE DEF len
    <3>. QED
      BY <2>9, <2>10, <2>11 DEF HasCycle
  <2>. QED
    BY <2>7, <2>12
<1>. QED
  BY <1>4, <1>5

\* What girthAtLeast posts is what the girth is.
LEMMA GirthMeans ==
    ASSUME NEW g \in Graphs, NEW k \in Int
    PROVE  GirthOf(g) >= k <=> \A len \in 3 .. k - 1 : ~ HasCycle(g, len)
<1>. DEFINE far(d) == Distance(g \ {d}, Min(d), Max(d)) + 1
            S == {far(d) : d \in g}
<1>1. Cycle \subseteq g /\ g \subseteq AllEdges
  BY GraphIs
<1>2. \A d \in g : far(d) \in Nat
  <2>1. \A d \in g : Distance(g \ {d}, Min(d), Max(d)) \in 0 .. N
    BY DistanceIs
  <2>. QED
    BY <2>1
<1>3. g # {}
  BY <1>1, VFacts DEF Cycle
<1>. HIDE DEF far
<1>4. Min(S) \in S /\ \A z \in S : Min(S) <= z
  <2>1. S \subseteq Nat /\ S # {}
    BY <1>2, <1>3
  <2>. HIDE DEF S
  <2>. QED
    BY <2>1, MinOf
<1>5. GirthOf(g) = Min(S)
  BY DEF GirthOf, far
<1>6. GirthOf(g) >= k <=> \A d \in g : far(d) >= k
  <2>1. PICK d \in g : Min(S) = far(d)
    BY <1>4
  <2>2. \A c \in g : Min(S) <= far(c)
    BY <1>4
  <2>. QED
    BY <1>2, <1>5, <2>1, <2>2
<1>7. ASSUME NEW d \in g, far(d) < k  PROVE \E len \in 3 .. k - 1 : HasCycle(g, len)
  BY <1>1, <1>7, NearIsCycle DEF far
<1>8. ASSUME NEW len \in 3 .. k - 1, HasCycle(g, len)  PROVE \E d \in g : far(d) < k
  <2>1. len \in Nat /\ len >= 3 /\ len < k
    OBVIOUS
  <2>2. PICK d \in g : far(d) <= len
    BY <1>1, <1>8, <2>1, CycleIsRound DEF far
  <2>3. far(d) < k
    BY <1>2, <2>1, <2>2
  <2>. QED
    BY <2>3
<1>. QED
  BY <1>2, <1>6, <1>7, <1>8

-----------------------------------------------------------------------------
(***************************************************************************)
(* The rotations and reflections of the fixed cycle.                       *)
(***************************************************************************)
LEMMA DihedralIs ==
    ASSUME NEW p \in dihedralGroupPermutations
    PROVE  \E i \in V : \/ p = rotation(i) /\ \A x \in V : p[x] = Mod(i + x)
                        \/ p = reflection(i) /\ \A x \in V : p[x] = Mod(i - x)
BY DEF dihedralGroupPermutations, rotation, reflection

LEMMA RotationIn ==
    ASSUME NEW i \in V
    PROVE  rotation(i) \in dihedralGroupPermutations /\ \A x \in V : rotation(i)[x] = Mod(i + x)
BY DEF dihedralGroupPermutations, rotation

LEMMA ReflectionIn ==
    ASSUME NEW i \in V
    PROVE  reflection(i) \in dihedralGroupPermutations /\ \A x \in V : reflection(i)[x] = Mod(i - x)
BY DEF dihedralGroupPermutations, reflection

LEMMA InV == ASSUME NEW x PROVE x \in V <=> x \in Int /\ 0 <= x /\ x < N
BY VFacts DEF V

\* The places of i + x and i - x.
LEMMA ModSum ==
    ASSUME NEW i \in V, NEW x \in V
    PROVE  /\ Mod(i + x) = IF i + x < N THEN i + x ELSE i + x - N
           /\ Mod(i - x) = IF i < x THEN i - x + N ELSE i - x
           /\ Mod(i + x) \in V /\ Mod(i - x) \in V
<1>1. N \in Nat /\ N >= 3 /\ i \in Int /\ 0 <= i /\ i < N /\ x \in Int /\ 0 <= x /\ x < N
  BY VFacts, InV
<1>2. Mod(i + x) = IF i + x < N THEN i + x ELSE i + x - N
  BY <1>1, ModFacts
<1>3. Mod(i - x) = IF i < x THEN i - x + N ELSE i - x
  BY <1>1, ModFacts
<1>. QED
  BY <1>1, <1>2, <1>3, InV

LEMMA CycleDistIs ==
    ASSUME NEW x \in V, NEW y \in V
    PROVE  /\ cycleDist(x, y) = cycleDist(y, x)
           /\ x < y => cycleDist(x, y) = IF N - (y - x) < y - x THEN N - (y - x) ELSE y - x
           /\ x = y => cycleDist(x, y) = 0
<1>1. N \in Nat /\ N >= 3 /\ x \in Int /\ 0 <= x /\ x < N /\ y \in Int /\ 0 <= y /\ y < N
  BY VFacts, InV
<1>2. /\ Mod(x - y) = IF x < y THEN x - y + N ELSE x - y
      /\ Mod(y - x) = IF y < x THEN y - x + N ELSE y - x
  BY ModSum
<1>. QED
  BY <1>1, <1>2 DEF cycleDist

\* They are permutations that keep the distance along the cycle.
LEMMA DihedralFacts ==
    ASSUME NEW p \in dihedralGroupPermutations
    PROVE  /\ p \in [V -> V]
           /\ \A x, y \in V : p[x] = p[y] => x = y
           /\ \A x, y \in V : cycleDist(p[x], p[y]) = cycleDist(x, y)
<1>0. N \in Nat /\ N >= 3
  BY VFacts
<1>1. ASSUME NEW i \in V, p = rotation(i), \A x \in V : p[x] = Mod(i + x)
      PROVE  /\ p \in [V -> V]
             /\ \A x, y \in V : p[x] = p[y] => x = y
             /\ \A x, y \in V : x < y => cycleDist(p[x], p[y]) = cycleDist(x, y)
  <2>1. \A x \in V : p[x] = (IF i + x < N THEN i + x ELSE i + x - N) /\ p[x] \in V
    BY <1>1, ModSum
  <2>2. p \in [V -> V]
    BY <1>1, <2>1 DEF rotation
  <2>3. ASSUME NEW x \in V, NEW y \in V  PROVE p[x] = p[y] => x = y
    <3>1. x \in Int /\ y \in Int /\ i \in Int /\ 0 <= x /\ x < N /\ 0 <= y /\ y < N
      BY InV
    <3>2. /\ p[x] = IF i + x < N THEN i + x ELSE i + x - N
          /\ p[y] = IF i + y < N THEN i + y ELSE i + y - N
      BY <2>1
    <3>. QED
      BY <1>0, <3>1, <3>2
  <2>4. ASSUME NEW x \in V, NEW y \in V, x < y  PROVE cycleDist(p[x], p[y]) = cycleDist(x, y)
    <3>. DEFINE a == p[x]
                b == p[y]
    <3>1. a \in V /\ b \in V /\ a \in Int /\ b \in Int /\ x \in Int /\ y \in Int /\ i \in Int
          /\ 0 <= x /\ x < y /\ y < N /\ 0 <= i /\ i < N
      BY <2>1, <2>4, InV
    <3>2. (a < b /\ b - a = y - x) \/ (b < a /\ a - b = N - (y - x))
      BY <1>0, <2>1, <3>1
    <3>. HIDE DEF a, b
    <3>3. /\ cycleDist(a, b) = cycleDist(b, a)
          /\ a < b => cycleDist(a, b) = IF N - (b - a) < b - a THEN N - (b - a) ELSE b - a
          /\ b < a => cycleDist(b, a) = IF N - (a - b) < a - b THEN N - (a - b) ELSE a - b
          /\ cycleDist(x, y) = IF N - (y - x) < y - x THEN N - (y - x) ELSE y - x
      BY <2>4, <3>1, CycleDistIs
    <3>4. cycleDist(a, b) = cycleDist(x, y)
      BY <1>0, <3>1, <3>2, <3>3
    <3>. QED
      BY <3>4 DEF a, b
  <2>. QED
    BY <2>2, <2>3, <2>4
<1>2. ASSUME NEW i \in V, p = reflection(i), \A x \in V : p[x] = Mod(i - x)
      PROVE  /\ p \in [V -> V]
             /\ \A x, y \in V : p[x] = p[y] => x = y
             /\ \A x, y \in V : x < y => cycleDist(p[x], p[y]) = cycleDist(x, y)
  <2>1. \A x \in V : p[x] = (IF i < x THEN i - x + N ELSE i - x) /\ p[x] \in V
    BY <1>2, ModSum
  <2>2. p \in [V -> V]
    BY <1>2, <2>1 DEF reflection
  <2>3. ASSUME NEW x \in V, NEW y \in V  PROVE p[x] = p[y] => x = y
    <3>1. x \in Int /\ y \in Int /\ i \in Int /\ 0 <= x /\ x < N /\ 0 <= y /\ y < N
      BY InV
    <3>2. /\ p[x] = IF i < x THEN i - x + N ELSE i - x
          /\ p[y] = IF i < y THEN i - y + N ELSE i - y
      BY <2>1
    <3>. QED
      BY <1>0, <3>1, <3>2
  <2>4. ASSUME NEW x \in V, NEW y \in V, x < y  PROVE cycleDist(p[x], p[y]) = cycleDist(x, y)
    <3>. DEFINE a == p[x]
                b == p[y]
    <3>1. a \in V /\ b \in V /\ a \in Int /\ b \in Int /\ x \in Int /\ y \in Int /\ i \in Int
          /\ 0 <= x /\ x < y /\ y < N /\ 0 <= i /\ i < N
      BY <2>1, <2>4, InV
    <3>2. (b < a /\ a - b = y - x) \/ (a < b /\ b - a = N - (y - x))
      BY <1>0, <2>1, <3>1
    <3>. HIDE DEF a, b
    <3>3. /\ cycleDist(a, b) = cycleDist(b, a)
          /\ a < b => cycleDist(a, b) = IF N - (b - a) < b - a THEN N - (b - a) ELSE b - a
          /\ b < a => cycleDist(b, a) = IF N - (a - b) < a - b THEN N - (a - b) ELSE a - b
          /\ cycleDist(x, y) = IF N - (y - x) < y - x THEN N - (y - x) ELSE y - x
      BY <2>4, <3>1, CycleDistIs
    <3>4. cycleDist(a, b) = cycleDist(x, y)
      BY <1>0, <3>1, <3>2, <3>3
    <3>. QED
      BY <3>4 DEF a, b
  <2>. QED
    BY <2>2, <2>3, <2>4
<1>3. p \in [V -> V] /\ (\A x, y \in V : p[x] = p[y] => x = y)
      /\ \A x, y \in V : x < y => cycleDist(p[x], p[y]) = cycleDist(x, y)
  BY <1>1, <1>2, DihedralIs
<1>4. ASSUME NEW x \in V, NEW y \in V  PROVE cycleDist(p[x], p[y]) = cycleDist(x, y)
  <2>1. p[x] \in V /\ p[y] \in V
    BY <1>3
  <2>2. x < y \/ y < x \/ x = y
    BY InV
  <2>3. cycleDist(x, y) = cycleDist(y, x) /\ cycleDist(p[x], p[y]) = cycleDist(p[y], p[x])
    BY <2>1, CycleDistIs
  <2>4. x = y => cycleDist(x, y) = 0 /\ cycleDist(p[x], p[y]) = 0
    BY <2>1, CycleDistIs
  <2>. QED
    BY <1>3, <2>2, <2>3, <2>4
<1>. QED
  BY <1>3, <1>4

\* They form a group.
LEMMA Composed ==
    ASSUME NEW p \in dihedralGroupPermutations, NEW q \in dihedralGroupPermutations
    PROVE  \E r \in dihedralGroupPermutations : \A x \in V : r[x] = p[q[x]]
<1>0. N \in Nat /\ N >= 3
  BY VFacts
<1>1. \A x \in V : q[x] \in V
  BY DihedralFacts
<1>2. PICK i \in V : (\A x \in V : p[x] = Mod(i + x)) \/ \A x \in V : p[x] = Mod(i - x)
  BY DihedralIs
<1>3. PICK j \in V : (\A x \in V : q[x] = Mod(j + x)) \/ \A x \in V : q[x] = Mod(j - x)
  BY DihedralIs
<1>4. Mod(i + j) \in V /\ Mod(i - j) \in V
  BY ModSum
<1>5. ASSUME NEW x \in V
      PROVE  /\ Mod(i + Mod(j + x)) = Mod(Mod(i + j) + x)
             /\ Mod(i + Mod(j - x)) = Mod(Mod(i + j) - x)
             /\ Mod(i - Mod(j + x)) = Mod(Mod(i - j) - x)
             /\ Mod(i - Mod(j - x)) = Mod(Mod(i - j) + x)
  <2>. DEFINE a == Mod(j + x)
              b == Mod(j - x)
              c == Mod(i + j)
              d == Mod(i - j)
  <2>1. /\ a \in V /\ b \in V /\ c \in V /\ d \in V
        /\ a = IF j + x < N THEN j + x ELSE j + x - N
        /\ b = IF j < x THEN j - x + N ELSE j - x
        /\ c = IF i + j < N THEN i + j ELSE i + j - N
        /\ d = IF i < j THEN i - j + N ELSE i - j
    BY ModSum
  <2>2. /\ i \in Int /\ j \in Int /\ x \in Int /\ 0 <= i /\ 0 <= j /\ 0 <= x /\ i < N /\ j < N /\ x < N
        /\ a \in Int /\ b \in Int /\ c \in Int /\ d \in Int
        /\ 0 <= a /\ 0 <= b /\ 0 <= c /\ 0 <= d /\ a < N /\ b < N /\ c < N /\ d < N
    BY <2>1, InV
  <2>. HIDE DEF a, b, c, d
  <2>3. /\ Mod(i + a) = IF i + a < N THEN i + a ELSE i + a - N
        /\ Mod(i - a) = IF i < a THEN i - a + N ELSE i - a
        /\ Mod(i + b) = IF i + b < N THEN i + b ELSE i + b - N
        /\ Mod(i - b) = IF i < b THEN i - b + N ELSE i - b
        /\ Mod(c + x) = IF c + x < N THEN c + x ELSE c + x - N
        /\ Mod(c - x) = IF c < x THEN c - x + N ELSE c - x
        /\ Mod(d + x) = IF d + x < N THEN d + x ELSE d + x - N
        /\ Mod(d - x) = IF d < x THEN d - x + N ELSE d - x
    <3>1. \A u, y \in V : /\ Mod(u + y) = IF u + y < N THEN u + y ELSE u + y - N
                          /\ Mod(u - y) = IF u < y THEN u - y + N ELSE u - y
      BY ModSum
    <3>2. x \in V /\ i \in V /\ a \in V /\ b \in V /\ c \in V /\ d \in V
      BY <2>1
    <3>. QED
      BY <3>1, <3>2, Zenon
  <2>4. Mod(i + a) = Mod(c + x)
    BY <1>0, <2>1, <2>2, <2>3
  <2>5. Mod(i + b) = Mod(c - x)
    BY <1>0, <2>1, <2>2, <2>3
  <2>6. Mod(i - a) = Mod(d - x)
    BY <1>0, <2>1, <2>2, <2>3
  <2>7. Mod(i - b) = Mod(d + x)
    BY <1>0, <2>1, <2>2, <2>3
  <2>. QED
    BY <2>4, <2>5, <2>6, <2>7 DEF a, b, c, d
<1>6. CASE (\A x \in V : p[x] = Mod(i + x)) /\ \A x \in V : q[x] = Mod(j + x)
  <2>1. \A x \in V : rotation(Mod(i + j))[x] = p[q[x]]
    BY <1>1, <1>4, <1>5, <1>6, RotationIn
  <2>. QED
    BY <1>4, <2>1, RotationIn
<1>7. CASE (\A x \in V : p[x] = Mod(i + x)) /\ \A x \in V : q[x] = Mod(j - x)
  <2>1. \A x \in V : reflection(Mod(i + j))[x] = p[q[x]]
    BY <1>1, <1>4, <1>5, <1>7, ReflectionIn
  <2>. QED
    BY <1>4, <2>1, ReflectionIn
<1>8. CASE (\A x \in V : p[x] = Mod(i - x)) /\ \A x \in V : q[x] = Mod(j + x)
  <2>1. \A x \in V : reflection(Mod(i - j))[x] = p[q[x]]
    BY <1>1, <1>4, <1>5, <1>8, ReflectionIn
  <2>. QED
    BY <1>4, <2>1, ReflectionIn
<1>9. CASE (\A x \in V : p[x] = Mod(i - x)) /\ \A x \in V : q[x] = Mod(j - x)
  <2>1. \A x \in V : rotation(Mod(i - j))[x] = p[q[x]]
    BY <1>1, <1>4, <1>5, <1>9, RotationIn
  <2>. QED
    BY <1>4, <2>1, RotationIn
<1>. QED
  BY <1>2, <1>3, <1>6, <1>7, <1>8, <1>9

LEMMA Inverted ==
    ASSUME NEW p \in dihedralGroupPermutations
    PROVE  \E q \in dihedralGroupPermutations : \A x \in V : q[p[x]] = x /\ p[q[x]] = x
<1>0. N \in Nat /\ N >= 3 /\ 0 \in V
  BY VFacts
<1>1. \A x \in V : p[x] \in V
  BY DihedralFacts
<1>2. PICK i \in V : (\A x \in V : p[x] = Mod(i + x)) \/ \A x \in V : p[x] = Mod(i - x)
  BY DihedralIs
<1>3. CASE \A x \in V : p[x] = Mod(i + x)
  <2>. DEFINE j == Mod(0 - i)
  <2>1. j \in V /\ j = IF 0 < i THEN 0 - i + N ELSE 0 - i
    BY <1>0, ModSum
  <2>. HIDE DEF j
  <2>2. \A x \in V : rotation(j)[x] = Mod(j + x)
    BY <2>1, RotationIn
  <2>3. ASSUME NEW x \in V  PROVE Mod(j + Mod(i + x)) = x /\ Mod(i + Mod(j + x)) = x
    <3>. DEFINE a == Mod(i + x)
                b == Mod(j + x)
    <3>1. /\ a \in V /\ b \in V
          /\ a = IF i + x < N THEN i + x ELSE i + x - N
          /\ b = IF j + x < N THEN j + x ELSE j + x - N
      BY <2>1, ModSum
    <3>2. /\ i \in Int /\ j \in Int /\ x \in Int /\ 0 <= i /\ 0 <= j /\ 0 <= x /\ i < N /\ j < N /\ x < N
          /\ a \in Int /\ b \in Int /\ 0 <= a /\ 0 <= b /\ a < N /\ b < N
      BY <2>1, <3>1, InV
    <3>. HIDE DEF a, b
    <3>3. /\ Mod(j + a) = IF j + a < N THEN j + a ELSE j + a - N
          /\ Mod(i + b) = IF i + b < N THEN i + b ELSE i + b - N
      BY <2>1, <3>1, ModSum
    <3>4. Mod(j + a) = x /\ Mod(i + b) = x
      BY <1>0, <2>1, <3>1, <3>2, <3>3
    <3>. QED
      BY <3>4 DEF a, b
  <2>4. \A x \in V : Mod(j + x) \in V
    BY <2>1, ModSum
  <2>5. \A x \in V : rotation(j)[p[x]] = x /\ p[rotation(j)[x]] = x
    BY <1>1, <1>3, <2>2, <2>3, <2>4
  <2>. QED
    BY <2>1, <2>5, RotationIn
<1>4. CASE \A x \in V : p[x] = Mod(i - x)
  <2>1. ASSUME NEW x \in V  PROVE Mod(i - Mod(i - x)) = x
    <3>. DEFINE a == Mod(i - x)
    <3>1. a \in V /\ a = IF i < x THEN i - x + N ELSE i - x
      BY ModSum
    <3>2. i \in Int /\ x \in Int /\ 0 <= i /\ 0 <= x /\ i < N /\ x < N /\ a \in Int /\ 0 <= a /\ a < N
      BY <3>1, InV
    <3>. HIDE DEF a
    <3>3. Mod(i - a) = IF i < a THEN i - a + N ELSE i - a
      BY <3>1, ModSum
    <3>4. Mod(i - a) = x
      BY <1>0, <3>1, <3>2, <3>3
    <3>. QED
      BY <3>4 DEF a
  <2>2. \A x \in V : p[p[x]] = x
    BY <1>1, <1>4, <2>1
  <2>. QED
    BY <2>2
<1>. QED
  BY <1>2, <1>3, <1>4

LEMMA Identity == \E p \in dihedralGroupPermutations : \A x \in V : p[x] = x
<1>1. 0 \in V
  BY VFacts
<1>2. ASSUME NEW x \in V  PROVE Mod(0 + x) = x
  <2>1. x \in Int /\ 0 <= x /\ x < N /\ N \in Nat
    BY VFacts, InV
  <2>2. Mod(0 + x) = IF 0 + x < N THEN 0 + x ELSE 0 + x - N
    BY <1>1, ModSum
  <2>. QED
    BY <2>1, <2>2
<1>. QED
  BY <1>1, <1>2, RotationIn

-----------------------------------------------------------------------------
(***************************************************************************)
(* What they do to graphs.                                                 *)
(***************************************************************************)
Carried(p, d) == Edge(p[Min(d)], p[Max(d)])
Moved(p, g) == {Carried(p, d) : d \in g}

LEMMA CarriedEnds ==
    ASSUME NEW p \in dihedralGroupPermutations, NEW a \in V, NEW b \in V, a # b
    PROVE  /\ Carried(p, Edge(a, b)) = Edge(p[a], p[b])
           /\ Carried(p, Edge(a, b)) \in AllEdges
           /\ p[a] \in V /\ p[b] \in V /\ p[a] # p[b]
<1>1. Edge(a, b) \in AllEdges /\ Edge(a, b) = Edge(b, a)
  BY EdgeIn
<1>2. a < b \/ b < a
  BY InV
<1>3. \/ Min(Edge(a, b)) = a /\ Max(Edge(a, b)) = b
      \/ Min(Edge(a, b)) = b /\ Max(Edge(a, b)) = a
  BY <1>1, <1>2, EdgeIs
<1>4. p[a] \in V /\ p[b] \in V /\ p[a] # p[b]
  BY DihedralFacts
<1>5. Edge(p[a], p[b]) \in AllEdges /\ Edge(p[a], p[b]) = Edge(p[b], p[a])
  BY <1>4, EdgeIn
<1>. QED
  BY <1>3, <1>4, <1>5 DEF Carried

LEMMA EdgeHasEnds ==
    ASSUME NEW d \in AllEdges
    PROVE  \E a, b \in V : a < b /\ a # b /\ d = Edge(a, b)
<1>1. Min(d) \in V /\ Max(d) \in V /\ Min(d) < Max(d) /\ d = Edge(Min(d), Max(d))
  BY EdgeIs
<1>2. Min(d) # Max(d)
  BY <1>1, InV
<1>. QED
  BY <1>1, <1>2

LEMMA CarriedComposed ==
    ASSUME NEW p \in dihedralGroupPermutations, NEW q \in dihedralGroupPermutations,
           NEW r \in dihedralGroupPermutations, \A x \in V : r[x] = p[q[x]],
           NEW d \in AllEdges
    PROVE  Carried(r, d) = Carried(p, Carried(q, d)) /\ Carried(q, d) \in AllEdges
<1>1. PICK a \in V, b \in V : a # b /\ d = Edge(a, b)
  BY EdgeHasEnds
<1>2. /\ Carried(q, d) = Edge(q[a], q[b]) /\ Carried(q, d) \in AllEdges
      /\ q[a] \in V /\ q[b] \in V /\ q[a] # q[b]
  BY <1>1, CarriedEnds
<1>3. Carried(r, d) = Edge(p[q[a]], p[q[b]])
  BY <1>1, CarriedEnds
<1>4. Carried(p, Edge(q[a], q[b])) = Edge(p[q[a]], p[q[b]])
  BY <1>2, CarriedEnds
<1>. QED
  BY <1>2, <1>3, <1>4

LEMMA CarriedBack ==
    ASSUME NEW p \in dihedralGroupPermutations, NEW q \in dihedralGroupPermutations,
           \A x \in V : q[p[x]] = x, NEW d \in AllEdges
    PROVE  Carried(q, Carried(p, d)) = d
<1>1. PICK a \in V, b \in V : a # b /\ d = Edge(a, b)
  BY EdgeHasEnds
<1>2. Carried(p, d) = Edge(p[a], p[b]) /\ p[a] \in V /\ p[b] \in V /\ p[a] # p[b]
  BY <1>1, CarriedEnds
<1>3. Carried(q, Edge(p[a], p[b])) = Edge(q[p[a]], q[p[b]])
  BY <1>2, CarriedEnds
<1>. QED
  BY <1>1, <1>2, <1>3

\* The edges of the fixed cycle are those whose ends are at distance 1 along it.
LEMMA CycleIsDist ==
    ASSUME NEW a \in V, NEW b \in V, a # b
    PROVE  Edge(a, b) \in Cycle <=> cycleDist(a, b) = 1
<1>1. ASSUME NEW x \in V, NEW y \in V, x < y  PROVE Edge(x, y) \in Cycle <=> cycleDist(x, y) = 1
  <2>1. CASE cycleDist(x, y) # 1
    <3>1. <<x, y>> \in Chords /\ ends(<<x, y>>) = Edge(x, y)
      BY <1>1, <2>1 DEF Chords, Chord, ends
    <3>. QED
      BY <2>1, <3>1, ChordFacts
  <2>2. CASE cycleDist(x, y) = 1
    <3>1. x \in Int /\ y \in Int /\ 0 <= x /\ x < N /\ 0 <= y /\ y < N /\ N \in Nat
      BY InV, VFacts
    <3>2. cycleDist(x, y) = IF N - (y - x) < y - x THEN N - (y - x) ELSE y - x
      BY <1>1, CycleDistIs
    <3>3. y = x + 1 \/ (x = 0 /\ y = N - 1)
      BY <1>1, <2>2, <3>1, <3>2
    <3>. QED
      BY <2>2, <3>3, CycleEdge
  <2>. QED
    BY <2>1, <2>2
<1>2. a < b \/ b < a
  BY InV
<1>3. Edge(a, b) = Edge(b, a) /\ cycleDist(a, b) = cycleDist(b, a)
  BY CycleDistIs DEF Edge
<1>. QED
  BY <1>1, <1>2, <1>3

LEMMA CarriedCycle ==
    ASSUME NEW p \in dihedralGroupPermutations, NEW d \in AllEdges
    PROVE  Carried(p, d) \in Cycle <=> d \in Cycle
<1>1. PICK a \in V, b \in V : a # b /\ d = Edge(a, b)
  BY EdgeHasEnds
<1>2. cycleDist(p[a], p[b]) = cycleDist(a, b)
  BY DihedralFacts
<1>3. Carried(p, d) = Edge(p[a], p[b]) /\ p[a] \in V /\ p[b] \in V /\ p[a] # p[b]
  BY <1>1, CarriedEnds
<1>. QED
  BY <1>1, <1>2, <1>3, CycleIsDist

\* What a permutation does, its inverse undoes.
LEMMA MovedBy ==
    ASSUME NEW p \in dihedralGroupPermutations, NEW q \in dihedralGroupPermutations,
           \A x \in V : q[p[x]] = x /\ p[q[x]] = x,
           NEW g, g \subseteq AllEdges
    PROVE  /\ Moved(p, g) = {d \in AllEdges : Carried(q, d) \in g}
           /\ Moved(q, Moved(p, g)) = g
<1>1. \A d \in AllEdges : Carried(p, d) \in AllEdges /\ Carried(q, d) \in AllEdges
  <2>1. \E r \in dihedralGroupPermutations : \A x \in V : r[x] = p[q[x]]
    BY Composed
  <2>2. \E r \in dihedralGroupPermutations : \A x \in V : r[x] = q[p[x]]
    BY Composed
  <2>. QED
    BY <2>1, <2>2, CarriedComposed
<1>2. \A d \in AllEdges : Carried(q, Carried(p, d)) = d /\ Carried(p, Carried(q, d)) = d
  BY CarriedBack
<1>3. Moved(p, g) = {d \in AllEdges : Carried(q, d) \in g}
  BY <1>1, <1>2 DEF Moved
<1>4. Moved(q, Moved(p, g)) = g
  BY <1>2 DEF Moved
<1>. QED
  BY <1>3, <1>4

LEMMA MovedIn ==
    ASSUME NEW p \in dihedralGroupPermutations, NEW g \in Graphs
    PROVE  Moved(p, g) \in Graphs
<1>1. Cycle \subseteq g /\ g \subseteq AllEdges
  BY GraphIs
<1>2. PICK q \in dihedralGroupPermutations : \A x \in V : q[p[x]] = x /\ p[q[x]] = x
  BY Inverted
<1>3. Moved(p, g) = {d \in AllEdges : Carried(q, d) \in g}
  BY <1>1, <1>2, MovedBy
<1>4. \A d \in Cycle : d \in AllEdges /\ Carried(q, d) \in Cycle
  BY CycleIn, CarriedCycle
<1>5. Cycle \subseteq Moved(p, g) /\ Moved(p, g) \subseteq AllEdges
  BY <1>1, <1>3, <1>4
<1>. QED
  BY <1>5, GraphIs

LEMMA MovedTwice ==
    ASSUME NEW p \in dihedralGroupPermutations, NEW q \in dihedralGroupPermutations,
           NEW g, g \subseteq AllEdges
    PROVE  \E r \in dihedralGroupPermutations : Moved(r, g) = Moved(p, Moved(q, g))
<1>1. PICK r \in dihedralGroupPermutations : \A x \in V : r[x] = p[q[x]]
  BY Composed
<1>2. \A d \in g : Carried(r, d) = Carried(p, Carried(q, d))
  BY <1>1, CarriedComposed
<1>3. Moved(r, g) = Moved(p, Moved(q, g))
  BY <1>2 DEF Moved
<1>. QED
  BY <1>3

LEMMA OrbitIs == ASSUME NEW g  PROVE Orbit(g) = {Moved(p, g) : p \in dihedralGroupPermutations}
BY DEF Orbit, Moved, Carried

(***************************************************************************)
(* What the options speak of is the same for a graph and what it is moved  *)
(* to.                                                                     *)
(***************************************************************************)
LEMMA MovedAdjacent ==
    ASSUME NEW p \in dihedralGroupPermutations, NEW g, g \subseteq AllEdges,
           NEW x \in V, NEW y \in V, x # y
    PROVE  Edge(p[x], p[y]) \in Moved(p, g) <=> Edge(x, y) \in g
<1>1. PICK q \in dihedralGroupPermutations : \A z \in V : q[p[z]] = z /\ p[q[z]] = z
  BY Inverted
<1>3. Carried(p, Edge(x, y)) = Edge(p[x], p[y]) /\ Carried(p, Edge(x, y)) \in AllEdges
      /\ Edge(x, y) \in AllEdges
  BY CarriedEnds, EdgeIn
<1>4. Carried(q, Edge(p[x], p[y])) = Edge(x, y)
  BY <1>1, <1>3, CarriedBack
<1>. QED
  BY <1>1, <1>3, <1>4, MovedBy

LEMMA MovedDeg ==
    ASSUME NEW p \in dihedralGroupPermutations, NEW g, g \subseteq AllEdges, NEW x \in V
    PROVE  deg(Moved(p, g), p[x]) = deg(g, x)
<1>. DEFINE S == Nbrs(g, x)
            T == Nbrs(Moved(p, g), p[x])
            f == [y \in S |-> p[y]]
<1>1. p \in [V -> V] /\ \A u, z \in V : p[u] = p[z] => u = z
  BY DihedralFacts
<1>2. PICK q \in dihedralGroupPermutations : \A z \in V : q[p[z]] = z /\ p[q[z]] = z
  BY Inverted
<1>3. q \in [V -> V]
  BY DihedralFacts
<1>4. ASSUME NEW y \in V  PROVE y \in S <=> p[y] \in T
  <2>1. y # x <=> p[y] # p[x]
    BY <1>1
  <2>2. y # x => (Edge(p[y], p[x]) \in Moved(p, g) <=> Edge(y, x) \in g)
    BY MovedAdjacent
  <2>. QED
    BY <1>1, <2>1, <2>2 DEF Nbrs
<1>5. S \subseteq V /\ T \subseteq V /\ IsFiniteSet(S)
  BY NbrsFacts
<1>. HIDE DEF S, T
<1>6. f \in Bijection(S, T)
  <2>1. \A y \in S : y \in V /\ f[y] = p[y] /\ p[y] \in T
    BY <1>4, <1>5
  <2>2. f \in [S -> T]
    BY <2>1
  <2>3. ASSUME NEW z \in T  PROVE \E y \in S : f[y] = z
    <3>1. z \in V /\ q[z] \in V /\ p[q[z]] = z
      BY <1>2, <1>3, <1>5
    <3>2. q[z] \in S
      BY <1>4, <3>1
    <3>. QED
      BY <2>1, <3>1, <3>2
  <2>4. \A y, z \in S : f[y] = f[z] => y = z
    BY <1>1, <2>1
  <2>. QED
    BY <2>2, <2>3, <2>4 DEF Bijection, Injection, Surjection, IsInjective
<1>7. Cardinality(T) = Cardinality(S)
  <2>1. ExistsBijection(S, T)
    BY <1>6 DEF ExistsBijection
  <2>. QED
    BY <1>5, <2>1, FS_Bijection
<1>. QED
  BY <1>7 DEF deg, S, T

LEMMA AllEdgesFinite == IsFiniteSet(AllEdges)
<1>1. AllEdges \subseteq SUBSET V
  BY DEF AllEdges, Edge
<1>. QED
  BY <1>1, VFacts, FS_SUBSET, FS_Subset

LEMMA MovedSize ==
    ASSUME NEW p \in dihedralGroupPermutations, NEW g, g \subseteq AllEdges
    PROVE  Cardinality(Moved(p, g)) = Cardinality(g)
<1>. DEFINE f == [d \in g |-> Carried(p, d)]
<1>1. PICK q \in dihedralGroupPermutations : \A z \in V : q[p[z]] = z /\ p[q[z]] = z
  BY Inverted
<1>2. \A d \in g : Carried(q, Carried(p, d)) = d
  BY <1>1, CarriedBack
<1>3. \A d \in g : f[d] = Carried(p, d) /\ Carried(p, d) \in Moved(p, g)
  BY DEF Moved
<1>4. f \in Bijection(g, Moved(p, g))
  <2>1. f \in [g -> Moved(p, g)]
    BY <1>3
  <2>2. \A e \in Moved(p, g) : \E d \in g : e = Carried(p, d)
    BY DEF Moved
  <2>3. \A c, d \in g : f[c] = f[d] => c = d
    BY <1>2, <1>3
  <2>4. \A e \in Moved(p, g) : \E d \in g : f[d] = e
    BY <1>3, <2>2
  <2>. HIDE DEF f
  <2>. QED
    BY <2>1, <2>3, <2>4 DEF Bijection, Injection, Surjection, IsInjective
<1>5. IsFiniteSet(g)
  BY AllEdgesFinite, FS_Subset
<1>6. ExistsBijection(g, Moved(p, g))
  BY <1>4 DEF ExistsBijection
<1>. QED
  BY <1>5, <1>6, FS_Bijection

LEMMA LengthsMoved ==
    ASSUME NEW p \in dihedralGroupPermutations, NEW g \in Graphs
    PROVE  lengths(g) \subseteq lengths(Moved(p, g))
<1>1. SUFFICES ASSUME NEW c \in Chords, ends(c) \in g
               PROVE  \E e \in Chords : /\ ends(e) \in Moved(p, g)
                                        /\ cycleDist(e[1], e[2]) = cycleDist(c[1], c[2])
  BY DEF lengths
<1>2. c[1] \in V /\ c[2] \in V /\ c[1] # c[2] /\ ends(c) = Edge(c[1], c[2]) /\ cycleDist(c[1], c[2]) # 1
  <2>1. c[1] \in V /\ c[2] \in V /\ c[1] < c[2]
    BY ChordFacts
  <2>2. c[1] # c[2]
    BY <2>1, InV
  <2>. QED
    BY <2>1, <2>2 DEF ends, Chords, Chord
<1>3. /\ p \in [V -> V] /\ \A u, z \in V : p[u] = p[z] => u = z
      /\ cycleDist(p[c[1]], p[c[2]]) = cycleDist(c[1], c[2])
  BY <1>2, DihedralFacts
<1>. DEFINE a == p[c[1]]
            b == p[c[2]]
<1>4. a \in V /\ b \in V /\ a # b /\ cycleDist(a, b) = cycleDist(c[1], c[2]) /\ cycleDist(b, a) = cycleDist(a, b)
  BY <1>2, <1>3, CycleDistIs
<1>5. Edge(a, b) \in Moved(p, g)
  BY <1>1, <1>2, GraphIs, MovedAdjacent
<1>. HIDE DEF a, b
<1>6. CASE a < b
  <2>1. <<a, b>> \in Chords
    BY <1>2, <1>4, <1>6 DEF Chords, Chord
  <2>2. ends(<<a, b>>) = Edge(a, b)
    BY DEF ends
  <2>. QED
    BY <1>4, <1>5, <2>1, <2>2
<1>7. CASE b < a
  <2>1. <<b, a>> \in Chords
    BY <1>2, <1>4, <1>7 DEF Chords, Chord
  <2>2. ends(<<b, a>>) = Edge(a, b)
    BY DEF ends, Edge
  <2>. QED
    BY <1>4, <1>5, <2>1, <2>2
<1>. QED
  BY <1>4, <1>6, <1>7, InV

LEMMA LengthsSame ==
    ASSUME NEW p \in dihedralGroupPermutations, NEW g \in Graphs
    PROVE  lengths(Moved(p, g)) = lengths(g)
<1>1. PICK q \in dihedralGroupPermutations : \A z \in V : q[p[z]] = z /\ p[q[z]] = z
  BY Inverted
<1>2. Moved(p, g) \in Graphs /\ Moved(q, Moved(p, g)) = g
  BY <1>1, GraphIs, MovedIn, MovedBy
<1>3. lengths(Moved(p, g)) \subseteq lengths(g)
  BY <1>2, LengthsMoved
<1>. QED
  BY <1>3, LengthsMoved

LEMMA CyclesMoved ==
    ASSUME NEW p \in dihedralGroupPermutations, NEW g \in Graphs, NEW len \in Nat, len >= 3,
           HasCycle(g, len)
    PROVE  HasCycle(Moved(p, g), len)
<1>1. PICK w \in [1 .. len -> V] :
            /\ \A i, j \in 1 .. len : w[i] = w[j] => i = j
            /\ \A i \in 1 .. len : Edge(w[i], w[(i % len) + 1]) \in g
  BY DEF HasCycle
<1>2. p \in [V -> V] /\ \A u, z \in V : p[u] = p[z] => u = z
  BY DihedralFacts
<1>. DEFINE t == [i \in 1 .. len |-> p[w[i]]]
<1>3. t \in [1 .. len -> V] /\ \A i \in 1 .. len : t[i] = p[w[i]] /\ w[i] \in V
  BY <1>1, <1>2
<1>. HIDE DEF t
<1>4. \A i, j \in 1 .. len : t[i] = t[j] => i = j
  BY <1>1, <1>2, <1>3
<1>5. ASSUME NEW i \in 1 .. len  PROVE Edge(t[i], t[(i % len) + 1]) \in Moved(p, g)
  <2>. DEFINE j == (i % len) + 1
  <2>1. j = IF i = len THEN 1 ELSE i + 1
    BY NextPlace
  <2>2. Edge(w[i], w[j]) \in g
    BY <1>1
  <2>. HIDE DEF j
  <2>3. j \in 1 .. len /\ j # i
    BY <2>1
  <2>4. w[i] # w[j] /\ w[i] \in V /\ w[j] \in V
    BY <1>1, <2>3
  <2>5. Edge(p[w[i]], p[w[j]]) \in Moved(p, g)
    BY <2>2, <2>4, GraphIs, MovedAdjacent
  <2>6. Edge(t[i], t[j]) \in Moved(p, g)
    BY <1>3, <2>3, <2>5
  <2>. QED
    BY <2>6 DEF j
<1>. QED
  BY <1>3, <1>4, <1>5 DEF HasCycle

LEMMA GirthSame ==
    ASSUME NEW p \in dihedralGroupPermutations, NEW g \in Graphs, NEW k \in Int, GirthOf(g) >= k
    PROVE  GirthOf(Moved(p, g)) >= k
<1>1. PICK q \in dihedralGroupPermutations : \A z \in V : q[p[z]] = z /\ p[q[z]] = z
  BY Inverted
<1>2. Moved(p, g) \in Graphs /\ Moved(q, Moved(p, g)) = g
  BY <1>1, GraphIs, MovedIn, MovedBy
<1>3. \A len \in 3 .. k - 1 : ~ HasCycle(g, len)
  BY GirthMeans
<1>4. \A len \in 3 .. k - 1 : len \in Nat /\ len >= 3
  OBVIOUS
<1>5. \A len \in 3 .. k - 1 : ~ HasCycle(Moved(p, g), len)
  BY <1>2, <1>3, <1>4, CyclesMoved
<1>. QED
  BY <1>2, <1>5, GirthMeans

-----------------------------------------------------------------------------
(***************************************************************************)
(* The order of the graphs by their vectors of edges.                      *)
(***************************************************************************)
Less(g, h) ==
    \E c \in Pairs : /\ ends(c) \notin g /\ ends(c) \in h
                     /\ \A d \in Pairs : Earlier(d, c) => (ends(d) \in g <=> ends(d) \in h)

LEMMA PairFacts ==
    ASSUME NEW c \in Pairs
    PROVE  /\ c = <<c[1], c[2]>> /\ c[1] \in V /\ c[2] \in V /\ c[1] < c[2] /\ c[1] # c[2]
           /\ c[1] \in Int /\ c[2] \in Int
           /\ ends(c) \in AllEdges /\ ends(c) = Edge(c[1], c[2])
<1>1. c = <<c[1], c[2]>> /\ c[1] \in V /\ c[2] \in V /\ c[1] < c[2]
  BY DEF Pairs
<1>2. c[1] # c[2] /\ c[1] \in Int /\ c[2] \in Int
  BY <1>1, InV
<1>. QED
  BY <1>1, <1>2, EdgeIn DEF ends

LEMMA EdgePair ==
    ASSUME NEW d \in AllEdges
    PROVE  \E c \in Pairs : d = ends(c)
<1>1. PICK a \in V, b \in V : a < b /\ d = Edge(a, b)
  BY EdgeHasEnds
<1>2. <<a, b>> \in Pairs /\ ends(<<a, b>>) = Edge(a, b)
  BY <1>1 DEF Pairs, ends
<1>. QED
  BY <1>1, <1>2

LEMMA EarlierFacts ==
    ASSUME NEW a \in Pairs, NEW b \in Pairs
    PROVE  /\ ~ Earlier(a, a)
           /\ a # b => Earlier(a, b) \/ Earlier(b, a)
           /\ \A c \in Pairs : Earlier(a, b) /\ Earlier(b, c) => Earlier(a, c)
<1>1. /\ a = <<a[1], a[2]>> /\ a[1] \in Int /\ a[2] \in Int
      /\ b = <<b[1], b[2]>> /\ b[1] \in Int /\ b[2] \in Int
  BY PairFacts
<1>2. ~ Earlier(a, a)
  BY <1>1 DEF Earlier
<1>3. a # b => Earlier(a, b) \/ Earlier(b, a)
  <2>1. a # b => a[1] # b[1] \/ a[2] # b[2]
    BY <1>1
  <2>. QED
    BY <1>1, <2>1 DEF Earlier
<1>4. ASSUME NEW c \in Pairs, Earlier(a, b), Earlier(b, c)  PROVE Earlier(a, c)
  <2>1. c[1] \in Int /\ c[2] \in Int
    BY PairFacts
  <2>. QED
    BY <1>1, <1>4, <2>1 DEF Earlier
<1>. QED
  BY <1>2, <1>3, <1>4

LEMMA PairsFinite == IsFiniteSet(Pairs)
<1>1. Pairs \subseteq V \X V
  BY DEF Pairs
<1>. QED
  BY <1>1, VFacts, FS_Product, FS_Subset

\* A strict order on a nonempty finite set has a minimal element.
LEMMA MinimalIn ==
    ASSUME NEW T, IsFiniteSet(T), T # {}, NEW R,
           \A x \in T : <<x, x>> \notin R,
           \A x, y, z \in T : <<x, y>> \in R /\ <<y, z>> \in R => <<x, z>> \in R
    PROVE  \E x \in T : \A y \in T : <<y, x>> \notin R
<1>. DEFINE below(x) == {y \in T : <<y, x>> \in R}
            C(x) == Cardinality(below(x))
            S == {C(x) : x \in T}
<1>1. ASSUME NEW x  PROVE IsFiniteSet(below(x)) /\ C(x) \in Nat
  <2>1. below(x) \subseteq T
    OBVIOUS
  <2>. QED
    BY <2>1, FS_Subset, FS_CardinalityType
<1>. HIDE DEF C
<1>2. S \subseteq Nat /\ S # {}
  <2>1. \A x \in T : C(x) \in Nat
    BY <1>1
  <2>. QED
    BY <2>1
<1>3. \E m \in S : \A k \in S : m <= k
  <2>. HIDE DEF S
  <2>. QED
    BY <1>2, LeastNat
<1>4. PICK x \in T : \A k \in S : C(x) <= k
  BY <1>3
<1>5. ASSUME NEW y \in T, <<y, x>> \in R  PROVE FALSE
  <2>1. below(y) \subseteq below(x) /\ y \in below(x) /\ y \notin below(y)
    BY <1>5
  <2>. HIDE DEF below
  <2>2. C(y) <= C(x) /\ (C(y) = C(x) => below(y) = below(x))
    BY <1>1, <2>1, FS_Subset DEF C
  <2>3. C(y) < C(x)
    BY <1>1, <2>1, <2>2
  <2>4. C(x) <= C(y)
    BY <1>4
  <2>. QED
    BY <1>1, <2>3, <2>4
<1>. QED
  BY <1>5

LEMMA LessTransitive ==
    ASSUME NEW x, NEW y, NEW z, Less(x, y), Less(y, z)
    PROVE  Less(x, z)
<1>1. PICK a \in Pairs : /\ ends(a) \notin x /\ ends(a) \in y
                         /\ \A d \in Pairs : Earlier(d, a) => (ends(d) \in x <=> ends(d) \in y)
  BY DEF Less
<1>2. PICK b \in Pairs : /\ ends(b) \notin y /\ ends(b) \in z
                         /\ \A d \in Pairs : Earlier(d, b) => (ends(d) \in y <=> ends(d) \in z)
  BY DEF Less
<1>3. CASE Earlier(a, b)
  <2>1. \A d \in Pairs : Earlier(d, a) => Earlier(d, b)
    BY <1>3, EarlierFacts
  <2>. QED
    BY <1>1, <1>2, <1>3, <2>1 DEF Less
<1>4. CASE Earlier(b, a)
  <2>1. \A d \in Pairs : Earlier(d, b) => Earlier(d, a)
    BY <1>4, EarlierFacts
  <2>. QED
    BY <1>1, <1>2, <1>4, <2>1 DEF Less
<1>. QED
  BY <1>1, <1>2, <1>3, <1>4, EarlierFacts

LEMMA LessTotal ==
    ASSUME NEW g, g \subseteq AllEdges, NEW h, h \subseteq AllEdges, g # h
    PROVE  Less(g, h) \/ Less(h, g)
<1>. DEFINE T == {c \in Pairs : ~ (ends(c) \in g <=> ends(c) \in h)}
            R == {e \in T \X T : Earlier(e[1], e[2])}
<1>1. T # {}
  <2>1. \E d \in AllEdges : ~ (d \in g <=> d \in h)
    OBVIOUS
  <2>. QED
    BY <2>1, EdgePair
<1>2. IsFiniteSet(T)
  <2>1. T \subseteq Pairs
    OBVIOUS
  <2>. QED
    BY <2>1, PairsFinite, FS_Subset
<1>3. \A x \in T : x \in Pairs
  OBVIOUS
<1>4. \A x, y \in T : <<x, y>> \in R <=> Earlier(x, y)
  OBVIOUS
<1>5. PICK c \in T : \A d \in T : <<d, c>> \notin R
  <2>. HIDE DEF T, R
  <2>1. \A x \in T : <<x, x>> \notin R
    BY <1>3, <1>4, EarlierFacts
  <2>2. \A x, y, z \in T : <<x, y>> \in R /\ <<y, z>> \in R => <<x, z>> \in R
    BY <1>3, <1>4, EarlierFacts
  <2>. QED
    BY <1>1, <1>2, <2>1, <2>2, MinimalIn
<1>6. \A d \in Pairs : Earlier(d, c) => (ends(d) \in g <=> ends(d) \in h)
  BY <1>4, <1>5
<1>. QED
  BY <1>5, <1>6 DEF Less

(***************************************************************************)
(* Each class under rotations and reflections has one graph that symmetry  *)
(* breaking leaves.                                                        *)
(***************************************************************************)
Leads(g) == \A p \in dihedralGroupPermutations : lexLessEq(g, p)

\* The vector of the images is that of the graph moved by the inverse.
LEMMA LexIsLess ==
    ASSUME NEW p \in dihedralGroupPermutations, NEW q \in dihedralGroupPermutations,
           \A x \in V : q[p[x]] = x /\ p[q[x]] = x,
           NEW g, g \subseteq AllEdges
    PROVE  lexLessEq(g, p) <=> Moved(q, g) = g \/ Less(g, Moved(q, g))
<1>. DEFINE h == Moved(q, g)
<1>1. h = {d \in AllEdges : Carried(p, d) \in g}
  BY MovedBy
<1>. HIDE DEF h
<1>2. ASSUME NEW c \in Pairs  PROVE Image(p, c) \in g <=> ends(c) \in h
  <2>1. Carried(p, ends(c)) = Image(p, c) /\ ends(c) \in AllEdges
    <3>1. c[1] \in V /\ c[2] \in V /\ c[1] # c[2] /\ ends(c) \in AllEdges /\ ends(c) = Edge(c[1], c[2])
      BY PairFacts
    <3>. QED
      BY <3>1, CarriedEnds DEF Image
  <2>. QED
    BY <1>1, <2>1
<1>3. (\A c \in Pairs : ends(c) \in g <=> Image(p, c) \in g) <=> h = g
  <2>1. ASSUME \A c \in Pairs : ends(c) \in g <=> Image(p, c) \in g  PROVE h = g
    <3>1. \A d \in AllEdges : d \in g <=> d \in h
      BY <1>2, <2>1, EdgePair
    <3>. QED
      BY <1>1, <3>1
  <2>. QED
    BY <1>2, <2>1
<1>4. (\E c \in Pairs : /\ ends(c) \notin g /\ Image(p, c) \in g
                        /\ \A d \in Pairs : Earlier(d, c) => (ends(d) \in g <=> Image(p, d) \in g))
        <=> Less(g, h)
  BY <1>2 DEF Less
<1>. QED
  BY <1>3, <1>4 DEF lexLessEq, h

LEMMA LeadsIs ==
    ASSUME NEW g, g \subseteq AllEdges
    PROVE  Leads(g) <=> \A q \in dihedralGroupPermutations : Moved(q, g) = g \/ Less(g, Moved(q, g))
<1>1. ASSUME NEW p \in dihedralGroupPermutations
      PROVE  \E q \in dihedralGroupPermutations : lexLessEq(g, p) <=> Moved(q, g) = g \/ Less(g, Moved(q, g))
  BY Inverted, LexIsLess
<1>2. ASSUME NEW q \in dihedralGroupPermutations
      PROVE  \E p \in dihedralGroupPermutations : lexLessEq(g, p) <=> Moved(q, g) = g \/ Less(g, Moved(q, g))
  <2>1. PICK p \in dihedralGroupPermutations : \A x \in V : p[q[x]] = x /\ q[p[x]] = x
    BY Inverted
  <2>. QED
    BY <2>1, LexIsLess
<1>. QED
  BY <1>1, <1>2 DEF Leads

LEMMA OneLeads ==
    ASSUME NEW g \in Graphs
    PROVE  \E l \in Orbit(g) : Leads(l) /\ \A h \in Orbit(g) : Leads(h) => h = l
<1>. DEFINE T == Orbit(g)
            R == {e \in T \X T : Less(e[1], e[2])}
<1>1. T = {Moved(p, g) : p \in dihedralGroupPermutations}
  BY OrbitIs
<1>2. ASSUME NEW h \in T  PROVE h \in Graphs /\ h \subseteq AllEdges
  BY <1>1, MovedIn, GraphIs
<1>3. IsFiniteSet(T) /\ T # {}
  <2>1. T \subseteq SUBSET AllEdges
    BY <1>2
  <2>2. IsFiniteSet(SUBSET AllEdges)
    BY AllEdgesFinite, FS_SUBSET
  <2>3. IsFiniteSet(T)
    BY <2>1, <2>2, FS_Subset
  <2>. QED
    BY <1>1, <2>3, Identity
<1>. HIDE DEF T
<1>4. \A x, y \in T : <<x, y>> \in R <=> Less(x, y)
  OBVIOUS
<1>5. PICK l \in T : \A h \in T : ~ Less(h, l)
  <2>1. \A x \in T : <<x, x>> \notin R
    BY <1>4 DEF Less
  <2>2. \A x, y, z \in T : <<x, y>> \in R /\ <<y, z>> \in R => <<x, z>> \in R
    BY <1>4, LessTransitive
  <2>. HIDE DEF R
  <2>3. \E l \in T : \A h \in T : <<h, l>> \notin R
    BY <1>3, <2>1, <2>2, MinimalIn
  <2>. QED
    BY <1>4, <2>3
<1>6. ASSUME NEW h \in T, NEW p \in dihedralGroupPermutations  PROVE Moved(p, h) \in T
  <2>1. PICK q \in dihedralGroupPermutations : h = Moved(q, g)
    BY <1>1
  <2>2. \E r \in dihedralGroupPermutations : Moved(r, g) = Moved(p, h)
    BY <2>1, GraphIs, MovedTwice
  <2>. QED
    BY <1>1, <2>2
<1>7. Leads(l)
  <2>1. ASSUME NEW q \in dihedralGroupPermutations  PROVE Moved(q, l) = l \/ Less(l, Moved(q, l))
    <3>1. Moved(q, l) \in T
      BY <1>6
    <3>. QED
      BY <1>2, <1>5, <3>1, LessTotal
  <2>. QED
    BY <1>2, <2>1, LeadsIs
<1>8. ASSUME NEW h \in T, Leads(h)  PROVE h = l
  <2>1. PICK p \in dihedralGroupPermutations : h = Moved(p, g)
    BY <1>1
  <2>2. PICK q \in dihedralGroupPermutations : \A x \in V : q[p[x]] = x /\ p[q[x]] = x
    BY Inverted
  <2>3. Moved(q, h) = g
    BY <2>1, <2>2, GraphIs, MovedBy
  <2>4. PICK r \in dihedralGroupPermutations : l = Moved(r, g)
    BY <1>1
  <2>5. PICK s \in dihedralGroupPermutations : Moved(s, h) = l
    BY <1>2, <2>3, <2>4, MovedTwice
  <2>6. l = h \/ Less(h, l)
    BY <1>2, <1>8, <2>5, LeadsIs
  <2>. QED
    BY <1>5, <2>6
<1>. QED
  BY <1>5, <1>7, <1>8 DEF T

-----------------------------------------------------------------------------
(***************************************************************************)
(* Degrees, numbers and lengths of chords.                                 *)
(***************************************************************************)
LEMMA CycleNeighbours ==
    ASSUME NEW i \in V
    PROVE  /\ Mod(i + 1) \in V /\ Mod(i - 1) \in V /\ Mod(i + 1) # Mod(i - 1)
           /\ Mod(i + 1) # i /\ Mod(i - 1) # i
           /\ \A y : Edge(i, y) \in Cycle <=> y = Mod(i + 1) \/ y = Mod(i - 1)
<1>1. N \in Nat /\ N >= 3 /\ i \in Int /\ 0 <= i /\ i < N /\ 1 \in V
  BY VFacts, InV
<1>2. /\ Mod(i + 1) = IF i + 1 < N THEN i + 1 ELSE i + 1 - N
      /\ Mod(i - 1) = IF i < 1 THEN i - 1 + N ELSE i - 1
      /\ Mod(i + 1) \in V /\ Mod(i - 1) \in V
  BY <1>1, ModSum
<1>3. Mod(i + 1) # Mod(i - 1) /\ Mod(i + 1) # i /\ Mod(i - 1) # i
  BY <1>1, <1>2
<1>4. Edge(i, Mod(i + 1)) \in Cycle
  BY DEF Cycle
<1>5. Edge(i, Mod(i - 1)) \in Cycle
  <2>1. i = Mod(i - 1) + 1 \/ (i = 0 /\ Mod(i - 1) = N - 1)
    BY <1>1, <1>2
  <2>. QED
    BY <1>2, <2>1, CycleEdge
<1>. QED
  BY <1>2, <1>3, <1>4, <1>5, FixedNbrs

LEMMA PairSize == ASSUME NEW a, NEW b, a # b  PROVE IsFiniteSet({a, b}) /\ Cardinality({a, b}) = 2
<1>1. IsFiniteSet({a}) /\ Cardinality({a}) = 1
  BY FS_Singleton
<1>2. IsFiniteSet({a} \cup {b}) /\ Cardinality({a} \cup {b}) = 1 + 1
  BY <1>1, FS_AddElement
<1>3. {a} \cup {b} = {a, b}
  OBVIOUS
<1>. QED
  BY <1>2, <1>3

\* All neighbours of a vertex but the two of the fixed cycle are ends of chords.
LEMMA SumOfRow ==
    ASSUME NEW g \in Graphs, NEW i \in V, NEW Z, g \cap Z = {}
    PROVE  /\ deg(g, i) \in Nat
           /\ sum(g, {Edge(i, j) : j \in V \ {i}} \ (Cycle \cup Z)) = deg(g, i) - 2
<1>. DEFINE A == Nbrs(g, i)
            B == {Mod(i + 1), Mod(i - 1)}
            S == g \cap ({Edge(i, j) : j \in V \ {i}} \ (Cycle \cup Z))
            f == [j \in A \ B |-> Edge(i, j)]
<1>1. Cycle \subseteq g
  BY GraphIs
<1>2. IsFiniteSet(A) /\ A \subseteq V /\ i \notin A /\ \A j \in V \ {i} : j \in A <=> Edge(i, j) \in g
  <2>1. \A j : Edge(i, j) = Edge(j, i)
    BY DEF Edge
  <2>2. \A j \in V \ {i} : j \in A <=> Edge(i, j) \in g
    BY <2>1 DEF Nbrs
  <2>. QED
    BY <2>2, NbrsFacts
<1>3. B \subseteq A /\ IsFiniteSet(B) /\ Cardinality(B) = 2 /\ \A y : Edge(i, y) \in Cycle <=> y \in B
  <2>1. IsFiniteSet(B) /\ Cardinality(B) = 2
    BY CycleNeighbours, PairSize
  <2>2. Mod(i + 1) \in A /\ Mod(i - 1) \in A
    BY <1>1, <1>2, CycleNeighbours
  <2>. QED
    BY <2>1, <2>2, CycleNeighbours
<1>. HIDE DEF A, B
<1>4. Cardinality(A) \in Nat /\ IsFiniteSet(A \ B) /\ Cardinality(A \ B) = Cardinality(A) - 2
  <2>1. A \cap B = B
    BY <1>3
  <2>2. Cardinality(A) \in Nat
    BY <1>2, FS_CardinalityType
  <2>3. IsFiniteSet(A \ B) /\ Cardinality(A \ B) = Cardinality(A) - Cardinality(A \cap B)
    BY <1>2, FS_Difference
  <2>. QED
    BY <1>3, <2>1, <2>2, <2>3
<1>5. f \in Bijection(A \ B, S)
  <2>1. \A j \in A \ B : j \in V \ {i} /\ Edge(i, j) \in S /\ f[j] = Edge(i, j)
    BY <1>2, <1>3
  <2>2. f \in [A \ B -> S]
    BY <2>1
  <2>3. ASSUME NEW d \in S  PROVE \E j \in A \ B : f[j] = d
    <3>1. PICK j \in V \ {i} : d = Edge(i, j)
      OBVIOUS
    <3>2. j \in A \ B
      BY <1>2, <1>3, <3>1
    <3>. QED
      BY <2>1, <3>1, <3>2
  <2>4. ASSUME NEW j \in A \ B, NEW k \in A \ B, f[j] = f[k]  PROVE j = k
    <3>1. Edge(i, j) = Edge(i, k)
      BY <2>1, <2>4
    <3>. QED
      BY <3>1, EdgeEnds
  <2>. HIDE DEF f, S
  <2>. QED
    BY <2>2, <2>3, <2>4 DEF Bijection, Injection, Surjection, IsInjective
<1>6. Cardinality(S) = Cardinality(A \ B)
  <2>1. ExistsBijection(A \ B, S)
    BY <1>5 DEF ExistsBijection
  <2>. QED
    BY <1>4, <2>1, FS_Bijection
<1>. QED
  BY <1>4, <1>6 DEF deg, sum, A

LEMMA CycleSize == IsFiniteSet(Cycle) /\ Cardinality(Cycle) = N
<1>. DEFINE f == [i \in V |-> Edge(i, Mod(i + 1))]
<1>1. f \in [V -> Cycle] /\ \A d \in Cycle : \E i \in V : f[i] = d
  BY DEF Cycle
<1>2. ASSUME NEW i \in V, NEW j \in V, f[i] = f[j]  PROVE i = j
  <2>1. Edge(i, Mod(i + 1)) = Edge(j, Mod(j + 1))
    BY <1>2
  <2>2. i = j \/ (i = Mod(j + 1) /\ Mod(i + 1) = j)
    BY <2>1, EdgeEnds
  <2>3. N \in Nat /\ N >= 3 /\ i \in Int /\ 0 <= i /\ i < N /\ j \in Int /\ 0 <= j /\ j < N /\ 1 \in V
    BY VFacts, InV
  <2>4. /\ Mod(i + 1) = IF i + 1 < N THEN i + 1 ELSE i + 1 - N
        /\ Mod(j + 1) = IF j + 1 < N THEN j + 1 ELSE j + 1 - N
    BY <2>3, ModSum
  <2>. QED
    BY <2>2, <2>3, <2>4
<1>. HIDE DEF f
<1>3. f \in Bijection(V, Cycle)
  BY <1>1, <1>2 DEF Bijection, Injection, Surjection, IsInjective
<1>4. ExistsBijection(V, Cycle)
  BY <1>3 DEF ExistsBijection
<1>. QED
  BY <1>4, VFacts, FS_Bijection

LEMMA SumOfChords ==
    ASSUME NEW g \in Graphs, NEW cnt \in Int
    PROVE  sum(g, AllEdges \ Cycle) = cnt <=> Cardinality(g) = N + cnt
<1>. DEFINE S == g \cap (AllEdges \ Cycle)
<1>1. Cycle \subseteq g /\ g \subseteq AllEdges
  BY GraphIs
<1>2. IsFiniteSet(g) /\ Cardinality(g) \in Nat
  BY <1>1, AllEdgesFinite, FS_Subset, FS_CardinalityType
<1>3. S = g \ Cycle /\ g \cap Cycle = Cycle
  BY <1>1
<1>4. Cardinality(S) = Cardinality(g) - N
  <2>1. Cardinality(g \ Cycle) = Cardinality(g) - Cardinality(g \cap Cycle)
    BY <1>2, FS_Difference
  <2>2. Cardinality(Cycle) = N
    BY CycleSize
  <2>. QED
    BY <1>3, <2>1, <2>2
<1>. QED
  BY <1>2, <1>4, VFacts DEF sum

LEMMA Half == N \div 2 \in Nat /\ \A k \in Int : k <= N \div 2 <=> 2 * k <= N
<1>1. N \in Nat
  BY VFacts
<1>. QED
  BY <1>1

\* The chords that the loops meet have the length they are meant to have.
LEMMA KchordsAre ==
    ASSUME NEW k \in 2 .. N \div 2
    PROVE  /\ \A d \in kchords(k) : \E c \in Chords : d = ends(c) /\ cycleDist(c[1], c[2]) = k
           /\ \A c \in Chords : cycleDist(c[1], c[2]) = k => ends(c) \in kchords(k)
<1>1. N \in Nat /\ N >= 3 /\ k \in Int /\ 2 <= k /\ 2 * k <= N /\ k < N /\ k \in V
  <2>1. N \in Nat /\ N >= 3 /\ k \in Int /\ 2 <= k /\ 2 * k <= N /\ k < N
    BY VFacts, Half
  <2>. QED
    BY <2>1, InV
<1>2. ASSUME NEW i \in V
      PROVE  \E c \in Chords : chord(i, k) = ends(c) /\ cycleDist(c[1], c[2]) = k
  <2>. DEFINE a == Mod(i - k)
  <2>1. a \in V /\ a = IF i < k THEN i - k + N ELSE i - k
    BY <1>1, ModSum
  <2>2. chord(i, k) = Edge(a, i)
    BY DEF chord
  <2>. HIDE DEF a
  <2>3. i \in Int /\ 0 <= i /\ i < N /\ a \in Int /\ 0 <= a /\ a < N
    BY <2>1, InV
  <2>4. CASE a < i
    <3>1. i - a = k
      BY <1>1, <2>1, <2>3, <2>4
    <3>2. cycleDist(a, i) = IF N - (i - a) < i - a THEN N - (i - a) ELSE i - a
      BY <2>1, <2>4, CycleDistIs
    <3>3. cycleDist(a, i) = k /\ k # 1
      BY <1>1, <3>1, <3>2
    <3>4. <<a, i>> \in Chords /\ ends(<<a, i>>) = Edge(a, i)
      BY <2>1, <2>4, <3>3 DEF Chords, Chord, ends
    <3>. QED
      BY <2>2, <3>3, <3>4
  <2>5. CASE i < a
    <3>1. a - i = N - k
      BY <1>1, <2>1, <2>3, <2>5
    <3>2. cycleDist(i, a) = IF N - (a - i) < a - i THEN N - (a - i) ELSE a - i
      BY <2>1, <2>5, CycleDistIs
    <3>3. cycleDist(i, a) = k /\ k # 1
      BY <1>1, <3>1, <3>2
    <3>4. <<i, a>> \in Chords /\ ends(<<i, a>>) = Edge(a, i)
      BY <2>1, <2>5, <3>3 DEF Chords, Chord, ends, Edge
    <3>. QED
      BY <2>2, <3>3, <3>4
  <2>6. a # i
    BY <1>1, <2>1, <2>3
  <2>. QED
    BY <2>3, <2>4, <2>5, <2>6
<1>3. ASSUME NEW c \in Chords, cycleDist(c[1], c[2]) = k  PROVE \E i \in V : ends(c) = chord(i, k)
  <2>. DEFINE x == c[1]
              y == c[2]
  <2>1. x \in V /\ y \in V /\ x < y
    BY ChordFacts
  <2>2. x \in Int /\ 0 <= x /\ x < N /\ y \in Int /\ 0 <= y /\ y < N
    BY <2>1, InV
  <2>3. cycleDist(x, y) = IF N - (y - x) < y - x THEN N - (y - x) ELSE y - x
    BY <2>1, CycleDistIs
  <2>4. ends(c) = Edge(x, y)
    BY DEF ends
  <2>5. cycleDist(x, y) = k
    BY <1>3
  <2>. HIDE DEF x, y
  <2>6. y - x = k \/ y - x = N - k
    BY <1>1, <2>2, <2>3, <2>5
  <2>7. CASE y - x = k
    <3>1. Mod(y - k) = IF y < k THEN y - k + N ELSE y - k
      BY <1>1, <2>1, ModSum
    <3>2. Mod(y - k) = x
      BY <1>1, <2>2, <2>7, <3>1
    <3>. QED
      BY <2>1, <2>4, <3>2 DEF chord
  <2>8. CASE y - x = N - k
    <3>1. Mod(x - k) = IF x < k THEN x - k + N ELSE x - k
      BY <1>1, <2>1, ModSum
    <3>2. Mod(x - k) = y
      BY <1>1, <2>2, <2>8, <3>1
    <3>. QED
      BY <2>1, <2>4, <3>2 DEF chord, Edge
  <2>. QED
    BY <2>6, <2>7, <2>8
<1>. QED
  BY <1>2, <1>3 DEF kchords

LEMMA LengthsIn ==
    ASSUME NEW g
    PROVE  lengths(g) \subseteq 2 .. N \div 2
<1>1. ASSUME NEW c \in Chords  PROVE cycleDist(c[1], c[2]) \in 2 .. N \div 2
  <2>. DEFINE x == c[1]
              y == c[2]
              k == cycleDist(x, y)
  <2>1. x \in V /\ y \in V /\ x < y /\ y - x >= 2 /\ y - x <= N - 2
    BY ChordFacts
  <2>2. x \in Int /\ 0 <= x /\ x < N /\ y \in Int /\ 0 <= y /\ y < N /\ N \in Nat
    BY <2>1, InV, VFacts
  <2>3. k = IF N - (y - x) < y - x THEN N - (y - x) ELSE y - x
    BY <2>1, CycleDistIs
  <2>. HIDE DEF x, y, k
  <2>4. k \in Int /\ 2 <= k /\ 2 * k <= N
    BY <2>1, <2>2, <2>3
  <2>5. k \in 2 .. N \div 2
    BY <2>4, Half
  <2>. QED
    BY <2>5 DEF k, x, y
<1>. QED
  BY <1>1 DEF lengths

LEMMA LengthMeans ==
    ASSUME NEW k \in 2 .. N \div 2
    PROVE  /\ \A g : k \in lengths(g) <=> g \cap kchords(k) # {}
           /\ kchords(k) \cap Cycle = {}
<1>1. \A g : k \in lengths(g) <=> g \cap kchords(k) # {}
  BY KchordsAre DEF lengths
<1>2. kchords(k) \cap Cycle = {}
  BY KchordsAre, ChordFacts
<1>. QED
  BY <1>1, <1>2

-----------------------------------------------------------------------------
(***************************************************************************)
(* What each option leaves of the graphs allowed.                          *)
(***************************************************************************)
\* The variables at 0 are at 0 in every graph allowed.
Clean(m) == \A g \in m.allowed : g \cap m.zeros = {}

LEMMA Allowed ==
    ASSUME NEW m \in Model
    PROVE  /\ m.allowed \subseteq Graphs
           /\ Clean(m) => \A g \in m.allowed : g \in Graphs /\ g \cap m.zeros = {}
BY DEF Model, Clean

LEMMA PostClean ==
    ASSUME NEW m \in Model, Clean(m), NEW gs
    PROVE  Clean(Post(m, gs))
BY PostType DEF Clean

LEMMA RowsPosted ==
    ASSUME NEW m \in Model, NEW gs, ~ PostRows(m, gs).crashed
    PROVE  PostRows(m, gs) = Post(m, gs)
BY SumsType DEF PostRows

LEMMA FixDegreesMeans ==
    ASSUME NEW m \in Model, Clean(m), NEW ds, \A i \in V : ds[i] \in Int, ~ fixDegrees(m, ds).crashed
    PROVE  /\ Clean(fixDegrees(m, ds))
           /\ fixDegrees(m, ds).allowed = {g \in m.allowed : \A i \in V : deg(g, i) = ds[i]}
<1>. DEFINE gs == {g \in m.allowed : \A i \in V : sum(g, row(m, i)) = ds[i] - 2}
<1>1. fixDegrees(m, ds) = Post(m, gs)
  BY RowsPosted DEF fixDegrees
<1>2. ASSUME NEW g \in m.allowed, NEW i \in V
      PROVE  sum(g, row(m, i)) = ds[i] - 2 <=> deg(g, i) = ds[i]
  <2>1. deg(g, i) \in Nat /\ sum(g, row(m, i)) = deg(g, i) - 2
    BY Allowed, SumOfRow DEF row
  <2>. QED
    BY <2>1
<1>3. gs = {g \in m.allowed : \A i \in V : deg(g, i) = ds[i]}
  BY <1>2
<1>. HIDE DEF gs
<1>. QED
  BY <1>1, <1>3, PostClean, PostType

LEMMA MinDegreeMeans ==
    ASSUME NEW m \in Model, Clean(m), NEW d \in Int, ~ minDegree(m, d).crashed
    PROVE  /\ Clean(minDegree(m, d))
           /\ minDegree(m, d).allowed = {g \in m.allowed : \A i \in V : deg(g, i) >= d}
<1>. DEFINE gs == {g \in m.allowed : \A i \in V : sum(g, row(m, i)) > d - 3}
<1>1. minDegree(m, d) = Post(m, gs)
  BY RowsPosted DEF minDegree
<1>2. ASSUME NEW g \in m.allowed, NEW i \in V
      PROVE  sum(g, row(m, i)) > d - 3 <=> deg(g, i) >= d
  <2>1. deg(g, i) \in Nat /\ sum(g, row(m, i)) = deg(g, i) - 2
    BY Allowed, SumOfRow DEF row
  <2>. QED
    BY <2>1
<1>3. gs = {g \in m.allowed : \A i \in V : deg(g, i) >= d}
  BY <1>2
<1>. HIDE DEF gs
<1>. QED
  BY <1>1, <1>3, PostClean, PostType

LEMMA MaxDegreeMeans ==
    ASSUME NEW m \in Model, Clean(m), NEW d \in Int, ~ maxDegree(m, d).crashed
    PROVE  /\ Clean(maxDegree(m, d))
           /\ maxDegree(m, d).allowed = {g \in m.allowed : \A i \in V : deg(g, i) <= d}
<1>. DEFINE gs == {g \in m.allowed : \A i \in V : sum(g, row(m, i)) < d - 1}
<1>1. maxDegree(m, d) = Post(m, gs)
  BY RowsPosted DEF maxDegree
<1>2. ASSUME NEW g \in m.allowed, NEW i \in V
      PROVE  sum(g, row(m, i)) < d - 1 <=> deg(g, i) <= d
  <2>1. deg(g, i) \in Nat /\ sum(g, row(m, i)) = deg(g, i) - 2
    BY Allowed, SumOfRow DEF row
  <2>. QED
    BY <2>1
<1>3. gs = {g \in m.allowed : \A i \in V : deg(g, i) <= d}
  BY <1>2
<1>. HIDE DEF gs
<1>. QED
  BY <1>1, <1>3, PostClean, PostType

LEMMA NumberMeans ==
    ASSUME NEW m \in Model, Clean(m), NEW cnt \in Int, ~ numberOfChords(m, cnt).crashed
    PROVE  /\ Clean(numberOfChords(m, cnt))
           /\ numberOfChords(m, cnt).allowed = {g \in m.allowed : Cardinality(g) = N + cnt}
<1>. DEFINE gs == {g \in m.allowed : sum(g, AllEdges \ Cycle) = cnt}
<1>1. numberOfChords(m, cnt) = Post(m, gs)
  BY SumsType DEF numberOfChords, PostChords
<1>2. gs = {g \in m.allowed : Cardinality(g) = N + cnt}
  BY Allowed, SumOfChords
<1>. HIDE DEF gs
<1>. QED
  BY <1>1, <1>2, PostClean, PostType

\* Forbidding the lengths L and demanding the length k.
OfLengths(m, k, L) == Post(fixToZero(m, UNION {kchords(len) : len \in L}),
                           {g \in m.allowed : g \cap kchords(k) # {}})

LEMMA LengthsPosted ==
    ASSUME NEW m \in Model, Clean(m), NEW k \in 2 .. N \div 2, NEW L, L \subseteq 2 .. N \div 2
    PROVE  /\ Clean(OfLengths(m, k, L))
           /\ \A g : g \in OfLengths(m, k, L).allowed <=>
                      g \in m.allowed /\ k \in lengths(g) /\ lengths(g) \cap L = {}
<1>. DEFINE edges == UNION {kchords(len) : len \in L}
            new == OfLengths(m, k, L)
            fixed == fixToZero(m, edges)
            gs == {g \in m.allowed : g \cap kchords(k) # {}}
<1>1. edges \subseteq SUBSET V /\ edges \cap Cycle = {}
  <2>1. \A len \in L : len \in Int /\ len \in 2 .. N \div 2
    BY Half
  <2>2. \A len \in L : kchords(len) \subseteq SUBSET V /\ kchords(len) \cap Cycle = {}
    BY <2>1, KchordsIn, LengthMeans
  <2>. QED
    BY <2>2
<1>2. ASSUME NEW g  PROVE g \cap edges = {} <=> lengths(g) \cap L = {}
  <2>1. \A len \in L : len \in lengths(g) <=> g \cap kchords(len) # {}
    BY LengthMeans
  <2>. QED
    BY <2>1
<1>3. new = Post(fixed, gs)
  BY DEF OfLengths
<1>. HIDE DEF new, edges
<1>4. edges \ Cycle = edges
  BY <1>1
<1>5. /\ fixed \in Model /\ fixed.zeros = m.zeros \cup edges /\ fixed.crashed = m.crashed
      /\ fixed.allowed = {g \in m.allowed : g \cap edges = {}}
  BY <1>1, <1>4, FixType
<1>6. Clean(fixed)
  BY <1>5 DEF Clean
<1>. HIDE DEF fixed
<1>7. gs = {g \in m.allowed : k \in lengths(g)}
  BY LengthMeans
<1>. HIDE DEF gs
<1>8. Clean(new) /\ new.allowed = fixed.allowed \cap gs
  <2>1. Clean(Post(fixed, gs))
    BY <1>5, <1>6, PostClean
  <2>2. Post(fixed, gs).allowed = fixed.allowed \cap gs /\ Post(fixed, gs).crashed = fixed.crashed
    BY <1>5, PostType
  <2>. QED
    BY <1>5, <1>3, <2>1, <2>2
<1>. QED
  BY <1>5, <1>2, <1>7, <1>8 DEF new

LEMMA ShortestMeans ==
    ASSUME NEW m \in Model, Clean(m), NEW k \in 2 .. N \div 2
    PROVE  /\ Clean(shortestChord(m, k))
           /\ shortestChord(m, k).allowed = {g \in m.allowed : lengths(g) # {} /\ Min(lengths(g)) = k}
<1>. DEFINE L == 2 .. k - 1
            new == OfLengths(m, k, L)
<1>1. shortestChord(m, k) = new
  BY DEF shortestChord, OfLengths
<1>2. L \subseteq 2 .. N \div 2
  BY Half
<1>. HIDE DEF L
<1>3. /\ Clean(new)
      /\ \A g : g \in new.allowed <=> g \in m.allowed /\ k \in lengths(g) /\ lengths(g) \cap L = {}
  BY <1>2, LengthsPosted
<1>. HIDE DEF new
<1>4. ASSUME NEW g  PROVE k \in lengths(g) /\ lengths(g) \cap L = {} <=> lengths(g) # {} /\ Min(lengths(g)) = k
  <2>. DEFINE S == lengths(g)
  <2>1. S \subseteq 2 .. N \div 2 /\ S \subseteq Nat
    BY LengthsIn, Half
  <2>2. S # {} => Min(S) \in S /\ \A y \in S : Min(S) <= y
    <3>. HIDE DEF S
    <3>. QED
      BY <2>1, MinOf
  <2>. HIDE DEF S
  <2>3. S \cap L = {} <=> \A y \in S : k <= y
    BY <2>1 DEF L
  <2>4. \A y \in S : y \in Int
    BY <2>1
  <2>5. k \in S /\ (\A y \in S : k <= y) <=> S # {} /\ Min(S) = k
    BY <2>2, <2>4
  <2>. QED
    BY <2>3, <2>5 DEF S
<1>. QED
  BY <1>1, <1>3, <1>4

LEMMA LongestMeans ==
    ASSUME NEW m \in Model, Clean(m), NEW k \in 2 .. N \div 2
    PROVE  /\ Clean(longestChord(m, k))
           /\ longestChord(m, k).allowed = {g \in m.allowed : lengths(g) # {} /\ Max(lengths(g)) = k}
<1>. DEFINE L == k + 1 .. N \div 2
            new == OfLengths(m, k, L)
<1>1. longestChord(m, k) = new
  BY DEF longestChord, OfLengths
<1>2. L \subseteq 2 .. N \div 2
  BY Half
<1>. HIDE DEF L
<1>3. /\ Clean(new)
      /\ \A g : g \in new.allowed <=> g \in m.allowed /\ k \in lengths(g) /\ lengths(g) \cap L = {}
  BY <1>2, LengthsPosted
<1>. HIDE DEF new
<1>4. ASSUME NEW g  PROVE k \in lengths(g) /\ lengths(g) \cap L = {} <=> lengths(g) # {} /\ Max(lengths(g)) = k
  <2>. DEFINE S == lengths(g)
  <2>1. S \subseteq 2 .. N \div 2 /\ S \subseteq 0 .. N \div 2 /\ N \div 2 \in Nat
    BY LengthsIn, Half
  <2>2. S # {} => Max(S) \in S /\ \A y \in S : y <= Max(S)
    <3>. HIDE DEF S
    <3>. QED
      BY <2>1, MaxOf
  <2>. HIDE DEF S
  <2>3. S \cap L = {} <=> \A y \in S : y <= k
    BY <2>1 DEF L
  <2>4. \A y \in S : y \in Int
    BY <2>1
  <2>5. k \in S /\ (\A y \in S : y <= k) <=> S # {} /\ Max(S) = k
    BY <2>2, <2>4
  <2>. QED
    BY <2>3, <2>5 DEF S
<1>. QED
  BY <1>1, <1>3, <1>4

LEMMA GirthPosted ==
    ASSUME NEW m \in Model, Clean(m), NEW k \in Int
    PROVE  /\ Clean(girthAtLeast(m, k))
           /\ girthAtLeast(m, k).allowed = {g \in m.allowed : GirthOf(g) >= k}
<1>. DEFINE gs == {g \in m.allowed : \A len \in 3 .. k - 1 : ~ HasCycle(g, len)}
<1>1. girthAtLeast(m, k) = Post(m, gs)
  BY DEF girthAtLeast
<1>2. gs = {g \in m.allowed : GirthOf(g) >= k}
  BY Allowed, GirthMeans
<1>. HIDE DEF gs
<1>. QED
  BY <1>1, <1>2, PostClean, PostType

LEMMA BreakingMeans ==
    ASSUME NEW m \in Model, Clean(m)
    PROVE  /\ Clean(symmetryBreaking(m))
           /\ symmetryBreaking(m).allowed = {g \in m.allowed : Leads(g)}
<1>. DEFINE gs == {g \in m.allowed : Leads(g)}
<1>1. symmetryBreaking(m) = Post(m, gs)
  BY DEF symmetryBreaking, Leads
<1>. HIDE DEF gs
<1>2. gs = {g \in m.allowed : Leads(g)}
  BY DEF gs
<1>. QED
  BY <1>1, <1>2, PostClean, PostType

\* The degree sequences are sequences of numbers.
LEMMA SequencesAre ==
    ASSUME NEW k \in 0 .. Len(nearlyCubicDS) - 1
    PROVE  \A i \in V : nearlyCubicDS[k + 1][i] \in Int
<1>. DEFINE n == Cardinality(Pairs)
            ds(j) == LET c == CHOOSE c \in Pairs : Cardinality({d \in Pairs : Earlier(d, c)}) = j - 1
                     IN [i \in V |-> IF i \in ends(c) THEN 4 ELSE 3]
            s == [j \in 1 .. n |-> ds(j)]
<1>1. n \in Nat
  BY PairsFinite, FS_CardinalityType
<1>2. nearlyCubicDS = s
  BY DEF nearlyCubicDS
<1>3. \A j : ds(j) \in [V -> {3, 4}]
  OBVIOUS
<1>. HIDE DEF ds, n
<1>4. s \in Seq([V -> {3, 4}]) /\ Len(s) = n
  BY <1>1, <1>3
<1>5. k + 1 \in 1 .. n
  BY <1>1, <1>2, <1>4
<1>6. s[k + 1] \in [V -> {3, 4}]
  BY <1>3, <1>5
<1>. QED
  BY <1>2, <1>6

-----------------------------------------------------------------------------
(***************************************************************************)
(* What the command line l says of a graph g, option by option, and what   *)
(* the options that main has looked at say when it comes to the option a.  *)
(***************************************************************************)
NoSBSays(l, g) == l.sb => Leads(g)
NearlyCubicSays(l, g) == l.dsIndex \in 0 .. Len(nearlyCubicDS) - 1 =>
                            \A x \in V : deg(g, x) = nearlyCubicDS[l.dsIndex + 1][x]
MinDegSays(l, g) == l.minDeg > 0 => \A x \in V : deg(g, x) >= l.minDeg
MaxDegSays(l, g) == l.maxDeg > -1 => \A x \in V : deg(g, x) <= l.maxDeg
NumberSays(l, g) == l.chords > -1 => Cardinality(g) = N + l.chords
ShortestSays(l, g) == l.shortest > 1 => lengths(g) # {} /\ Min(lengths(g)) = l.shortest
LongestSays(l, g) == l.longest > 1 => lengths(g) # {} /\ Max(lengths(g)) = l.longest
GirthSays(l, g) == l.girth > -1 => GirthOf(g) >= l.girth
RegularSays(l, g) == l.deg > -1 => \A x \in V : deg(g, x) = l.deg

Means(l, a, g) ==
    /\ a # "sb" => NoSBSays(l, g)
    /\ a \notin {"sb", "ncDS"} => NearlyCubicSays(l, g)
    /\ a \notin {"sb", "ncDS", "minDeg"} => MinDegSays(l, g)
    /\ a \notin {"sb", "ncDS", "minDeg", "maxDeg"} => MaxDegSays(l, g)
    /\ a \in {"shortest", "longest", "girth", "split", "reg", "solve"} => NumberSays(l, g)
    /\ a \in {"longest", "girth", "split", "reg", "solve"} => ShortestSays(l, g)
    /\ a \in {"girth", "split", "reg", "solve"} => LongestSays(l, g)
    /\ a \in {"split", "reg", "solve"} => GirthSays(l, g)
    /\ a = "solve" => RegularSays(l, g)

\* The lengths asked for are lengths of chords.
LengthsExist == \A l \in CommandLines : l.shortest <= N \div 2 /\ l.longest <= N \div 2

\* As long as no option has failed, the graphs allowed are those that the
\* options looked at describe.
Leaves(m, l, a) ==
    /\ Clean(m)
    /\ \A g : g \in m.allowed <=> g \in Graphs /\ Means(l, a, g)

MeansInv == ~ model.crashed /\ line.split = -1 => Leaves(model, line, at)

LEMMA MeansNext ==
    ASSUME NEW l, NEW g
    PROVE  /\ Means(l, "sb", g)
           /\ Means(l, "ncDS", g) <=> Means(l, "sb", g) /\ NoSBSays(l, g)
           /\ Means(l, "minDeg", g) <=> Means(l, "ncDS", g) /\ NearlyCubicSays(l, g)
           /\ Means(l, "maxDeg", g) <=> Means(l, "minDeg", g) /\ MinDegSays(l, g)
           /\ Means(l, "chords", g) <=> Means(l, "maxDeg", g) /\ MaxDegSays(l, g)
           /\ Means(l, "shortest", g) <=> Means(l, "chords", g) /\ NumberSays(l, g)
           /\ Means(l, "longest", g) <=> Means(l, "shortest", g) /\ ShortestSays(l, g)
           /\ Means(l, "girth", g) <=> Means(l, "longest", g) /\ LongestSays(l, g)
           /\ Means(l, "split", g) <=> Means(l, "girth", g) /\ GirthSays(l, g)
           /\ Means(l, "reg", g) <=> Means(l, "split", g)
           /\ Means(l, "solve", g) <=> Means(l, "reg", g) /\ RegularSays(l, g)
BY DEF Means

LEMMA MeansStep ==
    ASSUME LengthsExist, TypeInv, MeansInv, [Next]_vars
    PROVE  MeansInv'
<1>1. CASE UNCHANGED vars
  BY <1>1 DEF vars, MeansInv
<1>. SUFFICES ASSUME Next, ~ model'.crashed, line'.split = -1
              PROVE  Leaves(model', line', at')
  BY <1>1 DEF MeansInv
<1>2. model \in Model /\ line \in CommandLines
  BY DEF TypeInv
<1>3. ~ model.crashed /\ line' = line => line.split = -1 /\ Leaves(model, line, at)
  BY DEF MeansInv
<1>4. /\ line.sb \in BOOLEAN /\ line.dsIndex \in Int /\ line.minDeg \in Int /\ line.maxDeg \in Int
      /\ line.chords \in Int /\ line.shortest \in Int /\ line.longest \in Int
      /\ line.girth \in Int /\ line.deg \in Int
  BY <1>2, LinesFacts
<1>5. ASSUME NoSB  PROVE Leaves(model', line', at')
  <2>. DEFINE given == line.sb
              posted == symmetryBreaking(model)
  <2>1. /\ line' = line /\ ~ model.crashed
        /\ given => model' = posted
        /\ ~ given => model' = model
    BY <1>5 DEF NoSB, At
  <2>2. \A g : Means(line, at', g) <=> Means(line, at, g) /\ NoSBSays(line, g)
    BY <1>5, MeansNext DEF NoSB, At
  <2>3. Clean(model) /\ \A g : g \in model.allowed <=> g \in Graphs /\ Means(line, at, g)
    BY <1>3, <2>1 DEF Leaves
  <2>4. ASSUME given
        PROVE  /\ Clean(posted)
               /\ \A g : g \in posted.allowed <=> g \in model.allowed /\ NoSBSays(line, g)
    BY <1>2, <1>4, <2>1, <2>3, <2>4, BreakingMeans DEF NoSBSays
  <2>5. ASSUME ~ given  PROVE \A g : NoSBSays(line, g)
    BY <2>5 DEF NoSBSays
  <2>. HIDE DEF given, posted
  <2>. QED
    BY <2>1, <2>2, <2>3, <2>4, <2>5 DEF Leaves
<1>6. ASSUME NearlyCubic  PROVE Leaves(model', line', at')
  <2>. DEFINE given == line.dsIndex \in 0 .. Len(nearlyCubicDS) - 1
              posted == fixDegrees(model, nearlyCubicDS[line.dsIndex + 1])
  <2>1. /\ line' = line /\ ~ model.crashed
        /\ given => model' = posted
        /\ ~ given => model' = model
    BY <1>6 DEF NearlyCubic, At
  <2>2. \A g : Means(line, at', g) <=> Means(line, at, g) /\ NearlyCubicSays(line, g)
    BY <1>6, MeansNext DEF NearlyCubic, At
  <2>3. Clean(model) /\ \A g : g \in model.allowed <=> g \in Graphs /\ Means(line, at, g)
    BY <1>3, <2>1 DEF Leaves
  <2>4. ASSUME given
        PROVE  /\ Clean(posted)
               /\ \A g : g \in posted.allowed <=> g \in model.allowed /\ NearlyCubicSays(line, g)
    <3>1. PICK ds : ds = nearlyCubicDS[line.dsIndex + 1]
      OBVIOUS
    <3>2. (\A i \in V : ds[i] \in Int) /\ posted = fixDegrees(model, ds)
      BY <2>4, <3>1, SequencesAre
    <3>3. ~ fixDegrees(model, ds).crashed
      BY <2>1, <2>4, <3>2
    <3>4. /\ Clean(fixDegrees(model, ds))
          /\ fixDegrees(model, ds).allowed = {g \in model.allowed : \A i \in V : deg(g, i) = ds[i]}
      BY <1>2, <2>3, <3>2, <3>3, FixDegreesMeans
    <3>. QED
      BY <2>4, <3>1, <3>2, <3>4 DEF NearlyCubicSays
  <2>5. ASSUME ~ given  PROVE \A g : NearlyCubicSays(line, g)
    BY <2>5 DEF NearlyCubicSays
  <2>. HIDE DEF given, posted
  <2>. QED
    BY <2>1, <2>2, <2>3, <2>4, <2>5 DEF Leaves
<1>7. ASSUME MinDeg  PROVE Leaves(model', line', at')
  <2>. DEFINE given == line.minDeg > 0
              posted == minDegree(model, line.minDeg)
  <2>1. /\ line' = line /\ ~ model.crashed
        /\ given => model' = posted
        /\ ~ given => model' = model
    BY <1>7 DEF MinDeg, At
  <2>2. \A g : Means(line, at', g) <=> Means(line, at, g) /\ MinDegSays(line, g)
    BY <1>7, MeansNext DEF MinDeg, At
  <2>3. Clean(model) /\ \A g : g \in model.allowed <=> g \in Graphs /\ Means(line, at, g)
    BY <1>3, <2>1 DEF Leaves
  <2>4. ASSUME given
        PROVE  /\ Clean(posted)
               /\ \A g : g \in posted.allowed <=> g \in model.allowed /\ MinDegSays(line, g)
    BY <1>2, <1>4, <2>1, <2>3, <2>4, MinDegreeMeans DEF MinDegSays
  <2>5. ASSUME ~ given  PROVE \A g : MinDegSays(line, g)
    BY <2>5 DEF MinDegSays
  <2>. HIDE DEF given, posted
  <2>. QED
    BY <2>1, <2>2, <2>3, <2>4, <2>5 DEF Leaves
<1>8. ASSUME MaxDeg  PROVE Leaves(model', line', at')
  <2>. DEFINE given == line.maxDeg > -1
              posted == maxDegree(model, line.maxDeg)
  <2>1. /\ line' = line /\ ~ model.crashed
        /\ given => model' = posted
        /\ ~ given => model' = model
    BY <1>8 DEF MaxDeg, At
  <2>2. \A g : Means(line, at', g) <=> Means(line, at, g) /\ MaxDegSays(line, g)
    BY <1>8, MeansNext DEF MaxDeg, At
  <2>3. Clean(model) /\ \A g : g \in model.allowed <=> g \in Graphs /\ Means(line, at, g)
    BY <1>3, <2>1 DEF Leaves
  <2>4. ASSUME given
        PROVE  /\ Clean(posted)
               /\ \A g : g \in posted.allowed <=> g \in model.allowed /\ MaxDegSays(line, g)
    BY <1>2, <1>4, <2>1, <2>3, <2>4, MaxDegreeMeans DEF MaxDegSays
  <2>5. ASSUME ~ given  PROVE \A g : MaxDegSays(line, g)
    BY <2>5 DEF MaxDegSays
  <2>. HIDE DEF given, posted
  <2>. QED
    BY <2>1, <2>2, <2>3, <2>4, <2>5 DEF Leaves
<1>9. ASSUME NumberOfChords  PROVE Leaves(model', line', at')
  <2>. DEFINE given == line.chords > -1
              posted == numberOfChords(model, line.chords)
  <2>1. /\ line' = line /\ ~ model.crashed
        /\ given => model' = posted
        /\ ~ given => model' = model
    BY <1>9 DEF NumberOfChords, At
  <2>2. \A g : Means(line, at', g) <=> Means(line, at, g) /\ NumberSays(line, g)
    BY <1>9, MeansNext DEF NumberOfChords, At
  <2>3. Clean(model) /\ \A g : g \in model.allowed <=> g \in Graphs /\ Means(line, at, g)
    BY <1>3, <2>1 DEF Leaves
  <2>4. ASSUME given
        PROVE  /\ Clean(posted)
               /\ \A g : g \in posted.allowed <=> g \in model.allowed /\ NumberSays(line, g)
    BY <1>2, <1>4, <2>1, <2>3, <2>4, NumberMeans DEF NumberSays
  <2>5. ASSUME ~ given  PROVE \A g : NumberSays(line, g)
    BY <2>5 DEF NumberSays
  <2>. HIDE DEF given, posted
  <2>. QED
    BY <2>1, <2>2, <2>3, <2>4, <2>5 DEF Leaves
<1>10. ASSUME Shortest  PROVE Leaves(model', line', at')
  <2>. DEFINE given == line.shortest > 1
              posted == shortestChord(model, line.shortest)
  <2>1. /\ line' = line /\ ~ model.crashed
        /\ given => model' = posted
        /\ ~ given => model' = model
    BY <1>10 DEF Shortest, At
  <2>2. \A g : Means(line, at', g) <=> Means(line, at, g) /\ ShortestSays(line, g)
    BY <1>10, MeansNext DEF Shortest, At
  <2>3. Clean(model) /\ \A g : g \in model.allowed <=> g \in Graphs /\ Means(line, at, g)
    BY <1>3, <2>1 DEF Leaves
  <2>4. ASSUME given
        PROVE  /\ Clean(posted)
               /\ \A g : g \in posted.allowed <=> g \in model.allowed /\ ShortestSays(line, g)
    <3>1. line.shortest \in 2 .. N \div 2
      BY <1>2, <1>4, <2>4, Half DEF LengthsExist
    <3>. QED
      BY <1>2, <2>3, <2>4, <3>1, ShortestMeans DEF ShortestSays
  <2>5. ASSUME ~ given  PROVE \A g : ShortestSays(line, g)
    BY <2>5 DEF ShortestSays
  <2>. HIDE DEF given, posted
  <2>. QED
    BY <2>1, <2>2, <2>3, <2>4, <2>5 DEF Leaves
<1>11. ASSUME Longest  PROVE Leaves(model', line', at')
  <2>. DEFINE given == line.longest > 1
              posted == longestChord(model, line.longest)
  <2>1. /\ line' = line /\ ~ model.crashed
        /\ given => model' = posted
        /\ ~ given => model' = model
    BY <1>11 DEF Longest, At
  <2>2. \A g : Means(line, at', g) <=> Means(line, at, g) /\ LongestSays(line, g)
    BY <1>11, MeansNext DEF Longest, At
  <2>3. Clean(model) /\ \A g : g \in model.allowed <=> g \in Graphs /\ Means(line, at, g)
    BY <1>3, <2>1 DEF Leaves
  <2>4. ASSUME given
        PROVE  /\ Clean(posted)
               /\ \A g : g \in posted.allowed <=> g \in model.allowed /\ LongestSays(line, g)
    <3>1. line.longest \in 2 .. N \div 2
      BY <1>2, <1>4, <2>4, Half DEF LengthsExist
    <3>. QED
      BY <1>2, <2>3, <2>4, <3>1, LongestMeans DEF LongestSays
  <2>5. ASSUME ~ given  PROVE \A g : LongestSays(line, g)
    BY <2>5 DEF LongestSays
  <2>. HIDE DEF given, posted
  <2>. QED
    BY <2>1, <2>2, <2>3, <2>4, <2>5 DEF Leaves
<1>12. ASSUME Girth  PROVE Leaves(model', line', at')
  <2>. DEFINE given == line.girth > -1
              posted == girthAtLeast(model, line.girth)
  <2>1. /\ line' = line /\ ~ model.crashed
        /\ given => model' = posted
        /\ ~ given => model' = model
    BY <1>12 DEF Girth, At
  <2>2. \A g : Means(line, at', g) <=> Means(line, at, g) /\ GirthSays(line, g)
    BY <1>12, MeansNext DEF Girth, At
  <2>3. Clean(model) /\ \A g : g \in model.allowed <=> g \in Graphs /\ Means(line, at, g)
    BY <1>3, <2>1 DEF Leaves
  <2>4. ASSUME given
        PROVE  /\ Clean(posted)
               /\ \A g : g \in posted.allowed <=> g \in model.allowed /\ GirthSays(line, g)
    BY <1>2, <1>4, <2>1, <2>3, <2>4, GirthPosted DEF GirthSays
  <2>5. ASSUME ~ given  PROVE \A g : GirthSays(line, g)
    BY <2>5 DEF GirthSays
  <2>. HIDE DEF given, posted
  <2>. QED
    BY <2>1, <2>2, <2>3, <2>4, <2>5 DEF Leaves
<1>13. ASSUME Regular  PROVE Leaves(model', line', at')
  <2>. DEFINE given == line.deg > -1
              posted == regular(model, line.deg)
  <2>1. /\ line' = line /\ ~ model.crashed
        /\ given => model' = posted
        /\ ~ given => model' = model
    BY <1>13 DEF Regular, At
  <2>2. \A g : Means(line, at', g) <=> Means(line, at, g) /\ RegularSays(line, g)
    BY <1>13, MeansNext DEF Regular, At
  <2>3. Clean(model) /\ \A g : g \in model.allowed <=> g \in Graphs /\ Means(line, at, g)
    BY <1>3, <2>1 DEF Leaves
  <2>4. ASSUME given
        PROVE  /\ Clean(posted)
               /\ \A g : g \in posted.allowed <=> g \in model.allowed /\ RegularSays(line, g)
    <3>1. PICK ds : ds = [i \in V |-> line.deg]
      OBVIOUS
    <3>2. (\A i \in V : ds[i] = line.deg) /\ posted = fixDegrees(model, ds)
      BY <3>1 DEF regular
    <3>3. ~ fixDegrees(model, ds).crashed
      BY <2>1, <2>4, <3>2
    <3>4. /\ Clean(fixDegrees(model, ds))
          /\ fixDegrees(model, ds).allowed = {g \in model.allowed : \A i \in V : deg(g, i) = ds[i]}
      BY <1>2, <1>4, <2>3, <3>2, <3>3, FixDegreesMeans
    <3>. QED
      BY <2>4, <3>2, <3>4 DEF RegularSays
  <2>5. ASSUME ~ given  PROVE \A g : RegularSays(line, g)
    BY <2>5 DEF RegularSays
  <2>. HIDE DEF given, posted
  <2>. QED
    BY <2>1, <2>2, <2>3, <2>4, <2>5 DEF Leaves
<1>14. ASSUME Split  PROVE Leaves(model', line', at')
  <2>1. at = "split" /\ at' = "reg" /\ line' = line /\ ~ model.crashed
    BY <1>14 DEF Split, At
  <2>2. model' = model
    BY <1>3, <1>14, <2>1 DEF Split, At
  <2>. QED
    BY <1>3, <2>1, <2>2, MeansNext DEF Leaves
<1>. QED
  BY <1>5, <1>6, <1>7, <1>8, <1>9, <1>10, <1>11, <1>12, <1>13, <1>14 DEF Next

\* What the options but the symmetry breaking say is the same of a graph turned
\* or reflected, unless they name a degree sequence.
LEMMA DescribedMoved ==
    ASSUME TypeInv, line.dsIndex = -1,
           NEW p \in dihedralGroupPermutations, NEW g \in Graphs, Described(g)
    PROVE  Described(Moved(p, g))
<1>. DEFINE h == Moved(p, g)
<1>1. /\ line.minDeg \in Int /\ line.maxDeg \in Int /\ line.girth \in Int /\ line.deg \in Int
      /\ line.dsIndex \in Int
  BY LinesFacts DEF TypeInv
<1>2. g \subseteq AllEdges
  BY GraphIs
<1>3. PICK q \in dihedralGroupPermutations : \A x \in V : q[p[x]] = x /\ p[q[x]] = x
  BY Inverted
<1>4. ASSUME NEW x \in V  PROVE \E y \in V : deg(h, x) = deg(g, y)
  <2>1. q[x] \in V
    BY <1>3, DihedralFacts
  <2>2. deg(h, p[q[x]]) = deg(g, q[x])
    BY <1>2, <2>1, MovedDeg
  <2>3. p[q[x]] = x
    BY <1>3
  <2>. QED
    BY <2>1, <2>2, <2>3
<1>5. Cardinality(h) = Cardinality(g)
  BY <1>2, MovedSize
<1>6. lengths(h) = lengths(g)
  BY LengthsSame
<1>7. line.girth > -1 => GirthOf(h) >= line.girth
  BY <1>1, GirthSame DEF Described
<1>. HIDE DEF h
<1>8. line.dsIndex \notin 0 .. Len(nearlyCubicDS) - 1
  OBVIOUS
<1>9. /\ line.minDeg > 0 => \A x \in V : deg(h, x) >= line.minDeg
      /\ line.maxDeg > -1 => \A x \in V : deg(h, x) <= line.maxDeg
      /\ line.deg > -1 => \A x \in V : deg(h, x) = line.deg
  <2>1. /\ line.minDeg > 0 => \A x \in V : deg(g, x) >= line.minDeg
        /\ line.maxDeg > -1 => \A x \in V : deg(g, x) <= line.maxDeg
        /\ line.deg > -1 => \A x \in V : deg(g, x) = line.deg
    BY DEF Described
  <2>. QED
    BY <1>4, <2>1
<1>10. /\ line.chords > -1 => Cardinality(h) = N + line.chords
       /\ line.shortest > 1 => lengths(h) # {} /\ Min(lengths(h)) = line.shortest
       /\ line.longest > 1 => lengths(h) # {} /\ Max(lengths(h)) = line.longest
  <2>1. /\ line.chords > -1 => Cardinality(g) = N + line.chords
        /\ line.shortest > 1 => lengths(g) # {} /\ Min(lengths(g)) = line.shortest
        /\ line.longest > 1 => lengths(g) # {} /\ Max(lengths(g)) = line.longest
    BY DEF Described
  <2>. QED
    BY <1>5, <1>6, <2>1
<1>11. Described(h)
  BY <1>7, <1>8, <1>9, <1>10 DEF Described
<1>. QED
  BY <1>11 DEF h

\* For every order and any command lines that ask for lengths that chords have:
\* without a split, main leaves the search the graphs the options describe, and
\* with symmetry breaking one of each class of them.
THEOREM OptionsDescribe ==
    ASSUME LengthsExist
    PROVE  Spec => []OptionsMean
<1>1. Init => MeansInv
  <2>1. SUFFICES ASSUME Init  PROVE Leaves(newModel, line, "sb")
    BY DEF Init, MeansInv
  <2>2. newModel.allowed = Graphs /\ newModel.zeros = {}
    BY DEF newModel
  <2>. QED
    BY <2>2, MeansNext DEF Leaves, Clean
<1>2. TypeInv /\ MeansInv /\ [Next]_vars => MeansInv'
  BY MeansStep
<1>3. TypeInv /\ MeansInv => OptionsMean
  <2>1. SUFFICES ASSUME TypeInv, MeansInv, at = "solve", ~ model.crashed, line.split = -1
                 PROVE  IF ~ line.sb THEN model.allowed = {g \in Graphs : Described(g)}
                        ELSE /\ \A g \in model.allowed : Described(g)
                             /\ line.dsIndex = -1 =>
                                  \A g \in Graphs : Described(g) => Cardinality(Orbit(g) \cap model.allowed) = 1
    BY DEF OptionsMean
  <2>2. \A g : Means(line, "solve", g) <=> (line.sb => Leads(g)) /\ Described(g)
    BY DEF Means, Described, NoSBSays, NearlyCubicSays, MinDegSays, MaxDegSays, NumberSays,
           ShortestSays, LongestSays, GirthSays, RegularSays
  <2>3. \A g : g \in model.allowed <=> g \in Graphs /\ (line.sb => Leads(g)) /\ Described(g)
    BY <2>1, <2>2 DEF MeansInv, Leaves
  <2>4. CASE ~ line.sb
    BY <2>3, <2>4
  <2>5. CASE line.sb
    <3>1. ASSUME line.dsIndex = -1, NEW g \in Graphs, Described(g)
          PROVE  Cardinality(Orbit(g) \cap model.allowed) = 1
      <4>1. PICK l \in Orbit(g) : Leads(l) /\ \A h \in Orbit(g) : Leads(h) => h = l
        BY OneLeads
      <4>2. PICK p \in dihedralGroupPermutations : l = Moved(p, g)
        BY <4>1, OrbitIs
      <4>3. l \in Graphs /\ Described(l)
        BY <2>1, <3>1, <4>2, MovedIn, DescribedMoved
      <4>4. Orbit(g) \cap model.allowed = {l}
        BY <2>3, <2>5, <4>1, <4>3
      <4>. QED
        BY <4>4, FS_Singleton
    <3>. QED
      BY <2>3, <2>5, <3>1
  <2>. QED
    BY <2>4, <2>5
<1>. QED
  BY <1>1, <1>2, <1>3, TypeInvariant, PTL DEF Spec
=============================================================================
