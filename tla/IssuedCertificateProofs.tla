---------------------- MODULE IssuedCertificateProofs ----------------------
(* Proofs about IssuedCertificate: the SPC survives its encoding, what       *)
(* passes conforms, what was asked for passes, for all texts, identifiers    *)
(* and times. The recursions that turn numbers and identifiers into text are *)
(* shown to have solutions, and their properties, by the least number that   *)
(* would be an exception.                                                    *)
EXTENDS IssuedCertificate, SequenceTheorems, WellFoundedInduction, TLAPS

----------------------------------------------------------------------------
(* Induction                                                                 *)

\* A set of naturals that is not empty has a least element.
LEMMA LeastElement ==
  ASSUME NEW T, T \subseteq Nat, T # {}
  PROVE  \E x \in T : \A y \in T : x <= y
<1> DEFINE R == {p \in Nat \X Nat : p[1] < p[2]}
<1>1. IsWellFoundedOn(R, Nat)
  BY NatLessThanWellFounded DEF OpToRel
<1>2. PICK x \in T : \A y \in T : ~(<<y, x>> \in R)
  <2> HIDE DEF R
  <2> QED BY <1>1, WFMin
<1>3. ASSUME NEW y \in T PROVE x <= y
  <2>1. y \in Nat /\ x \in Nat
    OBVIOUS
  <2>2. <<y, x>> \in Nat \X Nat /\ <<y, x>>[1] = y /\ <<y, x>>[2] = x
    BY <2>1
  <2>3. ~(<<y, x>>[1] < <<y, x>>[2])
    BY <1>2, <2>2
  <2> QED BY <2>1, <2>2, <2>3
<1> QED BY <1>3

\* Induction for a property that is given as the set of what has it.
LEMMA Induction ==
  ASSUME NEW T, \A n \in Nat : (\A k \in 0 .. n - 1 : k \in T) => n \in T
  PROVE  Nat \subseteq T
<1> DEFINE Out == {n \in Nat : n \notin T}
<1> SUFFICES ASSUME Out # {} PROVE FALSE
  OBVIOUS
<1>1. PICK x \in Out : \A y \in Out : x <= y
  <2>1. Out \subseteq Nat OBVIOUS
  <2> HIDE DEF Out
  <2> QED BY <2>1, LeastElement
<1>2. \A k \in 0 .. x - 1 : k \in T
  BY <1>1
<1> QED BY <1>1, <1>2

----------------------------------------------------------------------------
(* The SPC                                                                   *)

\* What Strip returns is a text and does not end with a blank.
LEMMA StripProperties ==
  ASSUME NEW text \in Seq(Int)
  PROVE  /\ Strip(text) \in Seq(Int)
         /\ Strip(text) # <<>> => Strip(text)[Len(Strip(text))] \notin Blanks
<1> DEFINE inner == {i \in DOMAIN text : text[i] \notin Blanks}
           first == CHOOSE i \in inner : \A j \in inner : i <= j
           final == CHOOSE i \in inner : \A j \in inner : j <= i
<1>1. DOMAIN text = 1 .. Len(text) /\ Len(text) \in Nat
  BY LenProperties
<1>2. CASE inner = {}
  <2>1. Strip(text) = <<>>
    BY <1>2 DEF Strip
  <2> QED BY <2>1
<1>3. CASE inner # {}
  <2>1. inner \subseteq Nat
    BY <1>1
  <2>2. \E i \in inner : \A j \in inner : i <= j
    <3> HIDE DEF inner
    <3> QED BY <1>3, <2>1, LeastElement
  <2>3. \E i \in inner : \A j \in inner : j <= i
    <3> DEFINE rest == {Len(text) - i : i \in inner}
    <3>1. rest \subseteq Nat /\ rest # {}
      BY <1>1, <1>3
    <3>2. PICK r \in rest : \A q \in rest : r <= q
      <4> HIDE DEF rest
      <4> QED BY <3>1, LeastElement
    <3>3. PICK i \in inner : r = Len(text) - i
      OBVIOUS
    <3>4. ASSUME NEW j \in inner PROVE j <= i
      <4>1. r <= Len(text) - j
        BY <3>2
      <4> QED BY <1>1, <2>1, <3>3, <4>1
    <3> QED BY <3>4
  <2>4. first \in inner /\ final \in inner /\ first <= final
    <3> HIDE DEF inner
    <3>1. first \in inner /\ \A j \in inner : first <= j
      BY <2>2
    <3>2. final \in inner
      BY <2>3
    <3> QED BY <3>1, <3>2
  <2>5. Strip(text) = SubSeq(text, first, final)
    BY <1>3 DEF Strip
  <2> DEFINE a == first
             b == final
  <2>6. /\ a \in 1 .. Len(text) /\ b \in 1 .. Len(text) /\ a <= b
        /\ text[b] \notin Blanks
    BY <1>1, <2>4
  <2> HIDE DEF inner, first, final, a, b
  <2>7. \A i \in a .. b : text[i] \in Int
    BY <1>1, <2>6
  <2>8. /\ SubSeq(text, a, b) \in Seq(Int)
        /\ Len(SubSeq(text, a, b)) = b - a + 1
        /\ \A i \in 1 .. b - a + 1 : SubSeq(text, a, b)[i] = text[a + i - 1]
    BY <1>1, <2>6, <2>7, SubSeqProperties
  <2>9. SubSeq(text, a, b)[b - a + 1] = text[b]
    <3>1. b - a + 1 \in 1 .. b - a + 1 /\ a + (b - a + 1) - 1 = b
      BY <1>1, <2>6
    <3> QED BY <2>8, <3>1
  <2>10. Strip(text) = SubSeq(text, a, b)
    BY <2>5 DEF a, b
  <2> QED BY <2>6, <2>8, <2>9, <2>10
<1> QED BY <1>2, <1>3

\* A text that was stripped and is valid has no newline at its end.
LEMMA StrippedHasFour ==
  ASSUME NEW text \in Seq(Int), ValidSpc(Strip(text))
  PROVE  Len(Strip(text)) = 4
<1>1. Len(Strip(text)) = 5 => Strip(text) # <<>>
  OBVIOUS
<1>2. 10 \in Blanks
  BY DEF Blanks
<1>3. Len(Strip(text)) = 5 => Strip(text)[5] # 10
  BY <1>1, <1>2, StripProperties
<1> QED BY <1>3 DEF ValidSpc

\* The bytes of a TNAuthList.
LEMMA DerProperties ==
  ASSUME NEW text \in Seq(Int)
  PROVE  /\ Der(text) \in Seq(Int)
         /\ Len(Der(text)) = Len(text) + 6
         /\ Der(text)[1] = 48 /\ Der(text)[2] = Len(text) + 4
         /\ Der(text)[3] = 160 /\ Der(text)[4] = Len(text) + 2
         /\ Der(text)[5] = 22 /\ Der(text)[6] = Len(text)
         /\ \A i \in 1 .. Len(text) : Der(text)[6 + i] = text[i]
<1> DEFINE head == <<48, Len(text) + 4, 160, Len(text) + 2, 22, Len(text)>>
<1>1. Len(text) \in Nat
  BY LenProperties
<1>2. head \in Seq(Int) /\ Len(head) = 6
  BY <1>1
<1>3. /\ head[1] = 48 /\ head[2] = Len(text) + 4 /\ head[3] = 160
      /\ head[4] = Len(text) + 2 /\ head[5] = 22 /\ head[6] = Len(text)
  OBVIOUS
<1>4. Der(text) = head \o text
  BY DEF Der
<1> HIDE DEF head
<1>5. /\ Der(text) \in Seq(Int)
      /\ Len(Der(text)) = Len(head) + Len(text)
      /\ \A i \in 1 .. Len(head) + Len(text) :
           Der(text)[i] = IF i <= Len(head) THEN head[i]
                                                 ELSE text[i - Len(head)]
  <2>1.  /\ (head \o text) \in Seq(Int)
       /\ Len(head \o text) = Len(head) + Len(text)
       /\ \A i \in 1 .. Len(head) + Len(text) :
            (head \o text)[i] = IF i <= Len(head) THEN head[i]
                                                  ELSE text[i - Len(head)]
    BY <1>2, ConcatProperties
  <2> QED BY <1>4, <2>1, Zenon
<1>6. /\ Der(text)[1] = head[1] /\ Der(text)[2] = head[2]
      /\ Der(text)[3] = head[3] /\ Der(text)[4] = head[4]
      /\ Der(text)[5] = head[5] /\ Der(text)[6] = head[6]
  BY <1>1, <1>2, <1>5
<1>7. ASSUME NEW i \in 1 .. Len(text) PROVE Der(text)[6 + i] = text[i]
  <2>1. 6 + i \in 1 .. Len(head) + Len(text) /\ ~(6 + i <= Len(head))
    BY <1>1, <1>2
  <2>2. (6 + i) - Len(head) = i
    BY <1>2
  <2> QED BY <1>5, <2>1, <2>2
<1>8. Len(Der(text)) = Len(text) + 6
  BY <1>1, <1>2, <1>5
<1>9. /\ Der(text) \in Seq(Int)
      /\ Der(text)[1] = 48 /\ Der(text)[2] = Len(text) + 4
      /\ Der(text)[3] = 160 /\ Der(text)[4] = Len(text) + 2
      /\ Der(text)[5] = 22 /\ Der(text)[6] = Len(text)
  BY <1>3, <1>5, <1>6
<1>10. \A i \in 1 .. Len(text) : Der(text)[6 + i] = text[i]
  BY <1>7
<1> QED BY <1>8, <1>9, <1>10

\* No two texts have the same TNAuthList.
LEMMA DerInjective ==
  ASSUME NEW s \in Seq(Int), NEW t \in Seq(Int), Der(s) = Der(t)
  PROVE  s = t
<1>1. Len(s) = Len(t)
  BY DerProperties, LenProperties
<1>2. ASSUME NEW i \in 1 .. Len(s) PROVE s[i] = t[i]
  <2>1. Der(s)[6 + i] = s[i]
    BY DerProperties
  <2>2. i \in 1 .. Len(t)
    BY <1>1
  <2>3. Der(t)[6 + i] = t[i]
    BY <2>2, DerProperties
  <2> QED BY <2>1, <2>3
<1> QED BY <1>1, <1>2, SeqEqual

\* The inspector shows the SPC that a TNAuthList was built for.
LEMMA InspectedSpc ==
  ASSUME NEW text \in Seq(Int), Len(text) = 4, ValidSpc(text)
  PROVE  Inspected(Der(text)) = text
<1> DEFINE der == Der(text)
<1>1. /\ der \in Seq(Int) /\ Len(der) = 10
      /\ der[1] = 48 /\ der[2] = 8 /\ der[3] = 160
      /\ der[4] = 6 /\ der[5] = 22 /\ der[6] = 4
      /\ \A i \in 1 .. 4 : der[6 + i] = text[i]
  <2>1. \A i \in 1 .. 4 : der[6 + i] = text[i]
    BY DerProperties
  <2>2. /\ der \in Seq(Int) /\ Len(der) = Len(text) + 6
        /\ der[1] = 48 /\ der[2] = Len(text) + 4 /\ der[3] = 160
        /\ der[4] = Len(text) + 2 /\ der[5] = 22 /\ der[6] = Len(text)
    BY DerProperties
  <2> QED BY <2>1, <2>2
<1>2. \A i \in 1 .. 4 : text[i] \in 0 .. 127
  <2>1. \A i \in 1 .. 4 : text[i] \in Int
    BY LenProperties
  <2>2. \A i \in 1 .. 4 : Upper(text[i]) \/ Digit(text[i])
    BY DEF ValidSpc
  <2> SUFFICES ASSUME NEW i \in 1 .. 4 PROVE text[i] \in 0 .. 127
    OBVIOUS
  <2>3. text[i] \in Int /\ (text[i] \in 65 .. 90 \/ text[i] \in 48 .. 57)
    BY <2>1, <2>2 DEF Upper, Digit
  <2> QED BY <2>3
<1>3. \A i \in 7 .. 10 : der[i] = text[i - 6] /\ i - 6 \in 1 .. 4
  <2> SUFFICES ASSUME NEW i \in 7 .. 10
               PROVE  der[i] = text[i - 6] /\ i - 6 \in 1 .. 4
    OBVIOUS
  <2>1. i - 6 \in 1 .. 4 /\ 6 + (i - 6) = i
    OBVIOUS
  <2>2. der[6 + (i - 6)] = text[i - 6]
    <3> HIDE DEF der
    <3> QED BY <1>1, <2>1
  <2> QED BY <2>1, <2>2
<1>4. \A i \in 7 .. 10 : der[i] \in 0 .. 127
  BY <1>2, <1>3
<1> HIDE DEF der
<1>5. SubSeq(der, 7, 10) = text
  <2>1. ASSUME NEW i \in 7 .. 10 PROVE der[i] \in Int
    <3>1. der \in [1 .. 10 -> Int]
      BY <1>1, LenProperties
    <3>2. i \in 1 .. 10
      BY <2>1
    <3> QED BY <3>1, <3>2, Zenon
  <2>2. /\ SubSeq(der, 7, 10) \in Seq(Int)
        /\ Len(SubSeq(der, 7, 10)) = 4
        /\ \A i \in 1 .. 4 : SubSeq(der, 7, 10)[i] = der[7 + i - 1]
    BY <2>1, SubSeqProperties
  <2>3. ASSUME NEW i \in 1 .. 4 PROVE SubSeq(der, 7, 10)[i] = text[i]
    <3>1. SubSeq(der, 7, 10)[i] = der[7 + i - 1] /\ 7 + i - 1 = 6 + i
      BY <2>2
    <3>2. der[6 + i] = text[i]
      BY <1>1
    <3> QED BY <3>1, <3>2
  <2> QED BY <2>2, <2>3, SeqEqual
<1>6. Inspected(der) = SubSeq(der, 7, Len(der))
  BY <1>1, <1>4 DEF Inspected
<1> QED BY <1>1, <1>5, <1>6 DEF der

----------------------------------------------------------------------------
(* Numbers in decimal                                                        *)

Digits == 48 .. 57

\* The function of Decimal's definition, for the numbers up to n.
IsDecimal(g, n) ==
  g = [k \in 0 .. n |-> IF k < 10 THEN <<48 + k>>
                                  ELSE Append(g[k \div 10], 48 + (k % 10))]

\* Quotient and remainder.
LEMMA Division ==
  ASSUME NEW n \in Nat
  PROVE  /\ n \div 10 \in Nat /\ n % 10 \in 0 .. 9
         /\ n = 10 * (n \div 10) + (n % 10)
         /\ n >= 10 => n \div 10 < n
<1>1. n \div 10 \in Int /\ n % 10 \in 0 .. 9
  OBVIOUS
<1>2. n = 10 * (n \div 10) + (n % 10)
  OBVIOUS
<1> QED BY <1>1, <1>2

\* The definition of Decimal has a solution.
LEMMA DecimalExists ==
  ASSUME NEW n \in Nat
  PROVE  \E g : IsDecimal(g, n)
<1> DEFINE T == {m \in Nat : \E g : IsDecimal(g, m)}
<1>1. ASSUME NEW m \in Nat, \A k \in 0 .. m - 1 : k \in T PROVE m \in T
  <2>1. PICK g : m > 0 => IsDecimal(g, m - 1)
    <3>1. m > 0 => m - 1 \in 0 .. m - 1
      OBVIOUS
    <3> QED BY <1>1, <3>1
  <2> DEFINE h == [k \in 0 .. m |-> IF k < 10 THEN <<48 + k>>
                                    ELSE Append(g[k \div 10], 48 + (k % 10))]
  <2>2. ASSUME NEW k \in 0 .. m - 1 PROVE h[k] = g[k]
    <3>1. m > 0 /\ k \in 0 .. (m - 1) /\ k \in 0 .. m
      OBVIOUS
    <3>2. g = [i \in 0 .. (m - 1) |-> IF i < 10 THEN <<48 + i>>
                                    ELSE Append(g[i \div 10], 48 + (i % 10))]
      BY <2>1, <3>1 DEF IsDecimal
    <3>3. g[k] = IF k < 10 THEN <<48 + k>>
                           ELSE Append(g[k \div 10], 48 + (k % 10))
      BY <3>1, <3>2
    <3> QED BY <3>1, <3>3
  <2>3. \A k \in 0 .. m : k >= 10 => h[k \div 10] = g[k \div 10]
    <3> SUFFICES ASSUME NEW k \in 0 .. m, k >= 10
                 PROVE  h[k \div 10] = g[k \div 10]
      OBVIOUS
    <3>1. k \div 10 \in 0 .. m - 1
      BY Division
    <3> QED BY <2>2, <3>1
  <2>4. IsDecimal(h, m)
    <3>1. \A k \in 0 .. m :
            (IF k < 10 THEN <<48 + k>> ELSE Append(g[k \div 10], 48 + (k % 10)))
            = (IF k < 10 THEN <<48 + k>> ELSE Append(h[k \div 10], 48 + (k % 10)))
      <4> HIDE DEF h
      <4> QED BY <2>3
    <3> QED BY <3>1, Zenon DEF IsDecimal
  <2> QED BY <2>4
<1>2. Nat \subseteq T
  <2> HIDE DEF T
  <2> QED BY <1>1, Induction
<1> QED BY <1>2

\* The functions of two definitions agree where both are defined.
LEMMA DecimalUnique ==
  ASSUME NEW m \in Nat, NEW n \in Nat, m <= n,
         NEW g, IsDecimal(g, m), NEW h, IsDecimal(h, n)
  PROVE  g[m] = h[m]
<1> DEFINE T == {k \in Nat : k <= m => g[k] = h[k]}
<1>1. ASSUME NEW k \in Nat, \A i \in 0 .. k - 1 : i \in T PROVE k \in T
  <2> SUFFICES ASSUME k <= m PROVE g[k] = h[k]
    OBVIOUS
  <2>1. k \in 0 .. m /\ k \in 0 .. n
    OBVIOUS
  <2>2. g[k] = IF k < 10 THEN <<48 + k>>
                         ELSE Append(g[k \div 10], 48 + (k % 10))
    BY <2>1, Zenon DEF IsDecimal
  <2>3. h[k] = IF k < 10 THEN <<48 + k>>
                         ELSE Append(h[k \div 10], 48 + (k % 10))
    BY <2>1, Zenon DEF IsDecimal
  <2>4. k >= 10 => g[k \div 10] = h[k \div 10]
    <3>1. k >= 10 => k \div 10 \in 0 .. k - 1 /\ k \div 10 <= m
      BY Division
    <3> QED BY <1>1, <3>1
  <2> QED BY <2>2, <2>3, <2>4
<1>2. Nat \subseteq T
  <2> HIDE DEF T
  <2> QED BY <1>1, Induction
<1> QED BY <1>2

\* Decimal as a recursion on the number.
LEMMA DecimalUnfolds ==
  ASSUME NEW n \in Nat
  PROVE  Decimal(n) = IF n < 10 THEN <<48 + n>>
                      ELSE Append(Decimal(n \div 10), 48 + (n % 10))
<1> DEFINE F(m) == CHOOSE g : IsDecimal(g, m)
<1>1. \A m \in Nat : IsDecimal(F(m), m)
  BY DecimalExists
<1>2. \A m : Decimal(m) = F(m)[m]
  BY DEF Decimal, IsDecimal
<1> HIDE DEF F
<1>3. n \in 0 .. n
  OBVIOUS
<1>4. F(n)[n] = IF n < 10 THEN <<48 + n>>
                ELSE Append(F(n)[n \div 10], 48 + (n % 10))
  BY <1>1, <1>3, Zenon DEF IsDecimal
<1>5. n >= 10 => F(n)[n \div 10] = F(n \div 10)[n \div 10]
  <2> SUFFICES ASSUME n >= 10 PROVE F(n)[n \div 10] = F(n \div 10)[n \div 10]
    OBVIOUS
  <2>1. n \div 10 \in Nat /\ n \div 10 <= n
    BY Division
  <2> QED BY <1>1, <2>1, DecimalUnique
<1>6. Decimal(n) = F(n)[n] /\ Decimal(n \div 10) = F(n \div 10)[n \div 10]
  BY <1>2
<1>7. n < 10 \/ n >= 10
  OBVIOUS
<1> QED BY <1>4, <1>5, <1>6, <1>7, Zenon

\* A number has one digit at least.
LEMMA DecimalType ==
  ASSUME NEW n \in Nat
  PROVE  Decimal(n) \in Seq(Digits) /\ Len(Decimal(n)) >= 1
<1> DEFINE T == {k \in Nat : Decimal(k) \in Seq(Digits) /\ Len(Decimal(k)) >= 1}
<1>1. ASSUME NEW k \in Nat, \A i \in 0 .. k - 1 : i \in T PROVE k \in T
  <2>1. CASE k < 10
    <3>1. Decimal(k) = <<48 + k>>
      BY <2>1, DecimalUnfolds
    <3>2. 48 + k \in Digits
      BY <2>1 DEF Digits
    <3>3. <<48 + k>> \in Seq(Digits) /\ Len(<<48 + k>>) = 1
      BY <3>2
    <3>4. Decimal(k) \in Seq(Digits) /\ Len(Decimal(k)) = 1
      BY <3>1, <3>3, Zenon
    <3> QED BY <3>4
  <2>2. CASE ~(k < 10)
    <3>1. k \div 10 \in 0 .. k - 1 /\ 48 + (k % 10) \in Digits
      BY <2>2, Division DEF Digits
    <3>2. Decimal(k) = Append(Decimal(k \div 10), 48 + (k % 10))
      BY <2>2, DecimalUnfolds
    <3>3. Decimal(k \div 10) \in Seq(Digits)
      BY <1>1, <3>1
    <3> QED BY <3>1, <3>2, <3>3, AppendProperties, LenProperties
  <2> QED BY <2>1, <2>2
<1>2. Nat \subseteq T
  <2> HIDE DEF T
  <2> QED BY <1>1, Induction
<1> QED BY <1>2

\* Numbers with the same digits are the same.
LEMMA DecimalInjective ==
  ASSUME NEW m \in Nat, NEW n \in Nat, Decimal(m) = Decimal(n)
  PROVE  m = n
<1> DEFINE T == {k \in Nat : \A l \in Nat : Decimal(l) = Decimal(k) => l = k}
<1>1. ASSUME NEW k \in Nat, \A i \in 0 .. k - 1 : i \in T PROVE k \in T
  <2> SUFFICES ASSUME NEW l \in Nat, Decimal(l) = Decimal(k) PROVE l = k
    OBVIOUS
  <2> DEFINE kq == k \div 10
             lq == l \div 10
  <2>0. /\ k >= 10 => kq \in 0 .. k - 1 /\ kq \in Nat
        /\ l >= 10 => lq \in Nat
        /\ k = 10 * kq + (k % 10) /\ l = 10 * lq + (l % 10)
        /\ k % 10 \in 0 .. 9 /\ l % 10 \in 0 .. 9
    BY Division
  <2>1. /\ k < 10 => Decimal(k) = <<48 + k>>
        /\ l < 10 => Decimal(l) = <<48 + l>>
        /\ k >= 10 => Decimal(k) = Append(Decimal(kq), 48 + (k % 10))
        /\ l >= 10 => Decimal(l) = Append(Decimal(lq), 48 + (l % 10))
    <3>1. ASSUME NEW n0 \in Nat
          PROVE  /\ n0 < 10 => Decimal(n0) = <<48 + n0>>
                 /\ n0 >= 10 => Decimal(n0) =
                                 Append(Decimal(n0 \div 10), 48 + (n0 % 10))
      <4>1. n0 >= 10 => ~(n0 < 10)
        OBVIOUS
      <4> QED BY <4>1, DecimalUnfolds, Zenon
    <3> QED BY <3>1
  <2>2. /\ k >= 10 => Decimal(kq) \in Seq(Digits) /\ Len(Decimal(kq)) >= 1
        /\ l >= 10 => Decimal(lq) \in Seq(Digits) /\ Len(Decimal(lq)) >= 1
    BY <2>0, DecimalType
  <2>3. 48 + (k % 10) \in Digits /\ 48 + (l % 10) \in Digits
    BY <2>0 DEF Digits
  <2> HIDE DEF kq, lq
  <2>4. /\ k < 10 => Len(Decimal(k)) = 1 /\ Decimal(k)[1] = 48 + k
        /\ l < 10 => Len(Decimal(l)) = 1 /\ Decimal(l)[1] = 48 + l
    BY <2>1
  <2>5. /\ k >= 10 => Len(Decimal(k)) >= 2
        /\ l >= 10 => Len(Decimal(l)) >= 2
    BY <2>1, <2>2, <2>3, AppendProperties
  <2>6. CASE k < 10
    <3>1. l < 10
      <4>1. Len(Decimal(l)) = 1
        BY <2>4, <2>6
      <4> QED BY <2>5, <4>1
    <3> QED BY <2>4, <2>6, <3>1
  <2>7. CASE k >= 10
    <3>1. l >= 10
      <4>1. Len(Decimal(l)) >= 2
        BY <2>5, <2>7
      <4>2. CASE l < 10
        <5>1. Len(Decimal(l)) = 1
          BY <2>4, <4>2
        <5>2. ~(1 >= 2)
          OBVIOUS
        <5> QED BY <4>1, <5>1, <5>2
      <4>3. l < 10 \/ l >= 10
        OBVIOUS
      <4> QED BY <4>2, <4>3
    <3>2. Append(Decimal(kq), 48 + (k % 10)) = Append(Decimal(lq), 48 + (l % 10))
      BY <2>1, <2>7, <3>1
    <3>3. Decimal(kq) = Decimal(lq) /\ 48 + (k % 10) = 48 + (l % 10)
      BY <2>2, <2>3, <2>7, <3>1, <3>2, AppendInjective
    <3>4. kq \in T
      BY <1>1, <2>0, <2>7
    <3>5. lq = kq
      BY <2>0, <3>1, <3>3, <3>4
    <3> QED BY <2>0, <3>3, <3>5
  <2> QED BY <2>6, <2>7
<1>2. Nat \subseteq T
  <2> HIDE DEF T
  <2> QED BY <1>1, Induction
<1> QED BY <1>2

----------------------------------------------------------------------------
(* Identifiers as texts                                                      *)

\* The function of Dotted's definition, for the first n arcs.
IsDotted(u, oid, n) ==
  u = [k \in 0 .. n |-> CASE k = 0 -> <<>>
                          [] k = 1 -> Decimal(oid[1])
                          [] OTHER -> u[k - 1] \o <<46>> \o Decimal(oid[k])]

\* u[k] is the text of the first k arcs of an identifier.
Chain(u, oid) ==
  /\ u[0] = <<>>
  /\ Len(oid) >= 1 => u[1] = Decimal(oid[1])
  /\ \A k \in 2 .. Len(oid) : u[k] = u[k - 1] \o <<46>> \o Decimal(oid[k])
  /\ \A k \in 0 .. Len(oid) : u[k] \in Seq(Int)

\* Where the digits of an arc begin.
Offset(u, k) == IF k = 1 THEN 0 ELSE Len(u[k - 1]) + 1

\* The definition of Dotted has a solution.
LEMMA DottedExists ==
  ASSUME NEW oid, NEW n \in Nat
  PROVE  \E u : IsDotted(u, oid, n)
<1> DEFINE T == {m \in Nat : \E u : IsDotted(u, oid, m)}
<1>1. ASSUME NEW m \in Nat, \A k \in 0 .. m - 1 : k \in T PROVE m \in T
  <2>1. PICK g : m > 0 => IsDotted(g, oid, m - 1)
    <3>1. m > 0 => m - 1 \in 0 .. m - 1
      OBVIOUS
    <3> QED BY <1>1, <3>1
  <2> DEFINE h == [k \in 0 .. m |->
                     CASE k = 0 -> <<>>
                       [] k = 1 -> Decimal(oid[1])
                       [] OTHER -> g[k - 1] \o <<46>> \o Decimal(oid[k])]
  <2>2. ASSUME NEW k \in 0 .. m - 1 PROVE h[k] = g[k]
    <3>1. m > 0 /\ k \in 0 .. (m - 1) /\ k \in 0 .. m
      OBVIOUS
    <3>2. g[k] = CASE k = 0 -> <<>>
                   [] k = 1 -> Decimal(oid[1])
                   [] OTHER -> g[k - 1] \o <<46>> \o Decimal(oid[k])
      BY <2>1, <3>1, Zenon DEF IsDotted
    <3>3. h[k] = CASE k = 0 -> <<>>
                   [] k = 1 -> Decimal(oid[1])
                   [] OTHER -> g[k - 1] \o <<46>> \o Decimal(oid[k])
      BY <3>1, Zenon
    <3> QED BY <3>2, <3>3, Zenon
  <2>3. ASSUME NEW k \in 0 .. m, k # 0 PROVE h[k - 1] = g[k - 1]
    <3>1. k - 1 \in 0 .. m - 1
      BY <2>3
    <3> QED BY <2>2, <3>1, Zenon
  <2>4. IsDotted(h, oid, m)
    <3>1. ASSUME NEW k \in 0 .. m
          PROVE  (CASE k = 0 -> <<>>
                    [] k = 1 -> Decimal(oid[1])
                    [] OTHER -> g[k - 1] \o <<46>> \o Decimal(oid[k]))
                 = (CASE k = 0 -> <<>>
                      [] k = 1 -> Decimal(oid[1])
                      [] OTHER -> h[k - 1] \o <<46>> \o Decimal(oid[k]))
      <4> HIDE DEF h
      <4>1. CASE k = 0
        BY <4>1, SMT
      <4>2. CASE k # 0
        BY <2>3, <4>2, Zenon
      <4> QED BY <4>1, <4>2, Zenon
    <3> QED BY <3>1, Zenon DEF IsDotted
  <2> QED BY <2>4
<1>2. Nat \subseteq T
  <2> HIDE DEF T
  <2> QED BY <1>1, Induction
<1> QED BY <1>2

\* A number in decimal is a text without dots.
LEMMA DecimalIsText ==
  ASSUME NEW n \in Nat
  PROVE  /\ Decimal(n) \in Seq(Int) /\ Len(Decimal(n)) \in Nat
         /\ Len(Decimal(n)) >= 1
         /\ \A i \in 1 .. Len(Decimal(n)) : Decimal(n)[i] # 46
<1>1. Decimal(n) \in Seq(Digits) /\ Len(Decimal(n)) >= 1
  BY DecimalType
<1>2. Decimal(n) \in [1 .. Len(Decimal(n)) -> Digits] /\ Len(Decimal(n)) \in Nat
  BY <1>1, LenProperties
<1>3. \A d \in Digits : d \in Int /\ d # 46
  BY DEF Digits
<1>4. Digits \subseteq Int
  BY <1>3
<1>5. Decimal(n) \in Seq(Int)
  <2>1. Decimal(n) \in [1 .. Len(Decimal(n)) -> Int]
    BY <1>2, <1>4
  <2> QED BY <1>2, <2>1, SeqDef
<1>6. \A i \in 1 .. Len(Decimal(n)) : Decimal(n)[i] \in Digits
  BY <1>2
<1> QED BY <1>1, <1>2, <1>3, <1>5, <1>6

\* The text of an identifier is the last of a chain.
LEMMA DottedIsChain ==
  ASSUME NEW oid \in Seq(Nat)
  PROVE  \E u : Chain(u, oid) /\ Dotted(oid) = u[Len(oid)]
<1> DEFINE u == CHOOSE g : IsDotted(g, oid, Len(oid))
<1>1. Len(oid) \in Nat /\ \A k \in 1 .. Len(oid) : oid[k] \in Nat
  BY LenProperties
<1>2. IsDotted(u, oid, Len(oid))
  BY <1>1, DottedExists
<1>3. Dotted(oid) = u[Len(oid)]
  BY DEF Dotted, IsDotted
<1> HIDE DEF u
<1>4. ASSUME NEW k \in 0 .. Len(oid)
      PROVE  u[k] = CASE k = 0 -> <<>>
                      [] k = 1 -> Decimal(oid[1])
                      [] OTHER -> u[k - 1] \o <<46>> \o Decimal(oid[k])
  BY <1>2, Zenon DEF IsDotted
<1>5. u[0] = <<>>
  <2>1. 0 \in 0 .. Len(oid)
    BY <1>1
  <2> QED BY <1>4, <2>1
<1>6. Len(oid) >= 1 => u[1] = Decimal(oid[1])
  <2>1. Len(oid) >= 1 => 1 \in 0 .. Len(oid) /\ 1 # 0
    BY <1>1
  <2> QED BY <1>4, <2>1
<1>7. ASSUME NEW k \in 2 .. Len(oid)
      PROVE  u[k] = u[k - 1] \o <<46>> \o Decimal(oid[k])
  <2>1. k \in 0 .. Len(oid) /\ k # 0 /\ k # 1
    BY <1>1
  <2> QED BY <1>4, <2>1, Zenon
<1> DEFINE T == {k \in Nat : k <= Len(oid) => u[k] \in Seq(Int)}
<1>8. ASSUME NEW k \in Nat, \A i \in 0 .. k - 1 : i \in T PROVE k \in T
  <2> SUFFICES ASSUME k <= Len(oid) PROVE u[k] \in Seq(Int)
    OBVIOUS
  <2>1. CASE k = 0
    <3>1. <<>> \in Seq(Int)
      OBVIOUS
    <3> QED BY <1>5, <2>1, <3>1
  <2>2. CASE k = 1
    <3>1. 1 \in 1 .. Len(oid) /\ Len(oid) >= 1
      BY <1>1, <2>2
    <3>2. oid[1] \in Nat
      BY <1>1, <3>1
    <3>3. Decimal(oid[1]) \in Seq(Int)
      BY <3>2, DecimalIsText
    <3> QED BY <1>6, <2>2, <3>1, <3>3
  <2>3. CASE k >= 2
    <3>1. k \in 2 .. Len(oid) /\ k - 1 \in 0 .. k - 1 /\ k - 1 <= Len(oid)
      BY <1>1, <2>3
    <3>2. u[k - 1] \in Seq(Int) /\ <<46>> \in Seq(Int)
      BY <1>8, <3>1
    <3>3. Decimal(oid[k]) \in Seq(Int)
      <4>1. oid[k] \in Nat
        BY <1>1, <3>1
      <4> QED BY <4>1, DecimalIsText
    <3>4. u[k - 1] \o <<46>> \in Seq(Int)
      BY <3>2, ConcatProperties
    <3>5. u[k - 1] \o <<46>> \o Decimal(oid[k]) \in Seq(Int)
      BY <3>3, <3>4, ConcatProperties
    <3> QED BY <1>7, <3>1, <3>5
  <2> QED BY <2>1, <2>2, <2>3
<1>9. Nat \subseteq T
  <2> HIDE DEF T
  <2> QED BY <1>8, Induction
<1>10. \A k \in 0 .. Len(oid) : u[k] \in Seq(Int)
  BY <1>1, <1>9
<1>11. Chain(u, oid)
  BY <1>5, <1>6, <1>7, <1>10 DEF Chain
<1> QED BY <1>3, <1>11

\* What the arc at k adds to the text.
Adds(u, oid, k) ==
  /\ Len(u[k - 1]) \in Nat /\ Len(u[k]) \in Nat
  /\ Offset(u, k) \in Nat /\ Offset(u, k) >= Len(u[k - 1])
  /\ Len(u[k]) = Offset(u, k) + Len(Decimal(oid[k]))
  /\ \A i \in 1 .. Len(u[k - 1]) : u[k][i] = u[k - 1][i]
  /\ \A i \in 1 .. Len(Decimal(oid[k])) :
       u[k][Offset(u, k) + i] = Decimal(oid[k])[i]
  /\ k > 1 => Offset(u, k) = Len(u[k - 1]) + 1 /\ u[k][Offset(u, k)] = 46

\* Each text of a chain adds an arc to the one before.
LEMMA ChainStep ==
  ASSUME NEW oid \in Seq(Nat), NEW u, Chain(u, oid), NEW k \in 1 .. Len(oid)
  PROVE  Adds(u, oid, k)
<1> USE DEF Adds
<1> DEFINE d == Decimal(oid[k])
<1>0. Len(oid) \in Nat /\ oid[k] \in Nat
  BY LenProperties
<1>1. d \in Seq(Int) /\ Len(d) \in Nat
  BY <1>0, DecimalIsText
<1>2. /\ u[k] \in Seq(Int) /\ u[k - 1] \in Seq(Int)
      /\ Len(u[k]) \in Nat /\ Len(u[k - 1]) \in Nat
  <2>1. k \in 0 .. Len(oid) /\ k - 1 \in 0 .. Len(oid)
    BY <1>0
  <2> QED BY <2>1, LenProperties DEF Chain
<1>3. CASE k = 1
  <2>1. u[0] = <<>> /\ u[1] = Decimal(oid[1])
    BY <1>0, <1>3 DEF Chain
  <2>2. Len(u[k - 1]) = 0 /\ u[k] = d /\ Offset(u, k) = 0
    BY <1>3, <2>1 DEF Offset
  <2> HIDE DEF d
  <2>3. \A i \in 1 .. Len(d) : 0 + i = i
    BY <1>1
  <2>4. \A i \in 1 .. Len(d) : u[k][0 + i] = d[i]
    BY <2>2, <2>3
  <2>5. ~(k > 1)
    BY <1>3
  <2>6. Len(u[k]) = 0 + Len(d)
    BY <1>1, <2>2
  <2>7. \A i \in 1 .. Len(u[k - 1]) : u[k][i] = u[k - 1][i]
    BY <2>2
  <2> QED BY <1>2, <2>2, <2>4, <2>5, <2>6, <2>7 DEF d
<1>4. CASE k > 1
  <2> DEFINE p == u[k - 1]
             q == p \o <<46>>
  <2>1. u[k] = p \o <<46>> \o d
    <3>1. k \in 2 .. Len(oid)
      BY <1>0, <1>4
    <3> QED BY <3>1, Zenon DEF Chain
  <2>2. Offset(u, k) = Len(p) + 1
    BY <1>4 DEF Offset
  <2>3. p \in Seq(Int) /\ Len(p) \in Nat
    BY <1>2
  <2> HIDE DEF d, p
  <2>4. <<46>> \in Seq(Int) /\ Len(<<46>>) = 1 /\ <<46>>[1] = 46
    OBVIOUS
  <2>5. /\ q \in Seq(Int) /\ Len(q) = Len(p) + 1
        /\ \A i \in 1 .. Len(p) + 1 : q[i] = IF i <= Len(p) THEN p[i]
                                             ELSE <<46>>[i - Len(p)]
    BY <2>3, <2>4, ConcatProperties
  <2>6. \A i \in 1 .. Len(p) : q[i] = p[i]
    BY <2>3, <2>5
  <2>7. q[Len(p) + 1] = 46
    BY <2>3, <2>4, <2>5
  <2> HIDE DEF q
  <2>0. /\ Len(p) \in Nat /\ Len(q) \in Nat /\ Len(d) \in Nat
        /\ Len(q) = Len(p) + 1
    BY <1>1, <2>3, <2>5
  <2>8. /\ Len(q \o d) = Len(q) + Len(d)
        /\ \A i \in 1 .. Len(q) + Len(d) :
             (q \o d)[i] = IF i <= Len(q) THEN q[i] ELSE d[i - Len(q)]
    <3>1. q \in Seq(Int) /\ d \in Seq(Int)
      BY <1>1, <2>5
    <3> QED BY <3>1, ConcatProperties
  <2>9. u[k] = q \o d
    BY <2>1 DEF q
  <2>10. \A i \in 1 .. Len(p) : u[k][i] = p[i]
    <3>1. \A i \in 1 .. Len(p) : i \in 1 .. Len(q) + Len(d) /\ i <= Len(q)
      BY <2>0
    <3> QED BY <2>6, <2>8, <2>9, <3>1, Zenon
  <2>11. u[k][Len(p) + 1] = 46
    <3>1. Len(p) + 1 \in 1 .. Len(q) + Len(d) /\ Len(p) + 1 <= Len(q)
      BY <2>0
    <3> QED BY <2>7, <2>8, <2>9, <3>1, Zenon
  <2>12. ASSUME NEW i \in 1 .. Len(d) PROVE u[k][Len(p) + 1 + i] = d[i]
    <3>1. /\ Len(p) + 1 + i \in 1 .. Len(q) + Len(d)
          /\ ~(Len(p) + 1 + i <= Len(q)) /\ (Len(p) + 1 + i) - Len(q) = i
      BY <2>0
    <3> QED BY <2>8, <2>9, <3>1, Zenon
  <2>13. Len(u[k]) = Len(p) + 1 + Len(d)
    BY <2>5, <2>8, <2>9, Zenon
  <2>14. Len(p) + 1 \in Nat /\ Len(p) + 1 >= Len(p)
    BY <2>3
  <2> QED BY <1>2, <2>2, <2>10, <2>11, <2>12, <2>13, <2>14, Zenon DEF d, p
<1> QED BY <1>3, <1>4

\* The text of j arcs is a prefix of that of k, with a dot after it.
Begins(u, j, k) ==
  /\ Len(u[j]) \in Nat /\ Len(u[k]) \in Nat
  /\ Len(u[j]) <= Len(u[k])
  /\ \A i \in 1 .. Len(u[j]) : u[k][i] = u[j][i]
  /\ 1 <= j /\ j < k => /\ Len(u[j]) + 1 <= Len(u[k])
                        /\ u[k][Len(u[j]) + 1] = 46

\* Each text of a chain begins with those before it.
LEMMA ChainPrefix ==
  ASSUME NEW oid \in Seq(Nat), NEW u, Chain(u, oid),
         NEW k \in 0 .. Len(oid), NEW j \in 0 .. k
  PROVE  Begins(u, j, k)
<1> USE DEF Begins
<1> DEFINE P(n) ==
      /\ Len(u[j]) <= Len(u[n])
      /\ \A i \in 1 .. Len(u[j]) : u[n][i] = u[j][i]
      /\ 1 <= j /\ j < n => /\ Len(u[j]) + 1 <= Len(u[n])
                            /\ u[n][Len(u[j]) + 1] = 46
    T == {n \in Nat : j <= n /\ n <= Len(oid) => P(n)}
<1>0. Len(oid) \in Nat
  BY LenProperties
<1>1. ASSUME NEW n \in 0 .. Len(oid) PROVE u[n] \in Seq(Int) /\ Len(u[n]) \in Nat
  BY LenProperties DEF Chain
<1>2. ASSUME NEW n \in Nat, \A i \in 0 .. n - 1 : i \in T PROVE n \in T
  <2> SUFFICES ASSUME j <= n, n <= Len(oid) PROVE P(n)
    OBVIOUS
  <2>1. CASE j = n
    <3>1. Len(u[j]) \in Nat
      BY <1>0, <1>1
    <3> QED BY <2>1, <3>1
  <2>2. CASE j # n
    <3>1. j <= n - 1 /\ n - 1 \in 0 .. n - 1 /\ n \in 1 .. Len(oid)
          /\ n - 1 <= Len(oid) /\ j \in 0 .. Len(oid) /\ n - 1 \in 0 .. Len(oid)
      BY <1>0, <2>2
    <3>2. P(n - 1)
      BY <1>2, <3>1
    <3>3. /\ Offset(u, n) \in Nat /\ Offset(u, n) >= Len(u[n - 1])
          /\ Len(u[n]) = Offset(u, n) + Len(Decimal(oid[n]))
          /\ \A i \in 1 .. Len(u[n - 1]) : u[n][i] = u[n - 1][i]
          /\ n > 1 => Offset(u, n) = Len(u[n - 1]) + 1 /\ u[n][Offset(u, n)] = 46
      <4>1. Adds(u, oid, n)
        BY <3>1, ChainStep
      <4> QED BY <4>1 DEF Adds
    <3>4. Len(Decimal(oid[n])) \in Nat /\ Len(Decimal(oid[n])) >= 1
      <4>1. oid[n] \in Nat
        BY <3>1, LenProperties
      <4> QED BY <4>1, DecimalIsText
    <3>5. Len(u[j]) \in Nat /\ Len(u[n - 1]) \in Nat /\ Len(u[n]) \in Nat
      BY <1>1, <3>1
    <3>6. Len(u[n - 1]) < Len(u[n])
      BY <3>3, <3>4, <3>5
    <3>7. Len(u[j]) < Len(u[n])
      BY <3>2, <3>5, <3>6
    <3>8. \A i \in 1 .. Len(u[j]) : u[n][i] = u[j][i]
      <4>1. \A i \in 1 .. Len(u[j]) : i \in 1 .. Len(u[n - 1])
        BY <3>2, <3>5
      <4> QED BY <3>2, <3>3, <4>1
    <3>9. ASSUME 1 <= j PROVE u[n][Len(u[j]) + 1] = 46
      <4>1. CASE j = n - 1
        <5>1. n > 1
          BY <3>1, <3>9
        <5> QED BY <3>3, <4>1, <5>1
      <4>2. CASE j # n - 1
        <5>1. j < n - 1
          BY <3>1, <4>2
        <5>2. /\ Len(u[j]) + 1 <= Len(u[n - 1])
              /\ u[n - 1][Len(u[j]) + 1] = 46
          BY <3>2, <3>9, <5>1
        <5>3. Len(u[j]) + 1 \in 1 .. Len(u[n - 1])
          BY <3>5, <5>2
        <5> QED BY <3>3, <5>2, <5>3
      <4> QED BY <4>1, <4>2
    <3> QED BY <3>5, <3>7, <3>8, <3>9
  <2> QED BY <2>1, <2>2
<1>3. Nat \subseteq T
  <2> HIDE DEF T
  <2> QED BY <1>2, Induction
<1>4. k \in T /\ j <= k /\ k <= Len(oid) /\ j \in 0 .. Len(oid)
  BY <1>0, <1>3
<1> QED BY <1>1, <1>4

\* Identifiers that begin alike have texts that do.
LEMMA SameArcsSameText ==
  ASSUME NEW oid \in Seq(Nat), NEW u, Chain(u, oid),
         NEW arc \in Seq(Nat), NEW v, Chain(v, arc),
         NEW n \in Nat, n <= Len(oid), n <= Len(arc),
         \A j \in 1 .. n : oid[j] = arc[j]
  PROVE  u[n] = v[n]
<1> DEFINE T == {k \in Nat : k <= n => u[k] = v[k]}
<1>0. Len(oid) \in Nat /\ Len(arc) \in Nat
  BY LenProperties
<1>1. ASSUME NEW k \in Nat, \A i \in 0 .. k - 1 : i \in T PROVE k \in T
  <2> SUFFICES ASSUME k <= n PROVE u[k] = v[k]
    OBVIOUS
  <2>1. CASE k = 0
    BY <2>1 DEF Chain
  <2>2. CASE k = 1
    <3>1. Len(oid) >= 1 /\ Len(arc) >= 1 /\ 1 \in 1 .. n
      BY <1>0, <2>2
    <3>2. u[1] = Decimal(oid[1]) /\ v[1] = Decimal(arc[1])
      BY <3>1 DEF Chain
    <3> QED BY <2>2, <3>1, <3>2
  <2>3. CASE k >= 2
    <3>1. /\ k \in 2 .. Len(oid) /\ k \in 2 .. Len(arc) /\ k \in 1 .. n
          /\ k - 1 \in 0 .. k - 1 /\ k - 1 <= n
      BY <1>0, <2>3
    <3>2. /\ u[k] = u[k - 1] \o <<46>> \o Decimal(oid[k])
          /\ v[k] = v[k - 1] \o <<46>> \o Decimal(arc[k])
      BY <3>1, Zenon DEF Chain
    <3>3. u[k - 1] = v[k - 1]
      BY <1>1, <3>1
    <3>4. oid[k] = arc[k]
      BY <3>1
    <3> QED BY <3>2, <3>3, <3>4, Zenon
  <2> QED BY <2>1, <2>2, <2>3
<1>2. Nat \subseteq T
  <2> HIDE DEF T
  <2> QED BY <1>1, Induction
<1> QED BY <1>2

\* Text s is text t, a dot, and more.
Continues(s, t) == /\ Len(s) >= Len(t) + 1
                   /\ \A i \in 1 .. Len(t) : s[i] = t[i]
                   /\ s[Len(t) + 1] = 46

\* A text that begins with that of an arc and a dot is of an identifier that
\* begins with the arc's numbers: after k that agree there is one more.
LEMMA OneMoreArc ==
  ASSUME NEW oid \in Seq(Nat), NEW u, Chain(u, oid),
         NEW arc \in Seq(Nat), NEW v, Chain(v, arc),
         Continues(u[Len(oid)], v[Len(arc)]),
         NEW k \in 1 .. Len(arc), k - 1 <= Len(oid), u[k - 1] = v[k - 1]
  PROVE  k <= Len(oid) /\ oid[k] = arc[k]
<1> DEFINE n == Len(oid)
           a == Len(arc)
           d == Decimal(oid[k])
           e == Decimal(arc[k])
           off == Offset(v, k)
<1>1. n \in Nat /\ a \in Nat
  BY LenProperties
<1>2. Len(u[n]) \in Nat /\ Len(v[a]) \in Nat
  <2>1. n \in 0 .. n /\ a \in 0 .. a
    BY <1>1
  <2> QED BY <2>1, LenProperties DEF Chain
<1>3. k <= n
  <2> SUFFICES ASSUME k = n + 1 PROVE FALSE
    BY <1>1
  <2>1. k - 1 \in 0 .. a /\ a \in 0 .. a /\ k - 1 \in 0 .. a /\ k - 1 = n
    BY <1>1
  <2>2. Len(v[k - 1]) <= Len(v[a])
    BY <2>1, ChainPrefix DEF Begins
  <2>3. u[n] = v[k - 1]
    BY <2>1
  <2> HIDE DEF n, a
  <2>4. Len(u[n]) >= Len(v[a]) + 1
    BY DEF n, a, Continues
  <2> QED BY <1>2, <2>2, <2>3, <2>4
<1>4. k \in 1 .. n /\ k \in 1 .. a
  BY <1>1, <1>3
<1>5. /\ d \in Seq(Int) /\ Len(d) \in Nat
      /\ \A i \in 1 .. Len(d) : d[i] # 46
  <2>1. oid[k] \in Nat
    BY <1>4, LenProperties
  <2> QED BY <2>1, DecimalIsText
<1>6. /\ e \in Seq(Int) /\ Len(e) \in Nat
      /\ \A i \in 1 .. Len(e) : e[i] # 46
  <2>1. arc[k] \in Nat
    BY <1>4, LenProperties
  <2> QED BY <2>1, DecimalIsText
<1>7. Offset(u, k) = off
  BY DEF Offset
<1>8. /\ off \in Nat /\ Len(u[k]) = off + Len(d) /\ Len(v[k]) = off + Len(e)
      /\ \A i \in 1 .. Len(d) : u[k][off + i] = d[i]
      /\ \A i \in 1 .. Len(e) : v[k][off + i] = e[i]
  <2>1. /\ Offset(u, k) \in Nat /\ Len(u[k]) = Offset(u, k) + Len(d)
        /\ \A i \in 1 .. Len(d) : u[k][Offset(u, k) + i] = d[i]
    <3>1. Adds(u, oid, k)
      BY <1>4, ChainStep
    <3> QED BY <3>1 DEF Adds
  <2>2. /\ Len(v[k]) = Offset(v, k) + Len(e)
        /\ \A i \in 1 .. Len(e) : v[k][Offset(v, k) + i] = e[i]
    <3>1. Adds(v, arc, k)
      BY <1>4, ChainStep
    <3> QED BY <3>1 DEF Adds
  <2> QED BY <1>7, <2>1, <2>2
<1>9. /\ Len(u[k]) <= Len(u[n])
      /\ \A i \in 1 .. Len(u[k]) : u[n][i] = u[k][i]
      /\ k < n => u[n][Len(u[k]) + 1] = 46
  <2>1. n \in 0 .. n /\ k \in 0 .. n /\ 1 <= k
    BY <1>4
  <2>2. Begins(u, k, n)
    BY <2>1, ChainPrefix
  <2> QED BY <2>1, <2>2 DEF Begins
<1>10. /\ Len(v[k]) <= Len(v[a])
       /\ \A i \in 1 .. Len(v[k]) : v[a][i] = v[k][i]
       /\ k < a => Len(v[k]) + 1 <= Len(v[a]) /\ v[a][Len(v[k]) + 1] = 46
  <2>1. a \in 0 .. a /\ k \in 0 .. a /\ 1 <= k
    BY <1>4
  <2>2. Begins(v, k, a)
    BY <2>1, ChainPrefix
  <2> QED BY <2>1, <2>2 DEF Begins
<1>11. /\ Len(u[n]) >= Len(v[a]) + 1
       /\ \A i \in 1 .. Len(v[a]) : u[n][i] = v[a][i]
       /\ u[n][Len(v[a]) + 1] = 46
  BY DEF Continues
<1> HIDE DEF n, a, d, e, off
<1> DEFINE lu == Len(u[k])
           lv == Len(v[k])
           la == Len(v[a])
           ld == Len(d)
           le == Len(e)
<1>0. /\ off \in Nat /\ ld \in Nat /\ le \in Nat /\ la \in Nat
      /\ lu = off + ld /\ lv = off + le /\ lv <= la
      /\ k < a => lv + 1 <= la
  BY <1>2, <1>5, <1>6, <1>8, <1>10
<1>12. ASSUME NEW i \in 1 .. Len(d) PROVE u[n][off + i] = d[i]
  <2>1. off + i \in 1 .. Len(u[k])
    <3>1. i \in 1 .. ld
      OBVIOUS
    <3> HIDE DEF lu, lv, la, ld, le
    <3>2. off + i \in 1 .. lu
      BY <1>0, <3>1
    <3> QED BY <3>2 DEF lu
  <2> QED BY <1>8, <1>9, <2>1
<1>13. ASSUME NEW i \in 1 .. Len(e) PROVE u[n][off + i] = e[i]
  <2>1. off + i \in 1 .. Len(v[k]) /\ off + i \in 1 .. Len(v[a])
    <3>1. i \in 1 .. le
      OBVIOUS
    <3> HIDE DEF lu, lv, la, ld, le
    <3>2. off + i \in 1 .. lv /\ off + i \in 1 .. la
      BY <1>0, <3>1
    <3> QED BY <3>2 DEF lv, la
  <2> QED BY <1>8, <1>10, <1>11, <2>1
<1>14. u[n][off + Len(e) + 1] = 46
  <2>1. CASE k = a
    <3>1. Len(v[a]) = off + Len(e)
      BY <1>8, <2>1
    <3> QED BY <1>11, <3>1
  <2>2. CASE k < a
    <3>1. Len(v[k]) + 1 \in 1 .. Len(v[a])
      <4> HIDE DEF lu, lv, la, ld, le
      <4>1. lv + 1 \in 1 .. la
        BY <1>0, <2>2
      <4> QED BY <4>1 DEF lv, la
    <3>2. u[n][Len(v[k]) + 1] = v[a][Len(v[k]) + 1]
      BY <1>11, <3>1
    <3> QED BY <1>8, <1>10, <2>2, <3>2
  <2> QED BY <1>1, <1>4, <2>1, <2>2
<1>15. Len(d) <= Len(e)
  <2> SUFFICES ASSUME Len(e) < Len(d) PROVE FALSE
    BY <1>5, <1>6
  <2>1. Len(e) + 1 \in 1 .. Len(d) /\ off + (Len(e) + 1) = off + Len(e) + 1
    BY <1>5, <1>6, <1>8
  <2>2. u[n][off + (Len(e) + 1)] = d[Len(e) + 1]
    BY <1>12, <2>1
  <2> QED BY <1>5, <1>14, <2>1, <2>2
<1>16. Len(e) <= Len(d)
  <2> SUFFICES ASSUME Len(d) < Len(e) PROVE FALSE
    BY <1>5, <1>6
  <2>1. /\ Len(d) + 1 \in 1 .. Len(e)
        /\ off + (Len(d) + 1) = Len(u[k]) + 1
    BY <1>5, <1>6, <1>8
  <2>2. u[n][Len(u[k]) + 1] = e[Len(d) + 1]
    BY <1>13, <2>1
  <2>3. k < n
    <3> SUFFICES ASSUME k = n PROVE FALSE
      BY <1>1, <1>4
    <3>1. Len(u[n]) = off + Len(d)
      BY <1>8
    <3>2. Len(v[a]) >= off + Len(e)
      BY <1>8, <1>10
    <3> QED BY <1>2, <1>5, <1>6, <1>8, <1>11, <3>1, <3>2
  <2> QED BY <1>6, <1>9, <2>1, <2>2, <2>3
<1>17. Len(d) = Len(e)
  BY <1>5, <1>6, <1>15, <1>16
<1>18. \A i \in 1 .. Len(d) : d[i] = e[i]
  BY <1>12, <1>13, <1>17
<1>19. d = e
  BY <1>5, <1>6, <1>17, <1>18, SeqEqual
<1>20. oid[k] = arc[k]
  <2>1. oid[k] \in Nat /\ arc[k] \in Nat
    BY <1>4, LenProperties DEF n, a
  <2> QED BY <1>19, <2>1, DecimalInjective DEF d, e
<1> QED BY <1>3, <1>20 DEF n

\* An identifier's text begins with that of an arc and a dot exactly if the
\* identifier is below the arc.
LEMMA PolicyTexts ==
  ASSUME NEW oid \in Oids
  PROVE  IsShakenPolicyOid(oid) <=> Descends(oid)
<1>1. oid \in Seq(Nat) /\ Arc \in Seq(Nat) /\ Arc # <<>>
  BY DataAssumption
<1> DEFINE n == Len(oid)
           a == Len(Arc)
<1>2. n \in Nat /\ a \in Nat /\ a >= 1
  BY <1>1, LenProperties
<1>3. PICK u : Chain(u, oid) /\ Dotted(oid) = u[n]
  BY <1>1, DottedIsChain
<1>4. PICK v : Chain(v, Arc) /\ Dotted(Arc) = v[a]
  BY <1>1, DottedIsChain
<1> DEFINE text == u[n]
           start == v[a] \o <<46>>
<1>5. text \in Seq(Int) /\ Len(text) \in Nat /\ v[a] \in Seq(Int) /\ Len(v[a]) \in Nat
  <2>1. n \in 0 .. n /\ a \in 0 .. a
    BY <1>2
  <2>2. text \in Seq(Int) /\ v[a] \in Seq(Int)
    BY <1>3, <1>4, <2>1 DEF Chain
  <2> QED BY <2>2, LenProperties
<1>6. /\ start \in Seq(Int) /\ Len(start) = Len(v[a]) + 1
      /\ \A i \in 1 .. Len(v[a]) : start[i] = v[a][i]
      /\ start[Len(v[a]) + 1] = 46
  <2> DEFINE w == v[a]
  <2>1. <<46>> \in Seq(Int) /\ Len(<<46>>) = 1 /\ <<46>>[1] = 46
    OBVIOUS
  <2>2. w \in Seq(Int) /\ Len(w) \in Nat
    BY <1>5
  <2> HIDE DEF w
  <2>3. /\ w \o <<46>> \in Seq(Int) /\ Len(w \o <<46>>) = Len(w) + 1
        /\ \A i \in 1 .. Len(w) + 1 :
             (w \o <<46>>)[i] = IF i <= Len(w) THEN w[i]
                                               ELSE <<46>>[i - Len(w)]
    BY <2>1, <2>2, ConcatProperties
  <2>4. \A i \in 1 .. Len(w) : (w \o <<46>>)[i] = w[i]
    BY <2>2, <2>3
  <2>5. (w \o <<46>>)[Len(w) + 1] = 46
    BY <2>1, <2>2, <2>3
  <2> QED BY <2>3, <2>4, <2>5 DEF w
<1>7. IsShakenPolicyOid(oid) <=>
        Len(start) <= Len(text) /\ SubSeq(text, 1, Len(start)) = start
  BY <1>3, <1>4 DEF IsShakenPolicyOid, StartsWith
<1>8. Len(start) <= Len(text) =>
        (SubSeq(text, 1, Len(start)) = start
           <=> \A i \in 1 .. Len(start) : text[i] = start[i])
  <2> SUFFICES ASSUME Len(start) <= Len(text)
               PROVE  SubSeq(text, 1, Len(start)) = start
                        <=> \A i \in 1 .. Len(start) : text[i] = start[i]
    OBVIOUS
  <2> DEFINE m == Len(start)
             sub == SubSeq(text, 1, m)
  <2>1. m \in Nat /\ m <= Len(text)
    BY <1>5, <1>6
  <2>2. text \in [1 .. Len(text) -> Int]
    BY <1>5, LenProperties
  <2> HIDE DEF text, start, m
  <2>3. \A i \in 1 .. m : text[i] \in Int
    BY <1>5, <2>1, <2>2
  <2>4. /\ sub \in Seq(Int) /\ Len(sub) = m
        /\ \A i \in 1 .. m : sub[i] = text[i]
    BY <2>1, <2>3, SubSeqProperties
  <2> HIDE DEF sub
  <2>5. (\A i \in 1 .. m : text[i] = start[i]) => sub = start
    <3> SUFFICES ASSUME \A i \in 1 .. m : text[i] = start[i] PROVE sub = start
      OBVIOUS
    <3>1. Len(sub) = Len(start) /\ \A i \in 1 .. Len(sub) : sub[i] = start[i]
      BY <2>4 DEF m
    <3> QED BY <1>6, <2>4, <3>1, SeqEqual
  <2>6. sub = start => \A i \in 1 .. m : text[i] = start[i]
    BY <2>4
  <2> QED BY <2>5, <2>6 DEF m, sub
<1>9. Descends(oid) <=> n > a /\ \A j \in 1 .. a : oid[j] = Arc[j]
  <2> SUFFICES ASSUME n > a
               PROVE  SubSeq(oid, 1, a) = Arc
                        <=> \A j \in 1 .. a : oid[j] = Arc[j]
    BY <1>2 DEF Descends
  <2>1. oid \in [1 .. n -> Nat]
    BY <1>1, LenProperties
  <2>2. \A j \in 1 .. a : oid[j] \in Nat
    BY <1>2, <2>1
  <2>3. /\ SubSeq(oid, 1, a) \in Seq(Nat) /\ Len(SubSeq(oid, 1, a)) = a
        /\ \A j \in 1 .. a : SubSeq(oid, 1, a)[j] = oid[j]
    BY <1>2, <2>2, SubSeqProperties
  <2> DEFINE sub == SubSeq(oid, 1, a)
  <2> HIDE DEF sub
  <2>4. (\A j \in 1 .. a : oid[j] = Arc[j]) => sub = Arc
    <3> SUFFICES ASSUME \A j \in 1 .. a : oid[j] = Arc[j] PROVE sub = Arc
      OBVIOUS
    <3>1. sub \in Seq(Nat) /\ Len(sub) = a /\ \A j \in 1 .. Len(sub) : sub[j] = Arc[j]
      BY <2>3 DEF sub
    <3> QED BY <1>1, <3>1, SeqEqual
  <2>5. sub = Arc => \A j \in 1 .. a : oid[j] = Arc[j]
    BY <2>3 DEF sub
  <2> QED BY <2>4, <2>5 DEF sub
<1>10. ASSUME Descends(oid) PROVE IsShakenPolicyOid(oid)
  <2>1. n > a /\ \A j \in 1 .. a : oid[j] = Arc[j]
    BY <1>9, <1>10
  <2>2. u[a] = v[a]
    <3>1. Chain(u, oid) /\ Chain(v, Arc)
      BY <1>3, <1>4
    <3>2. a <= Len(oid) /\ a <= Len(Arc)
      BY <1>2, <2>1
    <3>3. \A j \in 1 .. a : oid[j] = Arc[j]
      BY <2>1
    <3>4. oid \in Seq(Nat) /\ Arc \in Seq(Nat) /\ a \in Nat
      BY <1>1, <1>2
    <3> HIDE DEF text, start
    <3> QED BY <3>1, <3>2, <3>3, <3>4, SameArcsSameText, SMT
  <2>3. Begins(u, a, n)
    <3>1. n \in 0 .. n /\ a \in 0 .. n
      BY <1>2, <2>1
    <3> QED BY <1>1, <1>3, <3>1, ChainPrefix
  <2>4. /\ Len(start) <= Len(text)
        /\ \A i \in 1 .. Len(v[a]) : text[i] = v[a][i]
        /\ text[Len(v[a]) + 1] = 46
    BY <1>2, <1>6, <2>1, <2>2, <2>3 DEF Begins
  <2> HIDE DEF text, start
  <2>5. \A i \in 1 .. Len(start) : text[i] = start[i]
    <3> SUFFICES ASSUME NEW i \in 1 .. Len(start) PROVE text[i] = start[i]
      OBVIOUS
    <3>1. i \in 1 .. Len(v[a]) \/ i = Len(v[a]) + 1
      BY <1>5, <1>6
    <3> QED BY <1>6, <2>4, <3>1
  <2> QED BY <1>7, <1>8, <2>4, <2>5
<1>11. ASSUME IsShakenPolicyOid(oid) PROVE Descends(oid)
  <2>1. /\ Len(text) >= Len(v[a]) + 1
        /\ \A i \in 1 .. Len(v[a]) : text[i] = v[a][i]
        /\ text[Len(v[a]) + 1] = 46
    <3> HIDE DEF text, start
    <3>1. Len(start) <= Len(text) /\ \A i \in 1 .. Len(start) : text[i] = start[i]
      BY <1>7, <1>8, <1>11
    <3>2. \A i \in 1 .. Len(v[a]) : i \in 1 .. Len(start)
      BY <1>5, <1>6
    <3>3. Len(v[a]) + 1 \in 1 .. Len(start)
      BY <1>5, <1>6
    <3> QED BY <1>5, <1>6, <3>1, <3>2, <3>3
  <2> DEFINE T == {k \in Nat : k <= a =>
                     k <= n /\ u[k] = v[k] /\ \A j \in 1 .. k : oid[j] = Arc[j]}
  <2>2. ASSUME NEW k \in Nat, \A i \in 0 .. k - 1 : i \in T PROVE k \in T
    <3> SUFFICES ASSUME k <= a
                 PROVE  /\ k <= n /\ u[k] = v[k]
                        /\ \A j \in 1 .. k : oid[j] = Arc[j]
      OBVIOUS
    <3>1. CASE k = 0
      BY <1>2, <1>3, <1>4, <3>1 DEF Chain
    <3>2. CASE k >= 1
      <4>1. k - 1 \in 0 .. k - 1 /\ k \in 1 .. a
        BY <1>2, <3>2
      <4>2. /\ k - 1 <= n /\ u[k - 1] = v[k - 1]
            /\ \A j \in 1 .. k - 1 : oid[j] = Arc[j]
        BY <2>2, <4>1
      <4>3. k <= n /\ oid[k] = Arc[k]
        <5>1. Chain(u, oid) /\ Chain(v, Arc)
          BY <1>3, <1>4
        <5>2. k - 1 <= n /\ u[k - 1] = v[k - 1]
          BY <4>2
        <5>3. Continues(u[n], v[a])
          BY <2>1 DEF Continues
        <5>4. oid \in Seq(Nat) /\ Arc \in Seq(Nat) /\ k \in 1 .. a
          BY <1>1, <4>1
        <5> HIDE DEF text, start, T
        <5> QED BY <5>1, <5>2, <5>3, <5>4, OneMoreArc, SMT
      <4>4. \A j \in 1 .. k : oid[j] = Arc[j]
        <5>1. \A j \in 1 .. k : j \in 1 .. k - 1 \/ j = k
          BY <4>1
        <5> QED BY <4>2, <4>3, <5>1
      <4>5. u[k] = v[k]
        BY <1>1, <1>3, <1>4, <4>3, <4>4, SameArcsSameText
      <4> QED BY <4>3, <4>4, <4>5
    <3> QED BY <3>1, <3>2
  <2>3. Nat \subseteq T
    <3> HIDE DEF T
    <3> QED BY <2>2, Induction
  <2>4. a <= n /\ u[a] = v[a] /\ \A j \in 1 .. a : oid[j] = Arc[j]
    BY <1>2, <2>3
  <2>5. a # n
    <3> SUFFICES ASSUME a = n PROVE FALSE
      OBVIOUS
    <3>1. Len(text) = Len(v[a])
      BY <2>4
    <3> HIDE DEF text
    <3> QED BY <1>5, <2>1, <3>1
  <2> QED BY <1>2, <1>9, <2>4, <2>5
<1> QED BY <1>10, <1>11

----------------------------------------------------------------------------
(* The invariant                                                             *)

\* The certificate was validated.
Validated == verdict \in {"escapes", "good", "bad"}

\* What is settled before a certificate is requested.
Settled ==
  /\ pc = "spc" => profile \in {Profile(env) : env \in Envs}
  /\ pc \in {"request", "validate"} \/ Validated =>
       /\ profile \in {Profile(env) : env \in Envs}
       /\ ValidSpc(spc) /\ Len(spc) = 4
  /\ pc \in {"configure", "spc", "request"} => certificate = None
  /\ honest => pc = "validate" \/ Validated

\* What is known of the certificate once there is one.
Known ==
  /\ pc = "validate" \/ Validated => certificate \in CertificatesOf(spc)
  /\ Validated => verdict = Verdict(certificate)

\* The policies that a CA puts in for what was asked for.
CalledFor(policies) ==
  IF accepted = None THEN \E oid \in policies : Descends(oid)
                     ELSE policies \cap accepted # {}

\* An honest CA issued what was requested, and its clock was right.
HonestCertificate ==
  honest /\ (pc = "validate" \/ Validated) =>
    \E from, to \in Instants, policies \in SUBSET Oids :
      /\ from <= now + Slack
      /\ CalledFor(policies)
      /\ certificate = Requested(from, to, policies)

IInv == TypeOK /\ Settled /\ Known /\ HonestCertificate

\* The invariant holds at first.
LEMMA InitIInv == Init => IInv
<1> SUFFICES ASSUME Init PROVE IInv
  OBVIOUS
<1>1. TypeOK
  <2>1. accepted \in (SUBSET Oids) \cup {None}
    BY DEF Init
  <2>2. now \in Instants
    BY TimeAssumption DEF Init, Instants
  <2>3. spc \in Seq(Int)
    <3>1. <<>> \in Seq(Int)
      OBVIOUS
    <3> QED BY <3>1 DEF Init
  <2> QED BY <2>1, <2>2, <2>3 DEF Init, TypeOK
<1>2. Settled /\ Known /\ HonestCertificate
  BY DEF Init, Settled, Known, HonestCertificate, Validated
<1> QED BY <1>1, <1>2 DEF IInv

\* A certificate that was requested is a certificate.
LEMMA RequestedType ==
  ASSUME profile \in {Profile(env) : env \in Envs},
         NEW from \in Instants, NEW to \in Instants,
         NEW policies \in (SUBSET Oids) \cup {None}
  PROVE  Requested(from, to, policies) \in CertificatesOf(spc)
<1>1. profile.acme \in Envs
  BY DEF Profile
<1> QED BY <1>1 DEF Requested, CertificatesOf

\* Issuing a certificate keeps the invariant.
LEMMA IssueKeeps ==
  ASSUME IInv, pc = "request", NEW c \in CertificatesOf(spc), Issue(c),
         honest' \in BOOLEAN,
         honest' => \E from, to \in Instants, policies \in SUBSET Oids :
                      /\ from <= now + Slack
                      /\ CalledFor(policies)
                      /\ c = Requested(from, to, policies)
  PROVE  IInv'
<1>1. TypeOK'
  BY DEF IInv, TypeOK, Issue
<1>2. Settled'
  BY DEF IInv, TypeOK, Settled, Issue, Validated
<1>3. Known'
  BY DEF IInv, TypeOK, Known, Issue, Validated
<1>4. HonestCertificate'
  BY DEF HonestCertificate, Issue, CalledFor, Requested, Instants
<1> QED BY <1>1, <1>2, <1>3, <1>4 DEF IInv

\* Every step keeps the invariant.
LEMMA StepIInv == IInv /\ [Next]_vars => IInv'
<1> SUFFICES ASSUME IInv, [Next]_vars PROVE IInv'
  OBVIOUS
<1> USE DEF IInv
<1>1. CASE ChooseEnvironment
  <2>1. PICK peeringhub, stipa \in Names \cup {None} :
          LET env == Environment(peeringhub, stipa)
          IN  IF env \in Envs
                THEN profile' = Profile(env) /\ pc' = "spc" /\ UNCHANGED verdict
                ELSE pc' = "ended" /\ verdict' = "values" /\ UNCHANGED profile
    BY <1>1 DEF ChooseEnvironment
  <2> DEFINE env == Environment(peeringhub, stipa)
  <2>2. CASE env \in Envs
    <3>1. profile' = Profile(env) /\ pc' = "spc" /\ UNCHANGED verdict
      BY <2>1, <2>2
    <3>2. profile' \in {Profile(e) : e \in Envs}
      BY <2>2, <3>1
    <3>3. profile' \in [acme : Envs, crl : Envs]
      BY <2>2, <3>1 DEF Profile
    <3> HIDE DEF env
    <3> QED BY <1>1, <3>1, <3>2, <3>3
        DEF ChooseEnvironment, TypeOK, Settled, Known, HonestCertificate,
            Validated, CertificatesOf
  <2>3. CASE env \notin Envs
    <3>1. pc' = "ended" /\ verdict' = "values" /\ UNCHANGED profile
      BY <2>1, <2>3
    <3> QED BY <1>1, <3>1
        DEF ChooseEnvironment, TypeOK, Settled, Known, HonestCertificate,
            Validated
  <2> QED BY <2>2, <2>3
<1>2. CASE Configure
  <2>1. PICK text \in Texts : spc' = Strip(text)
    BY <1>2 DEF Configure
  <2>2. spc' \in Seq(Int)
    BY <2>1, DataAssumption, StripProperties
  <2>3. certificate = None /\ ~honest /\ certificate' = certificate
        /\ honest' = honest
    BY <1>2 DEF Configure, Settled, TypeOK, Validated
  <2>4. CASE ValidSpc(spc')
    <3>1. pc' = "request" /\ UNCHANGED verdict
      BY <1>2, <2>4 DEF Configure
    <3>2. Len(spc') = 4
      BY <2>1, <2>4, DataAssumption, StrippedHasFour
    <3> QED BY <1>2, <2>2, <2>3, <2>4, <3>1, <3>2
        DEF Configure, TypeOK, Settled, Known, HonestCertificate, Validated, ValidSpc, Upper, Digit
  <2>5. CASE ~ValidSpc(spc')
    <3>1. pc' = "ended" /\ verdict' = "values"
      BY <1>2, <2>5 DEF Configure
    <3> QED BY <1>2, <2>2, <2>3, <3>1
        DEF Configure, TypeOK, Settled, Known, HonestCertificate, Validated
  <2> QED BY <2>4, <2>5
<1>3. CASE IssueAsRequested
  <2>1. PICK from, to \in Instants, policies \in SUBSET Oids :
          /\ from <= now + Slack
          /\ CalledFor(policies)
          /\ Issue(Requested(from, to, policies))
    BY <1>3 DEF IssueAsRequested, CalledFor
  <2>2. Requested(from, to, policies) \in CertificatesOf(spc)
    BY <1>3, RequestedType DEF Settled, IssueAsRequested
  <2>3. honest' = TRUE /\ pc = "request"
    BY <1>3 DEF IssueAsRequested
  <2> QED BY <2>1, <2>2, <2>3, IssueKeeps
<1>4. CASE IssueOtherwise
  <2>1. PICK from, to \in Instants, policies \in (SUBSET Oids) \cup {None} :
          LET r == Requested(from, to, policies)
          IN  \/ Issue(r)
              \/ Issue([r EXCEPT !.key = "other"])
              \/ Issue([r EXCEPT !.subject = "other"])
              \/ Issue([r EXCEPT !.extensions = "unreadable"])
              \/ \E ca \in {"true", "missing"} : Issue([r EXCEPT !.ca = ca])
              \/ \E der \in {<<>>, None} : Issue([r EXCEPT !.tnAuthList = der])
              \/ \E crl \in SUBSET Envs : Issue([r EXCEPT !.crl = crl])
    BY <1>4 DEF IssueOtherwise
  <2> DEFINE r == Requested(from, to, policies)
  <2>2. r \in CertificatesOf(spc)
    BY <1>4, RequestedType DEF Settled, IssueOtherwise
  <2>3. honest' = FALSE /\ pc = "request"
    BY <1>4 DEF IssueOtherwise
  <2>4. PICK c : c \in CertificatesOf(spc) /\ Issue(c)
    <3> HIDE DEF r
    <3>1. /\ [r EXCEPT !.key = "other"] \in CertificatesOf(spc)
          /\ [r EXCEPT !.subject = "other"] \in CertificatesOf(spc)
          /\ [r EXCEPT !.extensions = "unreadable"] \in CertificatesOf(spc)
          /\ \A ca \in {"true", "missing"} :
               [r EXCEPT !.ca = ca] \in CertificatesOf(spc)
          /\ \A der \in {<<>>, None} :
               [r EXCEPT !.tnAuthList = der] \in CertificatesOf(spc)
          /\ \A crl \in SUBSET Envs :
               [r EXCEPT !.crl = crl] \in CertificatesOf(spc)
      BY <2>2 DEF CertificatesOf
    <3> QED BY <2>1, <2>2, <3>1 DEF r
  <2> QED BY <2>3, <2>4, IssueKeeps
<1>5. CASE Validate
  <2>1. Verdict(certificate) \in {"escapes", "good", "bad"}
    BY DEF Verdict
  <2>2. Verdict(certificate)' = Verdict(certificate)
    BY <1>5 DEF Validate, Verdict, Raises, Passes, InTime, HasCrl, HasPolicy
  <2>3. TypeOK'
    BY <1>5, <2>1 DEF Validate, TypeOK
  <2>4. Settled' /\ Known'
    BY <1>5, <2>1, <2>2 DEF Validate, Settled, Known, Validated
  <2>5. HonestCertificate'
    BY <1>5 DEF Validate, HonestCertificate, CalledFor, Requested
  <2> QED BY <2>3, <2>4, <2>5
<1>6. CASE Tick
  <2>1. now' \in Instants /\ now' = now + 1 /\ now \in Nat
    BY <1>6, TimeAssumption DEF Tick, TypeOK, Instants
  <2>2. TypeOK' /\ Settled' /\ Known'
    BY <1>6, <2>1 DEF Tick, TypeOK, Settled, Known, Validated
  <2>3. HonestCertificate'
    <3>1. \A from \in Instants : from <= now + Slack => from <= now' + Slack
      BY <2>1, TimeAssumption DEF Instants
    <3> QED BY <1>6, <3>1
        DEF Tick, HonestCertificate, CalledFor, Requested, TypeOK, Validated
  <2> QED BY <2>2, <2>3
<1>7. CASE UNCHANGED vars
  BY <1>7
  DEF vars, TypeOK, Settled, Known, HonestCertificate, Validated, CalledFor,
      Requested, Verdict, Raises, Passes, InTime, HasCrl, HasPolicy
<1> QED BY <1>1, <1>2, <1>3, <1>4, <1>5, <1>6, <1>7 DEF Next

\* The invariant holds in every behaviour.
LEMMA Invariance == Spec => []IInv
  BY InitIInv, StepIInv, PTL DEF Spec

\* Types of the state, for all texts, identifiers and times.
THEOREM TypeCorrect == Spec => []TypeOK
<1>1. IInv => TypeOK
  BY DEF IInv
<1> QED BY <1>1, Invariance, PTL

\* TnAuthList.der and the inspector: the SPC of a request has four characters,
\* is read back from the TNAuthList and is the only text that has it.
THEOREM SpcSurvives == Spec => []TnAuthListNamesSpc
<1>1. IInv => TnAuthListNamesSpc
  <2> SUFFICES ASSUME IInv, pc \in {"request", "validate"}
               PROVE  /\ Len(spc) = 4
                      /\ Inspected(Der(spc)) = spc
                      /\ \A text \in Texts : Der(text) = Der(spc) => text = spc
    BY DEF TnAuthListNamesSpc
  <2>1. spc \in Seq(Int) /\ ValidSpc(spc) /\ Len(spc) = 4
    BY DEF IInv, TypeOK, Settled
  <2>2. Inspected(Der(spc)) = spc
    BY <2>1, InspectedSpc
  <2>3. \A text \in Texts : Der(text) = Der(spc) => text = spc
    BY <2>1, DataAssumption, DerInjective
  <2> QED BY <2>1, <2>2, <2>3
<1> QED BY <1>1, Invariance, PTL

\* validate_issued_certificate_policy: what passes is what was asked for, and
\* has a policy below the arc, for whatever identifiers a CA puts in.
THEOREM WhatPassesConforms == Spec => []AcceptedIsConforming
<1>1. IInv => AcceptedIsConforming
  <2> SUFFICES ASSUME IInv, verdict = "good" PROVE AcceptedIsConforming
    BY DEF AcceptedIsConforming
  <2>1. certificate \in CertificatesOf(spc) /\ Passes(certificate)
    BY DEF IInv, Known, Validated, Verdict
  <2>2. spc \in Seq(Int) /\ ValidSpc(spc) /\ Len(spc) = 4 /\ now \in Nat
        /\ accepted \in (SUBSET Oids) \cup {None}
    BY TimeAssumption DEF IInv, TypeOK, Settled, Validated, Instants
  <2>3. Inspected(certificate.tnAuthList) = spc
    BY <2>1, <2>2, InspectedSpc DEF Passes
  <2>4. now < certificate.to /\ now + MinimumLifetime <= certificate.to
    <3>1. certificate.to \in Nat
      BY <2>1, TimeAssumption DEF CertificatesOf, Instants
    <3>2. certificate.to > now + MinimumLifetime
      BY <2>1 DEF Passes, InTime
    <3> QED BY <2>2, <3>1, <3>2, TimeAssumption
  <2>5. IF accepted = None THEN \E oid \in certificate.policies : Descends(oid)
                           ELSE certificate.policies \cap accepted # {}
    <3>1. certificate.policies \in SUBSET Oids
      <4>1. certificate.policies \in (SUBSET Oids) \cup {None}
        BY <2>1 DEF CertificatesOf
      <4>2. certificate.policies # None
        BY <2>1 DEF Passes
      <4> QED BY <4>1, <4>2
    <3>2. HasPolicy(certificate.policies)
      BY <2>1 DEF Passes
    <3> QED BY <3>1, <3>2, PolicyTexts DEF HasPolicy
  <2> QED BY <2>1, <2>3, <2>4, <2>5 DEF AcceptedIsConforming, Passes
<1> QED BY <1>1, Invariance, PTL

\* issue and validate_issued_certificate_policy agree: the certificate of a CA
\* that does its part passes.
THEOREM WhatWasAskedForPasses == Spec => []HonestIsAccepted
<1>1. IInv => HonestIsAccepted
  <2> SUFFICES ASSUME IInv, honest, verdict # "none",
                      certificate.to > now + MinimumLifetime
               PROVE  verdict = "good"
    BY DEF HonestIsAccepted
  <2>1. CASE verdict = "values"
    BY <2>1 DEF IInv, TypeOK, Settled, Validated
  <2>2. CASE Validated
    <3>1. PICK from, to \in Instants, policies \in SUBSET Oids :
            /\ from <= now + Slack
            /\ CalledFor(policies)
            /\ certificate = Requested(from, to, policies)
      BY <2>2 DEF IInv, HonestCertificate
    <3>2. now \in Nat /\ from \in Nat /\ to \in Nat
      BY TimeAssumption DEF IInv, TypeOK, Instants
    <3>3. certificate.from = from /\ certificate.to = to
      BY <3>1 DEF Requested
    <3>4. InTime(certificate)
      BY <3>1, <3>2, <3>3, TimeAssumption DEF InTime
    <3>5. HasCrl(certificate)
      <4>1. profile.crl = profile.acme
        BY <2>2 DEF IInv, Settled, Profile
      <4>2. certificate.crl = {profile.acme}
        BY <3>1 DEF Requested
      <4> QED BY <4>1, <4>2 DEF HasCrl
    <3>6. HasPolicy(policies) /\ policies # None
      BY <3>1, PolicyTexts, DataAssumption DEF HasPolicy, CalledFor
    <3>7. Passes(certificate) /\ ~Raises(certificate)
      BY <3>1, <3>4, <3>5, <3>6 DEF Passes, Raises, Requested
    <3> QED BY <2>2, <3>7 DEF IInv, Known, Verdict
  <2> QED BY <2>1, <2>2 DEF IInv, TypeOK, Validated
<1> QED BY <1>1, Invariance, PTL
=============================================================================
