------------------------ MODULE MessageFramerProofs ------------------------
(***************************************************************************)
(* The codec's promises for every alphabet of messages, every length that  *)
(* fits into the frame's four bytes, and every cut of the bytes.  Behind   *)
(* them is one fact: what is in the buffer and on the wire is the          *)
(* encoding of the messages that are still to come.                        *)
(***************************************************************************)
EXTENDS MessageFramer, WellFoundedInduction, TLAPS

-----------------------------------------------------------------------------
(* Induction, by the least natural number that is missing. *)

LEMMA NatSet ==
  ASSUME NEW T, T \subseteq Nat, 0 \in T, \A n \in T : n + 1 \in T
  PROVE  T = Nat
<1> SUFFICES ASSUME Nat \ T # {} PROVE FALSE
  OBVIOUS
<1>1. PICK x \in Nat \ T : \A y \in Nat \ T : <<y, x>> \notin OpToRel(<, Nat)
  BY NatLessThanWellFounded, WFMin
<1>2. \A y \in Nat \ T : ~(y < x)
  BY <1>1 DEF OpToRel
<1>3. x # 0 /\ x - 1 \in Nat
  OBVIOUS
<1>4. x - 1 \in T
  BY <1>2, <1>3
<1>5. (x - 1) + 1 = x
  BY <1>3
<1> QED
  BY <1>4, <1>5

-----------------------------------------------------------------------------
(* Sequences of sequences *)

Flattening(ss) ==
  CHOOSE f : f = [i \in 1..Len(ss) |-> IF i = 1 THEN ss[i] ELSE f[i - 1] \o ss[i]]

LEMMA FlattenIs ==
  ASSUME NEW ss
  PROVE  FlattenSeq(ss) = IF Len(ss) = 0 THEN ss ELSE Flattening(ss)[Len(ss)]
  BY DEF FlattenSeq, Flattening

FlattensUpto(k, f, ss) ==
  \A i \in 1..k : f[i] = IF i = 1 THEN ss[i] ELSE f[i - 1] \o ss[i]

LEMMA FlattensOneMore ==
  ASSUME NEW S, NEW ss \in Seq(Seq(S)), NEW k \in Nat, k + 1 <= Len(ss),
         NEW f \in [1..k -> Seq(S)], FlattensUpto(k, f, ss)
  PROVE  \E g \in [1..(k + 1) -> Seq(S)] : FlattensUpto(k + 1, g, ss)
<1> DEFINE last == IF k = 0 THEN ss[1] ELSE f[k] \o ss[k + 1]
           g == [i \in 1..(k + 1) |-> IF i <= k THEN f[i] ELSE last]
<1>1. last \in Seq(S)
  BY DEF FlattensUpto
<1> HIDE DEF last
<1>2. g \in [1..(k + 1) -> Seq(S)]
  BY <1>1
<1>3. ASSUME NEW i \in 1..(k + 1)
      PROVE  g[i] = IF i = 1 THEN ss[i] ELSE g[i - 1] \o ss[i]
  <2>1. CASE i <= k
    <3>1. g[i] = f[i] /\ (i # 1 => i - 1 \in 1..k /\ g[i - 1] = f[i - 1])
      BY <2>1
    <3>2. f[i] = IF i = 1 THEN ss[i] ELSE f[i - 1] \o ss[i]
      <4>1. i \in 1..k
        BY <2>1
      <4> HIDE DEF g
      <4> QED
        BY <4>1 DEF FlattensUpto
    <3> HIDE DEF g
    <3> QED
      BY <3>1, <3>2
  <2>2. CASE i = k + 1
    <3>1. g[i] = last
      BY <2>2
    <3>2. CASE i = 1
      BY <2>2, <3>1, <3>2 DEF last
    <3>3. CASE i # 1
      <4>1. k # 0 /\ i - 1 = k /\ i - 1 \in 1..(k + 1) /\ i - 1 <= k
        BY <2>2, <3>3
      <4>2. g[i - 1] = f[k]
        BY <4>1
      <4> QED
        BY <2>2, <3>1, <3>3, <4>1, <4>2 DEF last
    <3> QED
      BY <3>2, <3>3
  <2> QED
    BY <2>1, <2>2
<1> QED
  BY <1>2, <1>3 DEF FlattensUpto

\* The recursion has a solution, by induction on how far it goes.
LEMMA FlatteningExists ==
  ASSUME NEW S, NEW ss \in Seq(Seq(S))
  PROVE  \E f \in [1..Len(ss) -> Seq(S)] : FlattensUpto(Len(ss), f, ss)
<1> DEFINE Holds(k) == k <= Len(ss) => \E f \in [1..k -> Seq(S)] : FlattensUpto(k, f, ss)
           T == {k \in Nat : Holds(k)}
<1>1. Holds(0)
  <2>1. [i \in 1..0 |-> <<>>] \in [1..0 -> Seq(S)]
    OBVIOUS
  <2>2. FlattensUpto(0, [i \in 1..0 |-> <<>>], ss)
    BY DEF FlattensUpto
  <2> QED
    BY <2>1, <2>2
<1>2. ASSUME NEW k \in Nat, Holds(k) PROVE Holds(k + 1)
  <2> SUFFICES ASSUME k + 1 <= Len(ss)
               PROVE  \E g \in [1..(k + 1) -> Seq(S)] : FlattensUpto(k + 1, g, ss)
    OBVIOUS
  <2>1. PICK f \in [1..k -> Seq(S)] : FlattensUpto(k, f, ss)
    BY <1>2
  <2> QED
    BY <2>1, FlattensOneMore
<1> HIDE DEF Holds
<1>3. T \subseteq Nat /\ 0 \in T /\ \A k \in T : k + 1 \in T
  BY <1>1, <1>2
<1>4. \A k \in Nat : Holds(k)
  <2> HIDE DEF T
  <2>1. T = Nat
    BY <1>3, NatSet
  <2> QED
    BY <2>1 DEF T
<1> QED
  BY <1>4 DEF Holds

\* It has only one.
LEMMA FlatteningIsUnique ==
  ASSUME NEW S, NEW ss \in Seq(Seq(S)), NEW f, NEW g,
         FlattensUpto(Len(ss), f, ss), FlattensUpto(Len(ss), g, ss)
  PROVE  \A k \in 1..Len(ss) : f[k] = g[k]
<1> DEFINE Holds(k) == k \in 1..Len(ss) => f[k] = g[k]
           T == {k \in Nat : Holds(k)}
<1>1. Holds(0)
  OBVIOUS
<1>2. ASSUME NEW k \in Nat, Holds(k) PROVE Holds(k + 1)
  <2> SUFFICES ASSUME k + 1 \in 1..Len(ss) PROVE f[k + 1] = g[k + 1]
    OBVIOUS
  <2>1. CASE k = 0
    BY <2>1 DEF FlattensUpto
  <2>2. CASE k # 0
    <3>1. f[k] = g[k] /\ (k + 1) - 1 = k
      BY <1>2, <2>2
    <3> QED
      BY <2>2, <3>1 DEF FlattensUpto
  <2> QED
    BY <2>1, <2>2
<1> HIDE DEF Holds
<1>3. T \subseteq Nat /\ 0 \in T /\ \A k \in T : k + 1 \in T
  BY <1>1, <1>2
<1>4. \A k \in Nat : Holds(k)
  <2> HIDE DEF T
  <2>1. T = Nat
    BY <1>3, NatSet
  <2> QED
    BY <2>1 DEF T
<1> QED
  BY <1>4 DEF Holds

\* What FlattenSeq returns, of any solution.
LEMMA FlattenByRecursion ==
  ASSUME NEW S, NEW ss \in Seq(Seq(S)), NEW n \in Nat, n = Len(ss), n > 0,
         NEW f \in [1..n -> Seq(S)], FlattensUpto(n, f, ss)
  PROVE  FlattenSeq(ss) = f[n]
<1> DEFINE P(h) == h = [i \in 1..Len(ss) |-> IF i = 1 THEN ss[i] ELSE h[i - 1] \o ss[i]]
<1>1. P(f)
  BY DEF FlattensUpto
<1>2. P(Flattening(ss))
  BY <1>1 DEF Flattening
<1>3. FlattensUpto(Len(ss), Flattening(ss), ss)
  BY <1>2 DEF FlattensUpto
<1>4. Flattening(ss)[n] = f[n]
  <2> HIDE DEF P
  <2> DEFINE g == Flattening(ss)
  <2>1. FlattensUpto(Len(ss), g, ss)
    BY <1>3
  <2> HIDE DEF g
  <2>2. \A k \in 1..Len(ss) : g[k] = f[k]
    BY <2>1, FlatteningIsUnique
  <2> QED
    BY <2>2 DEF g
<1> QED
  BY <1>4, FlattenIs

LEMMA FlattenEmpty ==
  ASSUME NEW ss, ss = <<>>
  PROVE  FlattenSeq(ss) = <<>>
  BY FlattenIs

LEMMA FlattenType ==
  ASSUME NEW S, NEW ss \in Seq(Seq(S))
  PROVE  FlattenSeq(ss) \in Seq(S)
<1>1. CASE ss = <<>>
  <2>1. FlattenSeq(ss) = <<>>
    BY <1>1, FlattenEmpty
  <2> QED
    BY <2>1
<1>2. CASE ss # <<>>
  <2>1. PICK n \in Nat : n = Len(ss) /\ n > 0
    BY <1>2
  <2>2. PICK f \in [1..n -> Seq(S)] : FlattensUpto(n, f, ss)
    BY <2>1, FlatteningExists
  <2>3. FlattenSeq(ss) = f[n]
    BY <2>1, <2>2, FlattenByRecursion
  <2>4. n \in 1..n
    BY <2>1
  <2>5. f[n] \in Seq(S)
    BY <2>4
  <2> QED
    BY <2>3, <2>5
<1> QED
  BY <1>1, <1>2

LEMMA FlattenOne ==
  ASSUME NEW S, NEW s \in Seq(S), NEW ss, ss = <<s>>
  PROVE  FlattenSeq(ss) = s
<1> DEFINE f == [i \in 1..1 |-> s]
<1>1. ss \in Seq(Seq(S)) /\ 1 = Len(ss) /\ ss[1] = s
  OBVIOUS
<1>2. f \in [1..1 -> Seq(S)] /\ f[1] = s
  OBVIOUS
<1>3. FlattensUpto(1, f, ss)
  BY <1>1, <1>2 DEF FlattensUpto
<1> HIDE DEF f
<1>4. PICK n \in Nat : n = 1 /\ n > 0
  OBVIOUS
<1>5. n = Len(ss) /\ f \in [1..n -> Seq(S)] /\ FlattensUpto(n, f, ss)
  BY <1>1, <1>2, <1>3, <1>4
<1>6. FlattenSeq(ss) = f[n]
  BY <1>1, <1>4, <1>5, FlattenByRecursion
<1> QED
  BY <1>2, <1>4, <1>6

Associates(a, b, c) == a \o (b \o c) = (a \o b) \o c

LEMMA Associative ==
  ASSUME NEW S, NEW a \in Seq(S), NEW b \in Seq(S), NEW c \in Seq(S)
  PROVE  Associates(a, b, c)
  BY DEF Associates

\* A sequence more at the end.
LEMMA FlattenExtended ==
  ASSUME NEW S, NEW ss \in Seq(Seq(S)), NEW s \in Seq(S), NEW tt \in Seq(Seq(S)),
         NEW n \in Nat, n > 0, Len(ss) = n, Len(tt) = n + 1,
         tt[n + 1] = s, \A i \in 1..n : tt[i] = ss[i]
  PROVE  FlattenSeq(tt) = FlattenSeq(ss) \o s
<1>1. PICK f \in [1..n -> Seq(S)] : FlattensUpto(n, f, ss)
  BY FlatteningExists
<1>2. FlattenSeq(ss) = f[n]
  BY <1>1, FlattenByRecursion
<1>3. \A i \in 1..n : f[i] \in Seq(S)
  OBVIOUS
<1>4. f[n] \o s \in Seq(S)
  <2>1. f[n] \in Seq(S)
    BY <1>3
  <2> QED
    BY <2>1
<1> DEFINE g == [i \in 1..(n + 1) |-> IF i <= n THEN f[i] ELSE f[n] \o s]
<1>5. \A i \in 1..n : i \in 1..(n + 1) /\ g[i] = f[i]
  OBVIOUS
<1>6. n + 1 \in 1..(n + 1) /\ g[n + 1] = f[n] \o s
  OBVIOUS
<1>7. g \in [1..(n + 1) -> Seq(S)]
  BY <1>3, <1>4
<1> HIDE DEF g
<1>8. ASSUME NEW i \in 1..(n + 1)
      PROVE  g[i] = IF i = 1 THEN tt[i] ELSE g[i - 1] \o tt[i]
  <2>1. CASE i \in 1..n
    <3>1. f[i] = IF i = 1 THEN ss[i] ELSE f[i - 1] \o ss[i]
      BY <1>1, <2>1 DEF FlattensUpto
    <3>2. g[i] = f[i] /\ tt[i] = ss[i]
      BY <1>5, <2>1
    <3>3. CASE i = 1
      BY <3>1, <3>2, <3>3
    <3>4. CASE i # 1
      <4>1. i - 1 \in 1..n
        BY <2>1, <3>4
      <4>2. g[i - 1] = f[i - 1]
        BY <1>5, <4>1
      <4> QED
        BY <3>1, <3>2, <3>4, <4>2
    <3> QED
      BY <3>3, <3>4
  <2>2. CASE i = n + 1
    <3>1. i # 1 /\ i - 1 = n /\ n \in 1..n
      BY <2>2
    <3>2. g[i] = f[n] \o s /\ g[n] = f[n] /\ tt[i] = s
      BY <1>5, <1>6, <2>2, <3>1
    <3> QED
      BY <3>1, <3>2
  <2> QED
    BY <2>1, <2>2
<1>9. FlattensUpto(n + 1, g, tt)
  BY <1>8 DEF FlattensUpto
<1>10. n + 1 \in Nat /\ n + 1 > 0
  OBVIOUS
<1>11. FlattenSeq(tt) = g[n + 1]
  BY <1>7, <1>9, <1>10, FlattenByRecursion
<1> QED
  BY <1>2, <1>6, <1>11

LEMMA FlattenAppend ==
  ASSUME NEW S, NEW ss \in Seq(Seq(S)), NEW s \in Seq(S), NEW tt, tt = Append(ss, s)
  PROVE  FlattenSeq(tt) = FlattenSeq(ss) \o s
<1>1. CASE ss = <<>>
  <2>1. tt = <<s>> /\ FlattenSeq(ss) = <<>> /\ <<>> \o s = s
    BY <1>1, FlattenEmpty
  <2> QED
    BY <2>1, FlattenOne
<1>2. CASE ss # <<>>
  <2>1. Len(ss) \in Nat /\ Len(ss) > 0
    BY <1>2
  <2>2. tt \in Seq(Seq(S)) /\ Len(tt) = Len(ss) + 1 /\ tt[Len(ss) + 1] = s
    OBVIOUS
  <2>3. \A i \in 1..Len(ss) : tt[i] = ss[i]
    OBVIOUS
  <2> QED
    BY <2>1, <2>2, <2>3, FlattenExtended
<1> QED
  BY <1>1, <1>2

\* A sequence more at the front.
Shifted(tt, s, ss, n) == tt[1] = s /\ \A i \in 1..n : tt[i + 1] = ss[i]

LEMMA FlattenShifted ==
  ASSUME NEW S, NEW ss \in Seq(Seq(S)), NEW s \in Seq(S), NEW tt \in Seq(Seq(S)),
         NEW n \in Nat, n > 0, Len(ss) = n, Len(tt) = n + 1, Shifted(tt, s, ss, n)
  PROVE  FlattenSeq(tt) = s \o FlattenSeq(ss)
<1>1. PICK f \in [1..n -> Seq(S)] : FlattensUpto(n, f, ss)
  BY FlatteningExists
<1>2. FlattenSeq(ss) = f[n]
  BY <1>1, FlattenByRecursion
<1>3. \A i \in 1..n : f[i] \in Seq(S) /\ ss[i] \in Seq(S)
  OBVIOUS
<1> DEFINE g == [i \in 1..(n + 1) |-> IF i = 1 THEN s ELSE s \o f[i - 1]]
<1>4. g[1] = s
  OBVIOUS
<1>5. ASSUME NEW i \in 1..n
      PROVE  /\ i + 1 \in 1..(n + 1) /\ i + 1 # 1
             /\ g[i + 1] = s \o f[i]
  <2>1. i + 1 \in 1..(n + 1) /\ i + 1 # 1 /\ (i + 1) - 1 = i
    OBVIOUS
  <2>2. g[i + 1] = s \o f[(i + 1) - 1]
    BY <2>1
  <2> HIDE DEF g
  <2> QED
    BY <2>1, <2>2
<1>6. g \in [1..(n + 1) -> Seq(S)]
  <2>1. ASSUME NEW i \in 1..(n + 1), i # 1 PROVE s \o f[i - 1] \in Seq(S)
    <3>1. f[i - 1] \in Seq(S)
      BY <2>1
    <3> QED
      BY <3>1
  <2> QED
    BY <2>1
<1> HIDE DEF g
<1>7. ASSUME NEW i \in 1..n
      PROVE  g[i + 1] = g[i] \o tt[i + 1]
  <2>1. CASE i = 1
    <3>1. f[i] = ss[i]
      BY <1>1, <2>1 DEF FlattensUpto
    <3> QED
      BY <1>4, <1>5, <2>1, <3>1 DEF Shifted
  <2>2. CASE i # 1
    <3>1. i - 1 \in 1..n /\ (i - 1) + 1 = i
      BY <2>2
    <3>2. PICK j \in 1..n : j + 1 = i /\ j = i - 1
      BY <3>1
    <3>3. f[i] = f[j] \o ss[i]
      BY <1>1, <2>2, <3>2 DEF FlattensUpto
    <3>4. g[i] = s \o f[j]
      <4>1. g[j + 1] = s \o f[j]
        BY <1>5
      <4> QED
        BY <3>2, <4>1
    <3>5. s \o (f[j] \o ss[i]) = (s \o f[j]) \o ss[i]
      <4>1. f[j] \in Seq(S) /\ ss[i] \in Seq(S)
        BY <1>3
      <4>2. Associates(s, f[j], ss[i])
        BY <4>1, Associative
      <4> QED
        BY <4>2 DEF Associates
    <3>6. g[i + 1] = s \o f[i] /\ tt[i + 1] = ss[i]
      BY <1>5 DEF Shifted
    <3> QED
      BY <3>3, <3>4, <3>5, <3>6
  <2> QED
    BY <2>1, <2>2
<1>8. FlattensUpto(n + 1, g, tt)
  <2> SUFFICES ASSUME NEW i \in 1..(n + 1)
               PROVE  g[i] = IF i = 1 THEN tt[i] ELSE g[i - 1] \o tt[i]
    BY DEF FlattensUpto
  <2>1. CASE i = 1
    BY <1>4, <2>1 DEF Shifted
  <2>2. CASE i # 1
    <3>1. i - 1 \in 1..n /\ (i - 1) + 1 = i
      BY <2>2
    <3>2. PICK j \in 1..n : j + 1 = i /\ j = i - 1
      BY <3>1
    <3>3. g[j + 1] = g[j] \o tt[j + 1]
      BY <1>7
    <3> QED
      BY <2>2, <3>2, <3>3
  <2> QED
    BY <2>1, <2>2
<1>9. n + 1 \in Nat /\ n + 1 > 0 /\ n \in 1..n
  OBVIOUS
<1>10. FlattenSeq(tt) = g[n + 1]
  <2>1. PICK m \in Nat : m = n + 1
    OBVIOUS
  <2>2. m = Len(tt) /\ m > 0 /\ g \in [1..m -> Seq(S)] /\ FlattensUpto(m, g, tt)
    BY <1>6, <1>8, <2>1
  <2>3. FlattenSeq(tt) = g[m]
    BY <2>2, FlattenByRecursion, Zenon
  <2> QED
    BY <2>1, <2>3
<1>11. g[n + 1] = s \o f[n]
  BY <1>5, <1>9
<1> QED
  BY <1>2, <1>10, <1>11

LEMMA FlattenCons ==
  ASSUME NEW S, NEW ss \in Seq(Seq(S)), NEW s \in Seq(S), NEW tt, tt = <<s>> \o ss
  PROVE  FlattenSeq(tt) = s \o FlattenSeq(ss)
<1>1. CASE ss = <<>>
  <2>1. tt = <<s>> /\ FlattenSeq(ss) = <<>> /\ s \o <<>> = s
    BY <1>1, FlattenEmpty
  <2> QED
    BY <2>1, FlattenOne
<1>2. CASE ss # <<>>
  <2>1. Len(ss) \in Nat /\ Len(ss) > 0
    BY <1>2
  <2>2. tt \in Seq(Seq(S)) /\ Len(tt) = Len(ss) + 1
    OBVIOUS
  <2>3. Shifted(tt, s, ss, Len(ss))
    BY DEF Shifted
  <2> QED
    BY <2>1, <2>2, <2>3, FlattenShifted
<1> QED
  BY <1>1, <1>2

-----------------------------------------------------------------------------
(* Sequences without some elements *)

Kept(x, T) == IF x \in T THEN <<>> ELSE <<x>>

LEMMA WithoutParts ==
  ASSUME NEW S, NEW s \in Seq(S), NEW T
  PROVE  [i \in DOMAIN s |-> Kept(s[i], T)] \in Seq(Seq(S))
<1>1. \A i \in 1..Len(s) : Kept(s[i], T) \in Seq(S)
  BY DEF Kept
<1>2. DOMAIN s = 1..Len(s)
  OBVIOUS
<1> QED
  BY <1>1, <1>2

LEMMA WithoutIs ==
  ASSUME NEW s, NEW T
  PROVE  Without(s, T) = FlattenSeq([i \in DOMAIN s |-> Kept(s[i], T)])
  BY DEF Without, Kept

LEMMA WithoutType ==
  ASSUME NEW S, NEW s \in Seq(S), NEW T
  PROVE  Without(s, T) \in Seq(S)
  BY WithoutParts, WithoutIs, FlattenType

LEMMA WithoutEmpty ==
  ASSUME NEW T
  PROVE  Without(<<>>, T) = <<>>
<1>1. [i \in DOMAIN <<>> |-> Kept(<<>>[i], T)] = <<>>
  OBVIOUS
<1> QED
  BY <1>1, WithoutIs, FlattenEmpty

LEMMA WithoutAppend ==
  ASSUME NEW S, NEW s \in Seq(S), NEW x \in S, NEW T
  PROVE  Without(Append(s, x), T) = Without(s, T) \o Kept(x, T)
<1> DEFINE f == [i \in DOMAIN s |-> Kept(s[i], T)]
           t == Append(s, x)
           g == [i \in DOMAIN t |-> Kept(t[i], T)]
<1>1. f \in Seq(Seq(S)) /\ Kept(x, T) \in Seq(S) /\ t \in Seq(S)
  <2>1. f \in Seq(Seq(S))
    BY WithoutParts
  <2>2. Kept(x, T) \in Seq(S)
    BY DEF Kept
  <2>3. t \in Seq(S)
    OBVIOUS
  <2> QED
    BY <2>1, <2>2, <2>3
<1>2. g \in Seq(Seq(S))
  <2> HIDE DEF t
  <2> QED
    BY <1>1, WithoutParts
<1>3. g = Append(f, Kept(x, T))
  <2>1. DOMAIN f = 1..Len(s) /\ Len(f) = Len(s) /\ DOMAIN t = 1..(Len(s) + 1)
    BY <1>1
  <2>2. DOMAIN g = 1..(Len(s) + 1)
    BY <2>1
  <2>3. \A i \in 1..Len(s) : g[i] = f[i]
    BY <2>1
  <2>4. g[Len(s) + 1] = Kept(x, T)
    BY <2>1
  <2> HIDE DEF f, g, t
  <2>5. Append(f, Kept(x, T)) \in Seq(Seq(S))
    BY <1>1
  <2> QED
    BY <1>1, <1>2, <2>1, <2>2, <2>3, <2>4, <2>5
<1> HIDE DEF f, g
<1>4. FlattenSeq(g) = FlattenSeq(f) \o Kept(x, T)
  BY <1>1, <1>3, FlattenAppend
<1> QED
  BY <1>4, WithoutIs DEF f, g

LEMMA WithoutCons ==
  ASSUME NEW S, NEW s \in Seq(S), NEW x \in S, NEW T
  PROVE  Without(<<x>> \o s, T) = Kept(x, T) \o Without(s, T)
<1> DEFINE f == [i \in DOMAIN s |-> Kept(s[i], T)]
           t == <<x>> \o s
           g == [i \in DOMAIN t |-> Kept(t[i], T)]
<1>1. f \in Seq(Seq(S)) /\ Kept(x, T) \in Seq(S) /\ t \in Seq(S)
  <2>1. f \in Seq(Seq(S))
    BY WithoutParts
  <2>2. Kept(x, T) \in Seq(S)
    BY DEF Kept
  <2>3. t \in Seq(S)
    OBVIOUS
  <2> QED
    BY <2>1, <2>2, <2>3
<1>2. g \in Seq(Seq(S))
  <2> HIDE DEF t
  <2> QED
    BY <1>1, WithoutParts
<1>3. g = <<Kept(x, T)>> \o f
  <2>1. DOMAIN f = 1..Len(s) /\ Len(f) = Len(s) /\ DOMAIN t = 1..(Len(s) + 1)
    BY <1>1
  <2>2. DOMAIN g = 1..(Len(s) + 1)
    BY <2>1
  <2>3. \A i \in 1..Len(s) : g[i + 1] = f[i]
    BY <2>1
  <2>4. g[1] = Kept(x, T)
    BY <2>1
  <2> HIDE DEF f, g, t
  <2>5. <<Kept(x, T)>> \o f \in Seq(Seq(S))
    BY <1>1
  <2> QED
    BY <1>1, <1>2, <2>1, <2>2, <2>3, <2>4, <2>5
<1> HIDE DEF f, g
<1>4. FlattenSeq(g) = Kept(x, T) \o FlattenSeq(f)
  BY <1>1, <1>3, FlattenCons
<1> QED
  BY <1>4, WithoutIs DEF f, g

-----------------------------------------------------------------------------
(* Cutting a sequence *)

LEMMA EqualSeqs ==
  ASSUME NEW S, NEW s \in Seq(S), NEW t \in Seq(S), Len(s) = Len(t),
         \A i \in 1..Len(s) : s[i] = t[i]
  PROVE  s = t
  OBVIOUS

LEMMA OneElement ==
  ASSUME NEW S, NEW x \in S
  PROVE  <<x>> \in Seq(S) /\ Len(<<x>>) = 1 /\ <<x>>[1] = x
  OBVIOUS

Joins(w, a, b) == w = a \o b

LEMMA JoinedSeqs ==
  ASSUME NEW S, NEW a \in Seq(S), NEW b \in Seq(S), NEW w, Joins(w, a, b)
  PROVE  /\ w \in Seq(S) /\ Len(w) = Len(a) + Len(b)
         /\ \A i \in 1..Len(a) : w[i] = a[i]
         /\ \A i \in 1..Len(b) : w[Len(a) + i] = b[i]
  BY DEF Joins

\* What precedes the cut, and what follows it, of one sequence in two parts.
LEMMA CutSeq ==
  ASSUME NEW S, NEW a \in Seq(S), NEW b \in Seq(S), NEW c \in Seq(S), NEW d \in Seq(S),
         NEW w, Joins(w, a, b), Joins(w, c, d)
  PROVE  /\ Len(a) + Len(b) = Len(c) + Len(d)
         /\ \A i \in 1..Len(a) : i <= Len(c) => a[i] = c[i]
         /\ Len(c) <= Len(a) =>
              /\ SubSeq(a, Len(c) + 1, Len(a)) \in Seq(S)
              /\ Joins(d, SubSeq(a, Len(c) + 1, Len(a)), b)
<1> DEFINE r == SubSeq(a, Len(c) + 1, Len(a))
<1>1. /\ w \in Seq(S) /\ Len(w) = Len(a) + Len(b)
      /\ \A i \in 1..Len(a) : w[i] = a[i]
      /\ \A i \in 1..Len(b) : w[Len(a) + i] = b[i]
  BY JoinedSeqs
<1>2. /\ Len(w) = Len(c) + Len(d)
      /\ \A i \in 1..Len(c) : w[i] = c[i]
      /\ \A i \in 1..Len(d) : w[Len(c) + i] = d[i]
  BY JoinedSeqs
<1>3. \A i \in 1..Len(a) : i <= Len(c) => a[i] = c[i]
  BY <1>1, <1>2
<1>4. ASSUME Len(c) <= Len(a)
      PROVE  r \in Seq(S) /\ Joins(d, r, b)
  <2>1. /\ r \in Seq(S) /\ Len(r) = Len(a) - Len(c)
        /\ \A i \in 1..Len(r) : r[i] = a[Len(c) + i]
    BY <1>4
  <2> HIDE DEF r
  <2>2. PICK v : Joins(v, r, b)
    BY DEF Joins
  <2>0. r \in Seq(S)
    BY <2>1
  <2>3. /\ v \in Seq(S) /\ Len(v) = Len(r) + Len(b)
        /\ \A i \in 1..Len(r) : v[i] = r[i]
        /\ \A i \in 1..Len(b) : v[Len(r) + i] = b[i]
    BY <2>0, <2>2, JoinedSeqs
  <2>4. Len(v) = Len(d)
    <3>1. Len(a) \in Nat /\ Len(b) \in Nat /\ Len(c) \in Nat /\ Len(d) \in Nat
      OBVIOUS
    <3>2. Len(w) = Len(a) + Len(b) /\ Len(w) = Len(c) + Len(d)
      BY <1>1, <1>2
    <3>3. Len(v) = (Len(a) - Len(c)) + Len(b)
      BY <2>1, <2>3
    <3>5. Len(a) + Len(b) = Len(c) + Len(d)
      BY <3>2
    <3>4. \A k, l, m, n \in Nat : k + l = m + n => (k - m) + l = n
      OBVIOUS
    <3> QED
      BY <3>1, <3>3, <3>4, <3>5
  <2>5. ASSUME NEW i \in 1..Len(d) PROVE v[i] = d[i]
    <3>1. d[i] = w[Len(c) + i]
      BY <1>2
    <3>2. CASE i <= Len(r)
      <4>1. v[i] = r[i] /\ r[i] = a[Len(c) + i]
        BY <2>1, <2>3, <3>2
      <4>2. Len(c) + i \in 1..Len(a)
        BY <2>1, <3>2
      <4> QED
        BY <1>1, <3>1, <4>1, <4>2
    <3>3. CASE i > Len(r)
      <4>1. PICK k \in 1..Len(b) : i = Len(r) + k
        <5>1. i - Len(r) \in 1..Len(b) /\ i = Len(r) + (i - Len(r))
          BY <1>1, <1>2, <2>1, <3>3
        <5> QED
          BY <5>1
      <4>2. v[i] = b[k]
        BY <2>3, <4>1
      <4>3. Len(c) + i = Len(a) + k
        BY <2>1, <4>1
      <4> QED
        BY <1>1, <3>1, <4>2, <4>3
    <3> QED
      BY <2>1, <3>2, <3>3
  <2>6. v = d
    BY <2>3, <2>4, <2>5, EqualSeqs
  <2> QED
    BY <2>1, <2>2, <2>6
<1> QED
  BY <1>1, <1>2, <1>3, <1>4

-----------------------------------------------------------------------------
(* Messages and their frames *)

Messages == {KeepAlive} \cup Carried \cup Foreign

\* What is not to be decoded, or cannot.
Ignored == {KeepAlive} \cup Foreign

FrameLength(m) == IF m = KeepAlive THEN 0 ELSE Len(m.payload) + 1

LEMMA KindsOfMessage ==
  ASSUME NEW m \in Messages
  PROVE  \/ m = KeepAlive
         \/ /\ m # KeepAlive
            /\ m.type \in Byte /\ m.payload \in Seq(Byte)
            /\ m = [type |-> m.type, payload |-> m.payload]
            /\ m.payload \in Payloads
            /\ m \in Carried => IsReadable(m)
            /\ m \in Foreign => ~IsReadable(m)
<1>1. KeepAlive.type = 256 /\ 256 \notin Byte
  BY DEF KeepAlive, NoType, Byte
<1>2. CASE m \in Carried
  <2>1. /\ m.type \in KnownType /\ m.payload \in Payloads /\ IsReadable(m)
        /\ m = [type |-> m.type, payload |-> m.payload]
    BY <1>2 DEF Carried
  <2>2. m \notin Foreign
    BY <2>1 DEF Foreign
  <2> QED
    BY <1>1, <2>1, <2>2, FramerAssumption
<1>3. CASE m \in Foreign
  <2>1. /\ m.type \in KnownType \cup ForeignType /\ m.payload \in Payloads /\ ~IsReadable(m)
        /\ m = [type |-> m.type, payload |-> m.payload]
    BY <1>3 DEF Foreign
  <2>2. m \notin Carried
    BY <2>1 DEF Carried
  <2> QED
    BY <1>1, <2>1, <2>2, FramerAssumption
<1> QED
  BY <1>2, <1>3 DEF Messages

\* Four bytes hold every length that they are used for.
LEMMA U32Value ==
  ASSUME NEW n \in Nat, ((n \div 256) \div 256) \div 256 \in Byte
  PROVE  /\ U32(n) \in Seq(Byte) /\ Len(U32(n)) = 4
         /\ ((U32(n)[1] * 256 + U32(n)[2]) * 256 + U32(n)[3]) * 256 + U32(n)[4] = n
<1> DEFINE a == ((n \div 256) \div 256) \div 256
           b == ((n \div 256) \div 256) % 256
           c == (n \div 256) % 256
           d == n % 256
<1>1. a \in 0..255 /\ b \in 0..255 /\ c \in 0..255 /\ d \in 0..255
  BY DEF Byte
<1>2. ((a * 256 + b) * 256 + c) * 256 + d = n
  OBVIOUS
<1>3. U32(n) = <<a, b, c, d>>
  BY DEF U32
<1> HIDE DEF a, b, c, d
<1> QED
  BY <1>1, <1>2, <1>3 DEF Byte

LEMMA FrameType ==
  ASSUME NEW m \in Messages
  PROVE  /\ FrameLength(m) \in Nat
         /\ FrameOf(m) \in Seq(Byte) /\ Len(FrameOf(m)) = 4 + FrameLength(m)
         /\ LET f == FrameOf(m) IN
              ((f[1] * 256 + f[2]) * 256 + f[3]) * 256 + f[4] = FrameLength(m)
         /\ m # KeepAlive =>
              /\ FrameLength(m) > 0
              /\ FrameOf(m)[5] = m.type
              /\ \A i \in 1..Len(m.payload) : FrameOf(m)[5 + i] = m.payload[i]
<1>1. CASE m = KeepAlive
  <2>1. ((0 \div 256) \div 256) \div 256 \in Byte
    BY DEF Byte
  <2> QED
    BY <1>1, <2>1, U32Value DEF FrameOf, FrameLength
<1>2. CASE m # KeepAlive
  <2>1. /\ m.type \in Byte /\ m.payload \in Seq(Byte)
        /\ m.payload \in Payloads /\ Len(m.payload) \in Nat
    BY <1>2, KindsOfMessage
  <2> DEFINE n == Len(m.payload) + 1
             h == U32(n)
             f == FrameOf(m)
             load == m.payload
  <2>2. n \in Nat /\ n > 0 /\ ((n \div 256) \div 256) \div 256 \in Byte /\ FrameLength(m) = n
    <3>1. \A q \in Payloads : (((Len(q) + 1) \div 256) \div 256) \div 256 \in Byte
      BY FramerAssumption
    <3>2. n \in Nat /\ n > 0 /\ FrameLength(m) = n
      BY <1>2, <2>1 DEF FrameLength
    <3> QED
      BY <2>1, <3>1, <3>2
  <2>3. f = (h \o <<m.type>>) \o load
    BY <1>2 DEF FrameOf
  <2> HIDE DEF n
  <2>4. /\ h \in Seq(Byte) /\ Len(h) = 4
        /\ ((h[1] * 256 + h[2]) * 256 + h[3]) * 256 + h[4] = n
    BY <2>2, U32Value
  <2> HIDE DEF f, h, load
  <2>5. PICK t, g : t = <<m.type>> /\ Joins(g, h, t) /\ Joins(f, g, load)
    BY <2>3 DEF Joins
  <2>6. g \in Seq(Byte) /\ Len(g) = 5 /\ g[5] = m.type /\ \A i \in 1..4 : g[i] = h[i]
    <3>1. t \in Seq(Byte) /\ Len(t) = 1 /\ t[1] = m.type
      BY <2>1, <2>5, OneElement
    <3>2. /\ g \in Seq(Byte) /\ Len(g) = 5
          /\ \A i \in 1..4 : g[i] = h[i]
          /\ \A i \in 1..1 : g[4 + i] = t[i]
      <4>1. h \in Seq(Byte) /\ t \in Seq(Byte) /\ Joins(g, h, t)
        BY <2>4, <2>5, <3>1
      <4>2. /\ g \in Seq(Byte) /\ Len(g) = Len(h) + Len(t)
            /\ \A i \in 1..Len(h) : g[i] = h[i]
            /\ \A i \in 1..Len(t) : g[Len(h) + i] = t[i]
        BY <4>1, JoinedSeqs
      <4> QED
        BY <2>4, <3>1, <4>2
    <3>3. g[4 + 1] = t[1]
      BY <3>2
    <3> QED
      BY <3>1, <3>2, <3>3
  <2>7. load \in Seq(Byte) /\ Len(load) + 1 = n
    BY <2>1 DEF load, n
  <2>8. /\ f \in Seq(Byte) /\ Len(f) = 5 + Len(load)
        /\ \A i \in 1..5 : f[i] = g[i]
        /\ \A i \in 1..Len(load) : f[5 + i] = load[i]
    <3>1. g \in Seq(Byte) /\ load \in Seq(Byte) /\ Joins(f, g, load)
      BY <2>5, <2>6, <2>7
    <3>2. /\ f \in Seq(Byte) /\ Len(f) = Len(g) + Len(load)
          /\ \A i \in 1..Len(g) : f[i] = g[i]
          /\ \A i \in 1..Len(load) : f[Len(g) + i] = load[i]
      BY <3>1, JoinedSeqs
    <3> QED
      BY <2>6, <3>2
  <2>9. f[1] = h[1] /\ f[2] = h[2] /\ f[3] = h[3] /\ f[4] = h[4] /\ f[5] = m.type
    BY <2>6, <2>8
  <2> QED
    BY <2>2, <2>4, <2>7, <2>8, <2>9 DEF f, load
<1> QED
  BY <1>1, <1>2

-----------------------------------------------------------------------------
(* What is still to come *)

\* The bytes of messages that are written one behind the other.
Frames(p) == [i \in DOMAIN p |-> FrameOf(p[i])]
Stream(p) == FlattenSeq(Frames(p))

LEMMA FramesType ==
  ASSUME NEW p \in Seq(Messages)
  PROVE  /\ Frames(p) \in Seq(Seq(Byte)) /\ Len(Frames(p)) = Len(p)
         /\ \A i \in 1..Len(p) : Frames(p)[i] = FrameOf(p[i])
<1>1. DOMAIN p = 1..Len(p) /\ \A i \in 1..Len(p) : p[i] \in Messages
  OBVIOUS
<1>2. \A i \in 1..Len(p) : FrameOf(p[i]) \in Seq(Byte)
  BY <1>1, FrameType
<1> QED
  BY <1>1, <1>2 DEF Frames

LEMMA StreamType ==
  ASSUME NEW p \in Seq(Messages)
  PROVE  Stream(p) \in Seq(Byte)
  BY FramesType, FlattenType DEF Stream

LEMMA StreamEmpty == Stream(<<>>) = <<>>
<1>1. Frames(<<>>) = <<>>
  BY DEF Frames
<1> QED
  BY <1>1, FlattenEmpty DEF Stream

LEMMA StreamAppend ==
  ASSUME NEW p \in Seq(Messages), NEW m \in Messages
  PROVE  Stream(Append(p, m)) = Stream(p) \o FrameOf(m)
<1> DEFINE q == Append(p, m)
<1>1. q \in Seq(Messages) /\ Len(q) = Len(p) + 1 /\ q[Len(p) + 1] = m
  OBVIOUS
<1>2. \A i \in 1..Len(p) : q[i] = p[i]
  OBVIOUS
<1> HIDE DEF q
<1>3. /\ Frames(q) \in Seq(Seq(Byte)) /\ Len(Frames(q)) = Len(p) + 1
      /\ \A i \in 1..(Len(p) + 1) : Frames(q)[i] = FrameOf(q[i])
  BY <1>1, FramesType
<1>4. /\ Frames(p) \in Seq(Seq(Byte)) /\ Len(Frames(p)) = Len(p)
      /\ \A i \in 1..Len(p) : Frames(p)[i] = FrameOf(p[i])
  BY FramesType
<1>5. FrameOf(m) \in Seq(Byte)
  BY FrameType
<1>6. PICK t : t = Append(Frames(p), FrameOf(m))
  OBVIOUS
<1>7. /\ t \in Seq(Seq(Byte)) /\ Len(t) = Len(p) + 1
      /\ \A i \in 1..Len(p) : t[i] = Frames(p)[i]
      /\ t[Len(p) + 1] = FrameOf(m)
  BY <1>4, <1>5, <1>6
<1>8. ASSUME NEW i \in 1..(Len(p) + 1) PROVE Frames(q)[i] = t[i]
  <2>1. CASE i \in 1..Len(p)
    BY <1>2, <1>3, <1>4, <1>7, <2>1
  <2>2. CASE i = Len(p) + 1
    BY <1>1, <1>3, <1>7, <2>2
  <2> QED
    BY <2>1, <2>2
<1>9. Frames(q) = t
  BY <1>3, <1>7, <1>8, EqualSeqs
<1> QED
  BY <1>4, <1>5, <1>6, <1>9, FlattenAppend DEF Stream, q

LEMMA FirstOf ==
  ASSUME NEW S, NEW p \in Seq(S), p # <<>>
  PROVE  /\ p[1] \in S /\ Tail(p) \in Seq(S)
         /\ p = <<p[1]>> \o Tail(p)
         /\ Len(Tail(p)) = Len(p) - 1
         /\ \A i \in 1..Len(Tail(p)) : Tail(p)[i] = p[i + 1]
  OBVIOUS

LEMMA StreamFirst ==
  ASSUME NEW p \in Seq(Messages), p # <<>>
  PROVE  Stream(p) = FrameOf(p[1]) \o Stream(Tail(p))
<1> DEFINE q == Tail(p)
<1>1. /\ p[1] \in Messages /\ q \in Seq(Messages) /\ Len(p) = Len(q) + 1
      /\ \A i \in 1..Len(q) : q[i] = p[i + 1]
  BY FirstOf
<1> HIDE DEF q
<1>2. /\ Frames(q) \in Seq(Seq(Byte)) /\ Len(Frames(q)) = Len(q)
      /\ \A i \in 1..Len(q) : Frames(q)[i] = FrameOf(q[i])
  BY <1>1, FramesType
<1>3. /\ Frames(p) \in Seq(Seq(Byte)) /\ Len(Frames(p)) = Len(p)
      /\ \A i \in 1..Len(p) : Frames(p)[i] = FrameOf(p[i])
  BY FramesType
<1>4. FrameOf(p[1]) \in Seq(Byte)
  BY <1>1, FrameType
<1>5. PICK u, t : u = <<FrameOf(p[1])>> /\ Joins(t, u, Frames(q))
  BY DEF Joins
<1>6. u \in Seq(Seq(Byte)) /\ Len(u) = 1 /\ u[1] = FrameOf(p[1])
  BY <1>4, <1>5, OneElement
<1>7. /\ t \in Seq(Seq(Byte)) /\ Len(t) = 1 + Len(Frames(q))
      /\ \A i \in 1..1 : t[i] = u[i]
      /\ \A i \in 1..Len(Frames(q)) : t[1 + i] = Frames(q)[i]
  <2>1. Frames(q) \in Seq(Seq(Byte)) /\ u \in Seq(Seq(Byte)) /\ Joins(t, u, Frames(q))
    BY <1>2, <1>5, <1>6
  <2>2. /\ t \in Seq(Seq(Byte)) /\ Len(t) = Len(u) + Len(Frames(q))
        /\ \A i \in 1..Len(u) : t[i] = u[i]
        /\ \A i \in 1..Len(Frames(q)) : t[Len(u) + i] = Frames(q)[i]
    BY <2>1, JoinedSeqs
  <2> QED
    BY <1>6, <2>2
<1>8. ASSUME NEW i \in 1..Len(p) PROVE Frames(p)[i] = t[i]
  <2>1. CASE i = 1
    BY <1>3, <1>6, <1>7, <2>1
  <2>2. CASE i # 1
    <3>1. i - 1 \in 1..Len(q) /\ i = 1 + (i - 1)
      BY <1>1, <2>2
    <3>2. PICK k \in 1..Len(q) : i = 1 + k
      BY <3>1
    <3>3. t[1 + k] = FrameOf(q[k])
      BY <1>2, <1>7
    <3>4. q[k] = p[k + 1]
      BY <1>1
    <3>5. i = k + 1
      BY <3>2
    <3>6. Frames(p)[i] = FrameOf(p[i])
      BY <1>3
    <3> QED
      BY <3>2, <3>3, <3>4, <3>5, <3>6
  <2> QED
    BY <2>1, <2>2
<1>9. Frames(p) = t
  <2>1. Len(t) = Len(Frames(p))
    BY <1>1, <1>2, <1>3, <1>7
  <2> QED
    BY <1>3, <1>7, <1>8, <2>1, EqualSeqs
<1>10. t = <<FrameOf(p[1])>> \o Frames(q)
  BY <1>5 DEF Joins
<1>11. FlattenSeq(t) = FrameOf(p[1]) \o FlattenSeq(Frames(q))
  BY <1>2, <1>4, <1>10, FlattenCons
<1> QED
  BY <1>9, <1>11 DEF Stream, q

-----------------------------------------------------------------------------
(* The inductive invariant *)

FramerTypes ==
  /\ wire \in Seq(Byte) /\ src \in Seq(Byte)
  /\ items \in Seq({KeepAlive} \cup Carried)
  /\ messages \in Seq(Messages)
  /\ reader \in {"Decoding", "Reading", "Ended", "Failed", "Panicked"}
  /\ eof \in BOOLEAN /\ closed \in BOOLEAN

\* The messages in p are to come: their bytes are in the buffer and on the
\* wire, and with them all is there that was meant.
Coming(p) ==
  /\ Joins(Stream(p), src, wire)
  /\ Joins(Meant, Got, Without(p, Ignored))
  /\ IsFine => \A i \in DOMAIN p : IsKnown(p[i]) /\ Fits(p[i])

FramerInv ==
  /\ FramerTypes
  /\ \E p \in Seq(Messages) : Coming(p)
  /\ eof => closed /\ wire = <<>>
  /\ reader = "Ended" => eof /\ src = <<>>
  /\ reader \in {"Failed", "Panicked"} => ~IsFine

\* The first frame of the buffer is the first message's.
LEMMA FirstFrame ==
  ASSUME FramerTypes, NEW p \in Seq(Messages), Joins(Stream(p), src, wire), p # <<>>,
         NEW m, m = p[1], NEW f, f = FrameOf(m)
  PROVE  /\ m \in Messages /\ Tail(p) \in Seq(Messages)
         /\ f \in Seq(Byte)
         /\ \A i \in 1..Len(src) : i <= Len(f) => src[i] = f[i]
         /\ Len(f) <= Len(src) + Len(wire)
         /\ Len(f) <= Len(src) =>
              /\ SubSeq(src, Len(f) + 1, Len(src)) \in Seq(Byte)
              /\ Joins(Stream(Tail(p)), SubSeq(src, Len(f) + 1, Len(src)), wire)
<1>1. m \in Messages /\ Tail(p) \in Seq(Messages)
  BY FirstOf
<1>2. f \in Seq(Byte) /\ Stream(Tail(p)) \in Seq(Byte)
  BY <1>1, FrameType, StreamType
<1>3. Joins(Stream(p), f, Stream(Tail(p)))
  BY StreamFirst DEF Joins
<1>4. src \in Seq(Byte) /\ wire \in Seq(Byte)
  BY DEF FramerTypes
<1> DEFINE t == Stream(Tail(p))
           r == SubSeq(src, Len(f) + 1, Len(src))
<1> HIDE DEF t
<1>5. /\ Len(src) + Len(wire) = Len(f) + Len(t)
      /\ \A i \in 1..Len(src) : i <= Len(f) => src[i] = f[i]
      /\ Len(f) <= Len(src) => r \in Seq(Byte) /\ Joins(t, r, wire)
  <2>1. t \in Seq(Byte) /\ Joins(Stream(p), f, t)
    BY <1>2, <1>3 DEF t
  <2>2. f \in Seq(Byte)
    BY <1>2
  <2> HIDE DEF t
  <2>3. PICK w : Joins(w, f, t) /\ Joins(w, src, wire)
    BY <2>1
  <2>4. /\ Len(src) + Len(wire) = Len(f) + Len(t)
        /\ \A i \in 1..Len(src) : i <= Len(f) => src[i] = f[i]
        /\ Len(f) <= Len(src) =>
             /\ SubSeq(src, Len(f) + 1, Len(src)) \in Seq(Byte)
             /\ Joins(t, SubSeq(src, Len(f) + 1, Len(src)), wire)
    BY <1>4, <2>1, <2>2, <2>3, CutSeq
  <2> QED
    BY <2>4
<1>6. Len(t) \in Nat /\ Len(f) \in Nat /\ Len(src) \in Nat /\ Len(wire) \in Nat
  BY <1>2, <1>4 DEF t
<1> QED
  BY <1>1, <1>2, <1>5, <1>6 DEF t

LEMMA Header ==
  ASSUME FramerTypes, NEW p \in Seq(Messages), Joins(Stream(p), src, wire), Len(src) >= 4
  PROVE  /\ p # <<>> /\ p[1] \in Messages /\ Tail(p) \in Seq(Messages)
         /\ DataLength = FrameLength(p[1]) /\ FrameLength(p[1]) \in Nat
<1>1. p # <<>>
  <2> SUFFICES ASSUME p = <<>> PROVE FALSE
    OBVIOUS
  <2>1. src \o wire = <<>> /\ src \in Seq(Byte) /\ wire \in Seq(Byte)
    BY StreamEmpty DEF Joins, FramerTypes
  <2> QED
    BY <2>1
<1> DEFINE m == p[1]
           f == FrameOf(m)
<1>2. /\ m \in Messages /\ Tail(p) \in Seq(Messages)
      /\ f \in Seq(Byte)
      /\ \A i \in 1..Len(src) : i <= Len(f) => src[i] = f[i]
  BY <1>1, FirstFrame
<1>3. /\ FrameLength(m) \in Nat /\ Len(f) = 4 + FrameLength(m)
      /\ ((f[1] * 256 + f[2]) * 256 + f[3]) * 256 + f[4] = FrameLength(m)
  BY <1>2, FrameType
<1> HIDE DEF f, m
<1>4. \A i \in 1..4 : src[i] = f[i]
  <2>1. Len(src) \in Nat
    BY DEF FramerTypes
  <2> QED
    BY <1>2, <1>3, <2>1
<1>5. src[1] = f[1] /\ src[2] = f[2] /\ src[3] = f[3] /\ src[4] = f[4]
  BY <1>4
<1>6. DataLength = FrameLength(m)
  BY <1>3, <1>5 DEF DataLength
<1> QED
  BY <1>1, <1>2, <1>3, <1>6 DEF m

\* A complete frame is its message again, and the rest of the buffer goes on
\* with the next.
LEMMA CompleteFrame ==
  ASSUME FramerTypes, NEW p \in Seq(Messages), Joins(Stream(p), src, wire), p # <<>>,
         Len(src) >= 4 + FrameLength(p[1])
  PROVE  /\ Advanced(4 + DataLength) \in Seq(Byte)
         /\ Joins(Stream(Tail(p)), Advanced(4 + DataLength), wire)
         /\ p[1] # KeepAlive =>
              /\ src[5] = p[1].type
              /\ First = p[1]
<1> DEFINE m == p[1]
           f == FrameOf(m)
           l == FrameLength(m)
<1>1. /\ m \in Messages
      /\ f \in Seq(Byte)
      /\ \A i \in 1..Len(src) : i <= Len(f) => src[i] = f[i]
      /\ Len(f) <= Len(src) =>
           /\ SubSeq(src, Len(f) + 1, Len(src)) \in Seq(Byte)
           /\ Joins(Stream(Tail(p)), SubSeq(src, Len(f) + 1, Len(src)), wire)
  BY FirstFrame
<1>2. /\ l \in Nat /\ Len(f) = 4 + l
      /\ m # KeepAlive =>
           /\ l > 0
           /\ f[5] = m.type
           /\ \A i \in 1..Len(m.payload) : f[5 + i] = m.payload[i]
  BY <1>1, FrameType
<1>3. Len(src) \in Nat /\ src \in Seq(Byte)
  BY DEF FramerTypes
<1>4. Len(src) >= 4 + l
  OBVIOUS
<1>5. DataLength = l
  <2>1. Len(src) >= 4
    BY <1>2, <1>3, <1>4
  <2> QED
    BY <2>1, Header
<1> HIDE DEF m, f, l
<1>6. /\ Advanced(4 + DataLength) \in Seq(Byte)
      /\ Joins(Stream(Tail(p)), Advanced(4 + DataLength), wire)
  BY <1>1, <1>2, <1>4, <1>5 DEF Advanced
<1>7. ASSUME m # KeepAlive
      PROVE  /\ src[5] = m.type
             /\ First = m
  <2>1. /\ m.payload \in Seq(Byte)
        /\ m = [type |-> m.type, payload |-> m.payload]
    BY <1>1, <1>7, KindsOfMessage
  <2>2. l = Len(m.payload) + 1 /\ Len(m.payload) \in Nat
    BY <1>7, <2>1 DEF FrameLength, l
  <2>3. src[5] = m.type
    BY <1>1, <1>2, <1>3, <1>4, <1>7
  <2> DEFINE s == SubSeq(src, 6, 4 + DataLength)
             load == m.payload
  <2>4. /\ s \in Seq(Byte) /\ Len(s) = Len(load)
        /\ \A i \in 1..Len(s) : s[i] = src[5 + i]
    BY <1>3, <1>4, <1>5, <2>2
  <2> HIDE DEF s
  <2>5. ASSUME NEW i \in 1..Len(s) PROVE s[i] = load[i]
    <3>1. i \in 1..Len(load) /\ 5 + i \in 1..Len(src) /\ 5 + i <= Len(f)
      BY <1>2, <1>3, <1>4, <2>2, <2>4
    <3>2. src[5 + i] = f[5 + i]
      BY <1>1, <3>1
    <3>3. f[5 + i] = load[i]
      BY <1>2, <1>7, <3>1
    <3> QED
      BY <2>4, <3>2, <3>3
  <2>6. s = load
    BY <2>1, <2>4, <2>5, EqualSeqs
  <2> QED
    BY <2>1, <2>3, <2>6 DEF s, First
<1> QED
  BY <1>6, <1>7 DEF m

\* At the end of the stream no byte is lacking, but for those of no message.
LEMMA EndLacksNothing ==
  ASSUME FramerTypes, NEW p \in Seq(Messages), Joins(Stream(p), src, wire),
         wire = <<>>, src # <<>>
  PROVE  ~LacksBytes
<1>1. src \in Seq(Byte) /\ Len(src) \in Nat /\ src \o wire = src
  BY DEF FramerTypes
<1>2. p # <<>>
  BY <1>1, StreamEmpty DEF Joins
<1> DEFINE m == p[1]
           f == FrameOf(m)
<1>3. m \in Messages /\ f \in Seq(Byte) /\ Len(f) <= Len(src) + Len(wire)
  BY <1>2, FirstFrame
<1>4. /\ FrameLength(m) \in Nat /\ Len(f) = 4 + FrameLength(m)
  BY <1>3, FrameType
<1>5. Len(src) >= 4 + FrameLength(m)
  BY <1>1, <1>3, <1>4
<1>6. DataLength = FrameLength(m)
  BY <1>1, <1>4, <1>5, Header
<1> HIDE DEF f, m
<1> QED
  BY <1>1, <1>4, <1>5, <1>6 DEF LacksBytes

-----------------------------------------------------------------------------
(* What is meant and what was got *)

LEMMA MeantType ==
  ASSUME FramerTypes
  PROVE  Meant \in Seq(Messages) /\ Got \in Seq({KeepAlive} \cup Carried)
  BY WithoutType DEF FramerTypes, Meant, Got

LEMMA GotAppend ==
  ASSUME FramerTypes, NEW m \in {KeepAlive} \cup Carried, items' = Append(items, m)
  PROVE  Got' = Got \o Kept(m, {KeepAlive})
<1>1. Without(Append(items, m), {KeepAlive})
        = Without(items, {KeepAlive}) \o Kept(m, {KeepAlive})
  BY WithoutAppend DEF FramerTypes
<1> QED
  BY <1>1 DEF Got

LEMMA MeantAppend ==
  ASSUME FramerTypes, NEW m \in Messages, messages' = Append(messages, m)
  PROVE  Meant' = Meant \o Kept(m, Ignored)
<1>1. Without(Append(messages, m), Ignored)
        = Without(messages, Ignored) \o Kept(m, Ignored)
  BY WithoutAppend DEF FramerTypes
<1> QED
  BY <1>1 DEF Meant, Ignored

\* The carried messages are those that are not ignored.
LEMMA CarriedOrIgnored ==
  ASSUME NEW m \in Messages
  PROVE  /\ m \in Ignored <=> m \notin Carried
         /\ m \in Carried <=> m # KeepAlive /\ IsReadable(m)
         /\ m \in Carried => IsKnown(m)
         /\ m \in Foreign => ~IsKnown(m)
<1>0. KeepAlive.type \notin Byte
  BY DEF KeepAlive, NoType, Byte
<1>1. m = KeepAlive => m \notin Carried
  <2>1. \A x \in Carried : x.type \in Byte
    BY FramerAssumption DEF Carried
  <2> QED
    BY <2>1, <1>0
<1>2. m = KeepAlive => m \notin Foreign
  <2>1. \A x \in Foreign : x.type \in Byte
    BY FramerAssumption DEF Foreign
  <2> QED
    BY <2>1, <1>0
<1>3. /\ m # KeepAlive /\ m \in Carried => IsReadable(m)
      /\ m # KeepAlive /\ m \in Foreign => ~IsReadable(m)
  BY KindsOfMessage
<1> QED
  BY <1>1, <1>2, <1>3 DEF Messages, Ignored, IsKnown

LEMMA WithoutFirst ==
  ASSUME NEW p \in Seq(Messages), p # <<>>
  PROVE  /\ Without(p, Ignored) = Kept(p[1], Ignored) \o Without(Tail(p), Ignored)
         /\ Without(Tail(p), Ignored) \in Seq(Messages)
<1>1. p[1] \in Messages /\ Tail(p) \in Seq(Messages) /\ p = <<p[1]>> \o Tail(p)
  BY FirstOf
<1>2. Without(<<p[1]>> \o Tail(p), Ignored)
        = Kept(p[1], Ignored) \o Without(Tail(p), Ignored)
  BY <1>1, WithoutCons
<1> QED
  BY <1>1, <1>2, WithoutType

-----------------------------------------------------------------------------
(* decode *)

\* Skipping the first message.
LEMMA SkipsFirst ==
  ASSUME NEW p \in Seq(Messages), p # <<>>, p[1] \in Ignored
  PROVE  Without(p, Ignored) = Without(Tail(p), Ignored)
<1>1. Kept(p[1], Ignored) = <<>>
  BY DEF Kept
<1>2. PICK w \in Seq(Messages) : w = Without(Tail(p), Ignored)
  BY WithoutFirst
<1>3. <<>> \o w = w
  OBVIOUS
<1> QED
  BY <1>1, <1>2, <1>3, WithoutFirst

\* Taking it.
LEMMA TakesFirst ==
  ASSUME FramerTypes, NEW p \in Seq(Messages), p # <<>>, p[1] \in Carried,
         Joins(Meant, Got, Without(p, Ignored)), items' = Append(items, p[1]), messages' = messages
  PROVE  /\ Got' = Append(Got, p[1])
         /\ Joins(Meant', Got', Without(Tail(p), Ignored))
         /\ Len(Got) < Len(Meant) /\ p[1] = Meant[Len(Got) + 1]
<1> DEFINE m == p[1]
           w == Without(Tail(p), Ignored)
<1>1. m \in Messages /\ m # KeepAlive /\ m \notin Ignored
  BY FirstOf, CarriedOrIgnored DEF Messages, Ignored
<1>2. Kept(m, Ignored) = <<m>> /\ Kept(m, {KeepAlive}) = <<m>>
  BY <1>1 DEF Kept
<1>3. /\ Got \in Seq(Messages) /\ <<m>> \in Seq(Messages) /\ w \in Seq(Messages)
  <2>1. Got \in Seq({KeepAlive} \cup Carried)
    BY MeantType
  <2>2. Got \in Seq(Messages)
    BY <2>1 DEF Messages
  <2> QED
    BY <1>1, <2>2, WithoutFirst
<1>4. Got' = Got \o <<m>>
  <2>1. m \in {KeepAlive} \cup Carried
    OBVIOUS
  <2> QED
    BY <1>2, <2>1, GotAppend
<1>5. Meant = Got \o (<<m>> \o w)
  BY <1>2, WithoutFirst DEF Joins
<1>6. Associates(Got, <<m>>, w)
  BY <1>3, Associative
<1>7. Meant' = Meant
  BY DEF Meant
<1> HIDE DEF m, w
<1>8. Joins(Meant', Got', w)
  BY <1>4, <1>5, <1>6, <1>7 DEF Associates, Joins
<1>9. Got' = Append(Got, m)
  BY <1>3, <1>4
<1>10. Len(Got) < Len(Meant) /\ m = Meant[Len(Got) + 1]
  <2>1. PICK u \in Seq(Messages) : u = <<m>> /\ Len(u) = 1 /\ u[1] = m
    BY <1>1, OneElement
  <2>2. PICK v : Joins(v, u, w)
    BY DEF Joins
  <2>3. /\ v \in Seq(Messages) /\ Len(v) = Len(u) + Len(w)
        /\ \A i \in 1..Len(u) : v[i] = u[i]
    BY <1>3, <2>2, JoinedSeqs
  <2>4. Len(v) > 0 /\ v[1] = m
    <3>1. Len(w) \in Nat
      BY <1>3
    <3> QED
      BY <2>1, <2>3, <3>1
  <2>5. Joins(Meant, Got, v)
    BY <1>5, <2>1, <2>2 DEF Joins
  <2>6. /\ Len(Meant) = Len(Got) + Len(v)
        /\ \A i \in 1..Len(v) : Meant[Len(Got) + i] = v[i]
    <3>1. Got \in Seq(Messages) /\ v \in Seq(Messages)
      BY <1>3, <2>3
    <3> QED
      BY <2>5, <3>1, JoinedSeqs
  <2>7. Len(v) \in Nat /\ Len(Got) \in Nat /\ 1 \in 1..Len(v)
    BY <1>3, <2>3, <2>4
  <2> QED
    BY <2>4, <2>6, <2>7
<1> QED
  BY <1>8, <1>9, <1>10 DEF m, w

-----------------------------------------------------------------------------
(* The invariant is kept *)

FineRest(p) == \A i \in DOMAIN p : IsKnown(p[i]) /\ Fits(p[i])

LEMMA FineTail ==
  ASSUME NEW p \in Seq(Messages), p # <<>>, FineRest(p)
  PROVE  FineRest(Tail(p)) /\ IsKnown(p[1]) /\ Fits(p[1])
<1>1. /\ DOMAIN p = 1..Len(p) /\ Tail(p) \in Seq(Messages)
      /\ DOMAIN Tail(p) = 1..Len(Tail(p)) /\ Len(Tail(p)) = Len(p) - 1
      /\ \A i \in 1..Len(Tail(p)) : Tail(p)[i] = p[i + 1]
      /\ Len(p) \in Nat /\ Len(p) > 0
  <2>1. Tail(p) \in Seq(Messages)
    BY FirstOf
  <2> QED
    BY <2>1, FirstOf
<1>2. ASSUME NEW i \in 1..Len(Tail(p)) PROVE i + 1 \in 1..Len(p)
  BY <1>1
<1> QED
  BY <1>1, <1>2 DEF FineRest

\* What the reader does without a message: nothing is left over at the end.
LEMMA NoMessageInv ==
  ASSUME FramerInv, reader = "Decoding", UNCHANGED <<wire, eof, closed, messages>>,
         NEW rest \in Seq(Byte), NoMessage(rest),
         NEW p \in Seq(Messages), Joins(Stream(p), rest, wire),
         Joins(Meant, Got, Without(p, Ignored)), IsFine => FineRest(p),
         eof /\ rest # <<>> => ~IsFine
  PROVE  FramerInv'
<1>1. FramerTypes'
  BY DEF FramerInv, FramerTypes, NoMessage
<1>2. Meant' = Meant /\ Got' = Got /\ (IsFine' <=> IsFine)
  BY DEF Meant, Got, IsFine, NoMessage
<1>3. Coming(p)'
  BY <1>2 DEF Coming, FineRest, NoMessage
<1>4. eof' => closed' /\ wire' = <<>>
  BY DEF FramerInv
<1>5. reader' = "Ended" => eof' /\ src' = <<>>
  BY DEF NoMessage
<1>6. reader' \in {"Failed", "Panicked"} => ~IsFine'
  BY <1>2 DEF NoMessage
<1> QED
  BY <1>1, <1>3, <1>4, <1>5, <1>6 DEF FramerInv

\* decode returns the first message.
LEMMA YieldsInv ==
  ASSUME FramerInv, reader = "Decoding", UNCHANGED <<wire, eof, closed, messages>>,
         NEW rest \in Seq(Byte), NEW p \in Seq(Messages), p # <<>>, Yields(p[1], rest),
         Joins(Stream(Tail(p)), rest, wire),
         Joins(Meant, Got, Without(p, Ignored)), IsFine => FineRest(p),
         p[1] = KeepAlive \/ p[1] \in Carried
  PROVE  FramerInv'
<1>1. /\ FramerTypes /\ src' = rest /\ items' = Append(items, p[1]) /\ reader' = reader
      /\ messages' = messages
  BY DEF FramerInv, Yields
<1>2. FramerTypes'
  BY <1>1 DEF FramerTypes
<1>3. Joins(Meant', Got', Without(Tail(p), Ignored))
  <2>1. CASE p[1] \in Carried
    BY <1>1, <2>1, TakesFirst
  <2>2. CASE p[1] = KeepAlive
    <3>1. Without(p, Ignored) = Without(Tail(p), Ignored)
      BY <2>2, SkipsFirst DEF Ignored
    <3>2. Got' = Got
      <4>1. Got' = Got \o Kept(p[1], {KeepAlive})
        BY <1>1, <2>2, GotAppend
      <4>2. Kept(p[1], {KeepAlive}) = <<>>
        BY <2>2 DEF Kept
      <4>3. PICK g \in Seq({KeepAlive} \cup Carried) : g = Got
        BY <1>1, MeantType
      <4>4. g \o <<>> = g
        OBVIOUS
      <4> QED
        BY <4>1, <4>2, <4>3, <4>4
    <3>3. Meant' = Meant
      BY <1>1 DEF Meant
    <3> QED
      BY <3>1, <3>2, <3>3
  <2> QED
    BY <2>1, <2>2
<1>4. Tail(p) \in Seq(Messages)
  BY FirstOf
<1>5. IsFine' => FineRest(Tail(p))
  BY <1>1, FineTail DEF IsFine
<1>6. Coming(Tail(p))'
  BY <1>1, <1>3, <1>5 DEF Coming, FineRest
<1> QED
  BY <1>1, <1>2, <1>4, <1>6 DEF FramerInv

\* What one call of decode does with p to come: nothing, for lack of bytes; it
\* returns the first message, or skips it; or the stream is given up.
TakesMessage(p) ==
  /\ p # <<>> /\ (p[1] = KeepAlive \/ p[1] \in Carried)
  /\ \E rest \in Seq(Byte) : Yields(p[1], rest) /\ Joins(Stream(Tail(p)), rest, wire)

SkipsMessage(p) ==
  /\ p # <<>> /\ p[1] \in Foreign
  /\ \E rest \in Seq(Byte) : NoMessage(rest) /\ Joins(Stream(Tail(p)), rest, wire)

LEMMA DecodeCases ==
  ASSUME FramerTypes, Decode, NEW p \in Seq(Messages),
         Joins(Stream(p), src, wire), IsFine => FineRest(p)
  PROVE  \/ LacksBytes /\ NoMessage(src)
         \/ TakesMessage(p)
         \/ SkipsMessage(p)
         \/ TooLarge /\ ~IsFine
         \/ Panics /\ ~IsFine
<1> /\ reader = "Decoding" /\ UNCHANGED <<wire, eof, closed, messages>>
    /\ src \in Seq(Byte) /\ Len(src) \in Nat
  BY DEF Decode, FramerTypes
<1>1. CASE LacksBytes
  BY <1>1 DEF Decode
<1>2. CASE ~LacksBytes
  <2>1. Len(src) >= 4
    BY <1>2 DEF LacksBytes
  <2>2. /\ p # <<>> /\ p[1] \in Messages /\ Tail(p) \in Seq(Messages)
        /\ DataLength = FrameLength(p[1]) /\ DataLength \in Nat
    BY <2>1, Header
  <2>3. \/ DataLength = 0 /\ Yields(KeepAlive, Advanced(4))
        \/ DataLength > MaxLength /\ TooLarge
        \/ DataLength \in 1..MaxLength /\ src[5] \notin KnownType /\ SkipsUnknown
        \/ DataLength \in 1..MaxLength /\ IsReadable(First) /\ Yields(First, Advanced(4 + DataLength))
        \/ DataLength \in 1..MaxLength /\ src[5] \in KnownType /\ ~IsReadable(First) /\ Panics
    BY <1>2 DEF Decode
  <2>4. p[1] # KeepAlive => DataLength = Len(p[1].payload) + 1 /\ DataLength > 0
    BY <2>2, FrameType DEF FrameLength
  <2>5. CASE DataLength = 0 /\ Yields(KeepAlive, Advanced(4))
    <3>1. p[1] = KeepAlive /\ 4 + DataLength = 4
      BY <2>2, <2>4, <2>5
    <3>2. Len(src) >= 4 + FrameLength(p[1])
      BY <2>1, <2>2, <3>1
    <3>3. Advanced(4) \in Seq(Byte) /\ Joins(Stream(Tail(p)), Advanced(4), wire)
      BY <2>2, <3>1, <3>2, CompleteFrame
    <3> QED
      BY <2>2, <2>5, <3>1, <3>3 DEF TakesMessage
  <2>6. CASE DataLength > MaxLength /\ TooLarge
    <3>1. p[1] # KeepAlive /\ ~Fits(p[1])
      <4>1. MaxLength \in Nat
        BY FramerAssumption
      <4>2. p[1] # KeepAlive
        BY <2>2, <2>6, <4>1 DEF FrameLength
      <4> QED
        BY <2>2, <2>4, <2>6, <4>1, <4>2 DEF Fits
    <3> QED
      BY <2>2, <2>6, <3>1, FineTail
  <2>7. ASSUME DataLength \in 1..MaxLength
        PROVE  /\ p[1] # KeepAlive
               /\ Advanced(4 + DataLength) \in Seq(Byte)
               /\ Joins(Stream(Tail(p)), Advanced(4 + DataLength), wire)
               /\ src[5] = p[1].type
               /\ First = p[1]
    <3>1. Len(src) >= 4 + FrameLength(p[1])
      BY <1>2, <2>2, <2>7 DEF LacksBytes
    <3>2. p[1] # KeepAlive
      BY <2>2, <2>7 DEF FrameLength
    <3> QED
      BY <2>2, <3>1, <3>2, CompleteFrame
  <2>8. CASE DataLength \in 1..MaxLength /\ src[5] \notin KnownType /\ SkipsUnknown
    <3>1. p[1] \in Foreign
      <4>1. ~IsReadable(p[1]) /\ p[1] # KeepAlive
        BY <2>7, <2>8 DEF IsReadable
      <4> QED
        BY <2>2, <4>1, CarriedOrIgnored DEF Ignored
    <3> QED
      BY <2>2, <2>7, <2>8, <3>1 DEF SkipsUnknown, SkipsMessage
  <2>9. CASE DataLength \in 1..MaxLength /\ IsReadable(First) /\ Yields(First, Advanced(4 + DataLength))
    <3>1. p[1] \in Carried
      BY <2>2, <2>7, <2>9, CarriedOrIgnored
    <3>2. Yields(p[1], Advanced(4 + DataLength))
      BY <2>7, <2>9
    <3> QED
      BY <2>2, <2>7, <2>9, <3>1, <3>2 DEF TakesMessage
  <2>10. CASE DataLength \in 1..MaxLength /\ src[5] \in KnownType /\ ~IsReadable(First) /\ Panics
    <3>1. p[1] # KeepAlive /\ ~IsReadable(p[1])
      BY <2>7, <2>10
    <3>2. p[1] \in Foreign
      BY <2>2, <3>1, CarriedOrIgnored DEF Ignored
    <3> QED
      BY <2>2, <2>10, <3>2, FineTail, CarriedOrIgnored
  <2> QED
    BY <2>3, <2>5, <2>6, <2>8, <2>9, <2>10
<1> QED
  BY <1>1, <1>2

LEMMA DecodeInv ==
  ASSUME FramerInv, Decode
  PROVE  FramerInv'
<1> FramerTypes /\ reader = "Decoding" /\ UNCHANGED <<wire, eof, closed, messages>>
  BY DEF FramerInv, Decode
<1>1. PICK p \in Seq(Messages) :
        /\ Joins(Stream(p), src, wire)
        /\ Joins(Meant, Got, Without(p, Ignored))
        /\ IsFine => FineRest(p)
  BY DEF FramerInv, Coming, FineRest
<1>2. CASE LacksBytes /\ NoMessage(src)
  <2>1. eof => src = <<>>
    BY <1>1, <1>2, EndLacksNothing DEF FramerInv
  <2>2. src \in Seq(Byte)
    BY DEF FramerTypes
  <2> QED
    BY <1>1, <1>2, <2>1, <2>2, NoMessageInv
<1>3. CASE TakesMessage(p)
  BY <1>1, <1>3, YieldsInv DEF TakesMessage
<1>4. CASE SkipsMessage(p)
  <2>1. p # <<>> /\ p[1] \in Messages /\ p[1] \in Foreign /\ Tail(p) \in Seq(Messages)
    BY <1>4, FirstOf DEF SkipsMessage
  <2>2. ~IsFine
    BY <1>1, <2>1, FineTail, CarriedOrIgnored
  <2>3. Joins(Meant, Got, Without(Tail(p), Ignored))
    BY <1>1, <2>1, SkipsFirst DEF Ignored
  <2> QED
    BY <1>4, <2>1, <2>2, <2>3, NoMessageInv DEF SkipsMessage
<1>5. CASE TooLarge /\ ~IsFine
  <2>1. Meant' = Meant /\ Got' = Got /\ ~IsFine'
    BY <1>5 DEF TooLarge, Meant, Got, IsFine
  <2>2. Coming(p)'
    BY <1>1, <1>5, <2>1 DEF Coming, TooLarge
  <2>3. FramerTypes'
    BY <1>5 DEF FramerTypes, TooLarge
  <2> QED
    BY <1>5, <2>1, <2>2, <2>3 DEF FramerInv, TooLarge
<1>6. CASE Panics /\ ~IsFine
  <2>1. Meant' = Meant /\ Got' = Got /\ ~IsFine'
    BY <1>6 DEF Panics, Meant, Got, IsFine
  <2>2. Coming(p)'
    BY <1>1, <1>6, <2>1 DEF Coming, Panics
  <2>3. FramerTypes'
    BY <1>6 DEF FramerTypes, Panics
  <2> QED
    BY <1>6, <2>1, <2>2, <2>3 DEF FramerInv, Panics
<1> QED
  BY <1>1, <1>2, <1>3, <1>4, <1>5, <1>6, DecodeCases

\* Bytes that arrive move from the wire to the end of the buffer.
LEMMA SplitSeq ==
  ASSUME NEW S, NEW a \in Seq(S), NEW b \in Seq(S), NEW n \in 1..Len(b),
         NEW w, Joins(w, a, b)
  PROVE  /\ a \o SubSeq(b, 1, n) \in Seq(S) /\ SubSeq(b, n + 1, Len(b)) \in Seq(S)
         /\ Joins(w, a \o SubSeq(b, 1, n), SubSeq(b, n + 1, Len(b)))
<1> DEFINE x == SubSeq(b, 1, n)
           y == SubSeq(b, n + 1, Len(b))
<1>1. x \in Seq(S) /\ Len(x) = n /\ \A i \in 1..n : x[i] = b[i]
  OBVIOUS
<1>2. y \in Seq(S) /\ Len(y) = Len(b) - n /\ \A i \in 1..Len(y) : y[i] = b[n + i]
  OBVIOUS
<1> HIDE DEF x, y
<1>3. PICK v : Joins(v, x, y)
  BY DEF Joins
<1>4. /\ v \in Seq(S) /\ Len(v) = Len(x) + Len(y)
      /\ \A i \in 1..Len(x) : v[i] = x[i]
      /\ \A i \in 1..Len(y) : v[Len(x) + i] = y[i]
  <2>1. x \in Seq(S) /\ y \in Seq(S)
    BY <1>1, <1>2
  <2> QED
    BY <1>3, <2>1, JoinedSeqs
<1>5. v = b
  <2>1. Len(v) = Len(b)
    BY <1>1, <1>2, <1>4
  <2>2. ASSUME NEW i \in 1..Len(b) PROVE v[i] = b[i]
    <3>1. CASE i <= n
      BY <1>1, <1>4, <3>1
    <3>2. CASE i > n
      <4>1. PICK k \in 1..Len(y) : i = n + k
        <5>1. i - n \in 1..Len(y) /\ i = n + (i - n)
          BY <1>2, <3>2
        <5> QED
          BY <5>1
      <4> QED
        BY <1>1, <1>2, <1>4, <4>1
    <3> QED
      BY <3>1, <3>2
  <2> QED
    BY <1>4, <2>1, <2>2, EqualSeqs
<1>6. a \o x \in Seq(S)
  BY <1>1
<1>7. Associates(a, x, y)
  BY <1>1, <1>2, Associative
<1>8. w = (a \o x) \o y
  BY <1>3, <1>5, <1>7 DEF Joins, Associates
<1> QED
  BY <1>2, <1>6, <1>8 DEF Joins, x, y

LEMMA ReadInv ==
  ASSUME FramerInv, Read
  PROVE  FramerInv'
<1> FramerTypes
  BY DEF FramerInv
<1>1. PICK n \in 1..Len(wire) :
        /\ src' = src \o SubSeq(wire, 1, n)
        /\ wire' = SubSeq(wire, n + 1, Len(wire))
  BY DEF Read
<1>2. PICK p \in Seq(Messages) : Coming(p)
  BY DEF FramerInv
<1>3. src' \in Seq(Byte) /\ wire' \in Seq(Byte) /\ Joins(Stream(p), src', wire')
  BY <1>1, <1>2, SplitSeq DEF FramerTypes, Coming
<1>4. Meant' = Meant /\ Got' = Got /\ (IsFine' <=> IsFine)
  BY DEF Read, Meant, Got, IsFine
<1>5. Coming(p)'
  BY <1>2, <1>3, <1>4 DEF Coming
<1>6. FramerTypes'
  BY <1>3 DEF FramerTypes, Read
<1>7. ~eof
  BY DEF FramerInv, Read
<1> QED
  BY <1>5, <1>6, <1>7 DEF FramerInv, Read

LEMMA ReadEndInv ==
  ASSUME FramerInv, ReadEnd
  PROVE  FramerInv'
<1>1. PICK p \in Seq(Messages) : Coming(p)
  BY DEF FramerInv
<1>2. Meant' = Meant /\ Got' = Got /\ (IsFine' <=> IsFine)
  BY DEF ReadEnd, Meant, Got, IsFine
<1>3. Coming(p)'
  BY <1>1, <1>2 DEF Coming, ReadEnd
<1>4. FramerTypes'
  BY DEF FramerInv, FramerTypes, ReadEnd
<1> QED
  BY <1>3, <1>4 DEF FramerInv, ReadEnd

LEMMA CloseInv ==
  ASSUME FramerInv, Close
  PROVE  FramerInv'
<1>1. PICK p \in Seq(Messages) : Coming(p)
  BY DEF FramerInv
<1>2. Meant' = Meant /\ Got' = Got /\ (IsFine' <=> IsFine)
  BY DEF Close, Meant, Got, IsFine
<1>3. Coming(p)'
  BY <1>1, <1>2 DEF Coming, Close
<1>4. FramerTypes'
  BY DEF FramerInv, FramerTypes, Close
<1> QED
  BY <1>2, <1>3, <1>4 DEF FramerInv, Close

LEMMA FineAppend ==
  ASSUME NEW s \in Seq(Messages), NEW m \in Messages
  PROVE  FineRest(Append(s, m)) <=> FineRest(s) /\ IsKnown(m) /\ Fits(m)
<1> DEFINE t == Append(s, m)
<1>1. /\ DOMAIN t = 1..(Len(s) + 1) /\ DOMAIN s = 1..Len(s) /\ Len(s) \in Nat
      /\ t[Len(s) + 1] = m
      /\ \A i \in 1..Len(s) : t[i] = s[i]
  OBVIOUS
<1> HIDE DEF t
<1>2. ASSUME FineRest(t) PROVE FineRest(s) /\ IsKnown(m) /\ Fits(m)
  <2>1. IsKnown(t[Len(s) + 1]) /\ Fits(t[Len(s) + 1])
    BY <1>1, <1>2 DEF FineRest
  <2>2. ASSUME NEW i \in 1..Len(s) PROVE IsKnown(s[i]) /\ Fits(s[i])
    <3>1. IsKnown(t[i]) /\ Fits(t[i])
      BY <1>1, <1>2 DEF FineRest
    <3> QED
      BY <1>1, <3>1
  <2>3. FineRest(s)
    BY <1>1, <2>2 DEF FineRest
  <2> QED
    BY <1>1, <2>1, <2>3
<1>3. ASSUME FineRest(s), IsKnown(m), Fits(m) PROVE FineRest(t)
  <2>1. ASSUME NEW i \in 1..(Len(s) + 1) PROVE IsKnown(t[i]) /\ Fits(t[i])
    <3>1. CASE i = Len(s) + 1
      BY <1>1, <1>3, <3>1
    <3>2. CASE i \in 1..Len(s)
      BY <1>1, <1>3, <3>2 DEF FineRest
    <3> QED
      BY <1>1, <3>1, <3>2
  <2> QED
    BY <1>1, <2>1 DEF FineRest
<1> QED
  BY <1>2, <1>3 DEF t

LEMMA FineIsOfMessages ==
  ASSUME FramerTypes
  PROVE  IsFine <=> FineRest(messages)
<1>1. DOMAIN messages = 1..Len(messages)
  BY DEF FramerTypes
<1> QED
  BY <1>1 DEF IsFine, FineRest

\* The remote sends a message as its frame, or a keep-alive as nothing.
LEMMA WritesInv ==
  ASSUME FramerInv, NEW m \in Messages, NEW bytes, Writes(m, bytes),
         bytes = FrameOf(m) \/ (m = KeepAlive /\ bytes = <<>>)
  PROVE  FramerInv'
<1>1. /\ FramerTypes /\ ~closed /\ wire' = wire \o bytes /\ messages' = Append(messages, m)
      /\ UNCHANGED <<src, items, reader, eof, closed>>
  BY DEF FramerInv, Writes
<1>2. ~eof /\ reader # "Ended"
  BY <1>1 DEF FramerInv
<1>3. PICK p \in Seq(Messages) :
        /\ Joins(Stream(p), src, wire)
        /\ Joins(Meant, Got, Without(p, Ignored))
        /\ IsFine => FineRest(p)
  BY DEF FramerInv, Coming, FineRest
<1>4. bytes \in Seq(Byte)
  <2>1. FrameOf(m) \in Seq(Byte)
    BY FrameType
  <2>2. <<>> \in Seq(Byte)
    OBVIOUS
  <2> QED
    BY <2>1, <2>2
<1>5. wire \in Seq(Byte) /\ src \in Seq(Byte) /\ messages \in Seq(Messages)
  BY <1>1 DEF FramerTypes
<1>6. FramerTypes'
  <2>1. wire' \in Seq(Byte)
    BY <1>1, <1>4, <1>5
  <2>2. messages' \in Seq(Messages)
    BY <1>1, <1>5
  <2> QED
    BY <1>1, <2>1, <2>2 DEF FramerTypes
<1>7. Got' = Got
  BY <1>1 DEF Got
<1>8. IsFine' => IsFine /\ IsKnown(m) /\ Fits(m)
  <2>1. IsFine' <=> FineRest(messages')
    <3>1. DOMAIN messages' = 1..Len(messages')
      BY <1>6 DEF FramerTypes
    <3> QED
      BY <3>1 DEF IsFine, FineRest
  <2>2. FineRest(messages') <=> FineRest(messages) /\ IsKnown(m) /\ Fits(m)
    BY <1>1, <1>5, FineAppend
  <2> QED
    BY <1>1, <2>1, <2>2, FineIsOfMessages
<1>9. \E q \in Seq(Messages) :
        /\ Joins(Stream(q), src', wire')
        /\ Joins(Meant', Got', Without(q, Ignored))
        /\ IsFine' => FineRest(q)
  <2>1. CASE m = KeepAlive /\ bytes = <<>>
    <3>1. wire' = wire
      BY <1>1, <1>5, <2>1
    <3>2. Meant' = Meant
      <4>1. Meant' = Meant \o Kept(m, Ignored) /\ Meant \in Seq(Messages)
        BY <1>1, MeantAppend, MeantType
      <4>2. Kept(m, Ignored) = <<>>
        BY <2>1 DEF Kept, Ignored
      <4> QED
        BY <4>1, <4>2
    <3> QED
      BY <1>1, <1>3, <1>7, <1>8, <3>1, <3>2
  <2>2. CASE bytes = FrameOf(m)
    <3> DEFINE q == Append(p, m)
    <3>1. q \in Seq(Messages)
      OBVIOUS
    <3>2. Joins(Stream(q), src', wire')
      <4>1. Stream(q) = Stream(p) \o bytes
        BY <2>2, StreamAppend
      <4>2. Associates(src, wire, bytes)
        BY <1>4, <1>5, Associative
      <4> HIDE DEF q
      <4> QED
        BY <1>1, <1>3, <4>1, <4>2 DEF Joins, Associates
    <3>3. Joins(Meant', Got', Without(q, Ignored))
      <4>1. Without(q, Ignored) = Without(p, Ignored) \o Kept(m, Ignored)
        BY WithoutAppend
      <4>2. Meant' = Meant \o Kept(m, Ignored)
        BY <1>1, MeantAppend
      <4>3. Associates(Got, Without(p, Ignored), Kept(m, Ignored))
        <5>1. Got \in Seq({KeepAlive} \cup Carried)
          BY <1>1, MeantType
        <5>2. Got \in Seq(Messages)
          BY <5>1 DEF Messages
        <5>3. Without(p, Ignored) \in Seq(Messages)
          BY WithoutType
        <5>4. Kept(m, Ignored) \in Seq(Messages)
          BY DEF Kept
        <5> QED
          BY <5>2, <5>3, <5>4, Associative
      <4> HIDE DEF q
      <4> QED
        BY <1>3, <1>7, <4>1, <4>2, <4>3 DEF Joins, Associates
    <3>4. IsFine' => FineRest(q)
      BY <1>3, <1>8, FineAppend
    <3> HIDE DEF q
    <3> QED
      BY <3>1, <3>2, <3>3, <3>4
  <2> QED
    BY <2>1, <2>2
<1>10. PICK q \in Seq(Messages) : Coming(q)'
  BY <1>9 DEF Coming, FineRest
<1>11. reader' \in {"Failed", "Panicked"} => ~IsFine'
  BY <1>1, <1>8 DEF FramerInv
<1> QED
  BY <1>1, <1>2, <1>6, <1>10, <1>11 DEF FramerInv

LEMMA InitInv ==
  ASSUME Init
  PROVE  FramerInv
<1>1. <<>> \in Seq(Messages) /\ Stream(<<>>) = <<>> /\ Without(<<>>, Ignored) = <<>>
  BY StreamEmpty, WithoutEmpty
<1>2. Meant = <<>> /\ Got = <<>>
  BY WithoutEmpty DEF Init, Meant, Got
<1>3. Joins(Stream(<<>>), src, wire)
  BY <1>1 DEF Init, Joins
<1>4. Joins(Meant, Got, Without(<<>>, Ignored))
  BY <1>1, <1>2 DEF Joins
<1>5. Coming(<<>>)
  BY <1>3, <1>4 DEF Coming
<1>6. FramerTypes
  <2>1. wire \in Seq(Byte) /\ src \in Seq(Byte)
    BY DEF Init
  <2>2. items \in Seq({KeepAlive} \cup Carried)
    BY DEF Init
  <2>3. messages \in Seq(Messages)
    BY DEF Init
  <2> QED
    BY <2>1, <2>2, <2>3 DEF Init, FramerTypes
<1> QED
  BY <1>1, <1>5, <1>6 DEF FramerInv, Init

LEMMA NextInv ==
  ASSUME FramerInv, [Next]_vars
  PROVE  FramerInv'
<1>1. CASE Decode
  BY <1>1, DecodeInv
<1>2. CASE Read
  BY <1>2, ReadInv
<1>3. CASE ReadEnd
  BY <1>3, ReadEndInv
<1>4. CASE Encode
  <2>1. PICK m \in {KeepAlive} \cup Carried : Writes(m, Encoded(m))
    BY <1>4 DEF Encode
  <2>2. m \in Messages
    BY DEF Messages
  <2>3. Encoded(m) = FrameOf(m) \/ (m = KeepAlive /\ Encoded(m) = <<>>)
    BY DEF Encoded
  <2> QED
    BY <2>1, <2>2, <2>3, WritesInv
<1>5. CASE ForeignMessage
  <2>1. PICK m \in {KeepAlive} \cup Foreign : Writes(m, FrameOf(m))
    BY <1>5 DEF ForeignMessage
  <2>2. m \in Messages
    BY DEF Messages
  <2> QED
    BY <2>1, <2>2, WritesInv
<1>6. CASE Close
  BY <1>6, CloseInv
<1>7. CASE UNCHANGED vars
  <2>1. Meant' = Meant /\ Got' = Got /\ (IsFine' <=> IsFine)
    BY <1>7 DEF vars, Meant, Got, IsFine
  <2>2. PICK p \in Seq(Messages) : Coming(p)
    BY DEF FramerInv
  <2>3. Coming(p)'
    BY <1>7, <2>1, <2>2 DEF Coming, vars
  <2> QED
    BY <1>7, <2>1, <2>3 DEF FramerInv, FramerTypes, vars
<1> QED
  BY <1>1, <1>2, <1>3, <1>4, <1>5, <1>6, <1>7 DEF Next

-----------------------------------------------------------------------------
(* Theorems *)

\* In every reachable state the buffer and the wire hold the frames of the
\* messages that are to come, cut anywhere (decode and the Framed around it).
THEOREM FramerInvariant == Spec => []FramerInv
<1>1. Init => FramerInv
  BY InitInv
<1>2. FramerInv /\ [Next]_vars => FramerInv'
  BY NextInv
<1> QED
  BY <1>1, <1>2, PTL DEF Spec

LEMMA PrefixSeq ==
  ASSUME NEW S, NEW a \in Seq(S), NEW b \in Seq(S), NEW w, Joins(w, a, b)
  PROVE  IsPrefix(a, w)
<1>1. /\ w \in Seq(S) /\ Len(w) = Len(a) + Len(b)
      /\ \A i \in 1..Len(a) : w[i] = a[i]
  BY JoinedSeqs
<1>2. Len(a) \in Nat /\ Len(b) \in Nat
  OBVIOUS
<1>3. Len(a) <= Len(w)
  BY <1>1, <1>2
<1>4. SubSeq(w, 1, Len(a)) = a
  <2> DEFINE t == SubSeq(w, 1, Len(a))
  <2>1. t \in Seq(S) /\ Len(t) = Len(a) /\ \A i \in 1..Len(a) : t[i] = w[i]
    BY <1>1, <1>2, <1>3
  <2> HIDE DEF t
  <2>2. t = a
    BY <1>1, <2>1, EqualSeqs
  <2> QED
    BY <2>2 DEF t
<1> QED
  BY <1>3, <1>4 DEF IsPrefix

LEMMA OrderFromInv ==
  ASSUME FramerInv
  PROVE  DecodesInOrder
<1>1. PICK p \in Seq(Messages) : Coming(p)
  BY DEF FramerInv
<1>2. FramerTypes
  BY DEF FramerInv
<1>3. Got \in Seq(Messages)
  <2>1. Got \in Seq({KeepAlive} \cup Carried)
    BY <1>2, MeantType
  <2> QED
    BY <2>1 DEF Messages
<1>4. Without(p, Ignored) \in Seq(Messages)
  BY WithoutType
<1>5. Joins(Meant, Got, Without(p, Ignored))
  BY <1>1 DEF Coming
<1> QED
  BY <1>3, <1>4, <1>5, PrefixSeq DEF DecodesInOrder

\* For every alphabet, every length that fits into four bytes and every cut
\* into reads: messages come out complete, unchanged and in order.
THEOREM DecodesAlwaysInOrder == Spec => []DecodesInOrder
<1>1. FramerInv => DecodesInOrder
  BY OrderFromInv
<1> QED
  BY <1>1, FramerInvariant, PTL

LEMMA CompleteFromInv ==
  ASSUME FramerInv
  PROVE  EndedIsComplete
<1> SUFFICES ASSUME reader = "Ended" PROVE Got = Meant
  BY DEF EndedIsComplete
<1>1. src = <<>> /\ wire = <<>> /\ FramerTypes
  BY DEF FramerInv
<1>2. PICK p \in Seq(Messages) : Coming(p)
  BY DEF FramerInv
<1>3. p = <<>>
  <2> SUFFICES ASSUME p # <<>> PROVE FALSE
    OBVIOUS
  <2> DEFINE f == FrameOf(p[1])
  <2>1. /\ p[1] \in Messages /\ Len(f) <= Len(src) + Len(wire)
    BY <1>1, <1>2, FirstFrame DEF Coming
  <2>2. FrameLength(p[1]) \in Nat /\ Len(f) = 4 + FrameLength(p[1])
    BY <2>1, FrameType
  <2>3. Len(src) = 0 /\ Len(wire) = 0
    BY <1>1
  <2> HIDE DEF f
  <2> QED
    BY <2>1, <2>2, <2>3
<1>4. Joins(Meant, Got, <<>>)
  BY <1>2, <1>3, WithoutEmpty DEF Coming
<1>5. PICK g \in Seq({KeepAlive} \cup Carried) : g = Got
  BY <1>1, MeantType
<1>6. g \o <<>> = g
  OBVIOUS
<1> QED
  BY <1>4, <1>5, <1>6 DEF Joins

\* A stream that ends without an error has given all its messages.
THEOREM EndedAlwaysComplete == Spec => []EndedIsComplete
<1>1. FramerInv => EndedIsComplete
  BY CompleteFromInv
<1> QED
  BY <1>1, FramerInvariant, PTL

\* A stream of messages that are known, readable and not too large is never an
\* error and no panic: the safety half of FineIsDecoded.
FineNeverFails == IsFine => reader \notin {"Failed", "Panicked"}

THEOREM FineIsNeverAnError == Spec => []FineNeverFails
<1>1. FramerInv => FineNeverFails
  BY DEF FramerInv, FineNeverFails
<1> QED
  BY <1>1, FramerInvariant, PTL

-----------------------------------------------------------------------------
(* The channel *)

LEMMA ChannelInitially ==
  ASSUME Init
  PROVE  Channel!ChannelInit
  BY WithoutEmpty DEF Init, Meant, Got, Channel!ChannelInit

\* The call that finds the end reports it when all was got.
LEMMA EndsComplete ==
  ASSUME FramerInv', reader' = "Ended"
  PROVE  Got' = Meant'
<1>1. (FramerInv => EndedIsComplete)'
  BY CompleteFromInv, PTL
<1> QED
  BY <1>1 DEF EndedIsComplete

LEMMA DecodeIsReceiveOrEnd ==
  ASSUME FramerInv, FramerInv', Decode
  PROVE  Channel!Receive \/ Channel!End \/ UNCHANGED Channel!channelVars
<1> FramerTypes /\ reader = "Decoding" /\ messages' = messages
  BY DEF FramerInv, Decode
<1>1. Meant' = Meant
  BY DEF Meant
<1>2. PICK p \in Seq(Messages) :
        /\ Joins(Stream(p), src, wire)
        /\ Joins(Meant, Got, Without(p, Ignored))
        /\ IsFine => FineRest(p)
  BY DEF FramerInv, Coming, FineRest
<1>3. CASE items' = items
  <2>1. Got' = Got
    BY <1>3 DEF Got
  <2>2. CASE reader' = "Ended"
    <3>1. Got' = Meant'
      BY <2>2, EndsComplete
    <3>2. (reader = "Ended") = FALSE /\ (reader = "Ended")' = TRUE
      BY <2>2
    <3> QED
      BY <1>1, <2>1, <3>1, <3>2 DEF Channel!End
  <2>3. CASE reader' # "Ended"
    <3>1. (reader = "Ended")' = (reader = "Ended")
      BY <2>3
    <3> QED
      BY <1>1, <2>1, <3>1 DEF Channel!channelVars
  <2> QED
    BY <2>2, <2>3
<1>4. CASE TakesMessage(p)
  <2>1. /\ p # <<>> /\ items' = Append(items, p[1]) /\ reader' = reader
        /\ p[1] = KeepAlive \/ p[1] \in Carried
    BY <1>4 DEF TakesMessage, Yields
  <2>2. (reader = "Ended")' = (reader = "Ended") /\ (reader = "Ended") = FALSE
    BY <2>1
  <2>3. CASE p[1] \in Carried
    <3>1. /\ Got' = Append(Got, p[1])
          /\ Len(Got) < Len(Meant) /\ p[1] = Meant[Len(Got) + 1]
      BY <1>2, <2>1, <2>3, TakesFirst
    <3> QED
      BY <1>1, <2>2, <3>1 DEF Channel!Receive
  <2>4. CASE p[1] = KeepAlive
    <3>1. Got' = Got \o Kept(p[1], {KeepAlive})
      BY <2>1, <2>4, GotAppend
    <3>2. Kept(p[1], {KeepAlive}) = <<>>
      BY <2>4 DEF Kept
    <3>3. PICK g \in Seq({KeepAlive} \cup Carried) : g = Got
      BY MeantType
    <3>4. g \o <<>> = g
      OBVIOUS
    <3>5. Got' = Got
      BY <3>1, <3>2, <3>3, <3>4
    <3> QED
      BY <1>1, <2>2, <3>5 DEF Channel!channelVars
  <2> QED
    BY <2>1, <2>3, <2>4
<1>5. items' = items \/ TakesMessage(p)
  BY <1>2, DecodeCases DEF NoMessage, SkipsMessage, TooLarge, Panics
<1> QED
  BY <1>3, <1>4, <1>5

LEMMA WritesIsSend ==
  ASSUME FramerInv, NEW m \in Messages, NEW bytes, Writes(m, bytes)
  PROVE  (\E x \in Carried : Channel!Send(x)) \/ UNCHANGED Channel!channelVars
<1>1. /\ FramerTypes /\ messages' = Append(messages, m) /\ Got' = Got
      /\ (reader = "Ended")' = (reader = "Ended")
      /\ (reader = "Ended") = FALSE
  <2>1. /\ FramerTypes /\ messages' = Append(messages, m) /\ items' = items
        /\ reader' = reader /\ ~closed
    BY DEF FramerInv, Writes
  <2>2. reader # "Ended"
    BY <2>1 DEF FramerInv
  <2> QED
    BY <2>1, <2>2 DEF Got
<1>2. Meant' = Meant \o Kept(m, Ignored) /\ Meant \in Seq(Messages)
  BY <1>1, MeantAppend, MeantType
<1>3. CASE m \in Carried
  <2>1. Kept(m, Ignored) = <<m>>
    BY <1>3, CarriedOrIgnored DEF Kept
  <2>2. Meant' = Append(Meant, m)
    BY <1>2, <2>1
  <2> QED
    BY <1>1, <1>3, <2>2 DEF Channel!Send
<1>4. CASE m \notin Carried
  <2>1. Kept(m, Ignored) = <<>>
    BY <1>4, CarriedOrIgnored DEF Kept
  <2>2. Meant' = Meant
    BY <1>2, <2>1
  <2> QED
    BY <1>1, <2>2 DEF Channel!channelVars
<1> QED
  BY <1>3, <1>4

LEMMA ChannelSteps ==
  ASSUME FramerInv, FramerInv', [Next]_vars
  PROVE  [Channel!ChannelNext]_(Channel!channelVars)
<1>1. CASE Decode
  BY <1>1, DecodeIsReceiveOrEnd DEF Channel!ChannelNext
<1>2. CASE Encode
  <2>1. PICK m \in {KeepAlive} \cup Carried : Writes(m, Encoded(m))
    BY <1>2 DEF Encode
  <2> QED
    BY <2>1, WritesIsSend DEF Messages, Channel!ChannelNext
<1>3. CASE ForeignMessage
  <2>1. PICK m \in {KeepAlive} \cup Foreign : Writes(m, FrameOf(m))
    BY <1>3 DEF ForeignMessage
  <2> QED
    BY <2>1, WritesIsSend DEF Messages, Channel!ChannelNext
<1>4. CASE Read \/ ReadEnd \/ Close \/ UNCHANGED vars
  <2>1. messages' = messages /\ items' = items
    BY <1>4 DEF Read, ReadEnd, Close, vars
  <2>2. (reader = "Ended")' = (reader = "Ended")
    BY <1>4 DEF Read, ReadEnd, Close, vars
  <2>3. Meant' = Meant /\ Got' = Got
    BY <2>1 DEF Meant, Got
  <2> QED
    BY <2>2, <2>3 DEF Channel!channelVars
<1> QED
  BY <1>1, <1>2, <1>3, <1>4 DEF Next

\* The codec and the reader around it implement the channel in order, whatever
\* the lengths, the alphabet and the cuts: nothing is skipped, doubled or
\* changed, and the end comes behind the last message.
THEOREM FramerImplementsChannel == Spec => ImplementsChannel
<1>1. Init => Channel!ChannelInit
  BY ChannelInitially
<1>2. FramerInv /\ FramerInv' /\ [Next]_vars => [Channel!ChannelNext]_(Channel!channelVars)
  BY ChannelSteps
<1> QED
  BY <1>1, <1>2, FramerInvariant, PTL DEF Spec, ImplementsChannel, Channel!ChannelSpec
=============================================================================
