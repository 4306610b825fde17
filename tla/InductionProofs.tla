--------------------------- MODULE InductionProofs ---------------------------
(***************************************************************************)
(* Induction over numbers, in the form of the least number principle for    *)
(* sets, and what follows from it about subsequences.                       *)
(***************************************************************************)
EXTENDS Subsequence, SequenceTheorems, NaturalsInduction, WellFoundedInduction, TLAPS

(* A set of naturals that is not empty has a least member.                  *)
LEMMA LeastMember ==
    ASSUME NEW S, S \subseteq Nat, S # {}
    PROVE  \E m \in S : \A k \in S : m <= k
<1> DEFINE less == {p \in Nat \X Nat : p[1] < p[2]}
<1>1. IsWellFoundedOn(less, Nat)
  BY NatLessThanWellFounded, Zenon DEF OpToRel
<1>2. PICK m \in S : \A k \in S : ~(<<k, m>> \in less)
  <2> HIDE DEF less
  <2> QED BY <1>1, WFMin
<1>3. ASSUME NEW k \in S
      PROVE  m <= k
  <2>1. m \in Nat /\ k \in Nat
    OBVIOUS
  <2>2. ~(k < m)
    BY <1>2, <2>1
  <2> QED BY <2>1, <2>2
<1> QED BY <1>3

(* What holds for 0, and for a number when it holds for the one before,     *)
(* holds up to a bound.                                                     *)
LEMMA UpTo ==
    ASSUME NEW l \in Nat, NEW S, 0 \in S, \A n \in 1 .. l : n - 1 \in S => n \in S
    PROVE  \A n \in 0 .. l : n \in S
<1> DEFINE failing == {n \in 0 .. l : n \notin S}
<1>1. SUFFICES ASSUME failing # {}
               PROVE  FALSE
  OBVIOUS
<1>2. failing \subseteq Nat
  OBVIOUS
<1>3. PICK n \in failing : \A k \in failing : n <= k
  <2> HIDE DEF failing
  <2> QED BY <1>1, <1>2, LeastMember
<1>4. n # 0
  BY <1>3
<1>5. n \in 1 .. l /\ n - 1 \in 0 .. l /\ ~(n <= n - 1)
  BY <1>3, <1>4
<1>6. n - 1 \notin failing
  <2> HIDE DEF failing
  <2> QED BY <1>3, <1>5
<1> QED BY <1>3, <1>5, <1>6

-----------------------------------------------------------------------------
(* Pick.                                                                    *)

\* f is the function by which Pick is defined, up to the position n.
Picks(f, s, at, n) ==
    /\ f[0] = <<>>
    /\ \A m \in 1 .. n : f[m] = IF m \in at THEN Append(f[m - 1], s[m]) ELSE f[m - 1]

(* There is such a function.                                                *)
LEMMA PicksExists ==
    ASSUME NEW S, NEW s \in Seq(S), NEW at
    PROVE  \E f \in [0 .. Len(s) -> Seq(S)] : Picks(f, s, at, Len(s))
<1> DEFINE Defined(n) == \E f \in [0 .. n -> Seq(S)] : Picks(f, s, at, n)
           failing == {n \in 0 .. Len(s) : ~Defined(n)}
<1>1. Len(s) \in Nat
  OBVIOUS
<1>2. Defined(0)
  <2> DEFINE f == [m \in 0 .. 0 |-> <<>>]
  <2>1. f \in [0 .. 0 -> Seq(S)] /\ Picks(f, s, at, 0)
    BY DEF Picks
  <2> HIDE DEF f
  <2> QED BY <2>1
<1>3. ASSUME NEW n \in 1 .. Len(s), Defined(n - 1)
      PROVE  Defined(n)
  <2>1. PICK f \in [0 .. n - 1 -> Seq(S)] : Picks(f, s, at, n - 1)
    BY <1>3
  <2> DEFINE next == IF n \in at THEN Append(f[n - 1], s[n]) ELSE f[n - 1]
             g == [m \in 0 .. n |-> IF m = n THEN next ELSE f[m]]
  <2>2. next \in Seq(S)
    BY <1>1
  <2>3. g \in [0 .. n -> Seq(S)]
    BY <1>1, <2>2
  <2>4. Picks(g, s, at, n)
    <3>1. g[0] = <<>>
      BY <1>1, <2>1 DEF Picks
    <3>2. ASSUME NEW m \in 1 .. n
          PROVE  g[m] = IF m \in at THEN Append(g[m - 1], s[m]) ELSE g[m - 1]
      <4>1. m - 1 \in 0 .. n - 1 /\ g[m - 1] = f[m - 1]
        BY <1>1
      <4>2. CASE m = n
        BY <1>1, <4>1, <4>2
      <4>3. CASE m # n
        <5>1. m \in 1 .. n - 1 /\ g[m] = f[m]
          BY <1>1, <4>3
        <5> HIDE DEF g
        <5> QED BY <2>1, <4>1, <5>1 DEF Picks
      <4> QED BY <4>2, <4>3
    <3> HIDE DEF g
    <3> QED BY <3>1, <3>2 DEF Picks
  <2> HIDE DEF g
  <2> QED BY <2>3, <2>4
<1>4. failing = {}
  <2>1. SUFFICES ASSUME failing # {}
                 PROVE  FALSE
    OBVIOUS
  <2>2. failing \subseteq Nat
    BY <1>1
  <2>3. PICK n \in failing : \A k \in failing : n <= k
    <3> HIDE DEF failing
    <3> QED BY <2>1, <2>2, LeastMember
  <2>4. n # 0
    BY <1>2, <2>3
  <2>5. n \in 1 .. Len(s) /\ n - 1 \in 0 .. Len(s) /\ n - 1 < n
    BY <1>1, <2>3, <2>4
  <2>6. n - 1 \notin failing
    <3> HIDE DEF failing
    <3> QED BY <2>3, <2>5
  <2>7. Defined(n - 1)
    <3> HIDE DEF Defined
    <3> QED BY <2>5, <2>6
  <2>8. Defined(n)
    <3> HIDE DEF Defined
    <3> QED BY <1>3, <2>5, <2>7
  <2> QED BY <2>3, <2>8
<1>5. Len(s) \in 0 .. Len(s)
  BY <1>1
<1>6. Defined(Len(s))
  <2> HIDE DEF Defined
  <2> QED BY <1>4, <1>5
<1> QED BY <1>6

(* Two such functions agree as far as the sequences and the positions do.   *)
LEMMA PicksUnique ==
    ASSUME NEW n \in Nat, NEW f, NEW s, NEW at, Picks(f, s, at, n),
           NEW g, NEW t, NEW bt, Picks(g, t, bt, n),
           \A m \in 1 .. n : s[m] = t[m] /\ (m \in at <=> m \in bt)
    PROVE  f[n] = g[n]
<1> DEFINE failing == {m \in 0 .. n : f[m] # g[m]}
<1>1. SUFFICES ASSUME failing # {}
               PROVE  FALSE
  OBVIOUS
<1>2. failing \subseteq Nat
  OBVIOUS
<1>3. PICK m \in failing : \A k \in failing : m <= k
  <2> HIDE DEF failing
  <2> QED BY <1>1, <1>2, LeastMember
<1>4. m # 0
  BY <1>3 DEF Picks
<1>5. m \in 1 .. n /\ m - 1 \in 0 .. n /\ m - 1 < m
  BY <1>3, <1>4
<1>6. m - 1 \notin failing
  <2> HIDE DEF failing
  <2> QED BY <1>3, <1>5
<1>7. f[m - 1] = g[m - 1]
  BY <1>5, <1>6
<1>8. f[m] = g[m]
  BY <1>5, <1>7 DEF Picks
<1> QED BY <1>3, <1>8

(* Pick is the last value of such a function.                               *)
LEMMA PickDefined ==
    ASSUME NEW S, NEW s \in Seq(S), NEW at
    PROVE  \E f \in [0 .. Len(s) -> Seq(S)] :
              Picks(f, s, at, Len(s)) /\ Pick(s, at) = f[Len(s)]
<1> DEFINE step(f) == [n \in 0 .. Len(s) |->
                          IF n = 0 THEN <<>>
                          ELSE IF n \in at THEN Append(f[n - 1], s[n]) ELSE f[n - 1]]
           picked == CHOOSE f : f = step(f)
<1>1. PICK f \in [0 .. Len(s) -> Seq(S)] : Picks(f, s, at, Len(s))
  BY PicksExists
<1>2. f = step(f)
  <2>1. ASSUME NEW n \in 0 .. Len(s)
        PROVE  f[n] = IF n = 0 THEN <<>>
                      ELSE IF n \in at THEN Append(f[n - 1], s[n]) ELSE f[n - 1]
    <3>1. CASE n = 0
      BY <1>1, <3>1 DEF Picks
    <3>2. CASE n # 0
      <4>1. n \in 1 .. Len(s)
        BY <3>2
      <4> QED BY <1>1, <3>2, <4>1 DEF Picks
    <3> QED BY <3>1, <3>2
  <2> QED BY <2>1
<1>3. picked = step(picked)
  <2> HIDE DEF step
  <2> QED BY <1>2
<1>4. Pick(s, at) = picked[Len(s)]
  BY Zenon DEF Pick
<1>5. Picks(picked, s, at, Len(s))
  <2>1. \A n \in 0 .. Len(s) :
           picked[n] = IF n = 0 THEN <<>>
                       ELSE IF n \in at THEN Append(picked[n - 1], s[n]) ELSE picked[n - 1]
    <3> HIDE DEF picked
    <3> QED BY <1>3
  <2> HIDE DEF picked
  <2> QED BY <2>1 DEF Picks
<1>6. picked[Len(s)] = f[Len(s)]
  <2> HIDE DEF picked
  <2> QED BY <1>1, <1>5, PicksUnique
<1> QED BY <1>1, <1>4, <1>6

(* A subsequence is a sequence of the same elements.                        *)
LEMMA PickType ==
    ASSUME NEW S, NEW s \in Seq(S), NEW at
    PROVE  Pick(s, at) \in Seq(S)
BY PickDefined

(* What Pick makes of a sequence one longer.                                *)
LEMMA PickAppend ==
    ASSUME NEW S, NEW s \in Seq(S), NEW x \in S, NEW at, NEW bt,
           \A m \in 1 .. Len(s) : m \in at <=> m \in bt
    PROVE  Pick(Append(s, x), bt) =
              IF Len(s) + 1 \in bt THEN Append(Pick(s, at), x) ELSE Pick(s, at)
<1> DEFINE t == Append(s, x)
<1>1. t \in Seq(S) /\ Len(t) = Len(s) + 1 /\ t[Len(s) + 1] = x /\ Len(s) \in Nat
      /\ \A m \in 1 .. Len(s) : t[m] = s[m]
  OBVIOUS
<1> HIDE DEF t
<1>2. PICK f \in [0 .. Len(s) -> Seq(S)] :
         Picks(f, s, at, Len(s)) /\ Pick(s, at) = f[Len(s)]
  BY PickDefined
<1>3. PICK g \in [0 .. Len(t) -> Seq(S)] :
         Picks(g, t, bt, Len(t)) /\ Pick(t, bt) = g[Len(t)]
  BY <1>1, PickDefined
<1>4. Picks(g, t, bt, Len(s))
  BY <1>1, <1>3 DEF Picks
<1>5. f[Len(s)] = g[Len(s)]
  BY <1>1, <1>2, <1>4, PicksUnique
<1>6. g[Len(t)] = IF Len(s) + 1 \in bt THEN Append(g[Len(s)], x) ELSE g[Len(s)]
  BY <1>1, <1>3 DEF Picks
<1> QED BY <1>2, <1>3, <1>5, <1>6 DEF t

(* Nothing is picked from the empty sequence.                               *)
LEMMA PickEmpty ==
    ASSUME NEW at
    PROVE  Pick(<<>>, at) = <<>>
<1>1. <<>> \in Seq({}) /\ Len(<<>>) = 0
  OBVIOUS
<1>2. PICK f \in [0 .. Len(<<>>) -> Seq({})] :
         Picks(f, <<>>, at, Len(<<>>)) /\ Pick(<<>>, at) = f[Len(<<>>)]
  BY <1>1, PickDefined
<1> QED BY <1>1, <1>2 DEF Picks

(* All of a sequence is the sequence.                                       *)
LEMMA PickAll ==
    ASSUME NEW S, NEW s \in Seq(S), NEW at, 1 .. Len(s) \subseteq at
    PROVE  Pick(s, at) = s
<1> DEFINE g == [n \in 0 .. Len(s) |-> [i \in 1 .. n |-> s[i]]]
<1>1. Len(s) \in Nat /\ s \in [1 .. Len(s) -> S]
  OBVIOUS
<1>2. PICK f \in [0 .. Len(s) -> Seq(S)] :
         Picks(f, s, at, Len(s)) /\ Pick(s, at) = f[Len(s)]
  BY PickDefined
<1>3. Picks(g, s, at, Len(s))
  <2>1. g[0] = <<>>
    BY <1>1
  <2>2. ASSUME NEW m \in 1 .. Len(s)
        PROVE  g[m] = IF m \in at THEN Append(g[m - 1], s[m]) ELSE g[m - 1]
    <3> DEFINE before == [i \in 1 .. m - 1 |-> s[i]]
    <3>1. m \in at /\ m - 1 \in 0 .. Len(s) /\ m \in 0 .. Len(s)
      BY <1>1
    <3>2. g[m - 1] = before /\ g[m] = [i \in 1 .. m |-> s[i]]
      BY <3>1
    <3>3. before \in Seq(S) /\ Len(before) = m - 1
      BY <1>1
    <3>4. s[m] \in S
      BY <1>1
    <3>5. [i \in 1 .. m |-> s[i]] = Append(before, s[m])
      BY <1>1, <3>3, <3>4
    <3> HIDE DEF g
    <3> QED BY <3>1, <3>2, <3>5
  <2> HIDE DEF g
  <2> QED BY <2>1, <2>2 DEF Picks
<1>4. f[Len(s)] = g[Len(s)]
  <2> HIDE DEF g
  <2> QED BY <1>1, <1>2, <1>3, PicksUnique
<1>5. g[Len(s)] = s
  BY <1>1
<1> QED BY <1>2, <1>4, <1>5

\* at holds those of the n positions after k that are in ct, counted from k.
Positions(n, k, ct, at) == \A m \in 1 .. n : k + m \in ct <=> m \in at

(* What is picked from two sequences is picked from the one and the other.  *)
LEMMA PickConcat ==
    ASSUME NEW S, NEW s \in Seq(S), NEW t \in Seq(S), NEW at, NEW bt, NEW ct,
           Positions(Len(s), 0, ct, at), Positions(Len(t), Len(s), ct, bt)
    PROVE  Pick(s \o t, ct) = Pick(s, at) \o Pick(t, bt)
<1> DEFINE u == s \o t
<1>1. /\ u \in Seq(S) /\ Len(s) \in Nat /\ Len(t) \in Nat /\ Len(u) = Len(s) + Len(t)
      /\ \A m \in 1 .. Len(s) : u[m] = s[m]
      /\ \A m \in 1 .. Len(t) : u[Len(s) + m] = t[m] /\ t[m] \in S
  OBVIOUS
<1> HIDE DEF u
<1>2. PICK f \in [0 .. Len(s) -> Seq(S)] :
         Picks(f, s, at, Len(s)) /\ Pick(s, at) = f[Len(s)]
  BY PickDefined
<1>3. PICK g \in [0 .. Len(t) -> Seq(S)] :
         Picks(g, t, bt, Len(t)) /\ Pick(t, bt) = g[Len(t)]
  BY PickDefined
<1>4. PICK h \in [0 .. Len(u) -> Seq(S)] :
         Picks(h, u, ct, Len(u)) /\ Pick(u, ct) = h[Len(u)]
  <2>1. u \in Seq(S)
    BY <1>1
  <2> QED BY ONLY <2>1, PickDefined
<1> DEFINE n == Len(s)
           first == f[n]
           failing == {m \in 0 .. Len(t) : h[n + m] # first \o g[m]}
<1>5. first \in Seq(S) /\ n \in Nat
  <2>1. n \in Nat
    BY <1>1
  <2>2. n \in 0 .. n
    BY ONLY <2>1
  <2> QED BY <2>1, <2>2
<1>6. h[n] = first
  <2>1. Picks(h, u, ct, n)
    BY <1>1, <1>4 DEF Picks
  <2>2. n \in Nat /\ \A m \in 1 .. n : s[m] = u[m] /\ (m \in at <=> m \in ct)
    BY <1>1 DEF Positions
  <2>3. Picks(f, s, at, n)
    BY <1>2
  <2> HIDE DEF n
  <2>4. f[n] = h[n]
    BY ONLY <2>1, <2>2, <2>3, PicksUnique
  <2> QED BY <2>4
<1> HIDE DEF first
<1>7. h[n + 0] = first \o g[0]
  <2>1. g[0] = <<>> /\ n + 0 = n
    BY <1>3, <1>5 DEF Picks
  <2>2. first \o <<>> = first
    BY <1>5
  <2> QED BY <1>6, <2>1, <2>2
<1>8. ASSUME NEW m \in 1 .. Len(t), h[n + (m - 1)] = first \o g[m - 1]
      PROVE  h[n + m] = first \o g[m]
  <2>1. /\ m - 1 \in 0 .. Len(t) /\ n + m \in 1 .. Len(u) /\ (n + m) - 1 = n + (m - 1)
        /\ u[n + m] = t[m] /\ t[m] \in S /\ (n + m \in ct <=> m \in bt)
    BY <1>1 DEF Positions
  <2>2. g[m - 1] \in Seq(S)
    BY <2>1
  <2>3. h[n + m] = IF n + m \in ct THEN Append(h[n + (m - 1)], t[m]) ELSE h[n + (m - 1)]
    BY <1>4, <2>1 DEF Picks
  <2>4. g[m] = IF m \in bt THEN Append(g[m - 1], t[m]) ELSE g[m - 1]
    BY <1>3 DEF Picks
  <2> DEFINE x == t[m]
             v == g[m - 1]
  <2>5. first \o Append(v, x) = Append(first \o v, x)
    <3>1. x \in S /\ v \in Seq(S)
      BY <2>1, <2>2
    <3> HIDE DEF x, v
    <3> QED BY ONLY <1>5, <3>1
  <2> QED BY <1>8, <2>1, <2>3, <2>4, <2>5
<1>9. failing = {}
  <2>1. SUFFICES ASSUME failing # {}
                 PROVE  FALSE
    OBVIOUS
  <2>2. failing \subseteq Nat
    BY <1>1
  <2>3. PICK m \in failing : \A k \in failing : m <= k
    <3> HIDE DEF failing
    <3> QED BY <2>1, <2>2, LeastMember
  <2>4. m # 0
    BY <1>7, <2>3
  <2>5. m \in 1 .. Len(t) /\ m - 1 \in 0 .. Len(t) /\ m - 1 < m
    BY <1>1, <2>3, <2>4
  <2>6. m - 1 \notin failing
    <3> HIDE DEF failing
    <3> QED BY <2>3, <2>5
  <2>7. h[n + (m - 1)] = first \o g[m - 1]
    BY <2>5, <2>6
  <2>8. h[n + m] = first \o g[m]
    BY <1>8, <2>5, <2>7
  <2> QED BY <2>3, <2>8
<1>10. h[n + Len(t)] = first \o g[Len(t)]
  <2>1. Len(t) \in 0 .. Len(t)
    BY <1>1
  <2> QED BY <1>9, <2>1
<1> QED BY <1>1, <1>2, <1>3, <1>4, <1>10 DEF u, first

(* No position, no element.                                                 *)
LEMMA PickNone ==
    ASSUME NEW S, NEW s \in Seq(S), NEW at, \A m \in 1 .. Len(s) : m \notin at
    PROVE  Pick(s, at) = <<>>
<1> DEFINE g == [n \in 0 .. Len(s) |-> <<>>]
<1>1. Len(s) \in Nat
  OBVIOUS
<1>2. PICK f \in [0 .. Len(s) -> Seq(S)] :
         Picks(f, s, at, Len(s)) /\ Pick(s, at) = f[Len(s)]
  BY PickDefined
<1>3. Picks(g, s, at, Len(s))
  BY <1>1 DEF Picks
<1>4. g[Len(s)] = <<>>
  BY <1>1
<1> HIDE DEF g
<1> QED BY <1>1, <1>2, <1>3, <1>4, PicksUnique

\* Of the first n positions, at holds the m that follow a.
InRow(at, n, a, m) == \A i \in 1 .. n : i \in at <=> i \in a + 1 .. a + m

(* What is picked from a range of positions.                                *)
LEMMA PickRange ==
    ASSUME NEW S, NEW s \in Seq(S), NEW a \in Nat, NEW m \in Nat, a + m <= Len(s),
           NEW at, InRow(at, Len(s), a, m)
    PROVE  Pick(s, at) = [i \in 1 .. m |-> s[a + i]]
<1> DEFINE size(n) == IF n <= a THEN 0 ELSE IF n <= a + m THEN n - a ELSE m
           row(n) == [i \in 1 .. n |-> s[a + i]]
           g == [n \in 0 .. Len(s) |-> row(size(n))]
<1>1. Len(s) \in Nat /\ \A i \in 1 .. m : s[a + i] \in S
  OBVIOUS
<1>2. PICK f \in [0 .. Len(s) -> Seq(S)] :
         Picks(f, s, at, Len(s)) /\ Pick(s, at) = f[Len(s)]
  BY PickDefined
<1>3. row(0) = <<>>
  OBVIOUS
<1>4. ASSUME NEW n \in 1 .. m
      PROVE  row(n) = Append(row(n - 1), s[a + n])
  <2>1. row(n - 1) \in Seq(S) /\ Len(row(n - 1)) = n - 1 /\ s[a + n] \in S
    BY <1>1
  <2> QED BY <2>1
<1> HIDE DEF row
<1>5. \A n \in 0 .. Len(s) : g[n] = row(size(n))
  OBVIOUS
<1> HIDE DEF g
<1>6. g[0] = <<>>
  BY <1>1, <1>3, <1>5
<1>7. ASSUME NEW n \in 1 .. Len(s)
      PROVE  g[n] = IF n \in at THEN Append(g[n - 1], s[n]) ELSE g[n - 1]
  <2>1. n \in 0 .. Len(s) /\ n - 1 \in 0 .. Len(s)
    BY <1>1
  <2>2. CASE n \in a + 1 .. a + m
    <3>1. size(n) = n - a /\ size(n - 1) = (n - a) - 1 /\ n - a \in 1 .. m /\ a + (n - a) = n
      BY <2>2
    <3>2. row(n - a) = Append(row((n - a) - 1), s[n])
      BY <1>4, <3>1
    <3>3. n \in at
      BY <2>2 DEF InRow
    <3> QED BY ONLY <1>5, <2>1, <3>1, <3>2, <3>3
  <2>3. CASE n \notin a + 1 .. a + m
    <3>1. size(n) = size(n - 1) /\ n \notin at
      BY <1>1, <2>3 DEF InRow
    <3> HIDE DEF size
    <3> QED BY ONLY <1>5, <2>1, <3>1
  <2> QED BY <2>2, <2>3
<1>8. Picks(g, s, at, Len(s))
  BY ONLY <1>6, <1>7 DEF Picks
<1>9. f[Len(s)] = g[Len(s)]
  BY <1>1, <1>2, <1>8, PicksUnique
<1>10. size(Len(s)) = m /\ Len(s) \in 0 .. Len(s)
  BY <1>1
<1>11. g[Len(s)] = row(m)
  BY ONLY <1>5, <1>10
<1> QED BY ONLY <1>2, <1>9, <1>11 DEF row

\* The elements of p are those of s at the positions in at up to n, in order.
Ascends(p, s, at, n) ==
    /\ \A i \in 1 .. Len(p) : \E k \in 1 .. n : k \in at /\ p[i] = s[k]
    /\ \A k \in 1 .. n : k \in at => \E i \in 1 .. Len(p) : p[i] = s[k]
    /\ \A i, j \in 1 .. Len(p) : i < j => p[i] < p[j]

(* A subsequence of numbers whose positions were chosen so that each is     *)
(* greater than those before it is in ascending order.                      *)
LEMMA PickAscends ==
    ASSUME NEW s \in Seq(Int), NEW at,
           \A i, j \in 1 .. Len(s) : i \in at /\ j \in at /\ i < j => s[i] < s[j]
    PROVE  Pick(s, at) \in Seq(Int) /\ Ascends(Pick(s, at), s, at, Len(s))
<1>1. PICK f \in [0 .. Len(s) -> Seq(Int)] :
         Picks(f, s, at, Len(s)) /\ Pick(s, at) = f[Len(s)]
  BY PickDefined
<1>2. Len(s) \in Nat
  OBVIOUS
<1>3. Ascends(f[0], s, at, 0)
  <2>1. f[0] = <<>>
    BY <1>1 DEF Picks
  <2> QED BY <2>1 DEF Ascends
<1>4. ASSUME NEW n \in 1 .. Len(s), Ascends(f[n - 1], s, at, n - 1)
      PROVE  Ascends(f[n], s, at, n)
  <2> DEFINE p == f[n - 1]
             q == f[n]
  <2>1. p \in Seq(Int) /\ s[n] \in Int
    BY <1>2
  <2>2. q = IF n \in at THEN Append(p, s[n]) ELSE p
    BY <1>1 DEF Picks
  <2>3. /\ \A i \in 1 .. Len(p) : \E k \in 1 .. n - 1 : k \in at /\ p[i] = s[k]
        /\ \A k \in 1 .. n - 1 : k \in at => \E i \in 1 .. Len(p) : p[i] = s[k]
        /\ \A i, j \in 1 .. Len(p) : i < j => p[i] < p[j]
    BY <1>4 DEF Ascends
  <2> HIDE DEF p, q
  <2>4. ASSUME n \notin at PROVE Ascends(q, s, at, n)
    <3>1. q = p
      BY <2>2, <2>4
    <3>2. \A k \in 1 .. n : k \in at => k \in 1 .. n - 1
      BY <2>4
    <3>3. \A k \in 1 .. n - 1 : k \in 1 .. n
      OBVIOUS
    <3>4. Ascends(p, s, at, n)
      BY ONLY <2>3, <3>2, <3>3 DEF Ascends
    <3> QED BY ONLY <3>1, <3>4
  <2>5. ASSUME n \in at PROVE Ascends(q, s, at, n)
    <3>1. /\ Len(q) = Len(p) + 1 /\ Len(p) \in Nat /\ q[Len(p) + 1] = s[n]
          /\ \A i \in 1 .. Len(p) : q[i] = p[i]
      BY <2>1, <2>2, <2>5
    <3>2. \A i \in 1 .. Len(p) : q[i] < s[n]
      <4> TAKE i \in 1 .. Len(p)
      <4>1. PICK k \in 1 .. n - 1 : k \in at /\ p[i] = s[k]
        BY <2>3
      <4>2. k \in 1 .. Len(s) /\ k < n
        OBVIOUS
      <4>3. s[k] < s[n]
        BY <2>5, <4>1, <4>2
      <4> QED BY <3>1, <4>1, <4>3
    <3>3. \A i \in 1 .. Len(q) : \E k \in 1 .. n : k \in at /\ q[i] = s[k]
      <4> TAKE i \in 1 .. Len(q)
      <4>1. CASE i \in 1 .. Len(p)
        <5>1. PICK k \in 1 .. n - 1 : k \in at /\ p[i] = s[k]
          BY <2>3, <4>1
        <5> QED BY <3>1, <4>1, <5>1
      <4>2. CASE i = Len(p) + 1
        BY <2>5, <3>1, <4>2
      <4> QED BY <3>1, <4>1, <4>2
    <3>4. \A k \in 1 .. n : k \in at => \E i \in 1 .. Len(q) : q[i] = s[k]
      <4> SUFFICES ASSUME NEW k \in 1 .. n, k \in at
                   PROVE  \E i \in 1 .. Len(q) : q[i] = s[k]
        OBVIOUS
      <4>1. CASE k \in 1 .. n - 1
        <5>1. PICK i \in 1 .. Len(p) : p[i] = s[k]
          BY <2>3, <4>1
        <5>2. i \in 1 .. Len(q) /\ q[i] = s[k]
          BY <3>1, <5>1
        <5> QED BY <5>2
      <4>2. CASE k = n
        <5>1. Len(p) + 1 \in 1 .. Len(q)
          BY <3>1
        <5> QED BY <3>1, <4>2, <5>1
      <4> QED BY <4>1, <4>2
    <3>5. \A i, j \in 1 .. Len(q) : i < j => q[i] < q[j]
      <4> SUFFICES ASSUME NEW i \in 1 .. Len(q), NEW j \in 1 .. Len(q), i < j
                   PROVE  q[i] < q[j]
        OBVIOUS
      <4>1. i \in 1 .. Len(p)
        BY <3>1
      <4>2. CASE j \in 1 .. Len(p)
        BY <2>3, <3>1, <4>1, <4>2
      <4>3. CASE j = Len(p) + 1
        BY <3>1, <3>2, <4>1, <4>3
      <4>4. j \in 1 .. Len(p) \/ j = Len(p) + 1
        BY ONLY <3>1, j \in 1 .. Len(q)
      <4> QED BY ONLY <4>2, <4>3, <4>4
    <3> QED BY ONLY <3>3, <3>4, <3>5 DEF Ascends
  <2> QED BY <2>4, <2>5 DEF q
<1> DEFINE done == {n \in 0 .. Len(s) : Ascends(f[n], s, at, n)}
<1>5. 0 \in done /\ \A n \in 1 .. Len(s) : n - 1 \in done => n \in done
  BY <1>2, <1>3, <1>4
<1>6. Len(s) \in done
  <2>1. \A n \in 0 .. Len(s) : n \in done
    <3> HIDE DEF done
    <3> QED BY <1>2, <1>5, UpTo
  <2> QED BY <1>2, <2>1
<1> QED BY <1>1, <1>2, <1>6

-----------------------------------------------------------------------------
(* Iteration.                                                               *)

\* g goes from v on by the steps F, up to n.
Iterates(g, v, F, n) ==
    g[0] = v /\ \A m \in 1 .. n : g[m] = F[<<m, g[m - 1]>>]

(* Steps that stay in a set can be iterated.                                *)
LEMMA IterationExists ==
    ASSUME NEW V, NEW v \in V, NEW l \in Nat, NEW F \in [(1 .. l) \X V -> V]
    PROVE  \E g \in [0 .. l -> V] : Iterates(g, v, F, l)
<1> DEFINE Defined(n) == \E g \in [0 .. n -> V] : Iterates(g, v, F, n)
           done == {n \in 0 .. l : Defined(n)}
<1>1. Defined(0)
  <2> DEFINE g == [m \in 0 .. 0 |-> v]
  <2>1. g \in [0 .. 0 -> V] /\ Iterates(g, v, F, 0)
    BY DEF Iterates
  <2> HIDE DEF g
  <2> QED BY <2>1
<1>2. ASSUME NEW n \in 1 .. l, Defined(n - 1)
      PROVE  Defined(n)
  <2>1. PICK g \in [0 .. n - 1 -> V] : Iterates(g, v, F, n - 1)
    BY <1>2
  <2> DEFINE next == F[<<n, g[n - 1]>>]
             h == [m \in 0 .. n |-> IF m = n THEN next ELSE g[m]]
  <2>2. n - 1 \in 0 .. n - 1 /\ n \in Nat
    OBVIOUS
  <2>3. g[n - 1] \in V
    BY <2>2
  <2>4. next \in V
    BY <2>3
  <2> HIDE DEF next
  <2>5. h \in [0 .. n -> V]
    BY <2>4
  <2>6. h[n] = next /\ \A m \in 0 .. n - 1 : h[m] = g[m]
    BY <2>2
  <2> HIDE DEF h
  <2>7. h[0] = v
    BY <2>1, <2>2, <2>6 DEF Iterates
  <2>8. ASSUME NEW m \in 1 .. n PROVE h[m] = F[<<m, h[m - 1]>>]
    <3>1. m - 1 \in 0 .. n - 1
      OBVIOUS
    <3>2. h[m - 1] = g[m - 1]
      BY <2>6, <3>1
    <3>3. CASE m = n
      BY <2>6, <3>2, <3>3 DEF next
    <3>4. CASE m # n
      <4>1. m \in 1 .. n - 1 /\ m \in 0 .. n - 1
        BY <3>4
      <4> QED BY <2>1, <2>6, <3>2, <4>1 DEF Iterates
    <3> QED BY <3>3, <3>4
  <2>9. Iterates(h, v, F, n)
    BY <2>7, <2>8 DEF Iterates
  <2> QED BY <2>5, <2>9
<1> HIDE DEF Defined
<1>3. 0 \in done /\ \A n \in 1 .. l : n - 1 \in done => n \in done
  BY <1>1, <1>2
<1>4. l \in done
  <2>1. \A n \in 0 .. l : n \in done
    <3> HIDE DEF done
    <3> QED BY <1>3, UpTo
  <2> QED BY <2>1
<1> QED BY <1>4 DEF Defined
===============================================================================
