----------------------- MODULE StreamTransportProofs -----------------------
(***************************************************************************)
(* What an answer of StreamTransport is worth, for every number of streams *)
(* and whatever messages they carry: what WireFormat makes of a message is *)
(* read as that message.                                                   *)
(***************************************************************************)
EXTENDS StreamTransport, FiniteSetTheorems, SequenceTheorems, WellFoundedInduction, TLAPS

-----------------------------------------------------------------------------
(* Joining and splitting.  FlattenSeq is a recursive function, and what it *)
(* yields is proved by induction over a set of naturals.                   *)

\* A set that has zero and the successor of what it has has every natural number.
LEMMA SetInduction ==
  ASSUME NEW T, 0 \in T, \A n \in Nat : n \in T => n + 1 \in T
  PROVE  Nat \subseteq T
<1> SUFFICES ASSUME Nat \ T # {} PROVE FALSE
  OBVIOUS
<1> DEFINE R == {ss \in Nat \X Nat : ss[1] < ss[2]}
<1>1. IsWellFoundedOn(R, Nat)
  BY NatLessThanWellFounded DEF OpToRel
<1>3. \A x, y \in Nat : <<y, x>> \in R <=> y < x
  OBVIOUS
<1>2. \E x \in Nat \ T : \A y \in Nat \ T : ~(<<y,x>> \in R)
  <2> HIDE DEF R
  <2> QED BY <1>1, WFMin 
<1>4. PICK x \in Nat \ T : \A y \in Nat \ T : ~ (y < x)
  BY <1>2, <1>3
<1>5. x # 0
  OBVIOUS
<1>6. x - 1 \in Nat /\ x - 1 < x
  BY <1>5
<1>. QED
  BY <1>4, <1>6

\* Where the marks of b are.
Marks(b, mark) == {i \in 1 .. Len(b) : b[i] = mark}

\* o[i] is where the i-th of k parts ends that have a mark between one and the
\* next, and the last one where b ends.
Ends(b, parts, o, k) ==
  /\ Len(b) = o[k]
  /\ \A i, j \in 1 .. k : i < j => o[i] < o[j]
  /\ \A i \in 1 .. k : o[i] - Len(parts[i]) = IF i = 1 THEN 0 ELSE o[i - 1] + 1

\* The marks of b are after each part but the last.
Between(b, mark, o, k) == Marks(b, mark) = {o[i] + 1 : i \in 1 .. k - 1}

\* The i-th mark is the i-th.
Counted(b, mark, o, k) ==
  /\ IsFiniteSet(Marks(b, mark)) /\ Cardinality(Marks(b, mark)) = k - 1
  /\ \A i \in 1 .. k - 1 : Cardinality({j \in Marks(b, mark) : j <= o[i] + 1}) = i

\* What is in b before o[i] is the i-th part.
Filled(b, parts, o, k) ==
  \A i \in 1 .. k : \A j \in 1 .. Len(parts[i]) : b[o[i] - Len(parts[i]) + j] = parts[i][j]

\* b is the first k parts, with a mark between one and the next.
Parted(b, mark, parts, o, k) ==
  Ends(b, parts, o, k) /\ Between(b, mark, o, k) /\ Counted(b, mark, o, k) /\ Filled(b, parts, o, k)

\* There is no mark in p.
Unmarked(p, mark) == Len(p) \in Nat /\ \A i \in 1 .. Len(p) : p[i] # mark

\* c is b, a mark and p.
Glued(c, b, mark, p) ==
  /\ Len(c) = Len(b) + 1 + Len(p)
  /\ \A i \in 1 .. Len(b) : c[i] = b[i]
  /\ c[Len(b) + 1] = mark
  /\ \A i \in 1 .. Len(p) : c[Len(b) + 1 + i] = p[i]

\* The first part is itself: there is no mark in it.
LEMMA PartedFirst ==
  ASSUME NEW mark, NEW parts, Unmarked(parts[1], mark), NEW o, o[1] = Len(parts[1])
  PROVE  Parted(parts[1], mark, parts, o, 1)
<1> DEFINE p == parts[1]
<1>1. Len(p) \in Nat /\ \A i \in 1 .. Len(p) : p[i] # mark
  BY DEF Unmarked
<1>2. Marks(p, mark) = {}
  BY <1>1 DEF Marks
<1>3. {o[i] + 1 : i \in 1 .. 1 - 1} = {}
  OBVIOUS
<1>4. Ends(p, parts, o, 1)
  BY <1>1 DEF Ends
<1>5. Between(p, mark, o, 1)
  BY <1>2, <1>3 DEF Between
<1>6. Counted(p, mark, o, 1)
  BY <1>2, FS_EmptySet DEF Counted
<1>7. Filled(p, parts, o, 1)
  BY <1>1 DEF Filled
<1> QED
  BY <1>4, <1>5, <1>6, <1>7 DEF Parted

\* What b, a mark and p make when they are put together (FlattenSeq).
LEMMA Glue ==
  ASSUME NEW Y, NEW mark \in Y, NEW b \in Seq(Y), NEW p \in Seq(Y)
  PROVE  Glued(b \o (<<mark>> \o p), b, mark, p)
<1> DEFINE q == <<mark>> \o p
           c == b \o q
<1>1. /\ Len(b) \in Nat /\ Len(p) \in Nat
      /\ <<mark>> \in Seq(Y) /\ Len(<<mark>>) = 1 /\ <<mark>>[1] = mark
  BY LenProperties
<1>2. /\ q \in Seq(Y)
      /\ Len(q) = 1 + Len(p)
      /\ \A i \in 1 .. 1 + Len(p) : q[i] = IF i <= 1 THEN <<mark>>[i] ELSE p[i - 1]
  BY <1>1, ConcatProperties
<1> HIDE DEF q
<1>3. /\ c \in Seq(Y)
      /\ Len(c) = Len(b) + Len(q)
      /\ \A i \in 1 .. Len(b) + Len(q) : c[i] = IF i <= Len(b) THEN b[i] ELSE q[i - Len(b)]
  BY <1>2, ConcatProperties
<1> HIDE DEF c
<1>4. \A i \in 1 .. Len(b) : c[i] = b[i]
  BY <1>1, <1>2, <1>3
<1>5. c[Len(b) + 1] = mark
  <2>1. Len(b) + 1 \in 1 .. Len(b) + Len(q) /\ ~(Len(b) + 1 <= Len(b)) /\ (Len(b) + 1) - Len(b) = 1
    BY <1>1, <1>2
  <2>2. q[1] = mark
    BY <1>1, <1>2
  <2> QED
    BY <1>3, <2>1, <2>2
<1>6. ASSUME NEW i \in 1 .. Len(p) PROVE c[Len(b) + 1 + i] = p[i]
  <2>1. /\ Len(b) + 1 + i \in 1 .. Len(b) + Len(q) /\ ~(Len(b) + 1 + i <= Len(b))
        /\ (Len(b) + 1 + i) - Len(b) = 1 + i
        /\ 1 + i \in 1 .. 1 + Len(p) /\ ~(1 + i <= 1) /\ (1 + i) - 1 = i
    BY <1>1, <1>2
  <2>2. q[1 + i] = p[i]
    BY <1>2, <2>1
  <2> QED
    BY <1>3, <2>1, <2>2
<1>7. Len(c) = Len(b) + 1 + Len(p)
  BY <1>1, <1>2, <1>3
<1>8. Glued(c, b, mark, p)
  BY <1>4, <1>5, <1>6, <1>7 DEF Glued
<1> QED
  BY <1>8 DEF c, q

\* Its marks are those of b and the one between b and p, which has none.
LEMMA GlueMarks ==
  ASSUME NEW mark, NEW b, NEW c, NEW p, Len(b) \in Nat, Unmarked(p, mark), Glued(c, b, mark, p)
  PROVE  Marks(c, mark) = Marks(b, mark) \cup {Len(b) + 1}
<1> DEFINE x == Len(b)
           y == Len(p)
<1>1. x \in Nat /\ y \in Nat /\ Len(c) = x + 1 + y
  BY DEF Unmarked, Glued
<1> HIDE DEF x, y
<1>2. \A i \in 1 .. Len(c) : i \in 1 .. x \/ i = x + 1 \/ (i - (x + 1) \in 1 .. y /\ x + 1 + (i - (x + 1)) = i)
  BY <1>1
<1>3. \A i \in 1 .. x : i \in 1 .. Len(c)
  BY <1>1
<1>4. x + 1 \in 1 .. Len(c)
  BY <1>1
<1>5. \A i \in 1 .. x : c[i] = b[i]
  BY DEF Glued, x
<1>6. c[x + 1] = mark
  BY DEF Glued, x
<1>7. \A i \in 1 .. y : c[x + 1 + i] # mark
  BY DEF Glued, Unmarked, x, y
<1>8. ASSUME NEW i \in 1 .. Len(c), c[i] = mark PROVE i \in Marks(b, mark) \cup {x + 1}
  <2>1. CASE i \in 1 .. x
    BY <1>5, <1>8, <2>1 DEF Marks, x
  <2>2. CASE i - (x + 1) \in 1 .. y /\ x + 1 + (i - (x + 1)) = i
    BY <1>7, <1>8, <2>2
  <2> QED
    BY <1>2, <2>1, <2>2
<1>9. ASSUME NEW i \in Marks(b, mark) PROVE i \in Marks(c, mark)
  BY <1>3, <1>5, <1>9 DEF Marks, x
<1>10. x + 1 \in Marks(c, mark)
  BY <1>4, <1>6 DEF Marks
<1>11. Marks(c, mark) = Marks(b, mark) \cup {x + 1}
  BY <1>8, <1>9, <1>10 DEF Marks
<1> QED
  BY <1>11 DEF x

\* Where the parts end when one more is glued to them.
LEMMA EndsNext ==
  ASSUME NEW k \in Nat \ {0}, NEW o, NEW parts, NEW b, NEW c, \A i \in 1 .. k + 1 : o[i] \in Nat,
         Ends(b, parts, o, k), Len(parts[k + 1]) \in Nat,
         o[k + 1] = o[k] + 1 + Len(parts[k + 1]), Len(c) = o[k + 1]
  PROVE  Ends(c, parts, o, k + 1)
<1>1. \A i, j \in 1 .. k : i < j => o[i] < o[j]
  BY DEF Ends
<1>2. \A i \in 1 .. k : o[i] - Len(parts[i]) = IF i = 1 THEN 0 ELSE o[i - 1] + 1
  BY DEF Ends
<1>3. k \in 1 .. k /\ k \in 1 .. k + 1 /\ k + 1 \in 1 .. k + 1
  OBVIOUS
<1>4. \A i \in 1 .. k + 1 : i = k + 1 \/ i \in 1 .. k
  OBVIOUS
<1>5. o[k] \in Nat /\ o[k + 1] \in Nat /\ o[k] < o[k + 1] /\ o[k + 1] - Len(parts[k + 1]) = o[k] + 1
  BY <1>3
<1>6. ASSUME NEW i \in 1 .. k + 1, NEW j \in 1 .. k + 1, i < j PROVE o[i] < o[j]
  <2>1. i \in 1 .. k
    BY <1>6
  <2>2. i = k \/ o[i] < o[k]
    BY <1>1, <1>3, <2>1
  <2>3. o[i] < o[k + 1]
    BY <1>5, <1>6, <2>2
  <2>4. CASE j = k + 1
    BY <2>3, <2>4
  <2>5. CASE j \in 1 .. k
    BY <1>1, <1>6, <2>1, <2>5
  <2> QED
    BY <1>4, <2>4, <2>5
<1>7. ASSUME NEW i \in 1 .. k + 1 PROVE o[i] - Len(parts[i]) = IF i = 1 THEN 0 ELSE o[i - 1] + 1
  <2>1. CASE i = k + 1
    <3>1. i # 1 /\ i - 1 = k
      BY <2>1
    <3> QED
      BY <1>5, <2>1, <3>1
  <2>2. CASE i \in 1 .. k
    BY <1>2, <2>2
  <2> QED
    BY <1>4, <2>1, <2>2
<1> QED
  BY <1>6, <1>7 DEF Ends

\* Which marks there are then.
LEMMA BetweenNext ==
  ASSUME NEW k \in Nat \ {0}, NEW o, NEW mark, NEW b, NEW c, Between(b, mark, o, k),
         Marks(c, mark) = Marks(b, mark) \cup {o[k] + 1}
  PROVE  Between(c, mark, o, k + 1)
<1> DEFINE e(i) == o[i] + 1
<1>1. Marks(b, mark) = {e(i) : i \in 1 .. k - 1}
  BY DEF Between
<1>2. Marks(c, mark) = {e(i) : i \in 1 .. k - 1} \cup {e(k)}
  BY <1>1
<1>3. (k + 1) - 1 = k /\ 1 .. k = (1 .. k - 1) \cup {k}
  OBVIOUS
<1> HIDE DEF e
<1>4. Marks(c, mark) = {e(i) : i \in (1 .. k - 1) \cup {k}}
  BY ONLY <1>2, Zenon
<1>5. Marks(c, mark) = {e(i) : i \in 1 .. (k + 1) - 1}
  BY <1>3, <1>4
<1> QED
  BY <1>5 DEF Between, e

\* How many there are up to each.
LEMMA CountedNext ==
  ASSUME NEW k \in Nat \ {0}, NEW o, NEW mark, NEW b, NEW c, \A i \in 1 .. k : o[i] \in Nat,
         \A i, j \in 1 .. k : i < j => o[i] < o[j],
         Counted(b, mark, o, k), \A i \in Marks(b, mark) : i \in Nat /\ i <= o[k],
         Marks(c, mark) = Marks(b, mark) \cup {o[k] + 1}
  PROVE  Counted(c, mark, o, k + 1)
<1> DEFINE M == Marks(b, mark)
<1>1. IsFiniteSet(M) /\ Cardinality(M) = k - 1
  BY DEF Counted
<1>2. \A i \in 1 .. k - 1 : Cardinality({j \in M : j <= o[i] + 1}) = i
  BY DEF Counted
<1>3. k \in 1 .. k /\ o[k] \in Nat
  OBVIOUS
<1>4. (k + 1) - 1 = k /\ (k - 1) + 1 = k
  OBVIOUS
<1>5. \A i \in M : i \in Nat /\ i <= o[k]
  OBVIOUS
<1>6. Marks(c, mark) = M \cup {o[k] + 1}
  OBVIOUS
<1> HIDE DEF M
<1>7. o[k] + 1 \notin M
  BY <1>3, <1>5
<1>8. IsFiniteSet(M \cup {o[k] + 1}) /\ Cardinality(M \cup {o[k] + 1}) = Cardinality(M) + 1
  BY <1>1, <1>7, FS_AddElement
<1>9. IsFiniteSet(Marks(c, mark)) /\ Cardinality(Marks(c, mark)) = k
  BY <1>1, <1>4, <1>6, <1>8
<1>10. ASSUME NEW i \in 1 .. k PROVE Cardinality({j \in Marks(c, mark) : j <= o[i] + 1}) = i
  <2>1. CASE i = k
    <3>1. \A j \in Marks(c, mark) : j <= o[k] + 1
      BY <1>3, <1>5, <1>6
    <3>2. {j \in Marks(c, mark) : j <= o[k] + 1} = Marks(c, mark)
      BY <3>1
    <3> QED
      BY <1>9, <2>1, <3>2
  <2>2. CASE i # k
    <3>1. i \in 1 .. k - 1 /\ i < k
      BY <2>2
    <3>2. o[i] \in Nat /\ o[i] < o[k]
      BY <1>3, <3>1
    <3>3. ~(o[k] + 1 <= o[i] + 1)
      BY <1>3, <3>2
    <3>4. {j \in Marks(c, mark) : j <= o[i] + 1} = {j \in M : j <= o[i] + 1}
      BY <1>6, <3>3
    <3> QED
      BY <1>2, <3>1, <3>4
  <2> QED
    BY <2>1, <2>2
<1> QED
  BY <1>4, <1>9, <1>10 DEF Counted

\* And what is between them.
LEMMA FilledNext ==
  ASSUME NEW k \in Nat \ {0}, NEW o, NEW parts, NEW mark, NEW b, NEW c,
         \A i \in 1 .. k + 1 : o[i] \in Nat, \A i \in 1 .. k : Len(parts[i]) \in Nat,
         Ends(b, parts, o, k), Filled(b, parts, o, k), Glued(c, b, mark, parts[k + 1]),
         o[k + 1] - Len(parts[k + 1]) = o[k] + 1
  PROVE  Filled(c, parts, o, k + 1)
<1>1. \A i \in 1 .. o[k] : c[i] = b[i]
  BY DEF Glued, Ends
<1>2. \A j \in 1 .. Len(parts[k + 1]) : c[o[k] + 1 + j] = parts[k + 1][j]
  BY DEF Glued, Ends
<1>3. ASSUME NEW i \in 1 .. k, NEW j \in 1 .. Len(parts[i])
      PROVE  c[o[i] - Len(parts[i]) + j] = parts[i][j]
  <2> DEFINE l == Len(parts[i])
             x == o[i]
             y == o[k]
  <2>1. x \in Nat /\ y \in Nat /\ l \in Nat /\ j \in 1 .. l
    OBVIOUS
  <2>2. x <= y
    <3>1. k \in 1 .. k /\ (i = k \/ i < k)
      OBVIOUS
    <3>2. i = k \/ x < y
      BY <3>1 DEF Ends
    <3> QED
      BY <2>1, <3>2
  <2>3. x - l \in Nat
    <3>1. i = 1 \/ o[i - 1] \in Nat
      <4>1. i = 1 \/ i - 1 \in 1 .. k + 1
        OBVIOUS
      <4> QED
        BY <4>1
    <3>2. x - l = IF i = 1 THEN 0 ELSE o[i - 1] + 1
      BY DEF Ends
    <3> HIDE DEF x, l
    <3> QED
      BY <3>1, <3>2
  <2>4. b[x - l + j] = parts[i][j]
    BY DEF Filled
  <2> HIDE DEF x, y, l
  <2>5. x - l + j \in 1 .. y
    BY ONLY <2>1, <2>2, <2>3
  <2>6. c[x - l + j] = b[x - l + j]
    BY <1>1, <2>5 DEF y
  <2> QED
    BY <2>4, <2>6 DEF x, l
<1>4. \A i \in 1 .. k + 1 : i = k + 1 \/ i \in 1 .. k
  OBVIOUS
<1>5. \A j \in 1 .. Len(parts[k + 1]) : c[o[k + 1] - Len(parts[k + 1]) + j] = parts[k + 1][j]
  BY <1>2
<1>6. ASSUME NEW i \in 1 .. k + 1, NEW j \in 1 .. Len(parts[i])
      PROVE  c[o[i] - Len(parts[i]) + j] = parts[i][j]
  <2>1. CASE i = k + 1
    BY <1>5, <1>6, <2>1
  <2>2. CASE i \in 1 .. k
    BY <1>3, <1>6, <2>2
  <2> QED
    BY <1>4, <2>1, <2>2
<1> QED
  BY <1>6 DEF Filled

\* From the first k parts to the first k + 1.
LEMMA PartedNext ==
  ASSUME NEW n \in Nat, NEW parts, NEW mark, \A i \in 1 .. n : Unmarked(parts[i], mark),
         NEW o \in [1 .. n -> Nat], NEW k \in Nat \ {0}, k < n, NEW b, NEW c,
         Parted(b, mark, parts, o, k), Glued(c, b, mark, parts[k + 1]), o[k + 1] = Len(c)
  PROVE  Parted(c, mark, parts, o, k + 1)
<1> DEFINE p == parts[k + 1]
<1>1. k \in 1 .. n /\ k + 1 \in 1 .. n /\ k \in 1 .. k /\ \A i \in 1 .. k + 1 : i \in 1 .. n
  OBVIOUS
<1>2. /\ \A i \in 1 .. k + 1 : o[i] \in Nat
      /\ \A i \in 1 .. k : o[i] \in Nat
  BY <1>1
<1>3. \A i \in 1 .. k : Len(parts[i]) \in Nat
  BY <1>1 DEF Unmarked
<1>4. Unmarked(p, mark) /\ Glued(c, b, mark, p) /\ Len(p) \in Nat
  BY <1>1 DEF Unmarked
<1>5. Ends(b, parts, o, k) /\ Between(b, mark, o, k) /\ Counted(b, mark, o, k) /\ Filled(b, parts, o, k)
  BY DEF Parted
<1>6. Len(b) = o[k] /\ o[k] \in Nat
  BY <1>1, <1>5 DEF Ends
<1>7. Len(c) = o[k + 1] /\ Len(c) = o[k] + 1 + Len(p)
  BY <1>4, <1>6 DEF Glued
<1>8. Marks(c, mark) = Marks(b, mark) \cup {o[k] + 1}
  BY <1>4, <1>6, GlueMarks
<1>9. Ends(c, parts, o, k + 1)
  BY <1>2, <1>4, <1>5, <1>7, EndsNext
<1>10. Between(c, mark, o, k + 1)
  BY <1>5, <1>8, BetweenNext
<1>11. Counted(c, mark, o, k + 1)
  <2>1. \A i \in Marks(b, mark) : i \in Nat /\ i <= o[k]
    BY <1>6 DEF Marks
  <2>2. \A i, j \in 1 .. k : i < j => o[i] < o[j]
    BY <1>5 DEF Ends
  <2> QED
    BY <1>2, <1>5, <1>8, <2>1, <2>2, CountedNext
<1>12. Filled(c, parts, o, k + 1)
  <2>1. o[k + 1] - Len(p) = o[k] + 1
    BY <1>4, <1>6, <1>7
  <2> QED
    BY <1>2, <1>3, <1>4, <1>5, <2>1, FilledNext
<1> QED
  BY <1>9, <1>10, <1>11, <1>12 DEF Parted

\* Parts that are glued one after the other are parted, by induction on how many
\* have been.
LEMMA PartedAll ==
  ASSUME NEW n \in Nat \ {0}, NEW parts, NEW mark, \A i \in 1 .. n : Unmarked(parts[i], mark),
         NEW f, f[1] = parts[1], \A i \in 2 .. n : Glued(f[i], f[i - 1], mark, parts[i]),
         NEW o \in [1 .. n -> Nat], \A i \in 1 .. n : o[i] = Len(f[i])
  PROVE  Parted(f[n], mark, parts, o, n)
<1> DEFINE N == {k \in Nat : k \in 1 .. n => Parted(f[k], mark, parts, o, k)}
<1>1. 0 \in N
  OBVIOUS
<1>2. ASSUME NEW k \in Nat, k \in N PROVE k + 1 \in N
  <2> SUFFICES ASSUME k + 1 \in 1 .. n PROVE Parted(f[k + 1], mark, parts, o, k + 1)
    OBVIOUS
  <2>1. CASE k = 0
    <3>1. 1 \in 1 .. n /\ k + 1 = 1
      BY <2>1
    <3>2. Unmarked(parts[1], mark) /\ o[1] = Len(parts[1])
      BY <3>1
    <3>3. Parted(parts[1], mark, parts, o, 1)
      BY <3>2, PartedFirst
    <3> QED
      BY <3>1, <3>3
  <2>2. CASE k # 0
    <3>1. k \in Nat \ {0} /\ k < n /\ k \in 1 .. n /\ k + 1 \in 2 .. n /\ (k + 1) - 1 = k
      BY <2>2
    <3>2. Parted(f[k], mark, parts, o, k)
      BY <1>2, <3>1
    <3>3. Glued(f[k + 1], f[k], mark, parts[k + 1]) /\ o[k + 1] = Len(f[k + 1])
      BY <3>1
    <3> QED
      BY <3>1, <3>2, <3>3, PartedNext
  <2> QED
    BY <2>1, <2>2
<1>3. Nat \subseteq N
  <2> HIDE DEF N
  <2> QED
    BY <1>1, <1>2, SetInduction
<1> QED
  BY <1>3

\* Bytes that are parted so are split into just these parts (strings.Split).
LEMMA PartedSplit ==
  ASSUME NEW X, NEW mark, mark \notin X, NEW parts \in Seq(Seq(X)), parts # <<>>,
         NEW b \in Seq(X \cup {mark}), NEW o \in [1 .. Len(parts) -> Nat],
         Parted(b, mark, parts, o, Len(parts))
  PROVE  Split(b, mark) = parts
<1> DEFINE n == Len(parts)
           from(k) == IF k = 1 THEN 1 ELSE MarkAt(b, mark, k - 1) + 1
           to(k) == IF k > n - 1 THEN Len(b) ELSE MarkAt(b, mark, k) - 1
<1>1. n \in Nat \ {0} /\ parts \in [1 .. n -> Seq(X)]
  BY EmptySeq, LenProperties
<1>2. ASSUME NEW k \in 1 .. n - 1 PROVE MarkAt(b, mark, k) = o[k] + 1
  <2> DEFINE M == Marks(b, mark)
             At(i) == i \in M /\ Cardinality({j \in M : j <= i}) = k
  <2>1. At(o[k] + 1)
    BY DEF Parted, Between, Counted
  <2>2. ASSUME NEW i, At(i) PROVE i = o[k] + 1
    <3>1. PICK h \in 1 .. n - 1 : i = o[h] + 1
      BY <2>2 DEF Parted, Between
    <3>2. h = k
      BY <2>2, <3>1 DEF Parted, Counted
    <3> QED
      BY <3>1, <3>2
  <2>3. MarkAt(b, mark, k) = CHOOSE i \in M : Cardinality({j \in M : j <= i}) = k
    BY DEF MarkAt, Marks
  <2> QED
    BY <2>1, <2>2, <2>3
<1>3. Split(b, mark) = [k \in 1 .. n |-> SubSeq(b, from(k), to(k))]
  <2>1. Cardinality({i \in 1 .. Len(b) : b[i] = mark}) = n - 1
    BY DEF Parted, Counted, Marks
  <2>2. (n - 1) + 1 = n
    BY <1>1
  <2> HIDE DEF n
  <2> QED
    BY <2>1, <2>2 DEF Split
<1>4. ASSUME NEW k \in 1 .. n PROVE SubSeq(b, from(k), to(k)) = parts[k]
  <2> DEFINE p == parts[k]
             m == o[k] - Len(p) + 1
  <2>0. p \in Seq(X) /\ Len(p) \in Nat
    BY <1>1, LenProperties
  <2>1. to(k) = o[k] /\ o[k] \in Nat
    <3>1. o[k] \in Nat
      OBVIOUS
    <3>2. CASE k = n
      BY <1>1, <3>1, <3>2 DEF Parted, Ends
    <3>3. CASE k # n
      <4>1. MarkAt(b, mark, k) = o[k] + 1 /\ ~(k > n - 1)
        <5>1. k \in 1 .. n - 1 /\ ~(k > n - 1)
          <6>1. \A a \in Nat \ {0} : \A j \in 1 .. a : j # a => j \in 1 .. a - 1 /\ ~(j > a - 1)
            OBVIOUS
          <6> QED
            BY <1>1, <3>3, <6>1
        <5> QED
          BY <1>2, <5>1
      <4> QED
        BY <3>1, <4>1
    <3> QED
      BY <3>1, <3>2, <3>3
  <2>2. from(k) = m
    <3>1. CASE k = 1
      BY <1>1, <3>1 DEF Parted, Ends
    <3>2. CASE k # 1
      <4>1. MarkAt(b, mark, k - 1) = o[k - 1] + 1 /\ o[k - 1] \in Nat
        <5>1. k - 1 \in 1 .. n - 1 /\ k - 1 \in 1 .. n
          BY <1>1, <3>2
        <5> QED
          BY <1>2, <5>1
      <4>2. o[k] - Len(p) = o[k - 1] + 1
        BY <3>2 DEF Parted, Ends
      <4> QED
        BY <3>2, <4>1, <4>2
    <3> QED
      BY <3>1, <3>2
  <2>3. m \in Int /\ o[k] - m + 1 = Len(p)
    BY <2>0, <2>1
  <2>4. \A j \in 1 .. Len(p) : b[m + j - 1] = p[j]
    <3> SUFFICES ASSUME NEW j \in 1 .. Len(p) PROVE b[m + j - 1] = p[j]
      OBVIOUS
    <3>1. m + j - 1 = o[k] - Len(p) + j
      BY <2>0, <2>1
    <3>2. b[o[k] - Len(p) + j] = p[j]
      BY DEF Parted, Filled
    <3> QED
      BY <3>1, <3>2
  <2> HIDE DEF p, m
  <2>5. \A i \in m .. o[k] : b[i] \in X
    <3> SUFFICES ASSUME NEW i \in m .. o[k] PROVE b[i] \in X
      OBVIOUS
    <3>1. i - m + 1 \in 1 .. Len(p) /\ m + (i - m + 1) - 1 = i
      BY <2>0, <2>1, <2>3
    <3>2. b[i] = p[i - m + 1]
      BY <2>4, <3>1
    <3>3. p[i - m + 1] \in X
      BY <2>0, <3>1, ElementOfSeq
    <3> QED
      BY <3>2, <3>3
  <2>6. /\ SubSeq(b, m, o[k]) \in Seq(X)
        /\ Len(SubSeq(b, m, o[k])) = IF m <= o[k] THEN o[k] - m + 1 ELSE 0
        /\ \A i \in 1 .. o[k] - m + 1 : SubSeq(b, m, o[k])[i] = b[m + i - 1]
    BY <2>1, <2>3, <2>5, SubSeqProperties
  <2>7. Len(SubSeq(b, m, o[k])) = Len(p)
    BY <2>0, <2>1, <2>3, <2>6
  <2>8. SubSeq(b, m, o[k]) = p
    BY <2>0, <2>3, <2>4, <2>6, <2>7, SeqEqual
  <2> QED
    BY <2>1, <2>2, <2>8 DEF p
<1> QED
  <2> HIDE DEF from, to
  <2> QED
    BY <1>1, <1>3, <1>4

\* f is the recursive function FlattenSeq is defined by.
Flattens(f, seqs, S) ==
  /\ FlattenSeq(seqs) = f[Len(seqs)]
  /\ f \in [1 .. Len(seqs) -> Seq(S)]
  /\ f[1] = seqs[1]
  /\ \A i \in 2 .. Len(seqs) : f[i] = f[i - 1] \o seqs[i]

\* There is one, by induction on how many sequences it has put together.
LEMMA FlattenIs ==
  ASSUME NEW S, NEW seqs \in Seq(Seq(S)), seqs # <<>>
  PROVE  \E f : Flattens(f, seqs, S)
<1> DEFINE n == Len(seqs)
           Unfold(f, i) == IF i = 1 THEN seqs[i] ELSE f[i - 1] \o seqs[i]
           Eq(f) == f = [i \in 1 .. n |-> Unfold(f, i)]
           Upto(m) == \E f \in [1 .. m -> Seq(S)] : \A i \in 1 .. m : f[i] = Unfold(f, i)
           N == {m \in Nat : m <= n => Upto(m)}
<1>1. n \in Nat \ {0} /\ \A i \in 1 .. n : seqs[i] \in Seq(S)
  BY EmptySeq, ElementOfSeq
<1>2. 0 \in N
  <2>1. [i \in 1 .. 0 |-> <<>>] \in [1 .. 0 -> Seq(S)]
    OBVIOUS
  <2>2. 1 .. 0 = {}
    OBVIOUS
  <2>3. Upto(0)
    <3> HIDE DEF Unfold
    <3> QED
      BY <2>1, <2>2
  <2> QED
    BY <2>3
<1>3. ASSUME NEW m \in Nat, m \in N PROVE m + 1 \in N
  <2> SUFFICES ASSUME m + 1 <= n PROVE Upto(m + 1)
    OBVIOUS
  <2>1. m <= n /\ m + 1 \in 1 .. n
    BY <1>1
  <2>2. PICK f \in [1 .. m -> Seq(S)] : \A i \in 1 .. m : f[i] = Unfold(f, i)
    BY <1>3, <2>1
  <2> DEFINE g == [i \in 1 .. m + 1 |-> IF i = m + 1 THEN Unfold(f, i) ELSE f[i]]
  <2>3. Unfold(f, m + 1) \in Seq(S)
    <3>1. CASE m = 0
      BY <1>1, <2>1, <3>1
    <3>2. CASE m # 0
      <4>1. f[m] \in Seq(S) /\ seqs[m + 1] \in Seq(S) /\ (m + 1) - 1 = m /\ m + 1 # 1
        BY <1>1, <2>1, <3>2
      <4>2. f[m] \o seqs[m + 1] \in Seq(S)
        BY <4>1, ConcatProperties
      <4> QED
        BY <4>1, <4>2
    <3> QED
      BY <3>1, <3>2
  <2>4. g \in [1 .. m + 1 -> Seq(S)]
    <3> HIDE DEF Unfold
    <3>1. \A i \in 1 .. m + 1 : i = m + 1 \/ i \in 1 .. m
      OBVIOUS
    <3> QED
      BY <2>3, <3>1
  <2>5. \A i \in 1 .. m : g[i] = f[i]
    <3>1. \A i \in 1 .. m : i \in 1 .. m + 1 /\ i # m + 1
      OBVIOUS
    <3> HIDE DEF Unfold
    <3> QED
      BY <3>1
  <2>6. ASSUME NEW i \in 1 .. m + 1 PROVE g[i] = Unfold(g, i)
    <3>1. i = 1 \/ g[i - 1] = f[i - 1]
      BY <2>5
    <3>2. Unfold(g, i) = Unfold(f, i)
      <4> HIDE DEF g
      <4> QED
        BY <3>1
    <3>3. g[i] = Unfold(f, i)
      <4>1. i = m + 1 \/ i \in 1 .. m
        OBVIOUS
      <4>2. CASE i = m + 1
        <5> HIDE DEF Unfold
        <5> QED
          BY <4>2
      <4>3. CASE i \in 1 .. m
        BY <2>2, <2>5, <4>3
      <4> QED
        BY <4>1, <4>2, <4>3
    <3> QED
      BY <3>2, <3>3
  <2> HIDE DEF g, Unfold
  <2> QED
    BY <2>4, <2>6
<1>4. Nat \subseteq N
  <2> HIDE DEF N
  <2> QED
    BY <1>2, <1>3, SetInduction
<1>5. Upto(n)
  <2> HIDE DEF Upto
  <2> QED
    BY <1>1, <1>4
<1>6. PICK f \in [1 .. n -> Seq(S)] : \A i \in 1 .. n : f[i] = Unfold(f, i)
  BY <1>5
<1>7. Eq(f)
  <2> HIDE DEF Unfold
  <2> QED
    BY <1>6
<1>8. Eq(CHOOSE g : Eq(g))
  <2> HIDE DEF Eq
  <2> QED
    BY <1>7
<1>9. FlattenSeq(seqs) = (CHOOSE g : Eq(g))[n]
  BY <1>1 DEF FlattenSeq
<1>10. PICK g : Eq(g) /\ FlattenSeq(seqs) = g[n]
  <2> HIDE DEF Eq
  <2> QED
    BY <1>8, <1>9
<1>11. \A i \in 1 .. n : g[i] = Unfold(g, i)
  <2> HIDE DEF Unfold
  <2> QED
    BY <1>10
<1> DEFINE M == {m \in Nat : m \in 1 .. n => g[m] \in Seq(S)}
<1>12. Nat \subseteq M
  <2>1. 0 \in M
    OBVIOUS
  <2>2. ASSUME NEW m \in Nat, m \in M PROVE m + 1 \in M
    <3> SUFFICES ASSUME m + 1 \in 1 .. n PROVE g[m + 1] \in Seq(S)
      OBVIOUS
    <3>1. CASE m = 0
      BY <1>1, <1>11, <3>1
    <3>2. CASE m # 0
      <4>1. g[m] \in Seq(S) /\ seqs[m + 1] \in Seq(S) /\ (m + 1) - 1 = m /\ m + 1 # 1
        BY <1>1, <2>2, <3>2
      <4>2. g[m] \o seqs[m + 1] \in Seq(S)
        BY <4>1, ConcatProperties
      <4>3. g[m + 1] = g[m] \o seqs[m + 1]
        BY <1>11, <4>1
      <4> QED
        BY <4>2, <4>3
    <3> QED
      BY <3>1, <3>2
  <2> HIDE DEF M
  <2> QED
    BY <2>1, <2>2, SetInduction
<1>13. g \in [1 .. n -> Seq(S)]
  <2>1. DOMAIN g = 1 .. n /\ g = [i \in 1 .. n |-> g[i]]
    BY <1>10
  <2> QED
    BY <1>12, <2>1
<1>14. g[1] = seqs[1] /\ \A i \in 2 .. n : g[i] = g[i - 1] \o seqs[i]
  <2>1. 1 \in 1 .. n /\ \A i \in 2 .. n : i \in 1 .. n /\ i # 1
    BY <1>1
  <2> QED
    BY <1>11, <2>1
<1> QED
  BY <1>10, <1>13, <1>14 DEF Flattens

\* What is joined with a mark is split at it, if no part holds the mark
\* (strings.Join, strings.Split).
LEMMA JoinSplit ==
  ASSUME NEW X, NEW mark, mark \notin X, NEW parts \in Seq(Seq(X)), parts # <<>>
  PROVE  /\ Join(parts, mark) \in Seq(X \cup {mark})
         /\ Split(Join(parts, mark), mark) = parts
<1> DEFINE Y == X \cup {mark}
           n == Len(parts)
           seqs == [i \in DOMAIN parts |-> IF i = 1 THEN parts[i] ELSE <<mark>> \o parts[i]]
<1>1. n \in Nat \ {0} /\ DOMAIN parts = 1 .. n
  BY EmptySeq, LenProperties
<1>2. \A i \in 1 .. n : parts[i] \in Seq(X) /\ parts[i] \in Seq(Y)
  <2> SUFFICES ASSUME NEW i \in 1 .. n PROVE parts[i] \in Seq(X) /\ parts[i] \in Seq(Y)
    OBVIOUS
  <2>1. parts[i] \in Seq(X)
    BY ElementOfSeq
  <2> QED
    BY <2>1, SeqMonotonic
<1>3. \A i \in 1 .. n : Unmarked(parts[i], mark)
  BY <1>2, LenProperties, ElementOfSeq DEF Unmarked
<1>4. <<mark>> \in Seq(Y) /\ mark \in Y
  OBVIOUS
<1>5. \A i \in 1 .. n : <<mark>> \o parts[i] \in Seq(Y)
  BY <1>2, <1>4, ConcatProperties
<1>6. /\ seqs \in Seq(Seq(Y)) /\ Len(seqs) = n /\ seqs # <<>>
      /\ seqs[1] = parts[1]
      /\ \A i \in 2 .. n : seqs[i] = <<mark>> \o parts[i]
  <2>1. seqs \in [1 .. n -> Seq(Y)]
    BY <1>1, <1>2, <1>5
  <2>2. seqs \in Seq(Seq(Y)) /\ Len(seqs) = n
    <3> HIDE DEF seqs, Y, n
    <3> QED
      BY <1>1, <2>1
  <2>3. 1 \in 1 .. n /\ \A i \in 2 .. n : i \in 1 .. n /\ i # 1
    BY <1>1
  <2> QED
    BY <1>1, <2>2, <2>3
<1>7. Join(parts, mark) = FlattenSeq(seqs)
  BY DEF Join
<1> HIDE DEF seqs, Y
<1>8. PICK f : /\ FlattenSeq(seqs) = f[n]
               /\ f \in [1 .. n -> Seq(Y)]
               /\ f[1] = seqs[1]
               /\ \A i \in 2 .. n : f[i] = f[i - 1] \o seqs[i]
  <2> HIDE DEF n
  <2>1. \E f : Flattens(f, seqs, Y)
    BY <1>6, FlattenIs
  <2> QED
    BY <1>6, <2>1 DEF Flattens
<1> DEFINE o == [i \in 1 .. n |-> Len(f[i])]
<1>9. o \in [1 .. n -> Nat] /\ \A i \in 1 .. n : o[i] = Len(f[i])
  BY <1>8, LenProperties
<1>10. \A i \in 2 .. n : Glued(f[i], f[i - 1], mark, parts[i])
  <2> SUFFICES ASSUME NEW i \in 2 .. n PROVE Glued(f[i], f[i - 1], mark, parts[i])
    OBVIOUS
  <2>1. i \in 1 .. n /\ i - 1 \in 1 .. n
    BY <1>1
  <2>2. f[i - 1] \in Seq(Y) /\ parts[i] \in Seq(Y)
    BY <1>2, <1>8, <2>1
  <2>3. f[i] = f[i - 1] \o (<<mark>> \o parts[i])
    BY <1>6, <1>8
  <2> QED
    BY <1>4, <2>2, <2>3, Glue
<1>11. Parted(f[n], mark, parts, o, n) /\ f[n] \in Seq(Y)
  <2> HIDE DEF o, n
  <2>1. f[n] \in Seq(Y) /\ f[1] = parts[1]
    BY <1>1, <1>6, <1>8
  <2> QED
    BY <1>1, <1>3, <1>9, <1>10, <2>1, PartedAll
<1>12. Split(f[n], mark) = parts
  <2> HIDE DEF o
  <2> QED
    BY <1>9, <1>11, PartedSplit DEF Y
<1> QED
  BY <1>7, <1>8, <1>11, <1>12 DEF Y

-----------------------------------------------------------------------------
(* Fields.                                                                 *)

\* A text is decoded from what it is encoded as, which is one token at most.
LEMMA B64RoundTrip ==
  ASSUME NEW t
  PROVE  B64Dec(B64Enc(t)) = {t} /\ B64Enc(t) \in Seq({<<"base64", t>>})
<1>1. CASE t = <<>>
  BY <1>1 DEF B64Dec, B64Enc
<1>2. CASE t # <<>>
  <2>1. B64Enc(t) = <<<<"base64", t>>>>
    BY <1>2 DEF B64Enc
  <2>2. Len(<<<<"base64", t>>>>) = 1 /\ <<<<"base64", t>>>> # <<>>
    OBVIOUS
  <2>3. <<<<"base64", t>>>>[1][1] = "base64" /\ <<<<"base64", t>>>>[1][2] = t
    OBVIOUS
  <2> QED
    BY <2>1, <2>2, <2>3 DEF B64Dec
<1> QED
  BY <1>1, <1>2

\* No parts join to nothing,
LEMMA JoinNone == ASSUME NEW mark PROVE Join(<<>>, mark) = <<>>
<1>1. [i \in DOMAIN <<>> |-> IF i = 1 THEN <<>>[i] ELSE <<mark>> \o <<>>[i]] = <<>>
  OBVIOUS
<1> QED
  BY <1>1 DEF Join, FlattenSeq

\* and one part to itself,
LEMMA JoinOne ==
  ASSUME NEW X, NEW p \in Seq(X), NEW mark
  PROVE  Join(<<p>>, mark) = p
<1> DEFINE seqs == [i \in DOMAIN <<p>> |-> IF i = 1 THEN <<p>>[i] ELSE <<mark>> \o <<p>>[i]]
<1>1. seqs = <<p>>
  OBVIOUS
<1>2. <<p>> \in Seq(Seq(X)) /\ <<p>> # <<>> /\ Len(<<p>>) = 1
  OBVIOUS
<1>3. PICK f : Flattens(f, <<p>>, X)
  BY <1>2, FlattenIs
<1>4. FlattenSeq(<<p>>) = p
  BY <1>2, <1>3 DEF Flattens
<1> QED
  BY <1>1, <1>4 DEF Join

\* and nothing else to nothing but one empty part.
LEMMA JoinEmpty ==
  ASSUME NEW X, NEW mark, mark \notin X, NEW parts \in Seq(Seq(X)), parts # <<>>,
         Join(parts, mark) = <<>>
  PROVE  parts = <<<<>>>>
<1>1. Split(<<>>, mark) = parts
  BY JoinSplit
<1>2. Len(parts) = 1
  <2>1. {i \in 1 .. Len(<<>>) : <<>>[i] = mark} = {}
    OBVIOUS
  <2>2. DOMAIN Split(<<>>, mark) = 1 .. 1
    BY <2>1, FS_EmptySet DEF Split
  <2>3. DOMAIN parts = 1 .. Len(parts) /\ Len(parts) \in Nat
    BY LenProperties
  <2>4. 1 .. 1 = 1 .. Len(parts)
    BY <1>1, <2>2, <2>3
  <2> QED
    BY <2>3, <2>4
<1>3. parts = <<parts[1]>> /\ parts[1] \in Seq(X)
  BY <1>2, LenProperties
<1> QED
  BY <1>3, JoinOne

\* What was decoded is the one element of its set.
LEMMA OnlyOne == ASSUME NEW x PROVE Only({x}) = x /\ {x} # Failed
BY DEF Only, Failed

\* A slice of texts is read as it was written, whatever marks the texts hold,
\* unless its one text is empty (serializeSlice, deserializeSlice).
LEMMA SliceRoundTrip ==
  ASSUME NEW v, IsSlice(v)
  PROVE  /\ DeserializeSlice(SerializeSlice(v)) = {SliceAsRead(v)}
         /\ SerializeSlice(v) \in Seq({<<"base64", t>> : t \in Range(v)} \cup {Comma})
<1> DEFINE T == Range(v)
           X == {<<"base64", t>> : t \in T}
           encs == [i \in DOMAIN v |-> B64Enc(v[i])]
           enc == Join(encs, Comma)
<1>1. v \in Seq(T)
  BY DEF IsSlice
<1>2. DOMAIN v = 1 .. Len(v) /\ Len(v) \in Nat /\ v = [i \in 1 .. Len(v) |-> v[i]]
      /\ \A i \in 1 .. Len(v) : v[i] \in T
  BY <1>1, LenProperties, ElementOfSeq
<1> HIDE DEF T
<1>3. ASSUME NEW i \in 1 .. Len(v) PROVE B64Enc(v[i]) \in Seq(X)
  <2>1. B64Enc(v[i]) \in Seq({<<"base64", v[i]>>})
    BY B64RoundTrip
  <2>2. {<<"base64", v[i]>>} \subseteq X
    BY <1>2
  <2> HIDE DEF X
  <2> QED
    BY <2>1, <2>2, SeqMonotonic
<1>4. Comma \notin X
  BY DEF Comma
<1>5. SerializeSlice(v) = enc
  BY DEF SerializeSlice
<1> HIDE DEF X
<1>6. CASE v = <<>>
  <2>1. enc = <<>>
    <3>1. encs = <<>>
      BY <1>6
    <3> QED
      BY <3>1, JoinNone
  <2>2. DeserializeSlice(<<>>) = {<<>>} /\ SliceAsRead(v) = <<>>
    BY <1>6 DEF DeserializeSlice, SliceAsRead
  <2> QED
    BY <1>5, <1>6, <2>1, <2>2, EmptySeq DEF X, T
<1>8. CASE v = <<<<>>>>
  <2>1. encs = <<<<>>>>
    <3>1. DOMAIN v = 1 .. 1 /\ v[1] = <<>>
      BY <1>8
    <3>2. encs = [i \in 1 .. 1 |-> <<>>]
      BY <3>1 DEF B64Enc
    <3> QED
      BY <3>2
  <2>2. <<>> \in Seq(X)
    OBVIOUS
  <2>3. enc = <<>>
    BY <2>1, <2>2, JoinOne
  <2>4. DeserializeSlice(<<>>) = {<<>>} /\ SliceAsRead(v) = <<>>
    BY <1>8 DEF DeserializeSlice, SliceAsRead
  <2> QED
    BY <1>5, <2>3, <2>4, EmptySeq DEF X, T
<1>7. CASE v # <<>> /\ v # <<<<>>>>
  <2>1. encs \in Seq(Seq(X)) /\ encs # <<>> /\ DOMAIN encs = 1 .. Len(v)
    <3>1. encs \in [1 .. Len(v) -> Seq(X)]
      BY <1>2, <1>3
    <3>2. Len(v) # 0
      BY <1>1, <1>7, EmptySeq
    <3> HIDE DEF encs
    <3>3. encs \in Seq(Seq(X)) /\ DOMAIN encs = 1 .. Len(v)
      BY <1>2, <3>1, SeqDef
    <3>4. encs # <<>>
      BY <1>2, <3>2, <3>3
    <3> QED
      BY <3>3, <3>4
  <2>2. \A i \in 1 .. Len(v) : encs[i] = B64Enc(v[i])
    BY <1>2
  <2> HIDE DEF encs
  <2>3. enc \in Seq(X \cup {Comma}) /\ Split(enc, Comma) = encs
    BY <1>4, <2>1, JoinSplit
  <2>4. enc # <<>>
    <3> SUFFICES ASSUME enc = <<>> PROVE FALSE
      OBVIOUS
    <3>1. encs = <<<<>>>>
      BY <1>4, <2>1, JoinEmpty
    <3>8. DOMAIN <<<<>>>> = 1 .. 1 /\ <<<<>>>>[1] = <<>>
      OBVIOUS
    <3>9. DOMAIN encs = 1 .. Len(v)
      BY <2>1
    <3>2. 1 .. Len(v) = 1 .. 1 /\ encs[1] = <<>>
      BY <3>1, <3>8, <3>9
    <3>3. Len(v) = 1
      BY <1>2, <3>2
    <3>4. B64Enc(v[1]) = <<>>
      BY <2>2, <3>2, <3>3
    <3>5. v[1] = <<>>
      BY <3>4 DEF B64Enc
    <3>6. v = [i \in 1 .. 1 |-> <<>>]
      BY <1>2, <3>3, <3>5
    <3> QED
      BY <1>7, <3>6
  <2>5. \A i \in DOMAIN encs : B64Dec(encs[i]) = {v[i]}
    BY <2>1, <2>2, B64RoundTrip
  <2>6. DecodeAll(B64Dec, encs) = {[i \in DOMAIN encs |-> v[i]]}
    BY <2>5, OnlyOne DEF DecodeAll
  <2>7. DeserializeSlice(enc) = {v} /\ SliceAsRead(v) = v
    BY <1>2, <1>7, <2>1, <2>3, <2>4, <2>6 DEF DeserializeSlice, SliceAsRead
  <2> QED
    BY <1>5, <2>3, <2>7 DEF X, T
<1> QED
  BY <1>6, <1>7, <1>8

\* A field is written without a dot or a semicolon.
Clean(enc) == enc \in Seq(Range(enc)) /\ Dot \notin Range(enc) /\ Semi \notin Range(enc)

\* It is so when its tokens are neither.
LEMMA CleanIs ==
  ASSUME NEW Y, NEW enc \in Seq(Y), Dot \notin Y, Semi \notin Y
  PROVE  Clean(enc)
BY SeqOfRange, RangeOfSeq DEF Clean

\* The parts of a message are those it was framed of, and its first semicolon
\* is its last token (getParts, ReadBytes).
LEMMA FrameRoundTrip ==
  ASSUME NEW n \in Nat, n > 0, NEW parts, parts = [i \in 1 .. n |-> parts[i]],
         \A i \in 1 .. n : Clean(parts[i])
  PROVE  /\ Frame(parts) # <<>>
         /\ GetParts(Frame(parts), n) = {parts}
         /\ FirstFrame(Frame(parts)) = Frame(parts)
<1> DEFINE X == UNION {Range(parts[i]) : i \in 1 .. n}
           joined == Join(parts, Dot)
<1>1. Dot \notin X /\ Semi \notin X
  BY DEF Clean
<1>2. ASSUME NEW i \in 1 .. n PROVE parts[i] \in Seq(X)
  <2>1. parts[i] \in Seq(Range(parts[i])) /\ Range(parts[i]) \subseteq X
    BY DEF Clean
  <2> HIDE DEF X
  <2> QED
    BY <2>1, SeqMonotonic
<1> HIDE DEF X
<1>3. parts \in Seq(Seq(X)) /\ DOMAIN parts = 1 .. n
  <2>1. parts \in [1 .. n -> Seq(X)]
    BY <1>2
  <2> QED
    BY <2>1, SeqDef
<1>4. Len(parts) = n
  BY <1>3, LenProperties
<1>5. parts # <<>>
  <2>1. 1 \in DOMAIN parts
    BY <1>3
  <2> QED
    BY <2>1
<1>6. joined \in Seq(X \cup {Dot}) /\ Split(joined, Dot) = parts
  BY <1>1, <1>3, <1>5, JoinSplit
<1>7. Semi \notin X \cup {Dot}
  BY <1>1 DEF Semi, Dot
<1> DEFINE bytes == joined \o <<Semi>>
           Y == X \cup {Dot}
<1> HIDE DEF joined, Y
<1>8. joined \in Seq(Y) /\ Semi \notin Y
  BY <1>6, <1>7 DEF Y
<1>9. Frame(parts) = bytes
  BY DEF Frame, joined
<1>10. Len(joined) \in Nat /\ \A i \in 1 .. Len(joined) : joined[i] \in Y
  BY <1>8, LenProperties, ElementOfSeq
<1>11. /\ joined \in Seq(Y \cup {Semi}) /\ <<Semi>> \in Seq(Y \cup {Semi})
       /\ Len(<<Semi>>) = 1 /\ <<Semi>>[1] = Semi
  <2>1. joined \in Seq(Y \cup {Semi})
    BY <1>8, SeqMonotonic
  <2> QED
    BY <2>1
<1>12. /\ Len(bytes) = Len(joined) + 1 /\ bytes \in Seq(Y \cup {Semi})
       /\ \A i \in 1 .. Len(joined) : bytes[i] = joined[i]
       /\ bytes[Len(joined) + 1] = Semi
  BY <1>10, <1>11, ConcatProperties
<1>13. Front(bytes) = joined
  <2>1. SubSeq(bytes, 1, Len(joined)) = joined
    BY <1>11, SubSeqOfConcat1
  <2> QED
    BY <1>10, <1>12, <2>1 DEF Front
<1>14. Last(bytes) = Semi
  BY <1>12 DEF Last
<1>15. GetParts(bytes, n) = {parts}
  BY <1>4, <1>6, <1>13, <1>14 DEF GetParts
<1>16. FirstFrame(bytes) = bytes
  <2> DEFINE I == {i \in 1 .. Len(bytes) : bytes[i] = Semi}
  <2> HIDE DEF bytes
  <2>1. I = {Len(bytes)}
    BY <1>8, <1>10, <1>12
  <2>2. SelectInSeq(bytes, LAMBDA b : b = Semi) = IF I # {} THEN Min(I) ELSE 0
    BY DEF SelectInSeq
  <2>3. Min({Len(bytes)}) = Len(bytes)
    BY <1>10, <1>12 DEF Min
  <2>4. SelectInSeq(bytes, LAMBDA b : b = Semi) = Len(bytes)
    BY <2>1, <2>2, <2>3
  <2>5. SubSeq(bytes, 1, Len(bytes)) = bytes
    BY <1>12, SubSeqFull
  <2> QED
    BY <2>4, <2>5 DEF FirstFrame
<1>17. bytes # <<>>
  BY <1>10, <1>12
<1> QED
  BY <1>9, <1>15, <1>16, <1>17

\* A slice is written without a dot or a semicolon.
LEMMA SliceClean ==
  ASSUME NEW v, IsSlice(v)
  PROVE  Clean(SerializeSlice(v))
<1>1. SerializeSlice(v) \in Seq({<<"base64", t>> : t \in Range(v)} \cup {Comma})
  BY SliceRoundTrip
<1>2. /\ Dot \notin {<<"base64", t>> : t \in Range(v)} \cup {Comma}
      /\ Semi \notin {<<"base64", t>> : t \in Range(v)} \cup {Comma}
  BY DEF Dot, Semi, Comma
<1> QED
  BY <1>1, <1>2, CleanIs

\* A peer ID is read as it was written, the nil one too.
LEMMA PeerIDRoundTrip ==
  ASSUME NEW p, IsPeerID(p)
  PROVE  DecodePeerID(EncodePeerID(p)) = {p} /\ Clean(EncodePeerID(p))
<1> DEFINE t == <<Text(p)>>
<1>1. t # <<>>
  OBVIOUS
<1>2. CASE p = NoPeer
  <2>1. EncodePeerID(p) = <<>>
    BY <1>2 DEF EncodePeerID
  <2>2. Clean(<<>>)
    <3>1. <<>> \in Seq({})
      OBVIOUS
    <3> QED
      BY <3>1, CleanIs
  <2> QED
    BY <1>2, <2>1, <2>2 DEF DecodePeerID
<1>3. CASE p # NoPeer
  <2> HIDE DEF t
  <2>1. EncodePeerID(p) = B64Enc(t)
    BY <1>3 DEF EncodePeerID, t
  <2>2. B64Enc(t) # <<>>
    BY <1>1 DEF B64Enc
  <2>3. B64Dec(B64Enc(t)) = {t} /\ B64Enc(t) \in Seq({<<"base64", t>>})
    BY B64RoundTrip
  <2>4. DecodePeerID(B64Enc(t)) = {q \in Peer : <<Text(q)>> = t}
    BY <2>2, <2>3 DEF DecodePeerID
  <2>5. \A q : <<Text(q)>> = t <=> q = p
    BY DEF t, Text
  <2>6. p \in Peer
    BY <1>3 DEF IsPeerID
  <2>7. Dot \notin {<<"base64", t>>} /\ Semi \notin {<<"base64", t>>}
    BY DEF Dot, Semi
  <2>8. Clean(B64Enc(t))
    BY <2>3, <2>7, CleanIs
  <2> QED
    BY <2>1, <2>4, <2>5, <2>6, <2>8
<1> QED
  BY <1>2, <1>3

\* So is a peer with its addresses, but for one empty address
\* (serializePeersResponse, deserializePeersResponse).
LEMMA PeerRoundTrip ==
  ASSUME NEW p, IsPeer(p)
  PROVE  PeerStr(p) # <<>> /\ DecodePeer(PeerStr(p)) = {<<p[1], SliceAsRead(p[2])>>}
<1> DEFINE a == EncodePeerID(p[1])
           b == SerializeSlice(p[2])
           parts == <<a, b>>
<1>1. p = <<p[1], p[2]>> /\ IsPeerID(p[1]) /\ IsSlice(p[2])
  BY DEF IsPeer
<1>2. DecodePeerID(a) = {p[1]} /\ Clean(a)
  BY <1>1, PeerIDRoundTrip
<1>3. DeserializeSlice(b) = {SliceAsRead(p[2])} /\ Clean(b)
  BY <1>1, SliceRoundTrip, SliceClean
<1> HIDE DEF a, b
<1>4. parts = [i \in 1 .. 2 |-> parts[i]] /\ parts[1] = a /\ parts[2] = b
  OBVIOUS
<1>5. \A i \in 1 .. 2 : Clean(parts[i])
  BY <1>2, <1>3, <1>4
<1>6. PeerStr(p) = Frame(parts)
  BY DEF PeerStr, a, b
<1> HIDE DEF parts
<1>7. GetParts(Frame(parts), 2) = {parts} /\ Frame(parts) # <<>>
  <2>1. ASSUME NEW n, n = 2
        PROVE  GetParts(Frame(parts), n) = {parts} /\ Frame(parts) # <<>>
    <3>1. n \in Nat /\ n > 0
      BY <2>1
    <3>2. parts = [i \in 1 .. n |-> parts[i]] /\ \A i \in 1 .. n : Clean(parts[i])
      BY <1>4, <1>5, <2>1
    <3> QED
      BY <3>1, <3>2, FrameRoundTrip
  <2> QED
    BY <2>1
<1>8. DecodePeer(PeerStr(p)) = DecodePeerID(parts[1]) \X DeserializeSlice(parts[2])
  BY <1>6, <1>7 DEF DecodePeer
<1>9. DecodePeer(PeerStr(p)) = {p[1]} \X {SliceAsRead(p[2])}
  BY <1>2, <1>3, <1>4, <1>8
<1> QED
  BY <1>6, <1>7, <1>9

\* So is every field but a witness selector nobody knows.
LEMMA FieldRoundTrip ==
  ASSUME NEW kind, kind # "mark", NEW v, IsField(kind, v)
  PROVE  /\ Clean(Encode(kind, v))
         /\ Decode(kind, Encode(kind, v)) =
              IF kind = "selector" /\ v \notin Selector THEN Failed ELSE {AsRead(kind, v)}
<1>1. CASE kind = "peer"
  <2>1. IsPeerID(v)
    BY <1>1 DEF IsField
  <2>2. Encode(kind, v) = EncodePeerID(v) /\ Decode(kind, EncodePeerID(v)) = DecodePeerID(EncodePeerID(v))
    BY <1>1 DEF Encode, Decode
  <2>3. AsRead(kind, v) = v
    BY <1>1 DEF AsRead
  <2> QED
    BY <1>1, <2>1, <2>2, <2>3, PeerIDRoundTrip
<1>2. CASE kind = "slice"
  <2>1. IsSlice(v)
    BY <1>2 DEF IsField
  <2>2. Encode(kind, v) = SerializeSlice(v)
        /\ Decode(kind, SerializeSlice(v)) = DeserializeSlice(SerializeSlice(v))
    BY <1>2 DEF Encode, Decode
  <2>3. AsRead(kind, v) = SliceAsRead(v)
    BY <1>2 DEF AsRead
  <2> QED
    BY <1>2, <2>1, <2>2, <2>3, SliceRoundTrip, SliceClean
<1>3. CASE kind = "peers"
  <2> DEFINE strs == [i \in DOMAIN v |-> PeerStr(v[i])]
             w == [i \in DOMAIN v |-> <<v[i][1], SliceAsRead(v[i][2])>>]
  <2>1. v \in Seq(Range(v)) /\ \A i \in DOMAIN v : IsPeer(v[i])
    BY <1>3 DEF IsField, IsSlice
  <2>2. IsSlice(strs) /\ strs # <<<<>>>>
    <3>1. DOMAIN v = 1 .. Len(v) /\ Len(v) \in Nat
      BY <2>1, LenProperties
    <3>2. strs \in [1 .. Len(v) -> Range(strs)]
      BY <3>1 DEF Range
    <3>3. strs \in Seq(Range(strs))
      BY <3>1, <3>2, SeqDef
    <3>4. \A i \in DOMAIN strs : strs[i] # <<>>
      BY <2>1, PeerRoundTrip
    <3>5. DOMAIN <<<<>>>> = 1 .. 1 /\ <<<<>>>>[1] = <<>>
      OBVIOUS
    <3> QED
      BY <3>3, <3>4, <3>5 DEF IsSlice
  <2>3. Encode(kind, v) = SerializeSlice(strs)
    BY <1>3 DEF Encode
  <2>4. \A i \in DOMAIN v : DecodePeer(strs[i]) = {w[i]}
    BY <2>1, PeerRoundTrip
  <2>5. w = [i \in DOMAIN v |-> w[i]] /\ DOMAIN strs = DOMAIN v
    OBVIOUS
  <2>9. AsRead(kind, v) = w
    BY <1>3 DEF AsRead
  <2> HIDE DEF strs, w
  <2>6. DecodeAll(DecodePeer, strs) = {w}
    BY <2>4, <2>5, OnlyOne DEF DecodeAll
  <2>7. Decode(kind, SerializeSlice(strs)) =
          UNION {DecodeAll(DecodePeer, strs2) : strs2 \in DeserializeSlice(SerializeSlice(strs))}
    BY <1>3 DEF Decode
  <2>8. DeserializeSlice(SerializeSlice(strs)) = {strs} /\ Clean(SerializeSlice(strs))
    BY <2>2, SliceRoundTrip, SliceClean DEF SliceAsRead
  <2> QED
    BY <1>3, <2>3, <2>6, <2>7, <2>8, <2>9
<1>4. CASE kind \notin {"peer", "slice", "peers"}
  <2> DEFINE enc == <<<<kind, v>>>>
  <2>1. Encode(kind, v) = enc
    BY <1>4 DEF Encode, Plain
  <2>2. Clean(enc)
    <3>1. enc \in Seq({<<kind, v>>})
      OBVIOUS
    <3>2. Dot \notin {<<kind, v>>} /\ Semi \notin {<<kind, v>>}
      BY DEF Dot, Semi
    <3> QED
      BY <3>1, <3>2, CleanIs
  <2>3. Len(enc) = 1 /\ enc[1][1] = kind /\ enc[1][2] = v
    OBVIOUS
  <2>4. Parse(kind, enc) = {v}
    BY <2>3 DEF Parse
  <2> HIDE DEF enc
  <2>5. Decode(kind, enc) = IF kind = "selector" THEN {v} \cap Selector ELSE {v}
    BY <1>4, <2>4 DEF Decode
  <2>6. AsRead(kind, v) = v
    BY <1>4 DEF AsRead
  <2> QED
    BY <2>1, <2>2, <2>5, <2>6 DEF Failed
<1> QED
  BY <1>1, <1>2, <1>3, <1>4

-----------------------------------------------------------------------------
(* Messages over streams.                                                  *)

\* The kinds of the fields of requests and answers.
Kind == {"id", "peer", "selector", "num", "slice", "bool", "peers"}

\* The format of a request is a sequence of kinds.
LEMMA FormatType ==
  ASSUME NEW p \in DOMAIN RequestFormat
  PROVE  RequestFormat[p] \in Seq(Kind) /\ RequestFormat[p] # <<>>
<1>1. p \in {"connect", "witness", "peers", "notification", "close"}
  BY DEF RequestFormat
<1>2. RequestFormat[p] \in {<<"id", "peer", "peer", "selector">>, <<"num">>, <<"id", "peer">>, <<"id">>}
  BY <1>1 DEF RequestFormat
<1>3. <<"id", "peer", "peer", "selector">> \in Seq(Kind) /\ <<"id", "peer", "peer", "selector">> # <<>>
  BY DEF Kind
<1>4. <<"num">> \in Seq(Kind) /\ <<"num">> # <<>>
  BY DEF Kind
<1>5. <<"id", "peer">> \in Seq(Kind) /\ <<"id", "peer">> # <<>>
  BY DEF Kind
<1>6. <<"id">> \in Seq(Kind) /\ <<"id">> # <<>>
  BY DEF Kind
<1> QED
  BY <1>2, <1>3, <1>4, <1>5, <1>6

\* So is that of an answer.
LEMMA AnswerType ==
  ASSUME NEW p \in DOMAIN AnswerFormat
  PROVE  AnswerFormat[p] \in Seq(Kind) /\ AnswerFormat[p] # <<>>
<1>1. AnswerFormat[p] \in {<<"id", "slice", "bool", "slice">>, <<"peers">>}
  BY DEF AnswerFormat
<1>2. <<"id", "slice", "bool", "slice">> \in Seq(Kind) /\ <<"id", "slice", "bool", "slice">> # <<>>
  BY DEF Kind
<1>3. <<"peers">> \in Seq(Kind) /\ <<"peers">> # <<>>
  BY DEF Kind
<1> QED
  BY <1>1, <1>2, <1>3

\* A message is read as it was written, from its bytes and from those up to the
\* first semicolon, save for slices of one empty text, or not at all if it has
\* such a selector.
LEMMA MessageRoundTrip ==
  ASSUME NEW format \in Seq(Kind), format # <<>>, NEW m, IsMessage(format, m)
  PROVE  /\ Deserialize(format, Serialize(format, m)) =
              IF Readable(format, m) THEN {MessageAsRead(format, m)} ELSE Failed
         /\ FirstFrame(Serialize(format, m)) = Serialize(format, m)
<1> DEFINE n == Len(format)
           parts == [i \in DOMAIN format |-> Encode(format[i], m[i])]
           field(i) == UNION {Decode(format[i], p[i]) : p \in {parts}}
<1>0. \A i \in 1 .. n : format[i] # "mark"
  BY ElementOfSeq DEF Kind
<1>1. DOMAIN format = 1 .. n /\ n \in Nat /\ n > 0
  BY EmptySeq, LenProperties
<1>2. m = [i \in 1 .. n |-> m[i]] /\ \A i \in 1 .. n : IsField(format[i], m[i])
  BY <1>1 DEF IsMessage
<1>3. parts = [i \in 1 .. n |-> parts[i]] /\ \A i \in 1 .. n : parts[i] = Encode(format[i], m[i])
  BY <1>1
<1>4. Serialize(format, m) = Frame(parts)
  BY DEF Serialize
<1> HIDE DEF parts, n
<1>5. \A i \in 1 .. n : Clean(parts[i])
  <2> TAKE i \in 1 .. n
  <2>1. format[i] # "mark" /\ IsField(format[i], m[i]) /\ parts[i] = Encode(format[i], m[i])
    BY <1>0, <1>2, <1>3
  <2> QED
    BY <2>1, FieldRoundTrip
<1>6. GetParts(Frame(parts), n) = {parts} /\ FirstFrame(Frame(parts)) = Frame(parts)
  BY <1>1, <1>3, <1>5, FrameRoundTrip
<1>7. Deserialize(format, Frame(parts)) =
        IF \A i \in 1 .. n : field(i) # Failed THEN {[i \in 1 .. n |-> Only(field(i))]} ELSE Failed
  BY <1>1, <1>6 DEF Deserialize, n
<1>8. ASSUME NEW i \in 1 .. n
      PROVE  field(i) = IF format[i] = "selector" /\ m[i] \notin Selector THEN Failed
                        ELSE {AsRead(format[i], m[i])}
  <2>1. field(i) = Decode(format[i], parts[i])
    OBVIOUS
  <2> QED
    BY <1>0, <1>2, <1>3, <2>1, FieldRoundTrip
<1> HIDE DEF field
<1>9. (\A i \in 1 .. n : field(i) # Failed) <=> Readable(format, m)
  BY <1>1, <1>8, OnlyOne DEF Readable
<1>10. ASSUME Readable(format, m) PROVE [i \in 1 .. n |-> Only(field(i))] = MessageAsRead(format, m)
  <2>1. \A i \in 1 .. n : Only(field(i)) = AsRead(format[i], m[i])
    BY <1>1, <1>8, <1>10, OnlyOne DEF Readable
  <2>2. MessageAsRead(format, m) = [i \in 1 .. n |-> AsRead(format[i], m[i])]
    BY <1>1 DEF MessageAsRead
  <2> QED
    BY <2>1, <2>2
<1> QED
  BY <1>4, <1>6, <1>7, <1>9, <1>10

\* A request has neither slices nor peers, and is read as it is.
LEMMA RequestAsRead ==
  ASSUME NEW p \in DOMAIN RequestFormat, NEW m, IsMessage(RequestFormat[p], m)
  PROVE  MessageAsRead(RequestFormat[p], m) = m
<1> DEFINE format == RequestFormat[p]
<1>1. \A i \in DOMAIN format : format[i] \notin {"slice", "peers"}
  BY DEF RequestFormat
<1>2. m = [i \in DOMAIN format |-> m[i]]
  BY DEF IsMessage
<1> HIDE DEF format
<1>3. \A i \in DOMAIN format : AsRead(format[i], m[i]) = m[i]
  BY <1>1 DEF AsRead
<1>4. MessageAsRead(format, m) = m
  BY <1>2, <1>3 DEF MessageAsRead
<1> QED
  BY <1>4 DEF format

\* Every request is decoded as it was sent, from what is read of it, unless it
\* names a witness selector nobody knows, and every answer as it was returned,
\* save that a list of one empty text comes as an empty list (serde.go).
THEOREM RoundTripHolds == RoundTrip
<1>1. ASSUME NEW p \in DOMAIN Requests, NEW m \in Requests[p]
      PROVE  DecodedRequest[p][m] = IF Readable(RequestFormat[p], m) THEN {m} ELSE Failed
  <2> DEFINE format == RequestFormat[p]
  <2>1. p \in DOMAIN RequestFormat /\ IsMessage(format, m)
    BY ProtocolAssumption, MessageAssumption
  <2>2. format \in Seq(Kind) /\ format # <<>>
    BY <2>1, FormatType
  <2>3. /\ Deserialize(format, Serialize(format, m)) =
             IF Readable(format, m) THEN {MessageAsRead(format, m)} ELSE Failed
        /\ FirstFrame(Serialize(format, m)) = Serialize(format, m)
    <3> HIDE DEF format
    <3> QED
      BY <2>1, <2>2, MessageRoundTrip
  <2>4. MessageAsRead(format, m) = m
    BY <2>1, RequestAsRead
  <2> QED
    BY <2>1, <2>3, <2>4 DEF DecodedRequest
<1>2. ASSUME NEW p \in DOMAIN Answers, NEW m \in Answers[p]
      PROVE  DecodedAnswer[p][m] = {MessageAsRead(AnswerFormat[p], m)}
  <2> DEFINE format == AnswerFormat[p]
  <2>1. p \in DOMAIN AnswerFormat /\ IsMessage(format, m)
    BY ProtocolAssumption, MessageAssumption
  <2>2. format \in Seq(Kind) /\ format # <<>>
    BY <2>1, AnswerType
  <2>3. Readable(format, m)
    BY <2>1 DEF AnswerFormat, Readable
  <2>4. Deserialize(format, Serialize(format, m)) = {MessageAsRead(format, m)}
    <3> HIDE DEF format
    <3> QED
      BY <2>1, <2>2, <2>3, MessageRoundTrip
  <2> QED
    BY <2>1, <2>4 DEF DecodedAnswer
<1> QED
  BY <1>1, <1>2 DEF RoundTrip

-----------------------------------------------------------------------------
(* Streams.                                                                *)


\* The part of the type invariant that does not speak of messages.
ControlOK ==
  /\ client \in [Stream -> ClientState]
  /\ server \in [Stream -> ServerState]
  /\ written \subseteq Stream

\* A stream on which an answer is due is closed only after the answer.
ClosedIsAnswered == \A s \in Stream : (HasResp /\ server[s] = "closed") => s \in written

\* The inductive invariant.
IInv == ControlOK /\ ClosedIsAnswered /\ ReturnedIsAnswered

\* The invariant holds before any stream is opened.
LEMMA InvInit ==
  ASSUME Init
  PROVE  IInv
BY DEF Init, IInv, ControlOK, ClientState, ServerState, ClosedIsAnswered, ReturnedIsAnswered

\* The calls of Send and Exchange keep it.
LEMMA ClientInv ==
  ASSUME IInv, NEW s \in Stream, OpenStream(s) \/ ClientStep(s) \/ ClientVanishes(s)
  PROVE  IInv'
<1>1. protocol' = protocol /\ server' = server /\ written' = written
  BY DEF OpenStream, ClientStep, WriteRequest, ReadAnswer, ReadReset, ReadDeadline,
         ClientVanishes, messages
<1>2. HasResp' = HasResp
  BY <1>1 DEF HasResp
<1>. USE <1>1, <1>2 DEF IInv, ControlOK, ClientState, ClosedIsAnswered, ReturnedIsAnswered, Client
<1>3. CASE OpenStream(s)
  BY <1>3 DEF OpenStream
<1>4. CASE WriteRequest(s)
  BY <1>4 DEF WriteRequest
<1>5. CASE ReadAnswer(s)
  BY <1>5 DEF ReadAnswer
<1>6. CASE ReadReset(s)
  BY <1>6 DEF ReadReset
<1>7. CASE ReadDeadline(s)
  BY <1>7 DEF ReadDeadline
<1>8. CASE ClientVanishes(s)
  BY <1>8 DEF ClientVanishes
<1>. QED
  BY <1>3, <1>4, <1>5, <1>6, <1>7, <1>8 DEF ClientStep

\* So do the goroutines that serve the streams.
LEMMA ServerInv ==
  ASSUME IInv, NEW s \in Stream, Serve(s) \/ ServerStep(s) \/ ServerVanishes(s)
  PROVE  IInv'
<1>1. protocol' = protocol /\ client' = client
  BY DEF Serve, ServerStep, ReadRequest, ReadFails, DecodeFails, DecodeWord, CopyWord, CallHandler,
         HandlerReturns, WriteAnswer, ServerVanishes, messages
<1>2. HasResp' = HasResp
  BY <1>1 DEF HasResp
<1>. USE <1>1, <1>2 DEF IInv, ControlOK, ServerState, ClosedIsAnswered, ReturnedIsAnswered, Server
<1>3. CASE Serve(s)
  BY <1>3 DEF Serve
<1>4. CASE ReadRequest(s)
  BY <1>4 DEF ReadRequest
<1>5. CASE ReadFails(s)
  BY <1>5 DEF ReadFails
<1>6. CASE DecodeFails(s)
  BY <1>6 DEF DecodeFails
<1>7. CASE DecodeWord(s) \/ CopyWord(s)
  BY <1>7 DEF DecodeWord, CopyWord
<1>8. CASE CallHandler(s)
  BY <1>8 DEF CallHandler
<1>9. CASE HandlerReturns(s)
  BY <1>9 DEF HandlerReturns
<1>10. CASE WriteAnswer(s)
  BY <1>10 DEF WriteAnswer
<1>11. CASE ServerVanishes(s)
  BY <1>11 DEF ServerVanishes
<1>. QED
  BY <1>3, <1>4, <1>5, <1>6, <1>7, <1>8, <1>9, <1>10, <1>11 DEF ServerStep

-----------------------------------------------------------------------------
\* An Exchange without an error has an answer that was written in full, and
\* none panics on an empty one, for any number of streams and any messages:
\* an error at the other node is never taken for an answer.
THEOREM ReturnedIsAnsweredHolds == Spec => []ReturnedIsAnswered
<1>1. Init => IInv
  BY InvInit
<1>2. IInv /\ [Next]_vars => IInv'
  <2>1. ASSUME IInv, UNCHANGED vars
        PROVE  IInv'
    BY <2>1 DEF IInv, ControlOK, ClosedIsAnswered, ReturnedIsAnswered, HasResp, vars, messages
  <2>. QED
    BY <2>1, ClientInv, ServerInv DEF Next
<1>3. IInv => ReturnedIsAnswered
  BY DEF IInv
<1>. QED
  BY <1>1, <1>2, <1>3, PTL DEF Spec

-----------------------------------------------------------------------------
(* What messages come to.                                                  *)

\* A request has words, of fields it has.
LEMMA WordsType ==
  ASSUME NEW p \in DOMAIN RequestFormat
  PROVE  RequestWords[p] \in Seq(Nat)
<1>1. p \in {"connect", "witness", "peers", "notification", "close"}
  BY DEF RequestFormat
<1>2. RequestWords[p] \in {<<1, 1, 2, 3, 4, 4>>, <<1>>, <<1, 1, 2>>, <<1, 1>>}
  BY <1>1 DEF RequestWords
<1>3. <<1, 1, 2, 3, 4, 4>> \in Seq(Nat) /\ <<1>> \in Seq(Nat) /\ <<1, 1, 2>> \in Seq(Nat) /\ <<1, 1>> \in Seq(Nat)
  OBVIOUS
<1> QED
  BY <1>2, <1>3

\* A request is decoded from a stream that was opened with it.
Opened ==
  /\ protocol \in DOMAIN Requests
  /\ DOMAIN sent = Stream /\ DOMAIN decoded = Stream
  /\ DOMAIN output = Stream /\ DOMAIN got = Stream
  /\ DOMAIN req = DOMAIN Words /\ Len(Words) \in Nat /\ DOMAIN Words = 1 .. Len(Words)
  /\ \A s \in Stream :
       /\ decoded[s] \in Nat
       /\ client[s] # "idle" => sent[s] \in Requests[protocol]
       /\ server[s] # "none" => client[s] # "idle"
       /\ decoded[s] > 0 => server[s] # "none"

\* What is in w, where the i-th word of the variable may be, is that word of a
\* request that somebody has decoded so far.
IsSent(i, w) == \E r \in Stream : decoded[r] >= i /\ w = sent[r][Words[i]]

\* The words of the variable that somebody has decoded are some request's.
Decodings ==
  \A s \in Stream : \A i \in DOMAIN Words : decoded[s] >= i => IsSent(i, req[i])

\* So are those that have been copied, all of them once the handler is called.
Copies ==
  /\ DOMAIN copied = Stream /\ DOMAIN handled = Stream
  /\ \A s \in Stream :
       /\ copied[s] \in Nat /\ DOMAIN handled[s] = DOMAIN Words
       /\ server[s] = "handling" => copied[s] = Len(Words)
       /\ server[s] \in {"none", "reading", "decoding", "handling"} =>
            \A i \in 1 .. copied[s] : i \in DOMAIN Words /\ IsSent(i, handled[s][i])

WordInv == ControlOK /\ Opened /\ Decodings /\ Copies

\* It holds before any stream is opened.
LEMMA WordInit == Init => WordInv
<1> SUFFICES ASSUME Init PROVE WordInv
  OBVIOUS
<1>1. protocol \in DOMAIN Requests /\ Words \in Seq(Nat)
  BY ProtocolAssumption, WordsType DEF Init, Words
<1>2. Len(Words) \in Nat /\ DOMAIN Words = 1 .. Len(Words)
  BY <1>1, LenProperties
<1>3. ControlOK
  BY DEF Init, ControlOK, ClientState, ServerState
<1>4. Opened
  BY <1>1, <1>2 DEF Init, Opened, Zero
<1>5. Decodings
  BY <1>2 DEF Init, Decodings
<1>6. Copies
  BY DEF Init, Copies, Zero
<1> QED
  BY <1>3, <1>4, <1>5, <1>6 DEF WordInv

\* Words that were sent stay sent when nothing is taken back.
LEMMA StaysSent ==
  ASSUME Opened, UNCHANGED protocol, DOMAIN decoded' = Stream,
         \A r \in Stream : decoded'[r] \in Nat /\ decoded[r] <= decoded'[r],
         \A r \in Stream : decoded[r] > 0 => sent'[r] = sent[r],
         NEW i \in DOMAIN Words, NEW w, IsSent(i, w)
  PROVE  IsSent(i, w)'
<1>1. PICK r \in Stream : decoded[r] >= i /\ w = sent[r][Words[i]]
  BY DEF IsSent
<1>2. Words' = Words
  BY DEF Words
<1>3. i \in Nat /\ i > 0 /\ decoded[r] \in Nat
  BY DEF Opened
<1>4. decoded'[r] >= i /\ sent'[r] = sent[r]
  BY <1>1, <1>3
<1> QED
  BY <1>1, <1>2, <1>4 DEF IsSent

\* Opening a stream sets its request, of which nothing is decoded; the rest of
\* the calls leave what has been decoded alone.
LEMMA WordClient ==
  ASSUME WordInv, IInv', NEW s \in Stream, OpenStream(s) \/ ClientStep(s) \/ ClientVanishes(s)
  PROVE  WordInv'
<1>1. UNCHANGED <<protocol, server, req, decoded, copied, handled, output>>
  BY DEF OpenStream, ClientStep, WriteRequest, ReadAnswer, ReadReset, ReadDeadline, ClientVanishes, messages
<1>2. Words' = Words
  BY <1>1 DEF Words
<1>3. \A r \in Stream : client'[r] = "idle" => client[r] = "idle"
  BY DEF OpenStream, ClientStep, WriteRequest, ReadAnswer, ReadReset, ReadDeadline, ClientVanishes,
         Client, WordInv, ControlOK
<1>4. DOMAIN got' = Stream
  BY DEF OpenStream, ClientStep, WriteRequest, ReadAnswer, ReadReset, ReadDeadline, ClientVanishes,
         messages, WordInv, Opened
<1>5. Opened' /\ \A r \in Stream : decoded[r] > 0 => sent'[r] = sent[r]
  <2>1. CASE OpenStream(s)
    <3>1. PICK m \in Requests[protocol] : sent' = [sent EXCEPT ![s] = m]
      BY <2>1 DEF OpenStream
    <3>2. client[s] = "idle" /\ \A r \in Stream \ {s} : client'[r] = client[r] /\ sent'[r] = sent[r]
      BY <2>1, <3>1 DEF OpenStream, Client, WordInv, ControlOK, Opened
    <3> QED
      BY <1>1, <1>2, <1>3, <1>4, <3>1, <3>2 DEF WordInv, Opened
  <2>2. CASE ClientStep(s) \/ ClientVanishes(s)
    <3>1. sent' = sent /\ \A r \in Stream : client'[r] # "idle" => client[r] # "idle"
      BY <2>2
      DEF ClientStep, WriteRequest, ReadAnswer, ReadReset, ReadDeadline, ClientVanishes, messages,
          Client, WordInv, ControlOK
    <3> QED
      BY <1>1, <1>2, <1>3, <1>4, <3>1 DEF WordInv, Opened
  <2> QED
    BY <2>1, <2>2
<1>6. \A r \in Stream : decoded'[r] \in Nat /\ decoded[r] <= decoded'[r]
  BY <1>1 DEF WordInv, Opened
<1>7. ASSUME NEW i \in DOMAIN Words, NEW w, IsSent(i, w) PROVE IsSent(i, w)'
  BY <1>1, <1>5, <1>6, <1>7, StaysSent DEF WordInv, Opened
<1>8. Decodings'
  BY <1>1, <1>2, <1>7 DEF WordInv, Decodings
<1>9. Copies'
  BY <1>1, <1>2, <1>7 DEF WordInv, Copies
<1> QED
  BY <1>5, <1>8, <1>9 DEF WordInv, IInv

\* The domains stay when a stream is served, and so does what concerns only the
\* call that opened it.
LEMMA ServerOpened ==
  ASSUME WordInv, NEW s \in Stream, Serve(s) \/ ServerStep(s) \/ ServerVanishes(s),
         DOMAIN req' = DOMAIN req, DOMAIN decoded' = Stream,
         \A r \in Stream : decoded'[r] \in Nat /\ (decoded'[r] > 0 => server'[r] # "none")
  PROVE  Opened'
<1>1. protocol' = protocol /\ client' = client /\ sent' = sent /\ got' = got
  BY DEF Serve, ServerStep, ReadRequest, ReadFails, DecodeFails, DecodeWord, CopyWord, CallHandler,
         HandlerReturns, WriteAnswer, ServerVanishes, messages
<1>2. Words' = Words
  BY <1>1 DEF Words
<1>3. DOMAIN output' = Stream
  BY DEF Serve, ServerStep, ReadRequest, ReadFails, DecodeFails, DecodeWord, CopyWord, CallHandler,
         HandlerReturns, WriteAnswer, ServerVanishes, messages, WordInv, Opened
<1>4. \A r \in Stream : server[r] = "none" /\ server'[r] # "none" => client[r] # "idle"
  BY DEF Serve, ServerStep, ReadRequest, ReadFails, DecodeFails, DecodeWord, CopyWord, CallHandler,
         HandlerReturns, WriteAnswer, ServerVanishes, messages, Server, WordInv, ControlOK
<1> QED
  BY <1>1, <1>2, <1>3, <1>4 DEF WordInv, Opened

\* A word that is decoded is that of the stream's own request.
LEMMA WordDecoded ==
  ASSUME WordInv, IInv', NEW s \in Stream, DecodeWord(s)
  PROVE  WordInv'
<1> DEFINE g == decoded[s] + 1
<1>1. UNCHANGED <<protocol, server, sent, copied, handled>>
  BY DEF DecodeWord
<1>2. Words' = Words
  BY <1>1 DEF Words
<1>3. /\ server[s] = "decoding" /\ g <= Len(Words)
      /\ decoded' = [decoded EXCEPT ![s] = g]
      /\ \E m \in Request(s) : req' = [req EXCEPT ![g] = m[Words[g]]]
  BY DEF DecodeWord
<1>4. protocol \in DOMAIN Requests /\ sent[s] \in Requests[protocol]
  BY <1>3 DEF WordInv, Opened
<1>5. Request(s) \in {{sent[s]}, Failed}
  BY <1>4, RoundTripHolds DEF RoundTrip, Request
<1>6. req' = [req EXCEPT ![g] = sent[s][Words[g]]]
  BY <1>3, <1>5 DEF Failed
<1>7. g \in DOMAIN Words /\ decoded'[s] = g /\ \A r \in Stream \ {s} : decoded'[r] = decoded[r]
  BY <1>3 DEF WordInv, Opened
<1>8. DOMAIN req' = DOMAIN req /\ req'[g] = sent[s][Words[g]] /\ \A i \in DOMAIN Words \ {g} : req'[i] = req[i]
  BY <1>6, <1>7 DEF WordInv, Opened
<1>9. DOMAIN decoded' = Stream /\ \A r \in Stream : decoded'[r] \in Nat /\ decoded[r] <= decoded'[r]
  BY <1>3, <1>7 DEF WordInv, Opened
<1>10. Opened'
  <2>1. \A r \in Stream : decoded'[r] > 0 => server'[r] # "none"
    BY <1>1, <1>3, <1>7 DEF WordInv, Opened
  <2> QED
    BY <1>8, <1>9, <2>1, ServerOpened DEF ServerStep
<1>11. ASSUME NEW i \in DOMAIN Words, NEW w, IsSent(i, w) PROVE IsSent(i, w)'
  BY <1>1, <1>9, <1>11, StaysSent DEF WordInv
<1>12. Decodings'
  <2> SUFFICES ASSUME NEW r \in Stream, NEW i \in DOMAIN Words, decoded'[r] >= i
               PROVE  IsSent(i, req[i])'
    BY <1>2 DEF Decodings
  <2>1. CASE i = g
    BY <1>1, <1>2, <1>7, <1>8, <2>1 DEF IsSent, WordInv, Opened
  <2>2. CASE i # g
    <3>1. decoded[r] >= i
      BY <1>7, <2>2 DEF WordInv, Opened
    <3>2. IsSent(i, req[i])
      BY <3>1 DEF WordInv, Decodings
    <3>3. req'[i] = req[i]
      BY <1>8, <2>2
    <3>4. ASSUME NEW w, w = req[i] PROVE IsSent(i, w)'
      BY <1>11, <3>2, <3>4
    <3> QED
      BY <3>3, <3>4 DEF IsSent
  <2> QED
    BY <2>1, <2>2
<1>13. Copies'
  BY <1>1, <1>2, <1>11 DEF WordInv, Copies
<1> QED
  BY <1>10, <1>12, <1>13 DEF WordInv, IInv

\* A word that is copied is one that has been decoded.
LEMMA WordCopied ==
  ASSUME WordInv, IInv', NEW s \in Stream, CopyWord(s)
  PROVE  WordInv'
<1> DEFINE g == copied[s] + 1
<1>1. UNCHANGED <<protocol, server, sent, req, decoded>>
  BY DEF CopyWord
<1>2. Words' = Words
  BY <1>1 DEF Words
<1>3. /\ server[s] = "decoding" /\ decoded[s] = Len(Words) /\ g <= Len(Words)
      /\ handled' = [handled EXCEPT ![s][g] = req[g]] /\ copied' = [copied EXCEPT ![s] = g]
  BY DEF CopyWord, Decoded
<1>4. copied[s] \in Nat /\ g \in DOMAIN Words
  BY <1>3 DEF WordInv, Opened, Copies
<1>5. Opened'
  BY <1>1, ServerOpened DEF WordInv, Opened, ServerStep
<1>6. Decodings'
  BY <1>1, <1>2 DEF WordInv, Decodings, IsSent
<1>7. /\ DOMAIN copied' = Stream /\ DOMAIN handled' = Stream
      /\ \A r \in Stream \ {s} : copied'[r] = copied[r] /\ handled'[r] = handled[r]
      /\ copied'[s] = g /\ DOMAIN handled'[s] = DOMAIN handled[s] /\ handled'[s][g] = req[g]
      /\ \A i \in DOMAIN Words \ {g} : handled'[s][i] = handled[s][i]
  BY <1>3, <1>4 DEF WordInv, Copies
<1>8. IsSent(g, req[g])
  BY <1>3, <1>4 DEF WordInv, Opened, Decodings
<1>9. \A i \in 1 .. g : i = g \/ i \in 1 .. copied[s]
  BY <1>4
<1>10. \A i \in 1 .. g : i \in DOMAIN Words /\ IsSent(i, handled'[s][i])
  BY <1>3, <1>4, <1>7, <1>8, <1>9 DEF WordInv, Copies
<1>11. ASSUME NEW r \in Stream
       PROVE  /\ copied'[r] \in Nat /\ DOMAIN handled'[r] = DOMAIN Words
              /\ server[r] = "handling" => copied'[r] = Len(Words)
              /\ server[r] \in {"none", "reading", "decoding", "handling"} =>
                   \A i \in 1 .. copied'[r] : i \in DOMAIN Words /\ IsSent(i, handled'[r][i])
  <2>1. CASE r = s
    BY <1>3, <1>4, <1>7, <1>10, <2>1 DEF WordInv, Copies
  <2>2. CASE r # s
    BY <1>7, <2>2 DEF WordInv, Copies
  <2> QED
    BY <2>1, <2>2
<1>12. Copies'
  BY <1>1, <1>2, <1>7, <1>11 DEF Copies, IsSent
<1> QED
  BY <1>5, <1>6, <1>12 DEF WordInv, IInv

\* Serving a stream decodes a word, copies one or leaves the variable alone.
LEMMA WordServer ==
  ASSUME WordInv, IInv', NEW s \in Stream, Serve(s) \/ ServerStep(s) \/ ServerVanishes(s)
  PROVE  WordInv'
<1>1. CASE ~DecodeWord(s) /\ ~CopyWord(s)
  <2>1. UNCHANGED <<protocol, sent, req, decoded, copied>>
    BY <1>1
    DEF Serve, ServerStep, ReadRequest, ReadFails, DecodeFails, CallHandler, HandlerReturns, WriteAnswer,
        ServerVanishes, messages
  <2>2. Words' = Words
    BY <2>1 DEF Words
  <2>3. \A r \in Stream : server'[r] = "none" => server[r] = "none"
    BY <1>1
    DEF Serve, ServerStep, ReadRequest, ReadFails, DecodeFails, CallHandler, HandlerReturns, WriteAnswer,
        ServerVanishes, Server, WordInv, ControlOK
  <2>4. Opened'
    BY <2>1, <2>3, ServerOpened DEF WordInv, Opened
  <2>5. Decodings'
    BY <2>1, <2>2 DEF WordInv, Decodings, IsSent
  <2>6. DOMAIN handled' = Stream /\ \A r \in Stream : DOMAIN handled'[r] = DOMAIN Words
    BY <1>1
    DEF Serve, ServerStep, ReadRequest, ReadFails, DecodeFails, CallHandler, HandlerReturns, WriteAnswer,
        ServerVanishes, messages, WordInv, Copies, Zero
  <2>7. \A r \in Stream : server'[r] \in {"none", "reading", "decoding", "handling"} =>
          /\ server[r] \in {"none", "reading", "decoding", "handling"} /\ handled'[r] = handled[r]
          /\ server'[r] = "handling" => server[r] = "handling" \/ copied[r] = Len(Words)
    BY <1>1
    DEF Serve, ServerStep, ReadRequest, ReadFails, DecodeFails, CallHandler, HandlerReturns, WriteAnswer,
        ServerVanishes, messages, Server, WordInv, ControlOK, Copies
  <2>8. ASSUME NEW r \in Stream, server'[r] \in {"none", "reading", "decoding", "handling"},
               NEW i \in 1 .. copied[r]
        PROVE  i \in DOMAIN Words /\ IsSent(i, handled[r][i]) /\ handled'[r] = handled[r]
    BY <2>7, <2>8 DEF WordInv, Copies
  <2>9. ASSUME NEW r \in Stream, server'[r] = "handling" PROVE copied[r] = Len(Words)
    BY <2>7, <2>9 DEF WordInv, Copies
  <2>10. ASSUME NEW r \in Stream, server'[r] \in {"none", "reading", "decoding", "handling"},
                NEW i \in 1 .. copied[r]
         PROVE  IsSent(i, handled[r][i])'
    <3>1. IsSent(i, handled[r][i]) /\ handled'[r][i] = handled[r][i]
      BY <2>8, <2>10
    <3> QED
      BY <2>1, <2>2, <3>1 DEF IsSent
  <2>11. Copies'
    BY <2>1, <2>2, <2>6, <2>8, <2>9, <2>10 DEF WordInv, Copies
  <2> QED
    BY <2>4, <2>5, <2>11 DEF WordInv, IInv
<1> QED
  BY <1>1, WordDecoded, WordCopied

\* Every step keeps it.
LEMMA WordStep ==
  ASSUME IInv, WordInv, [Next]_vars
  PROVE  (IInv /\ WordInv)'
<1>1. ASSUME UNCHANGED vars PROVE (IInv /\ WordInv)'
  <2>1. UNCHANGED <<protocol, client, server, sent, req, decoded, copied, handled, output, written, got>>
    BY <1>1 DEF vars, messages
  <2>2. IInv'
    BY <2>1 DEF IInv, ControlOK, ClosedIsAnswered, ReturnedIsAnswered, HasResp
  <2>3. Opened'
    BY <2>1 DEF WordInv, Opened, Words
  <2>4. Decodings'
    BY <2>1 DEF WordInv, Decodings, IsSent, Words
  <2>5. Copies'
    BY <2>1 DEF WordInv, Copies, IsSent, Words
  <2> QED
    BY <2>2, <2>3, <2>4, <2>5 DEF WordInv, IInv
<1> QED
  BY <1>1, ClientInv, ServerInv, WordClient, WordServer DEF Next

\* No handler sees a word that nobody sent, for any number of streams decoded
\* into the one variable, and copied from it, word by word (readWriteWrapper).
THEOREM WordsWereSentHolds == Spec => []WordsWereSent
<1>1. Init => IInv /\ WordInv
  BY InvInit, WordInit
<1>2. IInv /\ WordInv /\ [Next]_vars => (IInv /\ WordInv)'
  BY WordStep
<1>3. WordInv => WordsWereSent
  <2> SUFFICES ASSUME WordInv, NEW s \in Stream, server[s] = "handling", NEW i \in DOMAIN Words
               PROVE  IsSent(i, handled[s][i])
    BY DEF WordsWereSent, IsSent
  <2>1. copied[s] = Len(Words) /\ i \in 1 .. copied[s]
    BY DEF WordInv, Opened, Copies
  <2> QED
    BY <2>1 DEF WordInv, Copies
<1> QED
  BY <1>1, <1>2, <1>3, PTL DEF Spec

\* The only request that cannot be read is one with a witness selector nobody
\* knows, whatever its fields hold (deserialize).
THEOREM OnlySelectorFailsHolds == Spec => []OnlySelectorFails
<1>1. Init => IInv /\ WordInv
  BY InvInit, WordInit
<1>2. IInv /\ WordInv /\ [Next]_vars => (IInv /\ WordInv)'
  BY WordStep
<1>3. WordInv => OnlySelectorFails
  <2> SUFFICES ASSUME WordInv, NEW s \in Stream, server[s] = "decoding"
               PROVE  Request(s) = Failed <=>
                        \E f \in DOMAIN Format : Format[f] = "selector" /\ sent[s][f] \notin Selector
    BY DEF OnlySelectorFails
  <2>1. protocol \in DOMAIN Requests /\ sent[s] \in Requests[protocol]
    BY ProtocolAssumption DEF WordInv, Opened
  <2>2. Request(s) = IF Readable(Format, sent[s]) THEN {sent[s]} ELSE Failed
    BY <2>1, RoundTripHolds DEF RoundTrip, Request, Format
  <2> QED
    BY <2>2 DEF Readable, Failed
<1> QED
  BY <1>1, <1>2, <1>3, PTL DEF Spec

\* An answer is on its stream, and the call that waits for it reads that one.
Delivery ==
  \A s \in Stream :
    /\ server[s] \in {"decoding", "handling", "writing", "closed"} => Sent(s)
    /\ HasResp /\ client[s] \in {"returned", "panicked"} => server[s] = "closed"
    /\ s \in written => server[s] = "closed"
    /\ s \in written \/ server[s] = "writing" => HasResp /\ output[s] \in Answers[protocol]

Domains == DOMAIN output = Stream /\ DOMAIN got = Stream

AnswerInv == ControlOK /\ Domains /\ Delivery /\ AnswerDelivered

\* The calls keep it: they read the answer once it is there.
LEMMA AnswerClient ==
  ASSUME AnswerInv, IInv', NEW s \in Stream, OpenStream(s) \/ ClientStep(s) \/ ClientVanishes(s)
  PROVE  AnswerInv'
<1>1. protocol' = protocol /\ server' = server /\ output' = output /\ written' = written
  BY DEF OpenStream, ClientStep, WriteRequest, ReadAnswer, ReadReset, ReadDeadline, ClientVanishes, messages
<1>2. HasResp' = HasResp
  BY <1>1 DEF HasResp
<1>3. Domains'
  BY DEF OpenStream, ClientStep, WriteRequest, ReadAnswer, ReadReset, ReadDeadline, ClientVanishes,
         messages, AnswerInv, Domains
<1>. USE <1>1, <1>2, <1>3 DEF AnswerInv, ControlOK, Domains, Delivery, AnswerDelivered, Sent, Client
<1>4. CASE OpenStream(s)
  BY <1>4 DEF OpenStream, IInv
<1>5. CASE WriteRequest(s)
  BY <1>5 DEF WriteRequest, IInv, messages
<1>6. CASE ReadAnswer(s)
  <2>1. CASE s \notin written
    BY <1>6, <2>1 DEF ReadAnswer, IInv
  <2>2. CASE s \in written
    <3> DEFINE a == MessageAsRead(AnswerFormat[protocol], output[s])
    <3>1. DecodedAnswer[protocol][output[s]] = {a} /\ DecodedAnswer[protocol][output[s]] # Failed
      BY <2>2, ProtocolAssumption, RoundTripHolds DEF RoundTrip, HasResp, Failed
    <3>2. Only({a}) = a
      BY DEF Only
    <3>3. Client(s, "waiting", "returned") /\ got' = [got EXCEPT ![s] = a] /\ server[s] = "closed"
      BY <1>6, <2>2, <3>1, <3>2 DEF ReadAnswer
    <3> QED
      BY <2>2, <3>3 DEF IInv
  <2> QED
    BY <2>1, <2>2
<1>7. CASE ReadReset(s)
  BY <1>7 DEF ReadReset, IInv, messages
<1>8. CASE ReadDeadline(s)
  BY <1>8 DEF ReadDeadline, IInv, messages
<1>9. CASE ClientVanishes(s)
  BY <1>9 DEF ClientVanishes, IInv, messages
<1>. QED
  BY <1>4, <1>5, <1>6, <1>7, <1>8, <1>9 DEF ClientStep

\* The goroutines keep it: they write what the handler returned.
LEMMA AnswerServer ==
  ASSUME AnswerInv, IInv', NEW s \in Stream, Serve(s) \/ ServerStep(s) \/ ServerVanishes(s)
  PROVE  AnswerInv'
<1>1. protocol' = protocol /\ client' = client /\ got' = got
  BY DEF Serve, ServerStep, ReadRequest, ReadFails, DecodeFails, DecodeWord, CopyWord, CallHandler,
         HandlerReturns, WriteAnswer, ServerVanishes, messages
<1>2. HasResp' = HasResp
  BY <1>1 DEF HasResp
<1>. USE <1>1, <1>2 DEF AnswerInv, ControlOK, Domains, Delivery, AnswerDelivered, Sent, Server
<1>3. CASE HandlerReturns(s)
  <2>1. CASE Server(s, "handling", "writing") /\ \E m \in Answer : output' = [output EXCEPT ![s] = m]
    BY <1>3, <2>1 DEF HandlerReturns, Answer, IInv
  <2>2. CASE Server(s, "handling", "closed") /\ ~HasResp /\ UNCHANGED output
    BY <1>3, <2>2 DEF HandlerReturns, IInv
  <2>3. CASE Server(s, "handling", "reset") /\ UNCHANGED output
    BY <1>3, <2>3 DEF HandlerReturns, IInv
  <2> QED
    BY <1>3, <2>1, <2>2, <2>3 DEF HandlerReturns
<1>4. CASE WriteAnswer(s)
  <2>1. CASE Server(s, "writing", "closed") /\ written' = written \cup {s}
    BY <1>4, <2>1 DEF WriteAnswer, IInv, messages
  <2>2. CASE Server(s, "writing", "reset") /\ UNCHANGED written
    BY <1>4, <2>2 DEF WriteAnswer, IInv, messages
  <2> QED
    BY <1>4, <2>1, <2>2 DEF WriteAnswer
<1>5. CASE Serve(s)
  BY <1>5 DEF Serve, IInv, messages
<1>6. CASE ReadRequest(s) \/ ReadFails(s) \/ DecodeFails(s) \/ ServerVanishes(s)
  BY <1>6 DEF ReadRequest, ReadFails, DecodeFails, ServerVanishes, IInv, messages
<1>7. CASE DecodeWord(s) \/ CopyWord(s) \/ CallHandler(s)
  BY <1>7 DEF DecodeWord, CopyWord, CallHandler, IInv, messages
<1>. QED
  BY <1>3, <1>4, <1>5, <1>6, <1>7 DEF ServerStep

\* What an Exchange returns is what the handler returned on its own stream,
\* with an empty list for a list of one empty text (Exchange, readWriteWrapper).
THEOREM AnswerDeliveredHolds == Spec => []AnswerDelivered
<1>1. Init => IInv /\ AnswerInv
  <2>1. Init => AnswerInv
    BY DEF Init, AnswerInv, ControlOK, ClientState, ServerState, Domains, Delivery, AnswerDelivered
  <2> QED
    BY <2>1, InvInit
<1>2. IInv /\ AnswerInv /\ [Next]_vars => (IInv /\ AnswerInv)'
  <2>1. ASSUME IInv, AnswerInv, UNCHANGED vars PROVE (IInv /\ AnswerInv)'
    BY <2>1
    DEF IInv, ControlOK, ClosedIsAnswered, ReturnedIsAnswered, HasResp, vars, messages, AnswerInv,
        Domains, Delivery, AnswerDelivered, Sent
  <2> QED
    BY <2>1, ClientInv, ServerInv, AnswerClient, AnswerServer DEF Next
<1>3. AnswerInv => AnswerDelivered
  BY DEF AnswerInv
<1> QED
  BY <1>1, <1>2, <1>3, PTL DEF Spec

-----------------------------------------------------------------------------
(* Types.                                                                  *)

\* The number of words of a request is a number.
LEMMA WordCount ==
  ASSUME protocol \in DOMAIN RequestFormat
  PROVE  Len(Words) \in Nat /\ DOMAIN Words = 1 .. Len(Words)
<1>1. Words \in Seq(Nat)
  BY WordsType DEF Words
<1> QED
  BY <1>1, LenProperties

\* The variables have their types at first.
LEMMA TypeInit ==
  ASSUME Init
  PROVE  TypeOK
<1>1. Len(Words) \in Nat
  BY WordCount DEF Init
<1> QED
  BY <1>1 DEF Init, TypeOK, ClientState, ServerState, Zero

\* The calls of Send and Exchange keep them.
LEMMA TypeClient ==
  ASSUME TypeOK, NEW s \in Stream, OpenStream(s) \/ ClientStep(s) \/ ClientVanishes(s)
  PROVE  TypeOK'
<1>1. /\ UNCHANGED <<protocol, server, req, decoded, copied, handled, output, written>>
  BY DEF OpenStream, ClientStep, WriteRequest, ReadAnswer, ReadReset, ReadDeadline, ClientVanishes,
         messages
<1>2. Words' = Words /\ Answer' = Answer
  BY <1>1 DEF Words, Answer, HasResp
<1>3. sent' \in [Stream -> Requests[protocol] \cup {Nil}]
  BY DEF TypeOK, OpenStream, ClientStep, WriteRequest, ReadAnswer, ReadReset, ReadDeadline,
         ClientVanishes, messages
<1>4. client' \in [Stream -> ClientState]
  BY DEF TypeOK, OpenStream, ClientStep, WriteRequest, ReadAnswer, ReadReset, ReadDeadline,
         ClientVanishes, Client, ClientState
<1> QED
  BY <1>1, <1>2, <1>3, <1>4 DEF TypeOK

\* So do the goroutines that serve the streams, and they call no handler before
\* its request is decoded.
LEMMA TypeServer ==
  ASSUME TypeOK, NEW s \in Stream, Serve(s) \/ ServerStep(s) \/ ServerVanishes(s)
  PROVE  TypeOK'
<1>1. protocol' = protocol /\ client' = client /\ sent' = sent
  BY DEF Serve, ServerStep, ReadRequest, ReadFails, DecodeFails, DecodeWord, CopyWord, CallHandler,
         HandlerReturns, WriteAnswer, ServerVanishes, messages
<1>2. Words' = Words /\ Answer' = Answer
  BY <1>1 DEF Words, Answer, HasResp
<1>3. server' \in [Stream -> ServerState]
  BY DEF TypeOK, Serve, ServerStep, ReadRequest, ReadFails, DecodeFails, DecodeWord, CopyWord, CallHandler,
         HandlerReturns, WriteAnswer, ServerVanishes, Server, ServerState
<1>4. CASE DecodeWord(s)
  <2>1. decoded' = [decoded EXCEPT ![s] = decoded[s] + 1] /\ decoded[s] + 1 <= Len(Words)
    BY <1>4 DEF DecodeWord
  <2>2. decoded' \in [Stream -> 0 .. Len(Words)]
    BY <2>1, WordCount DEF TypeOK
  <2>3. DOMAIN req' = DOMAIN req /\ UNCHANGED <<server, copied, handled, output, written>> /\ server[s] = "decoding"
    BY <1>4 DEF DecodeWord
  <2>4. \A r \in Stream : copied[r] > 0 => decoded'[r] = Len(Words)
    BY <2>1, WordCount DEF TypeOK
  <2> QED
    BY <1>1, <1>2, <2>2, <2>3, <2>4 DEF TypeOK
<1>5. CASE CopyWord(s)
  <2>1. copied' = [copied EXCEPT ![s] = copied[s] + 1] /\ copied[s] + 1 <= Len(Words)
    BY <1>5 DEF CopyWord
  <2>2. copied' \in [Stream -> 0 .. Len(Words)]
    BY <2>1, WordCount DEF TypeOK
  <2>3. UNCHANGED <<server, req, decoded, output, written>> /\ server[s] = "decoding" /\ decoded[s] = Len(Words)
    BY <1>5 DEF CopyWord, Decoded
  <2>4. DOMAIN handled' = Stream /\ \A r \in Stream : DOMAIN handled'[r] = DOMAIN handled[r]
    BY <1>5 DEF CopyWord, TypeOK
  <2>5. \A r \in Stream \ {s} : copied'[r] = copied[r]
    BY <2>1 DEF TypeOK
  <2>6. \A r \in Stream : copied'[r] > 0 => decoded[r] = Len(Words)
    BY <2>3, <2>5 DEF TypeOK
  <2>7. \A r \in Stream : server[r] \in {"handling", "writing"} => copied'[r] = Len(Words)
    BY <2>3, <2>5 DEF TypeOK
  <2> QED
    BY <1>1, <1>2, <2>2, <2>3, <2>4, <2>6, <2>7 DEF TypeOK
<1>6. CASE HandlerReturns(s)
  <2>1. UNCHANGED <<req, decoded, copied, written>> /\ server[s] = "handling"
    BY <1>6 DEF HandlerReturns, Server
  <2>2. DOMAIN handled' = Stream /\ \A r \in Stream : handled'[r] \in {handled[r], Zero}
    BY <1>6 DEF HandlerReturns, TypeOK
  <2>3. output' \in [Stream -> Answer \cup {Nil}]
    BY <1>6 DEF HandlerReturns, TypeOK
  <2>4. \A r \in Stream \ {s} : server'[r] = server[r]
    BY <1>6 DEF HandlerReturns, Server, TypeOK
  <2> QED
    BY <1>1, <1>2, <1>3, <2>1, <2>2, <2>3, <2>4 DEF TypeOK, Zero
<1>7. CASE CallHandler(s)
  <2>1. UNCHANGED <<req, decoded, copied, handled, output, written>> /\ server[s] = "decoding"
        /\ copied[s] = Len(Words)
    BY <1>7 DEF CallHandler, Server, messages
  <2>2. \A r \in Stream \ {s} : server'[r] = server[r]
    BY <1>7 DEF CallHandler, Server, TypeOK
  <2> QED
    BY <1>1, <1>2, <1>3, <2>1, <2>2 DEF TypeOK
<1>8. CASE Serve(s) \/ ReadRequest(s) \/ ReadFails(s) \/ DecodeFails(s) \/ WriteAnswer(s) \/ ServerVanishes(s)
  <2>1. UNCHANGED <<req, decoded, copied, output>> /\ written' \in SUBSET Stream
    BY <1>8 DEF TypeOK, Serve, ReadRequest, ReadFails, DecodeFails, WriteAnswer, ServerVanishes, messages
  <2>2. DOMAIN handled' = Stream /\ \A r \in Stream : handled'[r] \in {handled[r], Zero}
    BY <1>8 DEF TypeOK, Serve, ReadRequest, ReadFails, DecodeFails, WriteAnswer, ServerVanishes, messages
  <2>3. \A r \in Stream : server'[r] \in {"handling", "writing"} => server[r] = server'[r]
    BY <1>8 DEF TypeOK, Serve, ReadRequest, ReadFails, DecodeFails, WriteAnswer, ServerVanishes, Server
  <2> QED
    BY <1>1, <1>2, <1>3, <2>1, <2>2, <2>3 DEF TypeOK, Zero
<1> QED
  BY <1>4, <1>5, <1>6, <1>7, <1>8 DEF ServerStep

\* The variables keep their types for any streams and any messages, and a
\* handler is only called once its request is decoded to the end
\* (readWriteWrapper).
THEOREM StreamTypeCorrect == Spec => []TypeOK
<1>1. TypeOK /\ [Next]_vars => TypeOK'
  <2>1. ASSUME TypeOK, UNCHANGED vars PROVE TypeOK'
    BY <2>1 DEF TypeOK, vars, messages, Words, Answer, HasResp
  <2> QED
    BY <2>1, TypeClient, TypeServer DEF Next
<1> QED
  BY TypeInit, <1>1, PTL DEF Spec
=============================================================================
