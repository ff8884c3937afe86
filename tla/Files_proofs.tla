----------------------------- MODULE Files_proofs ------------------------------
(* What the steps of the programs that work on files keep.                     *)
EXTENDS Files, FiniteSets, FiniteSetTheorems, SequenceTheorems,
  WellFoundedInduction, TLAPS

-----------------------------------------------------------------------------
(* Induction, as a fact about sets.                                          *)

LEMMA SetInduction ==
  ASSUME NEW T, 0 \in T, \A k \in Nat : k \in T => k + 1 \in T
  PROVE  \A k \in Nat : k \in T
<1> SUFFICES ASSUME NEW k \in Nat, k \notin T PROVE FALSE
    OBVIOUS
<1> DEFINE D == Nat \ T
           R == OpToRel(<, Nat)
<1>1. \A x, y \in Nat : x < y => <<x, y>> \in R
  BY DEF OpToRel
<1>2. IsWellFoundedOn(R, Nat)
  BY NatLessThanWellFounded
<1>3. D \subseteq Nat /\ D # {}
  OBVIOUS
<1> HIDE DEF R
<1>4. PICK x \in D : \A y \in D : <<y, x>> \notin R
  <2> HIDE DEF D
  <2>1. QED
    BY <1>2, <1>3, WFMin
<1>5. x \in Nat /\ x # 0
  BY <1>4
<1>6. x - 1 \in Nat /\ x - 1 < x /\ (x - 1) + 1 = x
  BY <1>5
<1>7. <<x - 1, x>> \in R
  BY <1>1, <1>5, <1>6
<1>8. x - 1 \in T
  BY <1>4, <1>6, <1>7
<1>9. QED
  BY <1>4, <1>6, <1>8

\* What iterating the steps st from a gives.
Iterates(f, a, st) == f[0] = a /\ \A k \in Nat : f[k + 1] = st[k][f[k]]

\* Iterated steps on the values of X define a function.
LEMMA Recursion ==
  ASSUME NEW X, NEW a \in X, NEW st \in [Nat -> [X -> X]]
  PROVE  \E f \in [Nat -> X] : Iterates(f, a, st)
<1> DEFINE Good(m, g) == /\ g \in [0..m -> X] /\ g[0] = a
                         /\ \A k \in 0..m - 1 : g[k + 1] = st[k][g[k]]
           T == {m \in Nat : \E g \in [0..m -> X] : Good(m, g)}
<1>1. 0 \in T
  <2>1. Good(0, [k \in 0..0 |-> a])
    OBVIOUS
  <2> HIDE DEF Good
  <2>2. [k \in 0..0 |-> a] \in [0..0 -> X]
    OBVIOUS
  <2>3. QED
    BY <2>1, <2>2
<1>2. ASSUME NEW m \in Nat, m \in T PROVE m + 1 \in T
  <2>1. PICK g \in [0..m -> X] : Good(m, g)
    BY <1>2
  <2> DEFINE h == [k \in 0..m + 1 |-> IF k = m + 1 THEN st[m][g[m]] ELSE g[k]]
  <2>2. st[m][g[m]] \in X
    OBVIOUS
  <2>3. h \in [0..m + 1 -> X] /\ h[0] = a
    BY <2>1, <2>2
  <2>4. ASSUME NEW k \in 0..(m + 1) - 1 PROVE h[k + 1] = st[k][h[k]]
    <3>1. h[k] = g[k] /\ k \in 0..m
      OBVIOUS
    <3>2. CASE k = m
      <4>1. h[k + 1] = st[m][g[m]]
        BY <3>2
      <4> HIDE DEF h
      <4>2. QED
        BY <3>1, <3>2, <4>1
    <3>3. CASE k # m
      <4>1. k \in 0..m - 1 /\ h[k + 1] = g[k + 1]
        BY <3>3
      <4>2. QED
        BY <2>1, <3>1, <4>1
    <3>4. QED
      BY <3>2, <3>3
  <2> HIDE DEF h
  <2>5. Good(m + 1, h)
    BY <2>3, <2>4
  <2> HIDE DEF Good
  <2>6. m + 1 \in Nat
    OBVIOUS
  <2>7. QED
    BY <2>3, <2>5, <2>6
<1>3. \A m \in Nat : \E g \in [0..m -> X] : Good(m, g)
  <2>1. \A m \in Nat : m \in T
    <3> HIDE DEF T
    <3>1. QED
      BY <1>1, <1>2, SetInduction
  <2>2. QED
    BY <2>1
\* Two such functions agree.
<1>4. ASSUME NEW m \in Nat, NEW k \in Nat, m <= k, NEW g, NEW h, Good(m, g), Good(k, h)
      PROVE  \A j \in 0..m : g[j] = h[j]
  <2> DEFINE E == {j \in Nat : j <= m => g[j] = h[j]}
  <2>1. 0 \in E
    BY <1>4
  <2>2. ASSUME NEW j \in Nat, j \in E PROVE j + 1 \in E
    <3>1. SUFFICES ASSUME j + 1 <= m PROVE g[j + 1] = h[j + 1]
      OBVIOUS
    <3>2. j \in 0..m - 1 /\ j \in 0..k - 1 /\ g[j] = h[j]
      BY <2>2, <3>1, <1>4
    <3>3. QED
      BY <3>2, <1>4
  <2>3. \A j \in Nat : j \in E
    <3> HIDE DEF E
    <3>1. QED
      BY <2>1, <2>2, SetInduction
  <2>4. QED
    BY <2>3
<1> DEFINE G(m) == CHOOSE g \in [0..m -> X] : Good(m, g)
           f == [m \in Nat |-> G(m)[m]]
<1>5. \A m \in Nat : Good(m, G(m))
  BY <1>3
<1> HIDE DEF G
<1>6. f \in [Nat -> X] /\ f[0] = a
  BY <1>5
<1>7. ASSUME NEW k \in Nat PROVE f[k + 1] = st[k][f[k]]
  <2>1. k + 1 \in Nat /\ k <= k + 1 /\ k \in 0..k /\ k \in 0..(k + 1) - 1
    OBVIOUS
  <2>2. G(k)[k] = G(k + 1)[k]
    <3>1. Good(k, G(k)) /\ Good(k + 1, G(k + 1))
      BY <1>5, <2>1
    <3> HIDE DEF Good
    <3>2. QED
      BY <1>4, <2>1, <3>1
  <2>3. G(k + 1)[k + 1] = st[k][G(k + 1)[k]]
    BY <1>5, <2>1
  <2>4. QED
    BY <2>1, <2>2, <2>3
<1> HIDE DEF f
<1>8. Iterates(f, a, st)
  BY <1>6, <1>7 DEF Iterates
<1>9. QED
  BY <1>6, <1>8

-----------------------------------------------------------------------------
(* LeeHomework4: the walk of a tree that others change.                      *)

(* strlen(), which counts a name after the other.                            *)

\* The count up to each name.
IsCount(f, b, p) ==
  /\ f \in [0..Len(p) -> Nat]
  /\ f[0] = b
  /\ \A k \in 1..Len(p) : f[k] = f[k - 1] + 1 + NameLen[p[k]]

LEMMA CharsCount ==
  ASSUME NEW p \in Seq(Name), NEW b \in Nat, NameLen \in [Name -> Nat]
  PROVE  \E f : IsCount(f, b, p) /\ Dir!Chars(b, p) = f[Len(p)]
<1> DEFINE L == Len(p)
           st == [k \in Nat |-> [c \in Nat |-> IF k + 1 \in 1..L THEN c + 1 + NameLen[p[k + 1]] ELSE 0]]
           Def(f) == [k \in 0..L |-> IF k = 0 THEN b ELSE f[k - 1] + 1 + NameLen[p[k]]]
<1>1. L \in Nat /\ \A k \in 1..L : p[k] \in Name /\ NameLen[p[k]] \in Nat
  BY ElementOfSeq
<1>2. st \in [Nat -> [Nat -> Nat]]
  <2>1. \A k, c \in Nat : (IF k + 1 \in 1..L THEN c + 1 + NameLen[p[k + 1]] ELSE 0) \in Nat
    BY <1>1
  <2>2. QED
    BY <2>1
<1> HIDE DEF L
<1>3. PICK f \in [Nat -> Nat] : Iterates(f, b, st)
  <2> HIDE DEF st
  <2>1. QED
    BY <1>2, Recursion
<1> DEFINE g == [k \in 0..L |-> f[k]]
<1>4. \A k \in 1..L : f[k] = f[k - 1] + 1 + NameLen[p[k]]
  <2>1. TAKE k \in 1..L
  <2>2. k - 1 \in Nat /\ (k - 1) + 1 = k
    BY <1>1
  <2>3. f[k] = st[k - 1][f[k - 1]]
    BY <1>3, <2>2 DEF Iterates
  <2>4. f[k - 1] \in Nat
    BY <2>2
  <2>5. QED
    BY <2>2, <2>3, <2>4
<1>5. g = Def(g)
  <2>1. \A k \in 0..L : g[k] = IF k = 0 THEN b ELSE g[k - 1] + 1 + NameLen[p[k]]
    <3>1. TAKE k \in 0..L
    <3>2. CASE k = 0
      <4>1. f[0] = b /\ 0 \in 0..L
        BY <1>1, <1>3 DEF Iterates
      <4>2. QED
        BY <3>2, <4>1
    <3>3. CASE k # 0
      <4>1. k \in 1..L /\ k - 1 \in 0..L
        BY <1>1, <3>3
      <4>2. g[k] = f[k] /\ g[k - 1] = f[k - 1]
        BY <4>1
      <4> HIDE DEF g
      <4>3. QED
        BY <1>4, <3>3, <4>1, <4>2
    <3>4. QED
      BY <3>2, <3>3
  <2>2. g = [k \in 0..L |-> g[k]]
    OBVIOUS
  <2> HIDE DEF g
  <2>3. QED
    BY <2>1, <2>2
<1> DEFINE h == CHOOSE h : h = Def(h)
<1>6. h = Def(h)
  <2> HIDE DEF g, Def
  <2>1. QED
    BY <1>5
<1>7. Dir!Chars(b, p) = h[L]
  BY DEF Dir!Chars, L
<1> HIDE DEF h, g
<1>8. h[0] = b /\ \A k \in 1..L : h[k] = h[k - 1] + 1 + NameLen[p[k]]
  <2>1. \A k \in 0..L : Def(h)[k] = IF k = 0 THEN b ELSE h[k - 1] + 1 + NameLen[p[k]]
    OBVIOUS
  <2> HIDE DEF Def
  <2>2. \A k \in 0..L : h[k] = IF k = 0 THEN b ELSE h[k - 1] + 1 + NameLen[p[k]]
    BY <1>6, <2>1, Zenon
  <2>3. 0 \in 0..L /\ \A k \in 1..L : k \in 0..L /\ k # 0
    BY <1>1
  <2>4. h[0] = b
    BY <2>2, <2>3
  <2>5. ASSUME NEW k \in 1..L PROVE h[k] = h[k - 1] + 1 + NameLen[p[k]]
    BY <2>2, <2>3
  <2>6. QED
    BY <2>4, <2>5
<1>9. \A k \in 0..L : h[k] \in Nat
  <2> DEFINE T == {k \in Nat : k <= L => h[k] \in Nat}
  <2>1. 0 \in T
    BY <1>8
  <2>2. ASSUME NEW k \in Nat, k \in T PROVE k + 1 \in T
    <3>1. SUFFICES ASSUME k + 1 <= L PROVE h[k + 1] \in Nat
      OBVIOUS
    <3>2. k + 1 \in 1..L /\ (k + 1) - 1 = k /\ h[k] \in Nat
      BY <1>1, <2>2, <3>1
    <3>3. NameLen[p[k + 1]] \in Nat
      BY <1>1, <3>2
    <3>4. h[k + 1] = h[k] + 1 + NameLen[p[k + 1]]
      BY <1>8, <3>2
    <3>5. \A x, y \in Nat : x + 1 + y \in Nat
      OBVIOUS
    <3>6. QED
      BY <3>2, <3>3, <3>4, <3>5
  <2>3. \A k \in Nat : k \in T
    <3> HIDE DEF T
    <3>1. QED
      BY <2>1, <2>2, SetInduction
  <2>4. QED
    BY <2>3
<1>10. h \in [0..L -> Nat]
  BY <1>6, <1>9
<1>11. QED
  BY <1>7, <1>8, <1>10 DEF IsCount, L

LEMMA CharsGrow ==
  ASSUME NEW p \in Seq(Name), NEW b \in Nat, NameLen \in [Name -> Nat]
  PROVE  /\ Dir!Chars(b, p) \in Nat /\ Dir!Chars(b, <<>>) = b
         /\ \A x \in Name : Dir!Chars(b, Append(p, x)) = Dir!Chars(b, p) + 1 + NameLen[x]
<1>1. PICK f : IsCount(f, b, p) /\ Dir!Chars(b, p) = f[Len(p)]
  BY CharsCount
<1>2. Dir!Chars(b, p) \in Nat
  BY <1>1 DEF IsCount
<1>3. Dir!Chars(b, <<>>) = b
  <2>1. <<>> \in Seq(Name) /\ Len(<<>>) = 0
    OBVIOUS
  <2>2. PICK g : IsCount(g, b, <<>>) /\ Dir!Chars(b, <<>>) = g[Len(<<>>)]
    BY <2>1, CharsCount
  <2>3. QED
    BY <2>1, <2>2 DEF IsCount
<1>4. ASSUME NEW x \in Name
      PROVE  Dir!Chars(b, Append(p, x)) = Dir!Chars(b, p) + 1 + NameLen[x]
  <2> DEFINE r == Append(p, x)
  <2>1. r \in Seq(Name) /\ Len(r) = Len(p) + 1 /\ Len(p) \in Nat /\ r[Len(p) + 1] = x
        /\ \A k \in 1..Len(p) : r[k] = p[k]
    OBVIOUS
  <2> HIDE DEF r
  <2>2. PICK g : IsCount(g, b, r) /\ Dir!Chars(b, r) = g[Len(r)]
    BY <2>1, CharsCount
  <2>3. \A k \in 0..Len(p) : g[k] = f[k]
    <3> DEFINE T == {k \in Nat : k <= Len(p) => g[k] = f[k]}
    <3>1. 0 \in T
      BY <1>1, <2>2 DEF IsCount
    <3>2. ASSUME NEW k \in Nat, k \in T PROVE k + 1 \in T
      <4>1. SUFFICES ASSUME k + 1 <= Len(p) PROVE g[k + 1] = f[k + 1]
        OBVIOUS
      <4>2. k + 1 \in 1..Len(p) /\ k + 1 \in 1..Len(r) /\ (k + 1) - 1 = k /\ g[k] = f[k]
        <5>1. Len(p) \in Nat /\ Len(r) = Len(p) + 1
          BY <2>1
        <5>2. k + 1 \in 1..Len(p) /\ k + 1 \in 1..Len(r) /\ (k + 1) - 1 = k /\ k <= Len(p)
          BY <4>1, <5>1
        <5>3. QED
          BY <3>2, <5>2
      <4>3. g[k + 1] = g[k] + 1 + NameLen[r[k + 1]]
        BY <2>2, <4>2 DEF IsCount
      <4>4. f[k + 1] = f[k] + 1 + NameLen[p[k + 1]]
        BY <1>1, <4>2 DEF IsCount
      <4>5. r[k + 1] = p[k + 1]
        BY <2>1, <4>2
      <4>6. QED
        BY <4>2, <4>3, <4>4, <4>5
    <3>3. \A k \in Nat : k \in T
      <4> HIDE DEF T
      <4>1. QED
        BY <3>1, <3>2, SetInduction
    <3>4. QED
      BY <3>3
  <2>4. g[Len(p) + 1] = g[Len(p)] + 1 + NameLen[x]
    <3>1. Len(p) + 1 \in 1..Len(r) /\ (Len(p) + 1) - 1 = Len(p)
      BY <2>1
    <3>2. g[Len(p) + 1] = g[Len(p)] + 1 + NameLen[r[Len(p) + 1]]
      BY <2>2, <3>1 DEF IsCount
    <3>3. QED
      BY <2>1, <3>2
  <2>5. Dir!Chars(b, r) = Dir!Chars(b, p) + 1 + NameLen[x]
    BY <1>1, <2>1, <2>2, <2>3, <2>4
  <2>6. QED
    BY <2>5 DEF r
<1>5. QED
  BY <1>2, <1>3, <1>4

(* Paths and what is above them.                                             *)

\* The directory k levels below the argument on the way to p.
Cut(p, k) == SubSeq(p, 1, k)

LEMMA WalkConstants ==
  /\ NAME_MAX \in Nat \ {0} /\ PATH_MAX \in Nat /\ PATH_MAX >= NAME_MAX + 2
  /\ NameLen \in [Name -> Nat] /\ (\A x \in Name : NameLen[x] <= NAME_MAX)
  /\ StartLen \subseteq Nat \ {0} /\ MaxDepth \in Nat
  /\ "dir" \notin Kind /\ "." \notin Name /\ ".." \notin Name
<1>1. Dir!DirectoryWalkAssumption
  BY FilesAssumption
<1>2. NAME_MAX \in Nat /\ NameLen \in [Name -> 1..NAME_MAX]
  BY <1>1 DEF Dir!DirectoryWalkAssumption
<1>3. \A x \in Name : NameLen[x] \in Nat /\ NameLen[x] <= NAME_MAX
  BY <1>2
<1>4. NameLen \in [Name -> Nat]
  BY <1>2, <1>3
<1>5. "." \notin Name /\ ".." \notin Name
  BY <1>1 DEF Dir!DirectoryWalkAssumption
<1>6. QED
  BY <1>1, <1>3, <1>4, <1>5 DEF Dir!DirectoryWalkAssumption

LEMMA Paths ==
  ASSUME NEW p
  PROVE  p \in Dir!Path <=> p \in Seq(Name) /\ Len(p) <= MaxDepth
<1>1. Dir!Path = UNION {[1..m -> Name] : m \in 0..MaxDepth}
  BY DEF Dir!Path, Dir!BoundedSeq, Dir!SeqOf
<1>2. ASSUME p \in Dir!Path PROVE p \in Seq(Name) /\ Len(p) <= MaxDepth
  <2>1. PICK m \in 0..MaxDepth : p \in [1..m -> Name]
    BY <1>1, <1>2
  <2>2. m \in Nat /\ m <= MaxDepth
    BY WalkConstants
  <2>3. p \in Seq(Name) /\ Len(p) = m
    BY <2>1, <2>2
  <2>4. QED
    BY <2>2, <2>3
<1>3. ASSUME p \in Seq(Name), Len(p) <= MaxDepth PROVE p \in Dir!Path
  <2>1. Len(p) \in 0..MaxDepth /\ p \in [1..Len(p) -> Name]
    BY <1>3, WalkConstants
  <2>2. QED
    BY <1>1, <2>1
<1>4. QED
  BY <1>2, <1>3

LEMMA Cuts ==
  ASSUME NEW p \in Seq(Name)
  PROVE  /\ Len(p) \in Nat /\ Cut(p, Len(p)) = p /\ Cut(p, 0) = <<>>
         /\ \A k \in 0..Len(p) :
              /\ Cut(p, k) \in Seq(Name) /\ Len(Cut(p, k)) = k
              /\ \A j \in 1..k : Cut(p, k)[j] = p[j]
              /\ \A j \in 0..k : Cut(Cut(p, k), j) = Cut(p, j)
         /\ \A k \in 1..Len(p) : p[k] \in Name /\ Append(Cut(p, k - 1), p[k]) = Cut(p, k)
<1>1. Len(p) \in Nat /\ Cut(p, Len(p)) = p /\ Cut(p, 0) = <<>>
  BY DEF Cut
<1>2. ASSUME NEW k \in 0..Len(p)
      PROVE  /\ Cut(p, k) \in Seq(Name) /\ Len(Cut(p, k)) = k
             /\ \A j \in 1..k : Cut(p, k)[j] = p[j]
  BY DEF Cut
<1>3. ASSUME NEW k \in 0..Len(p), NEW j \in 0..k
      PROVE  Cut(Cut(p, k), j) = Cut(p, j)
  <2>1. Cut(p, k) \in Seq(Name) /\ Len(Cut(p, k)) = k /\ j \in 0..Len(Cut(p, k)) /\ j \in 0..Len(p)
    BY <1>2
  <2> DEFINE a == Cut(Cut(p, k), j)
             b == Cut(p, j)
  <2>2. a \in Seq(Name) /\ Len(a) = j /\ \A h \in 1..j : a[h] = Cut(p, k)[h]
    <3> DEFINE r == Cut(p, k)
    <3>1. r \in Seq(Name) /\ j \in 0..Len(r)
      BY <2>1
    <3> HIDE DEF r
    <3>2. Cut(r, j) \in Seq(Name) /\ Len(Cut(r, j)) = j /\ \A h \in 1..j : Cut(r, j)[h] = r[h]
      BY <3>1 DEF Cut
    <3>3. QED
      BY <3>2 DEF r
  <2>3. b \in Seq(Name) /\ Len(b) = j /\ \A h \in 1..j : b[h] = p[h]
    BY <1>2, <2>1
  <2>4. \A h \in 1..j : a[h] = b[h]
    <3>1. \A h \in 1..j : h \in 1..k
      OBVIOUS
    <3> HIDE DEF a, b
    <3>2. QED
      BY <1>2, <2>2, <2>3, <3>1
  <2> HIDE DEF a, b
  <2>5. a = b
    BY <2>2, <2>3, <2>4, SeqEqual
  <2>6. QED
    BY <2>5 DEF a, b
<1>4. ASSUME NEW k \in 1..Len(p)
      PROVE  p[k] \in Name /\ Append(Cut(p, k - 1), p[k]) = Cut(p, k)
  <2> DEFINE a == Cut(p, k - 1)
             b == Cut(p, k)
             c == Append(a, p[k])
  <2>1. p[k] \in Name /\ k - 1 \in 0..Len(p) /\ k \in 0..Len(p)
    BY ElementOfSeq
  <2>2. a \in Seq(Name) /\ Len(a) = k - 1 /\ \A j \in 1..k - 1 : a[j] = p[j]
    BY <1>2, <2>1
  <2>3. b \in Seq(Name) /\ Len(b) = k /\ \A j \in 1..k : b[j] = p[j]
    BY <1>2, <2>1
  <2> HIDE DEF a, b
  <2>4. c \in Seq(Name) /\ Len(c) = k /\ c[k] = p[k] /\ \A j \in 1..k - 1 : c[j] = a[j]
    BY <2>1, <2>2
  <2> HIDE DEF c
  <2>5. \A j \in 1..k : c[j] = b[j]
    BY <2>2, <2>3, <2>4
  <2>6. c = b
    BY <2>3, <2>4, <2>5, SeqEqual
  <2>7. QED
    BY <2>1, <2>6 DEF a, b, c
<1>5. QED
  BY <1>1, <1>2, <1>3, <1>4

LEMMA CutIs ==
  ASSUME NEW p \in Seq(Name), NEW k \in 0..Len(p)
  PROVE  /\ Cut(p, k) \in Seq(Name) /\ Len(Cut(p, k)) = k
         /\ \A j \in 1..k : Cut(p, k)[j] = p[j]
  BY Cuts

LEMMA CutNext ==
  ASSUME NEW p \in Seq(Name), NEW k \in 1..Len(p), NEW q, q = Cut(p, k - 1)
  PROVE  p[k] \in Name /\ Append(q, p[k]) = Cut(p, k)
  BY Cuts

LEMMA CutWhole ==
  ASSUME NEW p \in Seq(Name)
  PROVE  Cut(p, Len(p)) = p
  BY Cuts

\* A name put behind a path.
LEMMA Deeper ==
  ASSUME NEW p \in Seq(Name), NEW x \in Name
  PROVE  /\ Append(p, x) \in Seq(Name) /\ Len(Append(p, x)) = Len(p) + 1
         /\ Append(p, x)[Len(p) + 1] = x
         /\ \A k \in 1..Len(p) : Append(p, x)[k] = p[k]
         /\ \A k \in 0..Len(p) : Cut(Append(p, x), k) = Cut(p, k)
<1> DEFINE r == Append(p, x)
<1>1. /\ r \in Seq(Name) /\ Len(r) = Len(p) + 1 /\ Len(p) \in Nat
      /\ r[Len(p) + 1] = x /\ \A k \in 1..Len(p) : r[k] = p[k]
  OBVIOUS
<1> HIDE DEF r
<1>2. ASSUME NEW k \in 0..Len(p) PROVE Cut(r, k) = Cut(p, k)
  <2>1. k \in 0..Len(r)
    BY <1>1
  <2> DEFINE a == Cut(r, k)
             b == Cut(p, k)
  <2>2. b \in Seq(Name) /\ Len(b) = k /\ \A j \in 1..k : b[j] = p[j]
    BY CutIs
  <2>3. a \in Seq(Name) /\ Len(a) = k /\ \A j \in 1..k : a[j] = r[j]
    BY <1>1, <2>1, CutIs
  <2> HIDE DEF a, b
  <2>4. \A j \in 1..k : a[j] = b[j]
    BY <1>1, <2>2, <2>3
  <2>5. a = b
    BY <2>2, <2>3, <2>4, SeqEqual
  <2>6. QED
    BY <2>5 DEF a, b
<1>3. QED
  BY <1>1, <1>2 DEF r

(* The inductive invariant.                                                  *)

\* None of the files t is p or above it.
Clear(p, t) == \A k \in 0..Len(p) : Cut(p, k) \notin t

\* Each level is one name deeper than its caller's, on the way to fullpath.
Place ==
  /\ Len(fullpath) >= Len(stack) - 1
  /\ \A k \in 1..Len(stack) :
       /\ stack[k].n = k - 1 /\ stack[k].dp = Cut(fullpath, k - 1)
       /\ k > MaxDepth => stack[k].left \cap Name = {}
  /\ pc \in {"stat", "open"} => Len(fullpath) = Len(stack)
  /\ pc \in {"start", "done"} => stack = <<>> /\ fullpath = <<>>
  /\ pc = "start" => slash = FALSE

\* There is room for any name behind the directory of each level.
Fit ==
  /\ startLen \in Nat \ {0}
  /\ pc # "start" => pathlen >= PATH_MAX /\ Dir!PathLength + 1 <= pathlen
  /\ pc = "open" => Dir!Chars(startLen, fullpath) + NAME_MAX + 2 <= pathlen
  /\ \A k \in 1..Len(stack) : Dir!Chars(startLen, stack[k].dp) + NAME_MAX + 2 <= pathlen

\* What is above a file is a directory, up to the argument.
Closed ==
  \A p \in DOMAIN tree : \A k \in 0..Len(p) - 1 :
    Cut(p, k) \in DOMAIN tree /\ tree[Cut(p, k)] = "dir"

\* The name a level is at will not be returned again, unless it was created anew.
OnceTaken ==
  \A k \in 1..Len(stack) :
    k <= Len(fullpath) /\ Clear(Cut(fullpath, k), touched) => fullpath[k] \notin stack[k].left

\* The walk will still come to p if it is there: from fullpath, or because a
\* level has not yet been given the name on the way to p.
OnTheWay(p) == Len(fullpath) <= Len(p) /\ Cut(p, Len(fullpath)) = fullpath
Awaited(p) ==
  \E k \in 1..Len(stack) :
    k <= Len(p) /\ Cut(p, k - 1) = stack[k].dp /\ p[k] \in stack[k].left
Ahead(p) ==
  \/ pc = "start"
  \/ pc = "stat" /\ OnTheWay(p)
  \/ pc = "open" /\ OnTheWay(p) /\ p # fullpath
  \/ Awaited(p)

\* It has not counted what it will come to, and counted what it will not.
Counted ==
  \A p \in Dir!Path : Clear(p, touched) =>
    /\ seen[p] <= 1 /\ (Ahead(p) => seen[p] = 0)
    /\ p \in DOMAIN tree /\ Clear(p, missed) => seen[p] = 1 \/ Ahead(p)

WalkInv == Dir!TypeOK /\ Place /\ Fit /\ Closed /\ OnceTaken /\ Counted

-----------------------------------------------------------------------------

LEMMA FrameTypes ==
  ASSUME NEW t \in Seq(Dir!Frame)
  PROVE  /\ Len(t) \in Nat
         /\ \A k \in 1..Len(t) :
              /\ t[k] \in Dir!Frame /\ t[k].n \in Nat /\ t[k].dp \in Dir!Path
              /\ t[k].left \subseteq Name \cup {".", ".."}
<1>1. ASSUME NEW k \in 1..Len(t)
      PROVE  /\ t[k] \in Dir!Frame /\ t[k].n \in Nat /\ t[k].dp \in Dir!Path
             /\ t[k].left \subseteq Name \cup {".", ".."}
  <2>1. t[k] \in Dir!Frame
    BY ElementOfSeq
  <2>2. QED
    BY <2>1, WalkConstants DEF Dir!Frame
<1>2. QED
  BY <1>1

LEMMA WalkTypes ==
  ASSUME Dir!TypeOK
  PROVE  /\ fullpath \in Dir!Path /\ fullpath \in Seq(Name) /\ Len(fullpath) \in Nat
         /\ stack \in Seq(Dir!Frame) /\ Len(stack) \in Nat
         /\ \A k \in 1..Len(stack) :
              /\ stack[k] \in Dir!Frame /\ stack[k].n \in Nat /\ stack[k].dp \in Dir!Path
              /\ stack[k].left \subseteq Name \cup {".", ".."}
         /\ seen \in [Dir!Path -> Nat]
<1>1. fullpath \in Dir!Path /\ stack \in Seq(Dir!Frame) /\ seen \in [Dir!Path -> Nat]
  BY DEF Dir!TypeOK
<1>2. fullpath \in Seq(Name) /\ Len(fullpath) \in Nat
  BY <1>1, Paths
<1>3. QED
  BY <1>1, <1>2, FrameTypes

\* A name taken from the level that reads.
LEMMA OneTaken ==
  ASSUME Dir!TypeOK, stack # <<>>, NEW x
  PROVE  /\ Dir!Taken(x) \in Seq(Dir!Frame) /\ Len(Dir!Taken(x)) = Len(stack)
         /\ Len(stack) \in 1..Len(stack) /\ Dir!top = stack[Len(stack)]
         /\ \A k \in 1..Len(stack) :
              /\ Dir!Taken(x)[k].n = stack[k].n /\ Dir!Taken(x)[k].dp = stack[k].dp
              /\ Dir!Taken(x)[k].left = IF k = Len(stack) THEN stack[k].left \ {x} ELSE stack[k].left
<1> DEFINE t == Dir!Taken(x)
           L == Len(stack)
           new == [stack[L] EXCEPT !.left = @ \ {x}]
<1>1. stack \in Seq(Dir!Frame) /\ L \in Nat /\ L \in 1..L /\ stack[L] \in Dir!Frame
  <2>1. stack \in Seq(Dir!Frame) /\ L \in Nat /\ L # 0
    BY WalkTypes
  <2>2. L \in 1..L
    BY <2>1
  <2>3. QED
    BY <2>1, <2>2, WalkTypes
<1>2. /\ new \in Dir!Frame /\ new.n = stack[L].n /\ new.dp = stack[L].dp
      /\ new.left = stack[L].left \ {x}
  BY <1>1 DEF Dir!Frame
<1>3. t = [stack EXCEPT ![L] = new]
  BY DEF Dir!Taken
<1> HIDE DEF t, new
<1>4. t \in Seq(Dir!Frame) /\ Len(t) = L /\ \A k \in 1..L : t[k] = IF k = L THEN new ELSE stack[k]
  BY <1>1, <1>2, <1>3
<1> HIDE DEF L
<1>5. ASSUME NEW k \in 1..L
      PROVE  /\ t[k].n = stack[k].n /\ t[k].dp = stack[k].dp
             /\ t[k].left = IF k = L THEN stack[k].left \ {x} ELSE stack[k].left
  BY <1>2, <1>4
<1>6. Dir!top = stack[L]
  BY DEF Dir!top, L
<1>7. QED
  BY <1>1, <1>4, <1>5, <1>6 DEF t, L

\* What a step does to the count.
LEMMA CountKept ==
  ASSUME Counted, Dir!TypeOK,
         \A p \in Dir!Path : Clear(p, touched') =>
           /\ Clear(p, touched)
           /\ p \in DOMAIN tree' => p \in DOMAIN tree
           /\ \/ /\ seen'[p] = seen[p]
                 /\ Ahead(p)' => Ahead(p)
                 /\ p \in DOMAIN tree /\ Clear(p, missed') => Clear(p, missed) /\ (Ahead(p) => Ahead(p)')
              \/ /\ seen'[p] = seen[p] + 1 /\ Ahead(p) /\ ~Ahead(p)'
  PROVE  Counted'
<1> SUFFICES ASSUME NEW p \in Dir!Path, Clear(p, touched')
             PROVE  /\ seen'[p] <= 1 /\ (Ahead(p)' => seen'[p] = 0)
                    /\ p \in DOMAIN tree' /\ Clear(p, missed') => seen'[p] = 1 \/ Ahead(p)'
    BY DEF Counted
<1>1. seen[p] \in Nat
  BY DEF Dir!TypeOK
<1>2. /\ seen[p] <= 1 /\ (Ahead(p) => seen[p] = 0)
      /\ p \in DOMAIN tree /\ Clear(p, missed) => seen[p] = 1 \/ Ahead(p)
  BY DEF Counted
<1>3. QED
  BY <1>1, <1>2

\* A step that leaves the files, the levels and the path where they are.
LEMMA SamePlace ==
  ASSUME Closed, OnceTaken, UNCHANGED <<tree, touched>>
  PROVE  /\ Closed'
         /\ UNCHANGED <<fullpath, stack>> => OnceTaken'
BY Zenon DEF Closed, OnceTaken

\* The end of a call that counted nothing, from the start or from opendir().
LEMMA Complains ==
  ASSUME WalkInv, pc \in {"stat", "open"}, pc' = Dir!Return(stack),
         missed' = missed \cup {fullpath},
         UNCHANGED <<tree, changes, touched, fullpath, slash, pathlen, startLen, stack, count, seen>>
  PROVE  WalkInv'
<1> USE DEF WalkInv
<1>1. pc' = (IF stack = <<>> THEN "done" ELSE "read")
  BY DEF Dir!Return
<1>2. Dir!TypeOK'
  BY <1>1, Zenon DEF Dir!TypeOK
<1>3. Place'
  <2>1. stack = <<>> => fullpath = <<>>
    BY WalkTypes DEF Place
  <2>2. QED
    BY <1>1, <2>1 DEF Place
<1>4. Fit'
  BY <1>1 DEF Fit, Dir!PathLength
<1>5. Closed' /\ OnceTaken'
  BY SamePlace
<1>6. Counted'
  <2>1. ASSUME NEW p \in Dir!Path, p \in DOMAIN tree, Clear(p, missed')
        PROVE  Clear(p, missed) /\ ~OnTheWay(p)
    BY <2>1, WalkTypes, Paths DEF Clear, OnTheWay
  <2>2. ASSUME NEW p \in Dir!Path
        PROVE  /\ Ahead(p)' => Ahead(p)
               /\ p \in DOMAIN tree /\ Clear(p, missed') => Clear(p, missed) /\ (Ahead(p) => Ahead(p)')
    <3>1. Ahead(p)' <=> Awaited(p)
      BY <1>1 DEF Ahead, Awaited
    <3>2. QED
      BY <2>1, <3>1 DEF Ahead
  <2>3. QED
    BY <2>2, CountKept
<1>7. QED
  BY <1>2, <1>3, <1>4, <1>5, <1>6

\* myftw() gets the buffer.
LEMMA MyftwIsRight ==
  ASSUME WalkInv, Dir!Myftw
  PROVE  WalkInv'
<1> USE DEF WalkInv
<1>1. pc = "start" /\ pc' = "stat" /\ stack = <<>> /\ fullpath = <<>> /\ slash = FALSE
      /\ UNCHANGED <<tree, changes, touched, fullpath, slash, startLen, stack, count, seen, missed>>
  BY DEF Dir!Myftw, Dir!files, Place
<1>2. startLen \in Nat \ {0}
  BY DEF Fit
<1>3. pathlen' \in Nat /\ pathlen' >= PATH_MAX /\ startLen + 1 <= pathlen'
  <2>1. PICK size \in {PATH_MAX, PATH_MAX + 1} :
               pathlen' = IF size <= startLen THEN startLen * 2 ELSE size
    BY DEF Dir!Myftw, Dir!PathAlloc
  <2>2. size \in Nat /\ size >= PATH_MAX
    BY WalkConstants
  <2>3. QED
    BY <1>2, <2>1, <2>2, WalkConstants
<1>4. Dir!TypeOK'
  BY <1>1, <1>3, Zenon DEF Dir!TypeOK
<1>5. Place'
  BY <1>1 DEF Place
<1>6. Fit'
  <2>1. <<>> \in Seq(Name)
    OBVIOUS
  <2>2. Dir!Chars(startLen, <<>>) = startLen
    BY <1>2, <2>1, CharsGrow, WalkConstants
  <2>3. Dir!PathLength' = startLen
    BY <1>1, <1>2, <2>2 DEF Dir!PathLength
  <2>4. Len(stack') = 0
    BY <1>1
  <2>5. QED
    BY <1>1, <1>2, <1>3, <2>3, <2>4 DEF Fit
<1>7. Closed' /\ OnceTaken'
  BY <1>1, SamePlace
<1>8. Counted'
  <2>1. ASSUME NEW p \in Dir!Path PROVE Ahead(p) /\ Ahead(p)'
    <3>1. p \in Seq(Name) /\ Len(p) \in Nat /\ Cut(p, 0) = <<>>
      BY Paths, Cuts
    <3>2. QED
      BY <1>1, <3>1 DEF Ahead, OnTheWay
  <2>2. QED
    BY <1>1, <2>1, CountKept
<1>9. QED
  BY <1>4, <1>5, <1>6, <1>7, <1>8

\* What the count of fullpath does.
LEMMA CountsFullpath ==
  ASSUME WalkInv, NEW kind \in Kind \cup {"dir"}, Dir!Myfunc(kind)
  PROVE  /\ count' \in [Kind \cup {"dir"} -> Nat] /\ seen' \in [Dir!Path -> Nat]
         /\ \A p \in Dir!Path : seen'[p] = IF p = fullpath THEN seen[p] + 1 ELSE seen[p]
         /\ Clear(fullpath, touched) =>
              \A k \in 1..Len(stack) : k <= Len(fullpath) => fullpath[k] \notin stack[k].left
<1>1. /\ count' = [count EXCEPT ![kind] = @ + 1]
      /\ seen' = [seen EXCEPT ![fullpath] = @ + 1]
  BY DEF Dir!Myfunc
<1>2. count \in [Kind \cup {"dir"} -> Nat] /\ seen \in [Dir!Path -> Nat]
  BY DEF WalkInv, Dir!TypeOK
<1>3. Clear(fullpath, touched) => \A k \in 1..Len(fullpath) : Clear(Cut(fullpath, k), touched)
  <2>1. fullpath \in Seq(Name)
    BY WalkTypes DEF WalkInv
  <2>2. \A k \in 1..Len(fullpath) : /\ Len(Cut(fullpath, k)) = k
                                    /\ \A j \in 0..k : Cut(Cut(fullpath, k), j) = Cut(fullpath, j)
                                                       /\ j \in 0..Len(fullpath)
    BY <2>1, Cuts
  <2>3. QED
    BY <2>2 DEF Clear
<1>4. Clear(fullpath, touched) =>
        \A k \in 1..Len(stack) : k <= Len(fullpath) => fullpath[k] \notin stack[k].left
  <2>1. OnceTaken /\ Len(fullpath) \in Nat /\ Len(stack) \in Nat
    BY WalkTypes DEF WalkInv
  <2>2. \A k \in 1..Len(stack) : k <= Len(fullpath) => k \in 1..Len(fullpath)
    BY <2>1
  <2>3. QED
    BY <1>3, <2>1, <2>2 DEF OnceTaken
<1>5. /\ seen' \in [Dir!Path -> Nat]
      /\ \A p \in Dir!Path : seen'[p] = IF p = fullpath THEN seen[p] + 1 ELSE seen[p]
  <2>1. PICK P : P = Dir!Path
    OBVIOUS
  <2>2. seen \in [P -> Nat] /\ seen' = [seen EXCEPT ![fullpath] = @ + 1]
    BY <1>1, <1>2, <2>1
  <2>3. \A p \in P : seen'[p] = IF p = fullpath THEN seen[p] + 1 ELSE seen[p]
    BY <2>2
  <2>4. seen' \in [P -> Nat]
    <3>1. \A p \in P : seen'[p] \in Nat
      BY <2>2, <2>3
    <3>2. seen' = [p \in P |-> seen'[p]]
      BY <2>2
    <3>3. QED
      BY <3>1, <3>2
  <2>5. QED
    BY <2>1, <2>3, <2>4
<1>6. count[kind] \in Nat
  BY <1>2
<1>7. count' \in [Kind \cup {"dir"} -> Nat]
  BY <1>1, <1>2, <1>6
<1>8. QED
  BY <1>4, <1>5, <1>7

\* What lies below fullpath, when it is the way to p.
LEMMA OnTheWayIs ==
  ASSUME Dir!TypeOK, NEW p \in Dir!Path
  PROVE  /\ p \in Seq(Name) /\ Len(p) \in Nat /\ Len(p) <= MaxDepth
         /\ OnTheWay(p) /\ p # fullpath => Len(fullpath) < Len(p)
         /\ OnTheWay(fullpath)
<1>1. p \in Seq(Name) /\ Len(p) \in Nat /\ Len(p) <= MaxDepth
  BY Paths
<1>2. OnTheWay(p) /\ Len(fullpath) = Len(p) => p = fullpath
  BY <1>1, Cuts DEF OnTheWay
<1>3. fullpath \in Seq(Name) /\ Len(fullpath) \in Nat
  BY WalkTypes
<1>4. OnTheWay(fullpath)
  BY <1>3, Cuts DEF OnTheWay
<1>5. OnTheWay(p) => Len(fullpath) <= Len(p)
  BY DEF OnTheWay
<1>6. QED
  BY <1>1, <1>2, <1>3, <1>4, <1>5

\* A file is counted.
LEMMA CountFileIsRight ==
  ASSUME WalkInv, Dir!CountFile
  PROVE  WalkInv'
<1> USE DEF WalkInv
<1>1. /\ pc = "stat" /\ pc' = Dir!Return(stack) /\ fullpath \in DOMAIN tree
      /\ tree[fullpath] # "dir" /\ Dir!Myfunc(tree[fullpath])
      /\ UNCHANGED <<tree, changes, touched, fullpath, slash, pathlen, startLen, stack, missed>>
  BY DEF Dir!CountFile, Dir!Stat, Dir!files
<1>2. pc' = (IF stack = <<>> THEN "done" ELSE "read")
  BY <1>1 DEF Dir!Return
<1>3. tree[fullpath] \in Kind \cup {"dir"}
  BY <1>1 DEF Dir!TypeOK
<1>4. /\ count' \in [Kind \cup {"dir"} -> Nat] /\ seen' \in [Dir!Path -> Nat]
      /\ \A p \in Dir!Path : seen'[p] = IF p = fullpath THEN seen[p] + 1 ELSE seen[p]
      /\ Clear(fullpath, touched) =>
           \A k \in 1..Len(stack) : k <= Len(fullpath) => fullpath[k] \notin stack[k].left
  BY <1>1, <1>3, CountsFullpath
<1>5. Dir!TypeOK'
  BY <1>1, <1>2, <1>4, Zenon DEF Dir!TypeOK
<1>6. Place'
  <2>1. stack = <<>> => fullpath = <<>>
    BY <1>1, WalkTypes DEF Place
  <2>2. QED
    BY <1>1, <1>2, <2>1 DEF Place
<1>7. Fit'
  BY <1>1, <1>2 DEF Fit, Dir!PathLength
<1>8. Closed' /\ OnceTaken'
  BY <1>1, SamePlace
<1>9. Counted'
  <2>1. ASSUME NEW p \in Dir!Path PROVE Ahead(p)' <=> Awaited(p)
    BY <1>1, <1>2 DEF Ahead, Awaited
  <2>2. ASSUME NEW p \in Dir!Path, p \in DOMAIN tree, p # fullpath
        PROVE  ~OnTheWay(p)
    <3>1. OnTheWay(p) => Len(fullpath) \in 0..Len(p) - 1
      BY <2>2, OnTheWayIs, WalkTypes
    <3>2. QED
      BY <1>1, <2>2, <3>1 DEF Closed, OnTheWay
  <2>3. Ahead(fullpath)
    BY <1>1, WalkTypes, OnTheWayIs DEF Ahead
  <2>4. Clear(fullpath, touched) => ~Awaited(fullpath)
    BY <1>4 DEF Awaited
  <2>5. \A p \in Dir!Path : p # fullpath =>
          /\ Ahead(p)' => Ahead(p)
          /\ p \in DOMAIN tree => (Ahead(p) => Ahead(p)')
    BY <1>1, <2>1, <2>2 DEF Ahead
  <2>6. fullpath \in Dir!Path
    BY WalkTypes
  <2> HIDE DEF WalkInv
  <2>7. QED
    BY <1>1, <1>4, <2>1, <2>3, <2>4, <2>5, <2>6, CountKept DEF WalkInv
<1>10. QED
  BY <1>5, <1>6, <1>7, <1>8, <1>9

\* A directory is counted, and the buffer gets room for the names in it: once
\* is enough.
LEMMA CountDirectoryIsRight ==
  ASSUME WalkInv, Dir!CountDirectory
  PROVE  WalkInv'
<1> USE DEF WalkInv
<1>1. /\ pc = "stat" /\ pc' = "open" /\ fullpath \in DOMAIN tree /\ slash' = TRUE
      /\ Dir!PathLength < PATH_MAX /\ Dir!Myfunc("dir")
      /\ pathlen' = Dir!Expanded(Dir!PathLength)
      /\ UNCHANGED <<tree, changes, touched, fullpath, startLen, stack, missed>>
  BY DEF Dir!CountDirectory, Dir!Stat, Dir!files
<1>2. /\ count' \in [Kind \cup {"dir"} -> Nat] /\ seen' \in [Dir!Path -> Nat]
      /\ \A p \in Dir!Path : seen'[p] = IF p = fullpath THEN seen[p] + 1 ELSE seen[p]
      /\ Clear(fullpath, touched) =>
           \A k \in 1..Len(stack) : k <= Len(fullpath) => fullpath[k] \notin stack[k].left
  <2>1. "dir" \in Kind \cup {"dir"}
    OBVIOUS
  <2>2. QED
    BY <1>1, <2>1, CountsFullpath
<1>3. /\ Dir!Chars(startLen, fullpath) \in Nat
      /\ Dir!PathLength = Dir!Chars(startLen, fullpath) + (IF slash THEN 1 ELSE 0)
      /\ Dir!PathLength' = Dir!Chars(startLen, fullpath) + 1
  BY <1>1, CharsGrow, WalkTypes, WalkConstants DEF Fit, Dir!PathLength
<1>4. /\ pathlen' \in Nat /\ pathlen' >= pathlen
      /\ Dir!Chars(startLen, fullpath) + NAME_MAX + 2 <= pathlen'
  <2>1. pathlen \in Nat /\ pathlen >= PATH_MAX /\ Dir!PathLength + 1 <= pathlen
    BY <1>1 DEF Fit, Dir!TypeOK
  <2>2. pathlen' = IF Dir!PathLength + NAME_MAX + 2 > pathlen THEN pathlen * 2 ELSE pathlen
    BY <1>1 DEF Dir!Expanded
  <2>3. Dir!PathLength \in Nat /\ Dir!PathLength >= Dir!Chars(startLen, fullpath)
    BY <1>3 DEF Dir!TypeOK
  <2>4. QED
    BY <1>1, <1>3, <2>1, <2>2, <2>3, WalkConstants
<1>5. Dir!TypeOK'
  BY <1>1, <1>2, <1>4, Zenon DEF Dir!TypeOK
<1>6. Place'
  BY <1>1 DEF Place
<1>7. Fit'
  <2>1. pathlen' >= PATH_MAX /\ Dir!PathLength' + 1 <= pathlen'
    BY <1>1, <1>3, <1>4, WalkConstants DEF Fit, Dir!TypeOK
  <2>2. \A k \in 1..Len(stack) : Dir!Chars(startLen, stack[k].dp) + NAME_MAX + 2 <= pathlen'
    <3>1. TAKE k \in 1..Len(stack)
    <3>2. Dir!Chars(startLen, stack[k].dp) \in Nat
      BY CharsGrow, WalkTypes, WalkConstants, Paths DEF Fit
    <3>3. Dir!Chars(startLen, stack[k].dp) + NAME_MAX + 2 <= pathlen
      BY DEF Fit
    <3>4. pathlen \in Nat
      BY DEF Dir!TypeOK
    <3>5. QED
      BY <1>4, <3>2, <3>3, <3>4, WalkConstants
  <2>3. QED
    BY <1>1, <1>4, <2>1, <2>2 DEF Fit
<1>8. Closed' /\ OnceTaken'
  BY <1>1, SamePlace
<1>9. Counted'
  <2>1. ASSUME NEW p \in Dir!Path
        PROVE  Ahead(p)' <=> (OnTheWay(p) /\ p # fullpath) \/ Awaited(p)
    BY <1>1 DEF Ahead, Awaited, OnTheWay
  <2>2. Ahead(fullpath)
    BY <1>1, WalkTypes, OnTheWayIs DEF Ahead
  <2>3. Clear(fullpath, touched) => ~Awaited(fullpath)
    BY <1>2 DEF Awaited
  <2>4. \A p \in Dir!Path : p # fullpath => (Ahead(p)' <=> Ahead(p))
    BY <1>1, <2>1 DEF Ahead
  <2>5. fullpath \in Dir!Path
    BY WalkTypes
  <2> HIDE DEF WalkInv
  <2>6. QED
    BY <1>1, <1>2, <2>1, <2>2, <2>3, <2>4, <2>5, CountKept DEF WalkInv
<1>10. QED
  BY <1>5, <1>6, <1>7, <1>8, <1>9

\* opendir() finds what the directory holds.
LEMMA OpenDirectoryIsRight ==
  ASSUME WalkInv, Dir!OpenDirectory
  PROVE  WalkInv'
<1> USE DEF WalkInv
<1> DEFINE L == Len(stack)
           entry == [n |-> Len(fullpath), dp |-> fullpath,
                     left |-> Dir!Entries(fullpath) \cup {".", ".."}]
<1>1. /\ pc = "open" /\ pc' = "read" /\ stack' = Append(stack, entry)
      /\ UNCHANGED <<tree, changes, touched, fullpath, slash, pathlen, startLen, count, seen, missed>>
  BY DEF Dir!OpenDirectory, Dir!files
<1>2. /\ entry \in Dir!Frame /\ entry.n = Len(fullpath) /\ entry.dp = fullpath
      /\ entry.left = Dir!Entries(fullpath) \cup {".", ".."}
  <2>1. Len(fullpath) \in 0..MaxDepth /\ fullpath \in Dir!Path
    BY WalkTypes, Paths, WalkConstants
  <2>2. Dir!Entries(fullpath) \subseteq Name
    BY DEF Dir!Entries
  <2>3. QED
    BY <2>1, <2>2 DEF Dir!Frame
<1>3. stack \in Seq(Dir!Frame) /\ L \in Nat /\ Len(fullpath) = L
  BY <1>1, WalkTypes DEF Place
<1> HIDE DEF entry, L
<1>4. /\ stack' \in Seq(Dir!Frame) /\ Len(stack') = L + 1 /\ stack'[L + 1] = entry
      /\ \A k \in 1..L : stack'[k] = stack[k]
  BY <1>1, <1>2, <1>3 DEF L
<1>5. Dir!TypeOK'
  <2>1. stack' # <<>>
    BY <1>3, <1>4
  <2>2. QED
    BY <1>1, <1>4, <2>1, Zenon DEF Dir!TypeOK
<1>6. ASSUME NEW x \in Dir!Entries(fullpath) PROVE Append(fullpath, x) \in DOMAIN tree /\ L < MaxDepth
  <2>1. x \in Name /\ Append(fullpath, x) \in DOMAIN tree
    BY <1>6 DEF Dir!Entries
  <2>2. Append(fullpath, x) \in Dir!Path
    BY <2>1 DEF Dir!TypeOK
  <2>3. Len(Append(fullpath, x)) = L + 1
    BY <1>3, <2>1, Deeper, WalkTypes
  <2>4. Len(Append(fullpath, x)) <= MaxDepth
    BY <2>2, Paths
  <2>5. MaxDepth \in Nat
    BY WalkConstants
  <2>6. L < MaxDepth
    BY <1>3, <2>3, <2>4, <2>5
  <2>7. QED
    BY <2>1, <2>6
<1>7. Place'
  <2>1. ASSUME NEW k \in 1..L + 1
        PROVE  /\ stack'[k].n = k - 1 /\ stack'[k].dp = Cut(fullpath, k - 1)
               /\ k > MaxDepth => stack'[k].left \cap Name = {}
    <3>1. CASE k \in 1..L
      BY <1>4, <3>1 DEF Place, L
    <3>2. CASE k = L + 1
      <4>1. k - 1 = L /\ Cut(fullpath, L) = fullpath
        BY <1>3, <3>2, Cuts, WalkTypes
      <4>2. k > MaxDepth => Dir!Entries(fullpath) = {}
        BY <1>3, <1>6, <3>2, WalkConstants
      <4>3. QED
        BY <1>2, <1>3, <1>4, <3>2, <4>1, <4>2, WalkConstants
    <3>3. QED
      BY <1>3, <3>1, <3>2
  <2>2. QED
    BY <1>1, <1>3, <1>4, <2>1 DEF Place
<1>8. Fit'
  <2>1. ASSUME NEW k \in 1..L + 1
        PROVE  Dir!Chars(startLen, stack'[k].dp) + NAME_MAX + 2 <= pathlen
    <3>1. CASE k \in 1..L
      BY <1>4, <3>1 DEF Fit, L
    <3>2. CASE k = L + 1
      BY <1>1, <1>2, <1>4, <3>2 DEF Fit
    <3>3. QED
      BY <1>3, <3>1, <3>2
  <2>2. QED
    BY <1>1, <1>4, <2>1 DEF Fit, Dir!PathLength
<1>9. Closed' /\ OnceTaken'
  <2>1. OnceTaken'
    <3> SUFFICES ASSUME NEW k \in 1..L + 1, k <= Len(fullpath), Clear(Cut(fullpath, k), touched)
                 PROVE  fullpath[k] \notin stack'[k].left
        BY <1>1, <1>4 DEF OnceTaken
    <3>1. k \in 1..L
      BY <1>3
    <3>2. QED
      BY <1>4, <3>1 DEF OnceTaken, L
  <2>2. QED
    BY <1>1, <2>1, SamePlace
<1>10. Counted'
  <2>1. ASSUME NEW p \in Dir!Path
        PROVE  /\ Ahead(p)' => Ahead(p)
               /\ p \in DOMAIN tree => (Ahead(p) => Ahead(p)')
    <3>1. p \in Seq(Name) /\ Len(p) \in Nat
      BY Paths
    <3>2. Ahead(p)' <=> Awaited(p)'
      BY <1>1 DEF Ahead
    <3>3. Awaited(p)' <=> \/ Awaited(p)
                          \/ /\ L + 1 <= Len(p) /\ Cut(p, L) = fullpath
                             /\ p[L + 1] \in Dir!Entries(fullpath) \cup {".", ".."}
      <4> DEFINE Here(k) == k <= Len(p) /\ Cut(p, k - 1) = stack'[k].dp /\ p[k] \in stack'[k].left
      <4>1. Awaited(p)' <=> \E k \in 1..L + 1 : Here(k)
        BY <1>4 DEF Awaited
      <4>2. Awaited(p) <=> \E k \in 1..L : Here(k)
        BY <1>4 DEF Awaited, L
      <4>3. Here(L + 1) <=> /\ L + 1 <= Len(p) /\ Cut(p, L) = fullpath
                            /\ p[L + 1] \in Dir!Entries(fullpath) \cup {".", ".."}
        <5>1. (L + 1) - 1 = L
          BY <1>3
        <5>2. QED
          BY <1>2, <1>4, <5>1
      <4> HIDE DEF Here
      <4>4. (\E k \in 1..L + 1 : Here(k)) <=> (\E k \in 1..L : Here(k)) \/ Here(L + 1)
        BY <1>3
      <4>5. QED
        BY <4>1, <4>2, <4>3, <4>4
    <3>4. L + 1 <= Len(p) /\ Cut(p, L) = fullpath => OnTheWay(p) /\ p # fullpath
      BY <1>3, <3>1 DEF OnTheWay
    <3>5. ASSUME p \in DOMAIN tree, OnTheWay(p), p # fullpath
          PROVE  /\ L + 1 <= Len(p) /\ Cut(p, L) = fullpath
                 /\ p[L + 1] \in Dir!Entries(fullpath)
      <4>1. L + 1 \in 1..Len(p) /\ Cut(p, L) = fullpath /\ (L + 1) - 1 = L
        BY <1>3, <3>1, <3>5, OnTheWayIs DEF OnTheWay
      <4>2. p[L + 1] \in Name /\ Append(fullpath, p[L + 1]) = Cut(p, L + 1)
        BY <3>1, <4>1, CutNext
      <4>3. Cut(p, L + 1) \in DOMAIN tree
        <5>1. CASE L + 1 = Len(p)
          BY <3>1, <3>5, <5>1, CutWhole
        <5>2. CASE L + 1 # Len(p)
          <6>1. L + 1 \in 0..Len(p) - 1
            BY <1>3, <3>1, <4>1, <5>2
          <6>2. QED
            BY <3>5, <6>1 DEF Closed
        <5>3. QED
          BY <5>1, <5>2
      <4>4. p[L + 1] \in Dir!Entries(fullpath)
        BY <4>2, <4>3, Zenon DEF Dir!Entries
      <4>5. L + 1 <= Len(p)
        BY <3>1, <4>1
      <4>6. QED
        BY <4>1, <4>4, <4>5
    <3>6. QED
      BY <1>1, <3>2, <3>3, <3>4, <3>5 DEF Ahead
  <2>2. QED
    BY <1>1, <2>1, CountKept
<1>11. QED
  BY <1>5, <1>7, <1>8, <1>9, <1>10

\* A directory that cannot be opened is complained about.
LEMMA FailuresAreRight ==
  ASSUME WalkInv, Dir!StatFails \/ Dir!OpenFails
  PROVE  WalkInv'
<1>1. /\ pc \in {"stat", "open"} /\ pc' = Dir!Return(stack) /\ missed' = missed \cup {fullpath}
      /\ UNCHANGED <<tree, changes, touched, fullpath, slash, pathlen, startLen, stack, count, seen>>
  BY Zenon DEF Dir!StatFails, Dir!OpenFails, Dir!files
<1>2. QED
  BY <1>1, Complains

\* "." and ".." are left out.
LEMMA SkipDotsIsRight ==
  ASSUME WalkInv, Dir!SkipDots
  PROVE  WalkInv'
<1> USE DEF WalkInv
<1> DEFINE L == Len(stack)
<1>1. /\ pc = "read" /\ stack # <<>>
      /\ UNCHANGED <<tree, changes, touched, pc, fullpath, slash, pathlen, startLen, count, seen, missed>>
  BY DEF Dir!SkipDots, Dir!files, Dir!TypeOK
<1>2. PICK x \in {".", ".."} : stack' = Dir!Taken(x)
  BY DEF Dir!SkipDots
<1>3. x \notin Name
  BY WalkConstants
<1>4. /\ stack' \in Seq(Dir!Frame) /\ Len(stack') = L /\ L \in 1..L
      /\ \A k \in 1..L :
           /\ stack'[k].n = stack[k].n /\ stack'[k].dp = stack[k].dp
           /\ stack'[k].left = IF k = L THEN stack[k].left \ {x} ELSE stack[k].left
  BY <1>1, <1>2, OneTaken
<1>5. \A k \in 1..L : stack'[k].left \cap Name = stack[k].left \cap Name
  BY <1>3, <1>4
<1>6. Dir!TypeOK'
  <2>1. stack' # <<>>
    BY <1>4
  <2>2. QED
    BY <1>1, <1>4, <2>1, Zenon DEF Dir!TypeOK
<1>7. Place'
  BY <1>1, <1>4, <1>5 DEF Place
<1>8. Fit'
  BY <1>1, <1>4 DEF Fit, Dir!PathLength
<1>9. Closed' /\ OnceTaken'
  <2>1. OnceTaken'
    BY <1>1, <1>4 DEF OnceTaken
  <2>2. QED
    BY <1>1, <2>1, SamePlace
<1>10. Counted'
  <2>1. ASSUME NEW p \in Dir!Path PROVE Ahead(p)' <=> Ahead(p)
    <3>1. \A k \in 1..L : k <= Len(p) => p[k] \in Name
      BY Paths, Cuts
    <3>2. \A k \in 1..L : k <= Len(p) => (p[k] \in stack'[k].left <=> p[k] \in stack[k].left)
      BY <1>5, <3>1
    <3>3. Awaited(p)' <=> Awaited(p)
      BY <1>4, <3>2 DEF Awaited
    <3>4. QED
      BY <1>1, <3>3 DEF Ahead
  <2>2. QED
    BY <1>1, <2>1, CountKept
<1>11. QED
  BY <1>6, <1>7, <1>8, <1>9, <1>10

\* A name is put over what is left of the one before.
LEMMA ReadEntryIsRight ==
  ASSUME WalkInv, Dir!ReadEntry
  PROVE  WalkInv'
<1> USE DEF WalkInv
<1> DEFINE L == Len(stack)
           dp == stack[L].dp
<1>1. /\ pc = "read" /\ pc' = "stat" /\ stack # <<>> /\ slash' = FALSE
      /\ UNCHANGED <<tree, changes, touched, pathlen, startLen, count, seen, missed>>
  BY DEF Dir!ReadEntry, Dir!files, Dir!TypeOK
<1>2. PICK x \in Dir!top.left \cap Name :
             stack' = Dir!Taken(x) /\ fullpath' = Dir!AppendName(Dir!top.n, x)
  BY DEF Dir!ReadEntry
<1>3. /\ stack' \in Seq(Dir!Frame) /\ Len(stack') = L /\ L \in 1..L /\ Dir!top = stack[L]
      /\ \A k \in 1..L :
           /\ stack'[k].n = stack[k].n /\ stack'[k].dp = stack[k].dp
           /\ stack'[k].left = IF k = L THEN stack[k].left \ {x} ELSE stack[k].left
  BY <1>1, <1>2, OneTaken
<1>4. /\ x \in stack[L].left /\ x \in Name /\ stack[L].n = L - 1 /\ dp = Cut(fullpath, L - 1)
      /\ L <= MaxDepth
  BY <1>2, <1>3, WalkConstants DEF Place
<1>5. dp \in Seq(Name) /\ Len(dp) = L - 1 /\ \A k \in 0..L - 1 : Cut(dp, k) = Cut(fullpath, k)
  BY <1>3, <1>4, Cuts, WalkTypes DEF Place
<1>6. fullpath' = Append(dp, x)
  BY <1>2, <1>3, <1>4 DEF Dir!AppendName, Cut
<1> HIDE DEF L, dp
<1>7. /\ fullpath' \in Seq(Name) /\ Len(fullpath') = L /\ fullpath'[L] = x
      /\ \A k \in 0..L - 1 : Cut(fullpath', k) = Cut(fullpath, k)
      /\ Cut(fullpath', L) = fullpath'
  <2>1. fullpath' \in Seq(Name) /\ Len(fullpath') = (L - 1) + 1 /\ fullpath'[(L - 1) + 1] = x
        /\ \A k \in 0..L - 1 : Cut(fullpath', k) = Cut(dp, k)
    BY <1>4, <1>5, <1>6, Deeper
  <2>2. (L - 1) + 1 = L
    BY <1>3
  <2>3. Cut(fullpath', L) = fullpath'
    BY <2>1, <2>2, Cuts
  <2>4. QED
    BY <1>5, <2>1, <2>2, <2>3
<1>8. fullpath' \in Dir!Path
  BY <1>4, <1>7, Paths
<1>9. Dir!TypeOK'
  <2>1. stack' # <<>>
    BY <1>3
  <2>2. QED
    BY <1>1, <1>3, <1>8, <2>1, Zenon DEF Dir!TypeOK
<1>10. Place'
  <2>1. \A k \in 1..L : /\ stack'[k].n = k - 1
                        /\ stack'[k].dp = Cut(fullpath', k - 1)
                        /\ k > MaxDepth => stack'[k].left \cap Name = {}
    <3>1. \A k \in 1..L : k - 1 \in 0..L - 1
      BY <1>3
    <3>2. QED
      BY <1>3, <1>7, <3>1 DEF Place, L
  <2>2. QED
    BY <1>1, <1>3, <1>7, <2>1 DEF Place
<1>11. Fit'
  <2>1. \A k \in 1..L : Dir!Chars(startLen, stack'[k].dp) + NAME_MAX + 2 <= pathlen
    BY <1>3 DEF Fit, L
  <2>2. Dir!PathLength' + 1 <= pathlen
    <3>1. Dir!PathLength' = Dir!Chars(startLen, Append(dp, x)) + 0
      BY <1>1, <1>6 DEF Dir!PathLength
    <3>2. /\ Dir!Chars(startLen, dp) \in Nat
          /\ Dir!Chars(startLen, Append(dp, x)) = Dir!Chars(startLen, dp) + 1 + NameLen[x]
      <4>1. dp \in Seq(Name) /\ x \in Name /\ NameLen \in [Name -> Nat]
        BY <1>4, <1>5, WalkConstants
      <4>2. startLen \in Nat
        BY DEF Fit
      <4>3. QED
        BY <4>1, <4>2, CharsGrow
    <3>3. NameLen[x] \in Nat /\ NameLen[x] <= NAME_MAX /\ NAME_MAX \in Nat
      BY <1>4, WalkConstants
    <3>4. Dir!Chars(startLen, dp) + NAME_MAX + 2 <= pathlen /\ pathlen \in Nat
      BY <1>3 DEF Fit, Dir!TypeOK, L, dp
    <3>5. QED
      BY <3>1, <3>2, <3>3, <3>4
  <2>3. QED
    BY <1>1, <1>3, <2>1, <2>2 DEF Fit
<1>12. Closed' /\ OnceTaken'
  <2>1. OnceTaken'
    <3> SUFFICES ASSUME NEW k \in 1..L, Clear(Cut(fullpath', k), touched)
                 PROVE  fullpath'[k] \notin stack'[k].left
        BY <1>1, <1>3 DEF OnceTaken
    <3>1. CASE k = L
      BY <1>3, <1>7, <3>1
    <3>2. CASE k # L
      <4>1. k \in 0..L - 1 /\ k \in 1..Len(dp) /\ k \in 0..Len(fullpath) /\ k <= Len(fullpath)
        BY <1>3, <1>5, <3>2, WalkTypes DEF Place, L
      <4>2. fullpath'[k] = fullpath[k]
        <5>1. fullpath'[k] = dp[k]
          BY <1>4, <1>5, <1>6, <4>1, Deeper
        <5>2. dp[k] = fullpath[k]
          <6>1. L - 1 \in 0..Len(fullpath) /\ k \in 1..L - 1
            BY <1>3, <1>5, <4>1, WalkTypes DEF Place, L
          <6>2. QED
            BY <1>4, <6>1, Cuts, WalkTypes
        <5>3. QED
          BY <5>1, <5>2
      <4>3. QED
        BY <1>3, <1>7, <3>2, <4>1, <4>2 DEF OnceTaken, L
    <3>3. QED
      BY <3>1, <3>2
  <2>2. QED
    BY <1>1, <2>1, SamePlace
<1>13. Counted'
  <2>1. ASSUME NEW p \in Dir!Path PROVE Ahead(p)' <=> Ahead(p)
    <3>1. p \in Seq(Name) /\ Len(p) \in Nat
      BY Paths
    <3>2. Ahead(p) <=> Awaited(p)
      BY <1>1 DEF Ahead
    <3>3. Ahead(p)' <=> OnTheWay(p)' \/ Awaited(p)'
      BY <1>1 DEF Ahead
    <3>4. OnTheWay(p)' <=> L <= Len(p) /\ Cut(p, L - 1) = dp /\ p[L] = x
      <4>1. OnTheWay(p)' <=> L <= Len(p) /\ Cut(p, L) = Append(dp, x)
        BY <1>6, <1>7 DEF OnTheWay
      <4>2. ASSUME L <= Len(p) PROVE Cut(p, L) = Append(dp, x) <=> Cut(p, L - 1) = dp /\ p[L] = x
        <5>1. L \in 1..Len(p) /\ L \in 0..Len(p) /\ L - 1 \in 0..L
          BY <1>3, <3>1, <4>2
        <5>2. Append(Cut(p, L - 1), p[L]) = Cut(p, L) /\ Cut(Cut(p, L), L - 1) = Cut(p, L - 1)
              /\ Cut(p, L)[L] = p[L]
          BY <3>1, <5>1, Cuts
        <5>3. Cut(Append(dp, x), L - 1) = dp /\ Append(dp, x)[L] = x
          <6>1. (L - 1) + 1 = L /\ L - 1 \in 0..Len(dp)
            BY <1>3, <1>5
          <6>2. QED
            BY <1>4, <1>5, <6>1, Deeper, Cuts
        <5>4. QED
          BY <5>2, <5>3
      <4>3. QED
        BY <4>1, <4>2
    <3>5. Awaited(p) <=> Awaited(p)' \/ (L <= Len(p) /\ Cut(p, L - 1) = dp /\ p[L] = x)
      <4>1. Awaited(p)' <=> \E k \in 1..L : /\ k <= Len(p) /\ Cut(p, k - 1) = stack[k].dp
                                            /\ p[k] \in stack[k].left /\ ~(k = L /\ p[k] = x)
        BY <1>3 DEF Awaited
      <4>2. Awaited(p) <=> \E k \in 1..L : /\ k <= Len(p) /\ Cut(p, k - 1) = stack[k].dp
                                           /\ p[k] \in stack[k].left
        BY DEF Awaited, L
      <4>3. L \in 1..L /\ x \in stack[L].left /\ dp = stack[L].dp
        BY <1>3, <1>4 DEF dp
      <4>4. QED
        BY <4>1, <4>2, <4>3
    <3>6. QED
      BY <3>2, <3>3, <3>4, <3>5
  <2>2. QED
    BY <1>1, <2>1, CountKept
<1>14. QED
  BY <1>9, <1>10, <1>11, <1>12, <1>13

\* "erase everything from slash onward" and closedir().
LEMMA CloseDirectoryIsRight ==
  ASSUME WalkInv, Dir!CloseDirectory
  PROVE  WalkInv'
<1> USE DEF WalkInv
<1> DEFINE L == Len(stack)
           dp == stack[L].dp
<1>1. /\ pc = "read" /\ pc' = Dir!Return(Dir!Front(stack)) /\ stack # <<>> /\ slash' = FALSE
      /\ stack' = Dir!Front(stack) /\ fullpath' = SubSeq(fullpath, 1, Dir!top.n)
      /\ Dir!top.left \cap (Dir!Entries(Dir!top.dp) \cup {".", ".."}) = {}
      /\ UNCHANGED <<tree, changes, touched, pathlen, startLen, count, seen, missed>>
  BY DEF Dir!CloseDirectory, Dir!files, Dir!TypeOK
<1>2. /\ stack \in Seq(Dir!Frame) /\ L \in Nat /\ L \in 1..L /\ Dir!top = stack[L]
      /\ fullpath \in Seq(Name) /\ Len(fullpath) \in Nat /\ L - 1 \in 0..Len(fullpath)
      /\ Len(fullpath) <= MaxDepth
  <2>1. stack \in Seq(Dir!Frame) /\ L \in Nat /\ L # 0
    BY <1>1, WalkTypes
  <2>2. fullpath \in Seq(Name) /\ Len(fullpath) \in Nat /\ Len(fullpath) <= MaxDepth
    BY WalkTypes, Paths
  <2>3. Len(fullpath) >= L - 1
    BY DEF Place
  <2>4. QED
    BY <2>1, <2>2, <2>3 DEF Dir!top
<1>3. /\ stack[L].n = L - 1 /\ dp = Cut(fullpath, L - 1)
      /\ stack[L].left \cap Dir!Entries(dp) = {}
  BY <1>1, <1>2 DEF Place
<1>4. /\ fullpath' = dp /\ dp \in Seq(Name) /\ Len(dp) = L - 1
      /\ \A k \in 1..L - 1 : dp[k] = fullpath[k]
      /\ \A k \in 0..L - 1 : Cut(dp, k) = Cut(fullpath, k)
  <2>1. fullpath' = dp
    BY <1>1, <1>2, <1>3 DEF Cut
  <2> HIDE DEF L, dp
  <2>2. QED
    BY <2>1, <1>2, <1>3, Cuts
<1>5. /\ stack' \in Seq(Dir!Frame) /\ Len(stack') = L - 1
      /\ \A k \in 1..L - 1 : k \in 1..L /\ stack'[k] = stack[k]
      /\ pc' = IF stack' = <<>> THEN "done" ELSE "read"
  <2>1. stack' = SubSeq(stack, 1, L - 1)
    BY <1>1 DEF Dir!Front
  <2> HIDE DEF dp
  <2>2. stack' \in Seq(Dir!Frame) /\ Len(stack') = L - 1
        /\ \A k \in 1..L - 1 : k \in 1..L /\ stack'[k] = stack[k]
    <3>1. stack \in Seq(Dir!Frame) /\ L \in 1..Len(stack)
      BY <1>2 DEF L
    <3> HIDE DEF L
    <3>2. stack' \in Seq(Dir!Frame) /\ Len(stack') = L - 1
          /\ \A k \in 1..L - 1 : stack'[k] = stack[k]
      BY <2>1, <3>1
    <3>3. QED
      BY <1>2, <3>2
  <2>3. QED
    BY <1>1, <2>2 DEF Dir!Return
<1> HIDE DEF L, dp
<1>6. Dir!TypeOK'
  <2>1. fullpath' \in Dir!Path
    BY <1>2, <1>4, Paths, WalkConstants
  <2>2. QED
    BY <1>1, <1>5, <2>1, Zenon DEF Dir!TypeOK
<1>7. Place'
  <2>1. ASSUME NEW k \in 1..L - 1
        PROVE  /\ stack'[k].n = k - 1 /\ stack'[k].dp = Cut(fullpath', k - 1)
               /\ k > MaxDepth => stack'[k].left \cap Name = {}
    <3>1. k - 1 \in 0..L - 1 /\ k \in 1..L
      BY <1>2
    <3>2. QED
      BY <1>4, <1>5, <3>1 DEF Place, L
  <2>2. stack' = <<>> => fullpath' = <<>>
    BY <1>2, <1>4, <1>5
  <2>3. pc' \in {"read", "done"} /\ (pc' = "done" => stack' = <<>>)
    BY <1>5
  <2>4. Len(fullpath') = L - 1 /\ L - 1 >= (L - 1) - 1
    BY <1>2, <1>4
  <2>5. QED
    BY <1>5, <2>1, <2>2, <2>3, <2>4 DEF Place
<1>8. Fit'
  <2>1. ASSUME NEW k \in 1..L - 1
        PROVE  Dir!Chars(startLen, stack'[k].dp) + NAME_MAX + 2 <= pathlen
    BY <1>5 DEF Fit, L
  <2>2. Dir!PathLength' + 1 <= pathlen
    <3>1. Dir!PathLength' = Dir!Chars(startLen, dp) + 0
      BY <1>1, <1>4 DEF Dir!PathLength
    <3>2. Dir!Chars(startLen, dp) \in Nat
      <4>1. NameLen \in [Name -> Nat] /\ startLen \in Nat
        BY WalkConstants DEF Fit
      <4>2. QED
        BY <1>4, <4>1, CharsGrow
    <3>3. Dir!Chars(startLen, dp) + NAME_MAX + 2 <= pathlen /\ pathlen \in Nat
      BY <1>2 DEF Fit, Dir!TypeOK, L, dp
    <3>4. QED
      BY <3>1, <3>2, <3>3, WalkConstants
  <2>3. pc # "start" /\ pc' # "open"
    BY <1>1, <1>5
  <2>4. QED
    BY <1>1, <1>5, <2>1, <2>2, <2>3 DEF Fit
<1>9. Closed' /\ OnceTaken'
  <2>1. OnceTaken'
    <3> SUFFICES ASSUME NEW k \in 1..L - 1, Clear(Cut(fullpath', k), touched)
                 PROVE  fullpath'[k] \notin stack'[k].left
        BY <1>1, <1>5 DEF OnceTaken
    <3>1. k \in 1..L /\ k \in 0..L - 1 /\ k <= Len(fullpath)
      BY <1>2
    <3>2. QED
      BY <1>4, <1>5, <3>1 DEF OnceTaken, L
  <2>2. QED
    BY <1>1, <2>1, SamePlace
<1>10. Counted'
  <2>1. ASSUME NEW p \in Dir!Path
        PROVE  /\ Ahead(p)' => Ahead(p)
               /\ p \in DOMAIN tree => (Ahead(p) => Ahead(p)')
    <3>1. p \in Seq(Name) /\ Len(p) \in Nat
      BY Paths
    <3>2. (Ahead(p)' <=> Awaited(p)') /\ (Ahead(p) <=> Awaited(p))
      BY <1>1, <1>5 DEF Ahead
    <3>3. Awaited(p) <=> \/ Awaited(p)'
                         \/ L <= Len(p) /\ Cut(p, L - 1) = dp /\ p[L] \in stack[L].left
      <4> DEFINE Here(k) == k <= Len(p) /\ Cut(p, k - 1) = stack[k].dp /\ p[k] \in stack[k].left
      <4>1. Awaited(p)' <=> \E k \in 1..L - 1 : Here(k)
        BY <1>5 DEF Awaited
      <4>2. Awaited(p) <=> \E k \in 1..L : Here(k)
        BY DEF Awaited, L
      <4>3. Here(L) <=> L <= Len(p) /\ Cut(p, L - 1) = dp /\ p[L] \in stack[L].left
        BY DEF dp
      <4> HIDE DEF Here
      <4>4. (\E k \in 1..L : Here(k)) <=> (\E k \in 1..L - 1 : Here(k)) \/ Here(L)
        BY <1>2
      <4>5. QED
        BY <4>1, <4>2, <4>3, <4>4
    <3>4. ASSUME p \in DOMAIN tree, L <= Len(p), Cut(p, L - 1) = dp
          PROVE  p[L] \notin stack[L].left
      <4>1. L \in 1..Len(p)
        BY <1>2, <3>1, <3>4
      <4>2. p[L] \in Name /\ Append(dp, p[L]) = Cut(p, L)
        BY <3>1, <3>4, <4>1, Cuts
      <4>3. Cut(p, L) \in DOMAIN tree
        <5>1. CASE L = Len(p)
          BY <3>1, <3>4, <5>1, Cuts
        <5>2. CASE L # Len(p)
          <6>1. L \in 0..Len(p) - 1
            BY <1>2, <3>1, <4>1, <5>2
          <6>2. QED
            BY <3>4, <6>1 DEF Closed
        <5>3. QED
          BY <5>1, <5>2
      <4>4. p[L] \in Dir!Entries(dp)
        BY <4>2, <4>3, Zenon DEF Dir!Entries
      <4>5. QED
        BY <1>3, <4>4
    <3>5. QED
      BY <3>2, <3>3, <3>4
  <2>2. QED
    BY <1>1, <2>1, CountKept
<1>11. QED
  BY <1>6, <1>7, <1>8, <1>9, <1>10

(* Other programs change the tree.                                           *)

LEMMA TouchedMore ==
  ASSUME NEW p \in Seq(Name), NEW q, NEW t, Clear(p, t \cup {q})
  PROVE  Clear(p, t) /\ p # q /\ \A k \in 0..Len(p) : Cut(p, k) # q
<1>1. Len(p) \in 0..Len(p) /\ Cut(p, Len(p)) = p
  BY Cuts
<1>2. QED
  BY <1>1 DEF Clear

\* A level that is given the last name of q was reading what is above q.
LEMMA GivenName ==
  ASSUME NEW p \in Seq(Name), NEW q \in Seq(Name), q # <<>>, NEW k \in 1..Len(p),
         Cut(p, k - 1) = Cut(q, Len(q) - 1), p[k] = q[Len(q)]
  PROVE  Cut(p, k) = q /\ k = Len(q)
<1>1. Len(p) \in Nat /\ Len(q) \in Nat \ {0}
  OBVIOUS
<1>2. k - 1 \in 0..Len(p) /\ Len(q) - 1 \in 0..Len(q) /\ Len(q) \in 1..Len(q)
  BY <1>1
<1>3. Append(Cut(p, k - 1), p[k]) = Cut(p, k) /\ Append(Cut(q, Len(q) - 1), q[Len(q)]) = Cut(q, Len(q))
  BY <1>2, Cuts
<1>4. Cut(q, Len(q)) = q /\ Len(Cut(p, k - 1)) = k - 1 /\ Len(Cut(q, Len(q) - 1)) = Len(q) - 1
  BY <1>2, Cuts
<1>5. k - 1 = Len(q) - 1
  BY <1>4
<1>6. k = Len(q)
  BY <1>1, <1>5
<1>7. QED
  BY <1>3, <1>4, <1>6

\* A directory being read may be given the name of a new file in it.
LEMMA GivenTypes ==
  ASSUME Dir!TypeOK, NEW q \in Seq(Name), q # <<>>, NEW g \in SUBSET {k \in DOMAIN stack : stack[k].dp = Dir!Parent(q)},
         stack' = [k \in DOMAIN stack |->
                     IF k \in g THEN [stack[k] EXCEPT !.left = @ \cup {Dir!Last(q)}] ELSE stack[k]]
  PROVE  /\ stack' \in Seq(Dir!Frame) /\ Len(stack') = Len(stack)
         /\ \A k \in 1..Len(stack) :
              /\ stack'[k].n = stack[k].n /\ stack'[k].dp = stack[k].dp
              /\ stack[k].left \subseteq stack'[k].left
              /\ \A x \in stack'[k].left : x \in stack[k].left \/ (x = q[Len(q)] /\ stack[k].dp = Cut(q, Len(q) - 1))
<1> DEFINE new(k) == [stack[k] EXCEPT !.left = @ \cup {q[Len(q)]}]
<1>1. /\ stack \in Seq(Dir!Frame) /\ Len(stack) \in Nat /\ DOMAIN stack = 1..Len(stack)
      /\ \A k \in 1..Len(stack) : stack[k] \in Dir!Frame
  BY WalkTypes
<1>2. q[Len(q)] \in Name
  <2>1. Len(q) \in 1..Len(q)
    OBVIOUS
  <2>2. QED
    BY <2>1, Cuts
<1>3. Dir!Last(q) = q[Len(q)] /\ Dir!Parent(q) = Cut(q, Len(q) - 1)
  BY DEF Dir!Last, Dir!Parent, Dir!Front, Cut
<1>4. \A k \in 1..Len(stack) : k \in g => stack[k].dp = Cut(q, Len(q) - 1)
  BY <1>1, <1>3
<1>5. ASSUME NEW k \in 1..Len(stack)
      PROVE  /\ new(k) \in Dir!Frame /\ new(k).n = stack[k].n /\ new(k).dp = stack[k].dp
             /\ new(k).left = stack[k].left \cup {q[Len(q)]}
  <2>1. stack[k] \in Dir!Frame
    BY <1>1
  <2> HIDE DEF new
  <2>2. QED
    BY <1>2, <2>1 DEF Dir!Frame, new
<1>6. stack' = [k \in 1..Len(stack) |-> IF k \in g THEN new(k) ELSE stack[k]]
  BY <1>1, <1>3
<1> HIDE DEF new
<1>7. \A k \in 1..Len(stack) : stack'[k] = IF k \in g THEN new(k) ELSE stack[k]
  BY <1>6
<1>8. stack' \in [1..Len(stack) -> Dir!Frame]
  BY <1>1, <1>5, <1>6
<1>9. stack' \in Seq(Dir!Frame) /\ Len(stack') = Len(stack)
  BY <1>1, <1>8
<1>10. ASSUME NEW k \in 1..Len(stack)
       PROVE  /\ stack'[k].n = stack[k].n /\ stack'[k].dp = stack[k].dp
              /\ stack[k].left \subseteq stack'[k].left
              /\ \A x \in stack'[k].left : x \in stack[k].left \/ (x = q[Len(q)] /\ stack[k].dp = Cut(q, Len(q) - 1))
  <2>1. CASE k \in g
    BY <1>4, <1>5, <1>7, <2>1
  <2>2. CASE k \notin g
    BY <1>7, <2>2
  <2>3. QED
    BY <2>1, <2>2
<1>11. QED
  BY <1>9, <1>10

LEMMA CreateIsRight ==
  ASSUME WalkInv, NEW q \in Dir!Path, NEW kind \in Kind \cup {"dir"}, Dir!Create(q, kind)
  PROVE  WalkInv'
<1> USE DEF WalkInv
<1> DEFINE m == Len(q)
           L == Len(stack)
<1>1. /\ q # <<>> /\ q \notin DOMAIN tree /\ Dir!IsDir(Dir!Parent(q)) /\ pc \notin {"start", "done"}
      /\ touched' = touched \cup {q}
      /\ tree' = [p \in DOMAIN tree \cup {q} |-> IF p = q THEN kind ELSE tree[p]]
      /\ UNCHANGED <<pc, fullpath, slash, pathlen, startLen, count, seen, missed>>
  BY Zenon DEF Dir!Create, Dir!Change
<1>2. /\ q \in Seq(Name) /\ m \in Nat \ {0} /\ m <= MaxDepth /\ m - 1 \in 0..m
      /\ Len(Cut(q, m - 1)) = m - 1
  <2>1. q \in Seq(Name) /\ m \in Nat /\ m <= MaxDepth /\ m # 0
    BY <1>1, Paths
  <2>2. m - 1 \in 0..m
    BY <2>1
  <2>3. QED
    BY <2>1, <2>2, Cuts
<1>3. /\ stack' \in Seq(Dir!Frame) /\ Len(stack') = L
      /\ \A k \in 1..L :
           /\ stack'[k].n = stack[k].n /\ stack'[k].dp = stack[k].dp
           /\ stack[k].left \subseteq stack'[k].left
           /\ \A x \in stack'[k].left : x \in stack[k].left \/ (x = q[m] /\ stack[k].dp = Cut(q, m - 1))
  <2>1. PICK g \in SUBSET {k \in DOMAIN stack : stack[k].dp = Dir!Parent(q)} :
               stack' = [k \in DOMAIN stack |->
                           IF k \in g THEN [stack[k] EXCEPT !.left = @ \cup {Dir!Last(q)}] ELSE stack[k]]
    BY DEF Dir!Create
  <2>2. QED
    BY <1>1, <1>2, <2>1, GivenTypes
<1>4. /\ fullpath \in Seq(Name) /\ Len(fullpath) \in Nat /\ Len(fullpath) >= L - 1
      /\ L \in Nat
  BY WalkTypes DEF Place
<1>5. \A k \in 1..L : stack[k].dp = Cut(fullpath, k - 1) /\ k - 1 \in 0..Len(fullpath)
  BY <1>4 DEF Place
<1> HIDE DEF m
<1>6. Dir!TypeOK'
  <2>1. stack # <<>> => stack' # <<>>
    BY <1>3, <1>4
  <2>2. /\ DOMAIN tree' = DOMAIN tree \cup {q} /\ DOMAIN tree' \subseteq Dir!Path
        /\ tree' \in [DOMAIN tree' -> Kind \cup {"dir"}]
    BY <1>1 DEF Dir!TypeOK
  <2>3. touched' \subseteq Dir!Path
    BY <1>1 DEF Dir!TypeOK
  <2>4. QED
    BY <1>1, <1>3, <2>1, <2>2, <2>3, Zenon DEF Dir!TypeOK
<1>7. Place'
  <2>1. ASSUME NEW k \in 1..L, k > MaxDepth PROVE stack'[k].left \cap Name = {}
    <3>1. stack[k].dp # Cut(q, m - 1)
      <4>1. Len(stack[k].dp) = k - 1
        <5>1. stack[k].dp = Cut(fullpath, k - 1) /\ k - 1 \in 0..Len(fullpath)
          BY <1>5
        <5>2. Len(Cut(fullpath, k - 1)) = k - 1
          BY <1>4, <5>1, Cuts
        <5>3. QED
          BY <5>1, <5>2
      <4>2. k # m
        BY <1>2, <2>1, WalkConstants
      <4>3. k - 1 # m - 1
        BY <1>2, <4>2
      <4>4. QED
        BY <1>2, <4>1, <4>3
    <3>2. stack[k].left \cap Name = {}
      BY <2>1 DEF Place, L
    <3>3. QED
      BY <1>3, <3>1, <3>2
  <2>2. stack = <<>> => stack' = <<>>
    BY <1>3
  <2>3. QED
    BY <1>1, <1>3, <2>1, <2>2 DEF Place
<1>8. Fit'
  BY <1>1, <1>3 DEF Fit, Dir!PathLength
<1>9. Closed'
  <2>1. Cut(q, m - 1) \in DOMAIN tree /\ tree[Cut(q, m - 1)] = "dir"
    BY <1>1 DEF Dir!IsDir, Dir!Parent, Dir!Front, Cut, m
  <2>2. \A p \in DOMAIN tree : p \in DOMAIN tree' /\ tree'[p] = tree[p]
    BY <1>1
  <2>3. ASSUME NEW k \in 0..m - 1
        PROVE  Cut(q, k) \in DOMAIN tree /\ tree[Cut(q, k)] = "dir"
    <3>1. CASE k = m - 1
      BY <2>1, <3>1
    <3>2. CASE k # m - 1
      <4>1. k \in 0..(m - 1) - 1 /\ k \in 0..m - 1
        BY <1>2, <3>2
      <4>2. Cut(Cut(q, m - 1), k) = Cut(q, k)
        BY <1>2, <4>1, Cuts DEF m
      <4>3. QED
        BY <1>2, <2>1, <4>1, <4>2 DEF Closed
    <3>3. QED
      BY <3>1, <3>2
  <2>4. ASSUME NEW p \in DOMAIN tree', NEW k \in 0..Len(p) - 1
        PROVE  Cut(p, k) \in DOMAIN tree /\ tree[Cut(p, k)] = "dir"
    <3>1. CASE p = q
      BY <2>3, <3>1 DEF m
    <3>2. CASE p # q
      BY <1>1, <3>2 DEF Closed
    <3>3. QED
      BY <3>1, <3>2
  <2>5. QED
    BY <2>2, <2>4 DEF Closed
<1>10. OnceTaken'
  <2> SUFFICES ASSUME NEW k \in 1..L, k <= Len(fullpath), Clear(Cut(fullpath, k), touched'),
                      fullpath[k] \in stack'[k].left
               PROVE  FALSE
      BY <1>1, <1>3 DEF OnceTaken
  <2>1. k \in 1..Len(fullpath) /\ k \in 0..Len(fullpath)
    BY <1>4
  <2>2. Cut(fullpath, k) \in Seq(Name)
    BY <1>4, <2>1, Cuts
  <2>3. Clear(Cut(fullpath, k), touched) /\ Cut(fullpath, k) # q
    BY <1>1, <2>2, TouchedMore
  <2>4. fullpath[k] \notin stack[k].left
    BY <2>3 DEF OnceTaken, L
  <2>5. fullpath[k] = q[m] /\ Cut(fullpath, k - 1) = Cut(q, m - 1)
    BY <1>3, <1>5, <2>4
  <2>6. QED
    BY <1>1, <1>2, <1>4, <2>1, <2>3, <2>5, GivenName DEF m
<1>11. Counted'
  <2>1. ASSUME NEW p \in Dir!Path, Clear(p, touched')
        PROVE  /\ Clear(p, touched)
               /\ p \in DOMAIN tree' => p \in DOMAIN tree
               /\ Ahead(p)' <=> Ahead(p)
    <3>1. p \in Seq(Name) /\ Len(p) \in Nat
      BY Paths
    <3>2. Clear(p, touched) /\ p # q /\ \A k \in 0..Len(p) : Cut(p, k) # q
      BY <1>1, <2>1, <3>1, TouchedMore
    <3>3. p \in DOMAIN tree' => p \in DOMAIN tree
      BY <1>1, <3>2
    <3>4. ASSUME NEW k \in 1..L, k <= Len(p), Cut(p, k - 1) = stack[k].dp
          PROVE  p[k] \in stack'[k].left <=> p[k] \in stack[k].left
      <4>1. k \in 1..Len(p) /\ k \in 0..Len(p)
        BY <3>1, <3>4
      <4>2. ~(p[k] = q[m] /\ stack[k].dp = Cut(q, m - 1))
        BY <1>1, <1>2, <3>1, <3>2, <3>4, <4>1, GivenName DEF m
      <4>3. QED
        BY <1>3, <4>2
    <3>5. Awaited(p)' <=> Awaited(p)
      BY <1>3, <3>4 DEF Awaited
    <3>6. Ahead(p)' <=> Ahead(p)
      BY <1>1, <3>5 DEF Ahead, OnTheWay
    <3>7. QED
      BY <3>2, <3>3, <3>6
  <2>2. QED
    BY <1>1, <2>1, CountKept
<1>12. QED
  BY <1>6, <1>7, <1>8, <1>9, <1>10, <1>11

LEMMA DeleteIsRight ==
  ASSUME WalkInv, NEW q \in Dir!Path, Dir!Delete(q)
  PROVE  WalkInv'
<1> USE DEF WalkInv
<1>1. /\ q \in DOMAIN tree /\ Dir!Entries(q) = {} /\ touched' = touched \cup {q}
      /\ tree' = [p \in DOMAIN tree \ {q} |-> tree[p]]
      /\ UNCHANGED <<pc, fullpath, slash, pathlen, startLen, count, seen, missed, stack>>
  BY Zenon DEF Dir!Delete, Dir!Change
<1>2. Dir!TypeOK'
  <2>1. /\ DOMAIN tree' = DOMAIN tree \ {q} /\ DOMAIN tree' \subseteq Dir!Path
        /\ tree' \in [DOMAIN tree' -> Kind \cup {"dir"}]
    BY <1>1 DEF Dir!TypeOK
  <2>2. touched' \subseteq Dir!Path
    BY <1>1 DEF Dir!TypeOK
  <2>3. QED
    BY <1>1, <2>1, <2>2, Zenon DEF Dir!TypeOK
<1>3. Place' /\ Fit'
  <2>1. Place'
    BY <1>1, Zenon DEF Place
  <2>2. Fit'
    BY <1>1, Zenon DEF Fit, Dir!PathLength
  <2>3. QED
    BY <2>1, <2>2
<1>4. Closed'
  <2> SUFFICES ASSUME NEW p \in DOMAIN tree', NEW k \in 0..Len(p) - 1
               PROVE  Cut(p, k) \in DOMAIN tree' /\ tree'[Cut(p, k)] = "dir"
      BY DEF Closed
  <2>1. p \in DOMAIN tree /\ p \in Seq(Name) /\ Len(p) \in Nat
    BY <1>1, Paths DEF Dir!TypeOK
  <2>2. Cut(p, k) \in DOMAIN tree /\ tree[Cut(p, k)] = "dir"
    BY <2>1 DEF Closed
  <2>3. ASSUME Cut(p, k) = q PROVE FALSE
    <3>1. k + 1 \in 1..Len(p) /\ (k + 1) - 1 = k
      BY <2>1
    <3>2. p[k + 1] \in Name /\ Append(q, p[k + 1]) = Cut(p, k + 1)
      BY <2>1, <2>3, <3>1, CutNext
    <3>3. Cut(p, k + 1) \in DOMAIN tree
      <4>1. CASE k + 1 = Len(p)
        BY <2>1, <4>1, Cuts
      <4>2. CASE k + 1 # Len(p)
        <5>1. k + 1 \in 0..Len(p) - 1
          BY <2>1, <4>2
        <5>2. QED
          BY <2>1, <5>1 DEF Closed
      <4>3. QED
        BY <4>1, <4>2
    <3>4. p[k + 1] \in Dir!Entries(q)
      BY <3>2, <3>3, Zenon DEF Dir!Entries
    <3>5. QED
      BY <1>1, <3>4
  <2>4. QED
    BY <1>1, <2>2, <2>3
<1>5. OnceTaken'
  <2>1. \A p : Clear(p, touched') => Clear(p, touched)
    BY <1>1 DEF Clear
  <2>2. QED
    BY <1>1, <2>1 DEF OnceTaken
<1>6. Counted'
  <2>1. ASSUME NEW p \in Dir!Path, Clear(p, touched')
        PROVE  /\ Clear(p, touched)
               /\ p \in DOMAIN tree' => p \in DOMAIN tree
               /\ Ahead(p)' <=> Ahead(p)
    <3>1. Clear(p, touched)
      BY <1>1, <2>1 DEF Clear
    <3>2. p \in DOMAIN tree' => p \in DOMAIN tree
      BY <1>1
    <3>3. Ahead(p)' <=> Ahead(p)
      BY <1>1, Zenon DEF Ahead, OnTheWay, Awaited
    <3>4. QED
      BY <3>1, <3>2, <3>3
  <2>2. QED
    BY <1>1, <2>1, CountKept
<1>7. QED
  BY <1>2, <1>3, <1>4, <1>5, <1>6

LEMMA WalkInit ==
  ASSUME Dir!Init
  PROVE  WalkInv
<1>1. /\ tree \in Dir!Tree /\ touched = {} /\ startLen \in StartLen
      /\ pc = "start" /\ fullpath = <<>> /\ slash = FALSE /\ pathlen = 0 /\ stack = <<>>
      /\ count = [k \in Kind \cup {"dir"} |-> 0]
      /\ seen = [p \in Dir!Path |-> 0] /\ missed = {}
  BY DEF Dir!Init
<1>2. <<>> \in Seq(Name) /\ <<>> \in Seq(Dir!Frame) /\ Len(<<>>) = 0
  OBVIOUS
<1>3. /\ tree \in [DOMAIN tree -> Kind \cup {"dir"}] /\ DOMAIN tree \subseteq Dir!Path
      /\ \A p \in DOMAIN tree \ {<<>>} :
           Dir!Parent(p) \in DOMAIN tree /\ tree[Dir!Parent(p)] = "dir"
  <2>1. PICK t \in SUBSET Dir!Path : tree \in [t -> Kind \cup {"dir"}]
    BY <1>1 DEF Dir!Tree
  <2>2. \A p \in DOMAIN tree \ {<<>>} :
          Dir!Parent(p) \in DOMAIN tree /\ tree[Dir!Parent(p)] = "dir"
    BY <1>1 DEF Dir!Tree
  <2>3. QED
    BY <2>1, <2>2
<1>4. Dir!TypeOK
  <2>1. fullpath \in Dir!Path
    <3>1. fullpath = <<>> /\ Len(<<>>) <= MaxDepth
      BY <1>1, <1>2, WalkConstants
    <3>2. QED
      BY <1>2, <3>1, Paths
  <2>2. seen \in [Dir!Path -> Nat] /\ count \in [Kind \cup {"dir"} -> Nat]
    BY <1>1
  <2>3. pathlen \in Nat /\ stack \in Seq(Dir!Frame) /\ slash \in BOOLEAN /\ missed = {} /\ touched = {}
    BY <1>1, <1>2
  <2>4. QED
    BY <1>1, <1>3, <2>1, <2>2, <2>3, Zenon DEF Dir!TypeOK
<1>5. Place
  BY <1>1, <1>2 DEF Place
<1>6. Fit
  <2>1. startLen \in Nat \ {0}
    BY <1>1, WalkConstants
  <2>2. QED
    BY <1>1, <1>2, <2>1 DEF Fit
<1>7. Closed
  <2> SUFFICES ASSUME NEW p \in DOMAIN tree, p \in Seq(Name), Len(p) \in Nat
               PROVE  \A k \in 0..Len(p) - 1 : Cut(p, k) \in DOMAIN tree /\ tree[Cut(p, k)] = "dir"
      BY <1>3, Paths DEF Closed
  <2> DEFINE T == {k \in Nat : k < Len(p) => /\ Cut(p, Len(p) - 1 - k) \in DOMAIN tree
                                             /\ tree[Cut(p, Len(p) - 1 - k)] = "dir"}
  <2>1. ASSUME NEW q \in DOMAIN tree, NEW k \in 1..Len(p), q = Cut(p, k)
        PROVE  Cut(p, k - 1) \in DOMAIN tree /\ tree[Cut(p, k - 1)] = "dir"
    <3>1. k \in 0..Len(p) /\ k - 1 \in 0..k
      OBVIOUS
    <3>2. q \in Seq(Name) /\ Len(q) = k /\ Cut(q, k - 1) = Cut(p, k - 1)
      BY <2>1, <3>1, Cuts
    <3>3. q # <<>>
      BY <3>2
    <3>4. Dir!Parent(q) = Cut(p, k - 1)
      BY <3>2 DEF Dir!Parent, Dir!Front, Cut
    <3>5. QED
      BY <1>3, <3>3, <3>4
  <2>2. 0 \in T
    <3>1. SUFFICES ASSUME 0 < Len(p)
                   PROVE Cut(p, Len(p) - 1 - 0) \in DOMAIN tree /\ tree[Cut(p, Len(p) - 1 - 0)] = "dir"
      OBVIOUS
    <3>2. Len(p) \in 1..Len(p) /\ Cut(p, Len(p)) = p /\ Len(p) - 1 - 0 = Len(p) - 1
      BY <3>1, Cuts
    <3>3. QED
      BY <2>1, <3>2
  <2>3. ASSUME NEW k \in Nat, k \in T PROVE k + 1 \in T
    <3>1. SUFFICES ASSUME k + 1 < Len(p)
                   PROVE  /\ Cut(p, Len(p) - 1 - (k + 1)) \in DOMAIN tree
                          /\ tree[Cut(p, Len(p) - 1 - (k + 1))] = "dir"
      OBVIOUS
    <3>2. Len(p) - 1 - k \in 1..Len(p) /\ (Len(p) - 1 - k) - 1 = Len(p) - 1 - (k + 1) /\ k < Len(p)
      BY <3>1
    <3>3. Cut(p, Len(p) - 1 - k) \in DOMAIN tree
      BY <2>3, <3>2
    <3>4. QED
      BY <2>1, <3>2, <3>3
  <2>4. \A k \in Nat : k \in T
    <3> HIDE DEF T
    <3>1. QED
      BY <2>2, <2>3, SetInduction
  <2>5. TAKE k \in 0..Len(p) - 1
  <2>6. Len(p) - 1 - k \in Nat /\ Len(p) - 1 - k < Len(p) /\ Len(p) - 1 - (Len(p) - 1 - k) = k
    OBVIOUS
  <2>7. QED
    BY <2>4, <2>6
<1>8. OnceTaken
  BY <1>1, <1>2 DEF OnceTaken
<1>9. Counted
  BY <1>1 DEF Counted, Ahead
<1>10. QED
  BY <1>4, <1>5, <1>6, <1>7, <1>8, <1>9 DEF WalkInv

LEMMA WalkStep ==
  ASSUME WalkInv, [Dir!Next]_(Dir!vars)
  PROVE  WalkInv'
<1>1. CASE UNCHANGED Dir!vars
  <2>1. UNCHANGED <<tree, changes, touched, pc, fullpath, slash, pathlen, startLen, stack, count,
                    seen, missed>>
    BY <1>1 DEF Dir!vars, Dir!files
  <2>2. Dir!TypeOK' /\ Place' /\ Fit' /\ Closed' /\ OnceTaken'
    BY <2>1, Zenon DEF WalkInv, Dir!TypeOK, Place, Fit, Dir!PathLength, Closed, OnceTaken
  <2>3. Counted'
    BY <2>1, Zenon DEF WalkInv, Counted, Ahead, Awaited, OnTheWay
  <2>4. QED
    BY <2>2, <2>3 DEF WalkInv
<1>2. CASE Dir!Walk
  BY <1>2, MyftwIsRight, FailuresAreRight, CountFileIsRight, CountDirectoryIsRight,
    OpenDirectoryIsRight, SkipDotsIsRight, ReadEntryIsRight, CloseDirectoryIsRight DEF Dir!Walk
<1>3. CASE \E q \in Dir!Path : Dir!Delete(q) \/ \E kind \in Kind \cup {"dir"} : Dir!Create(q, kind)
  BY <1>3, CreateIsRight, DeleteIsRight
<1>4. QED
  BY <1>1, <1>2, <1>3 DEF Dir!Next

LEMMA WalkInvRight ==
  ASSUME WalkInv
  PROVE  Dir!WalkIsRight
<1>1. Dir!TypeOK /\ Dir!FullpathFits
  BY DEF WalkInv, Fit, Dir!FullpathFits
<1>2. Dir!LevelsShareThePath
  <2>1. stack \in Seq(Dir!Frame) /\ DOMAIN stack = 1..Len(stack)
    BY WalkTypes DEF WalkInv
  <2>2. QED
    BY <2>1 DEF WalkInv, Place, Cut, Dir!LevelsShareThePath
<1>3. Dir!CountedOnce
  <2> SUFFICES ASSUME NEW p \in Dir!Path, Dir!Undisturbed(p)
               PROVE  /\ seen[p] <= 1
                      /\ pc = "done" /\ p \in DOMAIN tree /\ Dir!Prefixes(p) \cap missed = {} =>
                           seen[p] = 1
      BY DEF Dir!CountedOnce
  <2>1. \A t : Dir!Prefixes(p) \cap t = {} => Clear(p, t)
    BY Zenon DEF Dir!Prefixes, Clear, Cut
  <2>2. Clear(p, touched)
    BY <2>1 DEF Dir!Undisturbed
  <2>3. pc = "done" => ~Ahead(p)
    BY DEF WalkInv, Place, Ahead, Awaited
  <2>4. QED
    BY <2>1, <2>2, <2>3 DEF WalkInv, Counted
<1>4. QED
  BY <1>1, <1>2, <1>3 DEF Dir!WalkIsRight

-----------------------------------------------------------------------------
(* LeeHomework5: the log is whole while one logger at a time writes it.      *)

(* The inductive invariant.                                                  *)

\* What a cell of the file may hold, at time t.
TimeCell(t) == {Time!NL} \cup [by: Logger, at: Began..t, part: 1..2]
Entry(t) == [by: Logger, at: Began..t]

\* A logger has its line and its place to write it.
Writes(l) == pc[l] \in {"time", "text", "newline", "rest", "sleep"}

\* The text of a line is written and its end is not.
HalfALine == \E l \in Logger : pc[l] = "newline" /\ writable

\* The file as the log says: one logger at most, which writes where it ends.
WholeLog ==
  /\ \A l, m \in Logger : Time!Active(l) /\ Time!Active(m) => l = m
  /\ \A l \in Logger : Writes(l) => offset[l] = Len(file)
  /\ Len(file) = IF HalfALine THEN 3 * Len(log) - 1 ELSE 3 * Len(log)
  /\ \A k \in 1..Len(file) : file[k] = Time!Text[k]

TimeInv ==
  /\ Time!TypeOK
  /\ file \in Seq(TimeCell(now))
  /\ \A l \in Logger : pc[l] \in {"text", "newline"} => currSec[l] \in Began..now
  /\ ~writable => file = <<>> /\ log = <<>>
  /\ ~disturbed => WholeLog

LEMMA TimeConstants == Began \in Nat /\ Began >= 60 /\ MaxTime \in Nat
BY FilesAssumption DEF FilesAssumption, Time!TimeLogAssumption

LEMMA TimeTypes ==
  ASSUME TimeInv
  PROVE  /\ now \in Nat /\ now >= Began /\ Began \in Nat
         /\ file \in Seq(TimeCell(now)) /\ Len(file) \in Nat
         /\ log \in Seq(Entry(now)) /\ Len(log) \in Nat
         /\ pc \in [Logger -> {"off", "open", "time", "text", "newline", "rest", "sleep", "killed"}]
         /\ prevTime \in [Logger -> {0} \cup Began..now]
         /\ currSec \in [Logger -> {0} \cup Began..now]
         /\ offset \in [Logger -> 0..Len(file)]
         /\ wake \in [Logger -> {0} \cup Began..now + 60]
         /\ disturbed \in BOOLEAN /\ writable \in BOOLEAN
<1>1. now \in Nat /\ now >= Began /\ Began \in Nat
  BY TimeConstants DEF TimeInv, Time!TypeOK
<1>2. file \in Seq(TimeCell(now)) /\ log \in Seq(Entry(now))
  BY DEF TimeInv, Time!TypeOK, Entry
<1>3. Len(file) \in Nat /\ Len(log) \in Nat
  BY <1>2, LenProperties
<1>4. QED
  BY <1>1, <1>2, <1>3 DEF TimeInv, Time!TypeOK, Time!Minute

\* The types, with those of the cells.
HasTypes ==
  /\ now \in Began..Began + MaxTime /\ writable \in BOOLEAN /\ disturbed \in BOOLEAN
  /\ file \in Seq(TimeCell(now)) /\ log \in Seq(Entry(now))
  /\ pc \in [Logger -> {"off", "open", "time", "text", "newline", "rest", "sleep", "killed"}]
  /\ prevTime \in [Logger -> {0} \cup Began..now]
  /\ currSec \in [Logger -> {0} \cup Began..now]
  /\ offset \in [Logger -> 0..Len(file)]
  /\ wake \in [Logger -> {0} \cup Began..now + 60]

LEMMA TimeTyped == (HasTypes => Time!TypeOK) /\ (HasTypes' => Time!TypeOK')
<1>1. ASSUME HasTypes PROVE Time!TypeOK
  <2>1. \A k \in DOMAIN file : file[k] \in TimeCell(now)
    BY <1>1 DEF HasTypes
  <2>2. \A k \in DOMAIN file :
           file[k] = Time!NL \/ (file[k].by \in Logger /\ file[k].at \in Began..now)
    BY <2>1 DEF TimeCell
  <2>3. QED
    BY <1>1, <2>2 DEF HasTypes, Time!TypeOK, Entry, Time!Minute
<1>2. ASSUME HasTypes' PROVE Time!TypeOK'
  <2>1. \A k \in DOMAIN file' : file'[k] \in TimeCell(now')
    BY <1>2 DEF HasTypes, TimeCell
  <2>2. \A k \in DOMAIN file' :
           file'[k] = Time!NL \/ (file'[k].by \in Logger /\ file'[k].at \in Began..now')
    BY <2>1 DEF TimeCell
  <2>3. QED
    BY <1>2, <2>2 DEF HasTypes, Time!TypeOK, Entry, Time!Minute
<1>3. QED
  BY <1>1, <1>2

\* As time passes, the types only grow.
LEMMA TimePasses ==
  ASSUME NEW t \in Nat, NEW s \in Nat, t <= s, NEW f \in Seq(TimeCell(t)), NEW g \in Seq(Entry(t))
  PROVE  f \in Seq(TimeCell(s)) /\ g \in Seq(Entry(s))
<1>1. Began..t \subseteq Began..s
  BY TimeConstants
<1>2. TimeCell(t) \subseteq TimeCell(s) /\ Entry(t) \subseteq Entry(s)
  BY <1>1 DEF TimeCell, Entry
<1>3. QED
  BY <1>2

LEMMA TimeInit == Time!Init => TimeInv
<1> SUFFICES ASSUME Time!Init PROVE TimeInv
    OBVIOUS
<1>1. /\ now = Began /\ writable \in BOOLEAN /\ file = <<>> /\ log = <<>> /\ disturbed = FALSE
      /\ pc = [l \in Logger |-> "off"]
      /\ prevTime = [l \in Logger |-> 0] /\ currSec = [l \in Logger |-> 0]
      /\ offset = [l \in Logger |-> 0] /\ wake = [l \in Logger |-> 0]
  BY DEF Time!Init
<1>2. Len(file) = 0 /\ Len(log) = 0 /\ file \in Seq(TimeCell(now)) /\ log \in Seq(Entry(now))
  BY <1>1
<1>3. Time!TypeOK
  <2>1. Began \in Began..Began + MaxTime
    BY TimeConstants
  <2>2. /\ pc \in [Logger -> {"off", "open", "time", "text", "newline", "rest", "sleep", "killed"}]
        /\ prevTime \in [Logger -> {0} \cup Began..Began]
        /\ currSec \in [Logger -> {0} \cup Began..Began]
        /\ offset \in [Logger -> 0..Len(file)]
        /\ wake \in [Logger -> {0} \cup Began..Began + 60]
    BY <1>1, <1>2
  <2>3. file \in Seq(TimeCell(Began)) /\ log \in Seq(Entry(Began)) /\ disturbed \in BOOLEAN
    BY <1>1, <1>2
  <2>4. QED
    BY <1>1, <2>1, <2>2, <2>3, TimeTyped DEF HasTypes
<1>4. \A l \in Logger : ~Writes(l) /\ ~Time!Active(l) /\ pc[l] # "newline" /\ pc[l] # "text"
  BY <1>1 DEF Writes, Time!Active
<1>5. WholeLog
  BY <1>2, <1>4 DEF WholeLog, HalfALine
<1>6. QED
  BY <1>1, <1>2, <1>3, <1>4, <1>5 DEF TimeInv

-----------------------------------------------------------------------------
(* The text of the log and what write() does to the file.                    *)

\* The cells of one line.
LEMMA CellsAre ==
  ASSUME NEW r \in Entry(now), now \in Nat
  PROVE  /\ Time!Cells(r)[1] = [by |-> r.by, at |-> r.at, part |-> 1]
         /\ Time!Cells(r)[2] = [by |-> r.by, at |-> r.at, part |-> 2]
         /\ Time!Cells(r)[3] = Time!NL
<1> DEFINE L == Time!Line(r.by, r.at)
<1>1. L = [k \in 1..2 |-> [by |-> r.by, at |-> r.at, part |-> k]]
  BY DEF Time!Line, Time!Width
<1>2. \A k \in 1..2 : [by |-> r.by, at |-> r.at, part |-> k] \in TimeCell(now)
  BY DEF TimeCell, Entry
<1>3. L \in Seq(TimeCell(now)) /\ Len(L) = 2
  BY <1>1, <1>2
<1>4. L[1] = [by |-> r.by, at |-> r.at, part |-> 1] /\ L[2] = [by |-> r.by, at |-> r.at, part |-> 2]
  BY <1>1
<1> HIDE DEF L
<1>5. Time!Cells(r) = Append(L, Time!NL)
  BY DEF Time!Cells, L
<1>6. Time!NL \in TimeCell(now)
  BY DEF TimeCell
<1>7. /\ \A k \in 1..Len(L) : Append(L, Time!NL)[k] = L[k]
      /\ Append(L, Time!NL)[Len(L) + 1] = Time!NL
  <2>1. ASSUME NEW X, NEW s \in Seq(X), NEW e \in X
        PROVE  (\A k \in 1..Len(s) : Append(s, e)[k] = s[k]) /\ Append(s, e)[Len(s) + 1] = e
    OBVIOUS
  <2>2. QED
    BY <1>3, <1>6, <2>1
<1>8. 1 \in 1..Len(L) /\ 2 \in 1..Len(L) /\ Len(L) + 1 = 3
  BY <1>3
<1>9. /\ Append(L, Time!NL)[1] = L[1] /\ Append(L, Time!NL)[2] = L[2]
      /\ Append(L, Time!NL)[3] = Time!NL
  BY <1>7, <1>8
<1>10. QED
  BY <1>4, <1>5, <1>9

\* A new line of the log leaves the text of the others as it was.
LEMMA TextGrows ==
  ASSUME TimeInv, NEW r \in Entry(now), log' = Append(log, r)
  PROVE  /\ Len(log') = Len(log) + 1
         /\ \A k \in 1..3 * Len(log) : Time!Text'[k] = Time!Text[k]
         /\ Time!Text'[3 * Len(log) + 1] = Time!Cells(r)[1]
         /\ Time!Text'[3 * Len(log) + 2] = Time!Cells(r)[2]
         /\ Time!Text'[3 * Len(log) + 3] = Time!Cells(r)[3]
<1> DEFINE L == Len(log)
<1>1. log \in Seq(Entry(now)) /\ L \in Nat
  BY TimeTypes
<1>2. Len(log') = L + 1 /\ log'[L + 1] = r /\ \A j \in 1..L : log'[j] = log[j]
  BY <1>1, AppendProperties
<1>3. Time!Text = [k \in 1..3 * L |-> Time!Cells(log[(k - 1) \div 3 + 1])[((k - 1) % 3) + 1]]
  BY DEF Time!Text, Time!Width
<1>4. Time!Text' = [k \in 1..3 * (L + 1) |->
                      Time!Cells(log'[(k - 1) \div 3 + 1])[((k - 1) % 3) + 1]]
  BY <1>2 DEF Time!Text, Time!Width, Time!Cells, Time!Line
<1> HIDE DEF L
<1>5. ASSUME NEW k \in 1..3 * L
      PROVE  Time!Text'[k] = Time!Text[k]
  <2>1. k \in 1..3 * (L + 1) /\ (k - 1) \div 3 + 1 \in 1..L
    BY <1>1, <1>5
  <2>2. log'[(k - 1) \div 3 + 1] = log[(k - 1) \div 3 + 1]
    BY <1>2, <2>1
  <2>3. QED
    BY <1>3, <1>4, <1>5, <2>1, <2>2
<1>6. ASSUME NEW i_ \in 0..2
      PROVE  Time!Text'[3 * L + 1 + i_] = Time!Cells(r)[i_ + 1]
  <2>1. /\ 3 * L + 1 + i_ \in 1..3 * (L + 1) /\ ((3 * L + 1 + i_) - 1) \div 3 + 1 = L + 1
        /\ (((3 * L + 1 + i_) - 1) % 3) + 1 = i_ + 1
    BY <1>1
  <2>2. QED
    BY <1>2, <1>4, <2>1
<1>7. /\ Time!Text'[3 * L + 1] = Time!Cells(r)[1] /\ Time!Text'[3 * L + 2] = Time!Cells(r)[2]
      /\ Time!Text'[3 * L + 3] = Time!Cells(r)[3]
  <2>1. /\ Time!Text'[3 * L + 1 + 0] = Time!Cells(r)[0 + 1] /\ Time!Text'[3 * L + 1 + 1] = Time!Cells(r)[1 + 1]
        /\ Time!Text'[3 * L + 1 + 2] = Time!Cells(r)[2 + 1]
    BY <1>6
  <2>2. 3 * L + 1 + 0 = 3 * L + 1 /\ 3 * L + 1 + 1 = 3 * L + 2 /\ 3 * L + 1 + 2 = 3 * L + 3
    BY <1>1
  <2>3. QED
    BY <2>1, <2>2
<1>8. QED
  BY <1>2, <1>5, <1>7 DEF L

\* write() at a place in the file or at its end.
LEMMA WrittenIs ==
  ASSUME NEW X, NEW f \in Seq(X), NEW at_ \in 0..Len(f), NEW c \in Seq(X)
  PROVE  /\ Time!Written(f, at_, c) \in Seq(X)
         /\ Len(Time!Written(f, at_, c)) >= Len(f)
         /\ at_ + Len(c) <= Len(Time!Written(f, at_, c))
         /\ at_ = Len(f) => /\ Len(Time!Written(f, at_, c)) = Len(f) + Len(c)
                            /\ \A k \in 1..Len(f) : Time!Written(f, at_, c)[k] = f[k]
                            /\ \A k \in 1..Len(c) : Time!Written(f, at_, c)[Len(f) + k] = c[k]
<1> DEFINE N == IF at_ + Len(c) > Len(f) THEN at_ + Len(c) ELSE Len(f)
           W == [k \in 1..N |-> IF k \in at_+1..at_+Len(c) THEN c[k - at_] ELSE f[k]]
<1>1. Len(f) \in Nat /\ Len(c) \in Nat /\ at_ \in Nat /\ at_ <= Len(f)
  OBVIOUS
<1>2. N \in Nat /\ N >= Len(f) /\ N >= at_ + Len(c) /\ (at_ = Len(f) => N = Len(f) + Len(c))
  BY <1>1
<1>3. \A k \in 1..N : IF k \in at_+1..at_+Len(c) THEN k - at_ \in 1..Len(c) ELSE k \in 1..Len(f)
  BY <1>1
<1>4. (\A k \in 1..Len(c) : c[k] \in X) /\ (\A k \in 1..Len(f) : f[k] \in X)
  OBVIOUS
<1>5. Time!Written(f, at_, c) = W
  BY DEF Time!Written
<1> HIDE DEF N
<1>6. \A k \in 1..N : (IF k \in at_+1..at_+Len(c) THEN c[k - at_] ELSE f[k]) \in X
  BY <1>3, <1>4
<1>7. W \in Seq(X) /\ Len(W) = N
  BY <1>2, <1>6
<1>8. ASSUME at_ = Len(f), NEW k \in 1..Len(f) PROVE W[k] = f[k]
  BY <1>1, <1>2, <1>8
<1>9. ASSUME at_ = Len(f), NEW k \in 1..Len(c) PROVE W[Len(f) + k] = c[k]
  <2>1. Len(f) + k \in 1..N /\ Len(f) + k \in at_+1..at_+Len(c) /\ (Len(f) + k) - at_ = k
    BY <1>1, <1>2, <1>9
  <2>2. QED
    BY <2>1
<1> HIDE DEF W
<1>10. QED
  BY <1>2, <1>5, <1>7, <1>8, <1>9

-----------------------------------------------------------------------------
(* The steps.                                                                *)

LoggerAt == {"off", "open", "time", "text", "newline", "rest", "sleep", "killed"}

\* A step of l that writes nothing.
LEMMA NothingWritten ==
  ASSUME TimeInv, NEW l \in Logger, NEW at_ \in LoggerAt,
         pc' = [pc EXCEPT ![l] = at_], UNCHANGED <<now, writable, file, log>>,
         prevTime' \in [Logger -> {0} \cup Began..now],
         currSec' \in [Logger -> {0} \cup Began..now],
         offset' \in [Logger -> 0..Len(file)],
         wake' \in [Logger -> {0} \cup Began..now + 60],
         disturbed' \in BOOLEAN,
         \A m \in Logger \ {l} : currSec'[m] = currSec[m] /\ offset'[m] = offset[m],
         at_ \in {"text", "newline"} => currSec'[l] \in Began..now,
         "newline" \in {at_, pc[l]} /\ ~disturbed' => ~writable,
         \/ disturbed'
         \/ /\ ~disturbed
            /\ at_ \in {"off", "killed"} \/ Time!Active(l) \/ \A m \in Logger : ~Time!Active(m)
            /\ at_ \notin {"off", "open", "killed"} => offset'[l] = Len(file)
  PROVE  TimeInv'
<1>1. /\ now \in Began..Began + MaxTime /\ now \in Nat
      /\ file \in Seq(TimeCell(now)) /\ log \in Seq(Entry(now)) /\ writable \in BOOLEAN
      /\ pc \in [Logger -> LoggerAt]
  BY TimeTypes, TimeConstants DEF TimeInv, Time!TypeOK, LoggerAt
<1>2. /\ pc' \in [Logger -> LoggerAt] /\ pc'[l] = at_
      /\ \A m \in Logger \ {l} : pc'[m] = pc[m]
  BY <1>1
<1>3. Time!TypeOK'
  <2>1. HasTypes'
    BY <1>1, <1>2 DEF HasTypes, LoggerAt, TimeCell, Entry
  <2>2. QED
    BY <2>1, TimeTyped
<1>4. \A m \in Logger : pc'[m] \in {"text", "newline"} => currSec'[m] \in Began..now
  <2> TAKE m \in Logger
  <2>1. CASE m = l
    BY <2>1, <1>2
  <2>2. CASE m # l
    BY <2>2, <1>2 DEF TimeInv
  <2>3. QED
    BY <2>1, <2>2
<1>5. ASSUME ~disturbed' PROVE WholeLog'
  <2>1. WholeLog /\ ~disturbed
    BY <1>5 DEF TimeInv
  <2>2. \A m \in Logger \ {l} : /\ Time!Active(m)' <=> Time!Active(m)
                                /\ Writes(m)' <=> Writes(m)
    BY <1>2 DEF Time!Active, Writes
  <2>3. ASSUME NEW m \in Logger, NEW k \in Logger, Time!Active(m)', Time!Active(k)' PROVE m = k
    <3>1. Time!Active(l)' => Time!Active(l) \/ \A j \in Logger : ~Time!Active(j)
      BY <1>2, <1>5 DEF Time!Active
    <3>2. CASE m = l /\ k = l
      BY <3>2
    <3>3. CASE m # l /\ k # l
      <4>1. Time!Active(m) /\ Time!Active(k)
        BY <2>2, <2>3, <3>3
      <4>2. QED
        BY <4>1, <2>1 DEF WholeLog
    <3>4. CASE m = l /\ k # l
      <4>1. Time!Active(k)
        BY <2>2, <2>3, <3>4
      <4>2. Time!Active(m)
        BY <4>1, <2>3, <3>1, <3>4
      <4>3. QED
        BY <4>1, <4>2, <2>1 DEF WholeLog
    <3>5. CASE m # l /\ k = l
      <4>1. Time!Active(m)
        BY <2>2, <2>3, <3>5
      <4>2. Time!Active(k)
        BY <4>1, <2>3, <3>1, <3>5
      <4>3. QED
        BY <4>1, <4>2, <2>1 DEF WholeLog
    <3>6. QED
      BY <3>2, <3>3, <3>4, <3>5
  <2>4. ASSUME NEW m \in Logger, Writes(m)' PROVE offset'[m] = Len(file)
    <3>1. CASE m = l
      BY <3>1, <2>4, <1>2, <1>5 DEF Writes
    <3>2. CASE m # l
      <4>1. Writes(m)
        BY <2>2, <2>4, <3>2
      <4>2. offset[m] = Len(file)
        BY <4>1, <2>1 DEF WholeLog
      <4>3. QED
        BY <4>2, <3>2
    <3>3. QED
      BY <3>1, <3>2
  <2>5. HalfALine' <=> HalfALine
    <3>1. CASE writable
      <4>1. at_ # "newline" /\ pc[l] # "newline"
        BY <1>5, <3>1
      <4>2. QED
        BY <4>1, <1>2 DEF HalfALine
    <3>2. CASE ~writable
      BY <3>2 DEF HalfALine
    <3>3. QED
      BY <3>1, <3>2
  <2>6. Time!Text' = Time!Text
    BY DEF Time!Text, Time!Cells, Time!Line
  <2>7. QED
    BY <2>1, <2>3, <2>4, <2>5, <2>6 DEF WholeLog
<1>6. QED
  BY <1>1, <1>3, <1>4, <1>5 DEF TimeInv

\* What l knows of the file before it writes.
LEMMA BeforeWrite ==
  ASSUME TimeInv, ~disturbed, writable, NEW l \in Logger, pc[l] \in {"text", "newline"}
  PROVE  /\ offset[l] = Len(file)
         /\ Len(file) = IF pc[l] = "newline" THEN 3 * Len(log) - 1 ELSE 3 * Len(log)
         /\ \A m \in Logger \ {l} : ~Time!Active(m)
         /\ \A k \in 1..Len(file) : file[k] = Time!Text[k]
<1>1. WholeLog
  BY DEF TimeInv
<1>2. Time!Active(l) /\ Writes(l)
  BY DEF Time!Active, Writes
<1>3. \A m \in Logger \ {l} : ~Time!Active(m)
  BY <1>1, <1>2 DEF WholeLog
<1>4. HalfALine <=> pc[l] = "newline"
  BY <1>3 DEF HalfALine, Time!Active
<1>5. QED
  BY <1>1, <1>2, <1>3, <1>4 DEF WholeLog

\* l has written cells c, and the log is g.
LEMMA SomethingWritten ==
  ASSUME TimeInv, writable, NEW l \in Logger, pc[l] \in {"text", "newline"},
         NEW at_ \in {"newline", "rest"},
         NEW c \in Seq(TimeCell(now)), file' = Time!Written(file, offset[l], c),
         offset' = [offset EXCEPT ![l] = @ + Len(c)], pc' = [pc EXCEPT ![l] = at_],
         UNCHANGED <<now, writable, prevTime, currSec, wake, disturbed>>,
         log' \in Seq(Entry(now)),
         ~disturbed => /\ Len(file) + Len(c) = IF at_ = "newline" THEN 3 * Len(log') - 1
                                                               ELSE 3 * Len(log')
                       /\ \A k \in 1..Len(file) : Time!Text[k] = Time!Text'[k]
                       /\ \A k \in 1..Len(c) : c[k] = Time!Text'[Len(file) + k]
  PROVE  TimeInv'
<1>1. /\ now \in Began..Began + MaxTime /\ now \in Nat
      /\ file \in Seq(TimeCell(now)) /\ Len(file) \in Nat /\ Len(c) \in Nat
      /\ pc \in [Logger -> LoggerAt] /\ offset \in [Logger -> 0..Len(file)]
      /\ prevTime \in [Logger -> {0} \cup Began..now]
      /\ currSec \in [Logger -> {0} \cup Began..now]
      /\ wake \in [Logger -> {0} \cup Began..now + 60]
      /\ disturbed \in BOOLEAN /\ writable \in BOOLEAN
  <2>1. now \in Began..Began + MaxTime
    BY TimeConstants DEF TimeInv, Time!TypeOK
  <2>2. Len(c) \in Nat
    BY LenProperties
  <2>3. QED
    BY <2>1, <2>2, TimeTypes DEF LoggerAt
<1>2. /\ offset[l] \in 0..Len(file) /\ pc' \in [Logger -> LoggerAt] /\ pc'[l] = at_
      /\ \A m \in Logger \ {l} : pc'[m] = pc[m]
  BY <1>1 DEF LoggerAt
<1>3. /\ file' \in Seq(TimeCell(now)) /\ Len(file') \in Nat /\ Len(file') >= Len(file)
      /\ offset[l] + Len(c) <= Len(file')
      /\ offset[l] = Len(file) =>
           /\ Len(file') = Len(file) + Len(c)
           /\ \A k \in 1..Len(file) : file'[k] = file[k]
           /\ \A k \in 1..Len(c) : file'[Len(file) + k] = c[k]
  <2>1. file' \in Seq(TimeCell(now))
    BY <1>1, <1>2, WrittenIs
  <2>2. QED
    BY <1>1, <1>2, <2>1, WrittenIs, LenProperties
<1>4. offset' \in [Logger -> 0..Len(file')] /\ offset'[l] = offset[l] + Len(c)
  <2>1. \A m \in Logger : offset[m] \in 0..Len(file') /\ offset[l] + Len(c) \in 0..Len(file')
    BY <1>1, <1>2, <1>3
  <2>2. offset' = [m \in Logger |-> IF m = l THEN offset[l] + Len(c) ELSE offset[m]]
    BY <1>1
  <2>3. QED
    BY <2>1, <2>2
<1>5. Time!TypeOK'
  <2>1. HasTypes'
    BY <1>1, <1>2, <1>3, <1>4 DEF HasTypes, LoggerAt, TimeCell, Entry
  <2>2. QED
    BY <2>1, TimeTyped
<1>6. \A m \in Logger : pc'[m] \in {"text", "newline"} => currSec'[m] \in Began..now
  BY <1>2 DEF TimeInv
<1>7. ASSUME ~disturbed' PROVE WholeLog'
  <2>1. /\ offset[l] = Len(file) /\ \A m \in Logger \ {l} : ~Time!Active(m)
        /\ \A k \in 1..Len(file) : file[k] = Time!Text[k]
    BY <1>7, BeforeWrite
  <2>2. \A m \in Logger \ {l} : ~Time!Active(m)' /\ ~Writes(m)' /\ pc'[m] # "newline"
    BY <1>1, <1>2, <2>1 DEF Time!Active, Writes, LoggerAt
  <2>3. Len(file') = Len(file) + Len(c) /\ offset'[l] = Len(file')
    BY <1>3, <1>4, <2>1
  <2>4. HalfALine' <=> at_ = "newline"
    BY <1>2, <2>2 DEF HalfALine
  <2>5. \A k \in 1..Len(file') : file'[k] = Time!Text'[k]
    <3> TAKE k \in 1..Len(file')
    <3>1. CASE k <= Len(file)
      <4>1. k \in 1..Len(file)
        BY <3>1, <1>1
      <4>2. file'[k] = file[k] /\ file[k] = Time!Text[k] /\ Time!Text[k] = Time!Text'[k]
        BY <4>1, <1>3, <1>7, <2>1
      <4>3. QED
        BY <4>2
    <3>2. CASE ~ k <= Len(file)
      <4>1. PICK j \in 1..Len(c) : k = Len(file) + j
        <5>1. k - Len(file) \in 1..Len(c) /\ k = Len(file) + (k - Len(file))
          BY <3>2, <1>1, <1>3, <2>3
        <5>2. QED
          BY <5>1
      <4>2. file'[k] = c[j] /\ c[j] = Time!Text'[k]
        BY <4>1, <1>3, <1>7, <2>1
      <4>3. QED
        BY <4>2
    <3>3. QED
      BY <3>1, <3>2
  <2>6. Len(file') = IF HalfALine' THEN 3 * Len(log') - 1 ELSE 3 * Len(log')
    BY <1>7, <2>3, <2>4
  <2>7. QED
    BY <2>2, <2>3, <2>5, <2>6 DEF WholeLog
<1>8. QED
  BY <1>1, <1>3, <1>5, <1>6, <1>7 DEF TimeInv

\* The steps of a logger but its two writes.
LEMMA QuietLogger ==
  ASSUME TimeInv, NEW l \in Logger,
         Time!Fork(l) \/ Time!Open(l) \/ Time!ReadTime(l) \/ Time!Sleep(l) \/ Time!Wake(l) \/ Time!Kill(l)
  PROVE  TimeInv'
<1>1. /\ now \in Nat /\ Began \in Nat /\ now >= Began /\ Len(file) \in Nat
      /\ pc \in [Logger -> LoggerAt] /\ offset \in [Logger -> 0..Len(file)]
      /\ prevTime \in [Logger -> {0} \cup Began..now]
      /\ currSec \in [Logger -> {0} \cup Began..now]
      /\ wake \in [Logger -> {0} \cup Began..now + 60]
      /\ disturbed \in BOOLEAN /\ pc[l] \in LoggerAt
  BY TimeTypes DEF LoggerAt
<1>2. ~disturbed /\ Writes(l) => offset[l] = Len(file)
  BY DEF TimeInv, WholeLog
<1>3. CASE Time!Fork(l)
  <2>1. /\ pc' = [pc EXCEPT ![l] = "open"] /\ pc[l] = "off"
        /\ disturbed' = (disturbed \/ \E m \in Logger : Time!Active(m))
        /\ UNCHANGED <<now, writable, file, log, prevTime, currSec, offset, wake>>
    BY <1>3 DEF Time!Fork, Time!locals
  <2>2. "open" \in LoggerAt /\ disturbed' \in BOOLEAN
    BY <2>1, <1>1 DEF LoggerAt
  <2>3. disturbed' \/ (~disturbed /\ \A m \in Logger : ~Time!Active(m))
    BY <2>1
  <2>4. QED
    BY <1>1, <2>1, <2>2, <2>3, NothingWritten
<1>4. CASE Time!Open(l)
  <2>1. /\ pc' = [pc EXCEPT ![l] = "time"] /\ pc[l] = "open"
        /\ offset' = [offset EXCEPT ![l] = Len(file)]
        /\ UNCHANGED <<now, writable, file, log, prevTime, currSec, wake, disturbed>>
    BY <1>4 DEF Time!Open
  <2>2. /\ "time" \in LoggerAt /\ Time!Active(l) /\ offset'[l] = Len(file)
        /\ offset' \in [Logger -> 0..Len(file)]
        /\ \A m \in Logger \ {l} : offset'[m] = offset[m]
    BY <2>1, <1>1 DEF LoggerAt, Time!Active
  <2>3. QED
    BY <1>1, <2>1, <2>2, NothingWritten
<1>5. CASE Time!ReadTime(l)
  <2>1. /\ pc[l] = "time" /\ currSec' = [currSec EXCEPT ![l] = now]
        /\ \/ pc' = [pc EXCEPT ![l] = "text"] /\ prevTime' = [prevTime EXCEPT ![l] = now]
           \/ pc' = [pc EXCEPT ![l] = "rest"] /\ prevTime' = prevTime
        /\ UNCHANGED <<now, writable, file, log, offset, wake, disturbed>>
    BY <1>5 DEF Time!ReadTime
  <2>2. /\ "text" \in LoggerAt /\ "rest" \in LoggerAt /\ Time!Active(l) /\ Writes(l)
        /\ now \in Began..now
    BY <2>1, <1>1 DEF LoggerAt, Time!Active, Writes
  <2>3. /\ currSec' \in [Logger -> {0} \cup Began..now] /\ currSec'[l] = now
        /\ prevTime' \in [Logger -> {0} \cup Began..now]
        /\ \A m \in Logger \ {l} : currSec'[m] = currSec[m]
    BY <2>1, <2>2, <1>1
  <2>4. CASE pc' = [pc EXCEPT ![l] = "text"]
    BY <1>1, <1>2, <2>1, <2>2, <2>3, <2>4, NothingWritten
  <2>5. CASE pc' = [pc EXCEPT ![l] = "rest"]
    BY <1>1, <1>2, <2>1, <2>2, <2>3, <2>5, NothingWritten
  <2>6. QED
    BY <2>1, <2>4, <2>5
<1>6. CASE Time!Sleep(l)
  <2>1. /\ pc[l] = "rest" /\ pc' = [pc EXCEPT ![l] = "sleep"]
        /\ wake' = [wake EXCEPT ![l] = now + 60]
        /\ UNCHANGED <<now, writable, file, log, prevTime, currSec, offset, disturbed>>
    BY <1>6 DEF Time!Sleep, Time!Minute
  <2>2. /\ "sleep" \in LoggerAt /\ Time!Active(l) /\ Writes(l)
        /\ wake' \in [Logger -> {0} \cup Began..now + 60]
    BY <2>1, <1>1 DEF LoggerAt, Time!Active, Writes
  <2>3. QED
    BY <1>1, <1>2, <2>1, <2>2, NothingWritten
<1>7. CASE Time!Wake(l)
  <2>1. /\ pc[l] = "sleep" /\ pc' = [pc EXCEPT ![l] = "time"]
        /\ UNCHANGED <<now, writable, file, log, prevTime, currSec, offset, wake, disturbed>>
    BY <1>7 DEF Time!Wake, Time!locals
  <2>2. "time" \in LoggerAt /\ Time!Active(l) /\ Writes(l)
    BY <2>1 DEF LoggerAt, Time!Active, Writes
  <2>3. QED
    BY <1>1, <1>2, <2>1, <2>2, NothingWritten
<1>8. CASE Time!Kill(l)
  <2>1. /\ Time!Active(l) /\ pc' = [pc EXCEPT ![l] = "killed"]
        /\ disturbed' = (disturbed \/ pc[l] = "newline")
        /\ UNCHANGED <<now, writable, file, log, prevTime, currSec, offset, wake>>
    BY <1>8 DEF Time!Kill, Time!locals
  <2>2. /\ "killed" \in LoggerAt /\ disturbed' \in BOOLEAN
        /\ disturbed' \/ (~disturbed /\ pc[l] # "newline")
    BY <2>1, <1>1 DEF LoggerAt
  <2>3. QED
    BY <1>1, <2>1, <2>2, NothingWritten
<1>9. QED
  BY <1>3, <1>4, <1>5, <1>6, <1>7, <1>8

\* On a file that may only be read, nothing comes of a write.
LEMMA WriteDenied ==
  ASSUME TimeInv, ~writable, NEW l \in Logger, pc[l] \in {"text", "newline"},
         NEW at_ \in {"newline", "rest"}, pc' = [pc EXCEPT ![l] = at_],
         UNCHANGED <<now, writable, file, log, prevTime, currSec, offset, wake, disturbed>>
  PROVE  TimeInv'
<1>1. /\ offset \in [Logger -> 0..Len(file)]
      /\ prevTime \in [Logger -> {0} \cup Began..now]
      /\ currSec \in [Logger -> {0} \cup Began..now]
      /\ wake \in [Logger -> {0} \cup Began..now + 60]
      /\ disturbed \in BOOLEAN
  BY TimeTypes
<1>2. /\ at_ \in LoggerAt /\ Time!Active(l) /\ Writes(l)
      /\ currSec[l] \in Began..now /\ (~disturbed => offset[l] = Len(file))
  BY DEF LoggerAt, Time!Active, Writes, TimeInv, WholeLog
<1>3. QED
  BY <1>1, <1>2, NothingWritten

LEMMA WriteTextIsWhole ==
  ASSUME TimeInv, NEW l \in Logger, Time!WriteText(l)
  PROVE  TimeInv'
<1>1. /\ pc[l] = "text" /\ pc' = [pc EXCEPT ![l] = "newline"]
      /\ UNCHANGED <<now, writable, prevTime, currSec, wake, disturbed>>
  BY DEF Time!WriteText
<1>2. CASE ~writable
  <2>1. UNCHANGED <<file, log, offset>>
    BY <1>2 DEF Time!WriteText, Time!Write
  <2>2. QED
    BY <1>1, <1>2, <2>1, WriteDenied
<1>3. CASE writable
  <2> DEFINE c == Time!Line(l, currSec[l])
             r == [by |-> l, at |-> currSec[l]]
  <2>1. /\ file' = Time!Written(file, offset[l], c)
        /\ offset' = [offset EXCEPT ![l] = @ + Len(c)] /\ log' = Append(log, r)
    BY <1>3 DEF Time!WriteText, Time!Write
  <2>2. currSec[l] \in Began..now /\ now \in Nat
    BY <1>1, TimeTypes DEF TimeInv
  <2>3. r \in Entry(now) /\ r.by = l /\ r.at = currSec[l]
    BY <2>2 DEF Entry
  <2>4. /\ c \in Seq(TimeCell(now)) /\ Len(c) = 2
        /\ c[1] = [by |-> l, at |-> currSec[l], part |-> 1]
        /\ c[2] = [by |-> l, at |-> currSec[l], part |-> 2]
    <3>1. c = [k \in 1..2 |-> [by |-> l, at |-> currSec[l], part |-> k]]
      BY DEF Time!Line, Time!Width
    <3>2. \A k \in 1..2 : [by |-> l, at |-> currSec[l], part |-> k] \in TimeCell(now)
      BY <2>2 DEF TimeCell
    <3>3. QED
      BY <3>1, <3>2
  <2> HIDE DEF c, r
  <2>5. log \in Seq(Entry(now)) /\ log' \in Seq(Entry(now)) /\ Len(log) \in Nat
    BY <2>1, <2>3, TimeTypes, AppendProperties
  <2>6. /\ Len(log') = Len(log) + 1
        /\ \A k \in 1..3 * Len(log) : Time!Text'[k] = Time!Text[k]
        /\ Time!Text'[3 * Len(log) + 1] = c[1]
        /\ Time!Text'[3 * Len(log) + 2] = c[2]
    BY <2>1, <2>2, <2>3, <2>4, TextGrows, CellsAre
  <2>7. ASSUME ~disturbed
        PROVE  /\ Len(file) + Len(c) = 3 * Len(log') - 1
               /\ \A k \in 1..Len(file) : Time!Text[k] = Time!Text'[k]
               /\ \A k \in 1..Len(c) : c[k] = Time!Text'[Len(file) + k]
    <3>1. Len(file) = 3 * Len(log)
      BY <1>1, <1>3, <2>7, BeforeWrite
    <3>2. \A k \in 1..Len(c) : k = 1 \/ k = 2
      BY <2>4
    <3>3. QED
      BY <2>4, <2>5, <2>6, <3>1, <3>2
  <2>8. QED
    BY <1>1, <1>3, <2>1, <2>4, <2>5, <2>7, SomethingWritten
<1>4. QED
  BY <1>2, <1>3

LEMMA WriteNewlineIsWhole ==
  ASSUME TimeInv, NEW l \in Logger, Time!WriteNewline(l)
  PROVE  TimeInv'
<1>1. /\ pc[l] = "newline" /\ pc' = [pc EXCEPT ![l] = "rest"]
      /\ UNCHANGED <<now, writable, prevTime, currSec, wake, disturbed, log>>
  BY DEF Time!WriteNewline
<1>2. CASE ~writable
  <2>1. UNCHANGED <<file, offset>>
    BY <1>2 DEF Time!WriteNewline, Time!Write
  <2>2. QED
    BY <1>1, <1>2, <2>1, WriteDenied
<1>3. CASE writable
  <2> DEFINE c == <<Time!NL>>
  <2>1. /\ file' = Time!Written(file, offset[l], c)
        /\ offset' = [offset EXCEPT ![l] = @ + Len(c)]
    BY <1>3 DEF Time!WriteNewline, Time!Write
  <2>2. c \in Seq(TimeCell(now)) /\ Len(c) = 1 /\ c[1] = Time!NL
    BY DEF TimeCell
  <2> HIDE DEF c
  <2>3. log' \in Seq(Entry(now)) /\ log \in Seq(Entry(now)) /\ Len(log) \in Nat /\ now \in Nat
    BY <1>1, TimeTypes
  <2>4. Time!Text' = Time!Text
    BY <1>1 DEF Time!Text, Time!Cells, Time!Line
  <2>5. ASSUME ~disturbed
        PROVE  /\ Len(file) + Len(c) = 3 * Len(log')
               /\ \A k \in 1..Len(c) : c[k] = Time!Text'[Len(file) + k]
    <3>1. Len(file) = 3 * Len(log) - 1 /\ Len(file) \in Nat
      BY <1>1, <1>3, <2>5, BeforeWrite, TimeTypes
    <3>2. Len(log) >= 1
      BY <2>3, <3>1
    <3>3. Time!Text[3 * Len(log)] = Time!NL
      <4>1. /\ 3 * Len(log) \in 1..3 * Len(log)
            /\ (3 * Len(log) - 1) \div 3 + 1 = Len(log)
            /\ ((3 * Len(log) - 1) % 3) + 1 = 3
        BY <2>3, <3>2
      <4>2. Time!Text = [k \in 1..3 * Len(log) |-> Time!Cells(log[(k - 1) \div 3 + 1])[((k - 1) % 3) + 1]]
        BY DEF Time!Text, Time!Width
      <4>3. log[Len(log)] \in Entry(now)
        BY <2>3, <3>2
      <4>4. Time!Text[3 * Len(log)] = Time!Cells(log[Len(log)])[3]
        BY <4>1, <4>2
      <4>5. QED
        BY <2>3, <4>3, <4>4, CellsAre
    <3>4. Len(file) + 1 = 3 * Len(log) /\ \A k \in 1..Len(c) : k = 1
      BY <2>2, <2>3, <3>1
    <3>5. QED
      BY <1>1, <2>2, <2>4, <3>3, <3>4
  <2>6. QED
    BY <1>1, <1>3, <2>1, <2>2, <2>3, <2>4, <2>5, SomethingWritten
<1>4. QED
  BY <1>2, <1>3

LEMMA TickIsWhole ==
  ASSUME TimeInv, Time!Tick
  PROVE  TimeInv'
<1>1. /\ now + 30 <= Began + MaxTime /\ now' = now + 30
      /\ UNCHANGED <<writable, file, pc, prevTime, currSec, offset, wake, log, disturbed>>
  BY DEF Time!Tick, Time!locals
<1>2. /\ now \in Nat /\ now >= Began /\ Began \in Nat /\ MaxTime \in Nat
      /\ file \in Seq(TimeCell(now)) /\ log \in Seq(Entry(now))
      /\ pc \in [Logger -> LoggerAt]
      /\ prevTime \in [Logger -> {0} \cup Began..now]
      /\ currSec \in [Logger -> {0} \cup Began..now]
      /\ offset \in [Logger -> 0..Len(file)]
      /\ wake \in [Logger -> {0} \cup Began..now + 60]
      /\ disturbed \in BOOLEAN /\ writable \in BOOLEAN
  BY TimeTypes, TimeConstants DEF LoggerAt
<1>3. /\ now' \in Nat /\ now <= now' /\ now' \in Began..Began + MaxTime
      /\ Began..now \subseteq Began..now' /\ Began..now + 60 \subseteq Began..now' + 60
  BY <1>1, <1>2
<1>4. file' \in Seq(TimeCell(now')) /\ log' \in Seq(Entry(now'))
  BY <1>1, <1>2, <1>3, TimePasses
<1>5. /\ prevTime' \in [Logger -> {0} \cup Began..now']
      /\ currSec' \in [Logger -> {0} \cup Began..now']
      /\ wake' \in [Logger -> {0} \cup Began..now' + 60]
  <2>1. \A m \in Logger : /\ prevTime[m] \in {0} \cup Began..now'
                         /\ currSec[m] \in {0} \cup Began..now'
                         /\ wake[m] \in {0} \cup Began..now' + 60
    BY <1>2, <1>3
  <2>2. QED
    BY <1>1, <1>2, <2>1
<1>6. Time!TypeOK'
  <2>1. HasTypes'
    BY <1>1, <1>2, <1>3, <1>4, <1>5 DEF HasTypes, LoggerAt, TimeCell, Entry
  <2>2. QED
    BY <2>1, TimeTyped
<1>7. Time!Text' = Time!Text
  BY <1>1 DEF Time!Text, Time!Cells, Time!Line
<1>8. ~disturbed' => WholeLog'
  BY <1>1, <1>7 DEF TimeInv, WholeLog, HalfALine, Writes, Time!Active
<1>9. \A l \in Logger : pc[l] \in {"text", "newline"} => currSec[l] \in Began..now'
  BY <1>3 DEF TimeInv
<1>10. ~writable => file = <<>> /\ log = <<>>
  BY DEF TimeInv
<1>11. QED
  BY <1>1, <1>4, <1>6, <1>8, <1>9, <1>10 DEF TimeInv, TimeCell

LEMMA TimeStep == TimeInv /\ [Time!Next]_(Time!vars) => TimeInv'
<1> SUFFICES ASSUME TimeInv, [Time!Next]_(Time!vars) PROVE TimeInv'
    OBVIOUS
<1>1. CASE UNCHANGED Time!vars
  <2>1. UNCHANGED <<now, writable, file, pc, prevTime, currSec, offset, wake, log, disturbed>>
    BY <1>1 DEF Time!vars, Time!locals
  <2>2. Time!Text' = Time!Text
    BY <2>1 DEF Time!Text, Time!Cells, Time!Line
  <2>3. Time!TypeOK'
    BY <2>1 DEF TimeInv, Time!TypeOK
  <2>4. QED
    BY <2>1, <2>2, <2>3 DEF TimeInv, WholeLog, HalfALine, Writes, Time!Active, TimeCell
<1>2. CASE Time!Tick
  BY <1>2, TickIsWhole
<1>3. CASE \E l \in Logger : Time!Fork(l) \/ Time!Step(l) \/ Time!Kill(l)
  <2>1. PICK l \in Logger : Time!Fork(l) \/ Time!Step(l) \/ Time!Kill(l)
    BY <1>3
  <2>2. CASE Time!WriteText(l)
    BY <2>2, WriteTextIsWhole
  <2>3. CASE Time!WriteNewline(l)
    BY <2>3, WriteNewlineIsWhole
  <2>4. CASE \/ Time!Fork(l) \/ Time!Open(l) \/ Time!ReadTime(l)
             \/ Time!Sleep(l) \/ Time!Wake(l) \/ Time!Kill(l)
    BY <2>4, QuietLogger
  <2>5. QED
    BY <2>1, <2>2, <2>3, <2>4 DEF Time!Step
<1>4. QED
  BY <1>1, <1>2, <1>3 DEF Time!Next

LEMMA TimeInvRight ==
  ASSUME TimeInv
  PROVE  Time!LogStaysWhole
<1>1. Time!TypeOK
  BY DEF TimeInv
<1>2. ASSUME ~disturbed
      PROVE  file = IF HalfALine THEN SubSeq(Time!Text, 1, Len(Time!Text) - 1) ELSE Time!Text
  <2>1. WholeLog
    BY <1>2 DEF TimeInv
  <2>2. /\ now \in Nat /\ file \in Seq(TimeCell(now)) /\ Len(file) \in Nat
        /\ log \in Seq(Entry(now)) /\ Len(log) \in Nat
    BY TimeTypes
  <2> DEFINE T == Time!Text
             N == 3 * Len(log)
  <2>3. T = [k \in 1..N |-> T[k]] /\ N \in Nat
    BY <2>2 DEF Time!Text, Time!Width
  <2>4. file = [k \in 1..Len(file) |-> file[k]]
    BY <2>2
  <2>5. \A k \in 1..Len(file) : file[k] = T[k]
    BY <2>1 DEF WholeLog
  <2>6. Len(file) = IF HalfALine THEN N - 1 ELSE N
    BY <2>1 DEF WholeLog
  <2> HIDE DEF T, N
  <2>7. CASE ~HalfALine
    <3>1. Len(file) = N
      BY <2>6, <2>7
    <3>2. file = T
      BY <3>1, <2>3, <2>4, <2>5
    <3>3. QED
      BY <3>2, <2>7 DEF T
  <2>8. CASE HalfALine
    <3>1. Len(file) = N - 1
      BY <2>6, <2>8
    <3>2. Len(T) = N
      BY <2>3
    <3>3. SubSeq(T, 1, N - 1) = [k \in 1..N - 1 |-> T[k]]
      BY <2>2, <2>3, <3>1
    <3>4. file = SubSeq(T, 1, Len(T) - 1)
      BY <3>1, <3>2, <3>3, <2>4, <2>5
    <3>5. QED
      BY <3>4, <2>8 DEF T
  <2>9. QED
    BY <2>7, <2>8
<1>3. Time!UndisturbedLogIsWhole
  BY <1>2 DEF Time!UndisturbedLogIsWhole, HalfALine
<1>4. QED
  BY <1>1, <1>3 DEF Time!LogStaysWhole

-----------------------------------------------------------------------------
(* The image files of vision: whatever the disk had no room for is noticed    *)
(* by the one that reads.                                                     *)

(* The inductive invariant.                                                  *)

\* The image, and what the two programs are told, stay.
Given ==
  /\ picture \in [1..Pixels -> Value] /\ room \in Room
  /\ version \in Program /\ threshold \in Threshold

\* The file, with what is still in the buffer, is the beginning of the whole.
Begun ==
  /\ Len(pgm) <= Pixels + 4 /\ \A k \in 1..Len(pgm) : pgm[k] = Pgm!Whole[k]
  /\ pc = "write" => stream = <<>> /\ pgm = <<>> /\ pixel = 1
  /\ pc = "pixels" => /\ Len(pgm) + Len(stream) = pixel + 3
                      /\ \A k \in 1..Len(stream) : stream[k] = Pgm!Whole[Len(pgm) + k]

\* The k-th byte of the image, as fgetc() returns it.
ByteOf(k) == IF k + 4 <= Len(pgm) THEN picture[k] % 256 ELSE Pgm!EOF

\* ReadImage() is at a line of the header that it knows, or in the pixels.
Header ==
  /\ pc \in {"write", "pixels", "reader"} => pos = 1
  /\ pc \in {"write", "pixels", "reader", "comments", "size"} => got = <<>> /\ brightest = 0
  /\ pc = "comments" => pos \in {2, 3} /\ pos - 1 <= Len(pgm) /\ line = Pgm!Whole[pos - 1]
  /\ pc = "size" => \/ pos = 4 /\ line = Pgm!Whole[3]
                    \/ pos = 2 /\ Len(pgm) = 1 /\ line = Pgm!Whole[1]

\* The pixels read so far are the bytes of the file, after the threshold; and
\* brightest is the greatest byte.
BytesRead ==
  pc = "bytes" =>
    /\ pos = 5 + Len(got) /\ Len(got) <= Pixels
    /\ \A k \in 1..Len(got) : /\ got[k] = Pgm!Thresholded(ByteOf(k), threshold)
                              /\ got[k] # Pgm!EOF /\ ByteOf(k) <= brightest
    /\ brightest = 0 \/ \E k \in 1..Len(got) : ByteOf(k) = brightest

\* The answer is given at the end.
Answered ==
  /\ pc # "done" => loaded = "none"
  /\ Pgm!ReadIsWhatWasWritten /\ Pgm!WholeIsAccepted /\ Pgm!CrashesAre

PgmInv == Pgm!TypeOK /\ Given /\ Begun /\ Header /\ BytesRead /\ Answered

\* What the assumptions on the constants give.
LEMMA PgmConstants ==
  /\ Pixels \in Nat \ {0} /\ Value \subseteq Int /\ Levels \in Nat
  /\ Threshold \subseteq 1..255 /\ Program \subseteq {1, 2}
  /\ Room \subseteq Nat /\ BufferCells \in Nat /\ BufferCells >= 4
BY FilesAssumption DEF FilesAssumption, Pgm!PgmAssumption

\* The cells of the whole file: four lines, then a byte for each pixel.
LEMMA WholeFile ==
  ASSUME Given
  PROVE  /\ Pgm!Whole \in Seq(Pgm!Cells) /\ Len(Pgm!Whole) = Pixels + 4
         /\ Pgm!Header \in Seq(Pgm!Cells) /\ Len(Pgm!Header) = 4
         /\ \A k \in 1..4 : Pgm!Header[k] = Pgm!Whole[k]
         /\ Pgm!Whole[1].kind = "P5" /\ Pgm!Whole[2].kind = "#" /\ Pgm!Whole[3].kind = "size"
         /\ \A k \in 1..Pixels : /\ Pgm!Bytes(picture)[k] = Pgm!Whole[k + 4]
                                 /\ Pgm!Whole[k + 4] \in Pgm!Cells
                                 /\ Pgm!Whole[k + 4].val = picture[k] % 256
                                 /\ picture[k] % 256 \in 0..255
<1>1. /\ Pixels \in Nat \ {0} /\ Levels \in Nat /\ Value \subseteq Int
      /\ picture \in [1..Pixels -> Value] /\ DOMAIN picture = 1..Pixels
  BY PgmConstants DEF Given
<1> DEFINE H == Pgm!Header
           Y == Pgm!Bytes(picture)
<1>2. /\ H \in Seq(Pgm!Cells) /\ Len(H) = 4
      /\ H[1].kind = "P5" /\ H[2].kind = "#" /\ H[3].kind = "size"
  <2>1. /\ Pgm!Cell("P5", 0) \in Pgm!Cells /\ Pgm!Cell("#", 0) \in Pgm!Cells
        /\ Pgm!Cell("size", Pixels) \in Pgm!Cells /\ Pgm!Cell("levels", Levels) \in Pgm!Cells
    BY <1>1 DEF Pgm!Cell, Pgm!Cells
  <2>2. /\ Pgm!Cell("P5", 0).kind = "P5" /\ Pgm!Cell("#", 0).kind = "#"
        /\ Pgm!Cell("size", Pixels).kind = "size"
    BY DEF Pgm!Cell
  <2>3. QED
    BY <2>1, <2>2 DEF Pgm!Header
<1>3. \A k \in 1..Pixels : picture[k] % 256 \in 0..255 /\ picture[k] \in Int
  <2> TAKE k \in 1..Pixels
  <2>1. picture[k] \in Int
    BY <1>1
  <2>2. QED
    BY <2>1
<1>4. /\ Y \in Seq(Pgm!Cells) /\ Len(Y) = Pixels
      /\ \A k \in 1..Pixels : Y[k] = Pgm!Cell("byte", picture[k] % 256)
  <2>1. \A k \in 1..Pixels : Pgm!Cell("byte", picture[k] % 256) \in Pgm!Cells
    BY <1>3 DEF Pgm!Cell, Pgm!Cells
  <2>2. Y = [k \in 1..Pixels |-> Pgm!Cell("byte", picture[k] % 256)]
    BY <1>1 DEF Pgm!Bytes
  <2>3. QED
    BY <1>1, <2>1, <2>2
<1>5. \A k \in 1..Pixels : Y[k] \in Pgm!Cells /\ Y[k].val = picture[k] % 256
  BY <1>3, <1>4 DEF Pgm!Cell, Pgm!Cells
<1> HIDE DEF H, Y
<1>6. Pgm!Whole = H \o Y
  BY DEF Pgm!Whole, H, Y
<1>7. /\ H \o Y \in Seq(Pgm!Cells) /\ Len(H \o Y) = Pixels + 4
      /\ \A k \in 1..Pixels + 4 : (H \o Y)[k] = IF k <= 4 THEN H[k] ELSE Y[k - 4]
  <2> H \in Seq(Pgm!Cells) /\ Y \in Seq(Pgm!Cells)
    BY <1>2, <1>4
  <2>1. /\ H \o Y \in Seq(Pgm!Cells) /\ Len(H \o Y) = Len(H) + Len(Y)
        /\ \A k \in 1..Len(H) + Len(Y) :
             (H \o Y)[k] = IF k <= Len(H) THEN H[k] ELSE Y[k - Len(H)]
    BY ConcatProperties
  <2>2. Len(H) + Len(Y) = Pixels + 4 /\ Len(H) = 4
    BY <1>1, <1>2, <1>4
  <2>3. QED
    BY <2>1, <2>2
<1>8. \A k \in 1..4 : Pgm!Whole[k] = H[k]
  <2> TAKE k \in 1..4
  <2>1. k \in 1..Pixels + 4 /\ k <= 4
    BY <1>1
  <2>2. QED
    BY <1>6, <1>7, <2>1
<1>9. \A k \in 1..Pixels : Pgm!Whole[k + 4] = Y[k]
  <2> TAKE k \in 1..Pixels
  <2>1. k + 4 \in 1..Pixels + 4 /\ ~ k + 4 <= 4 /\ (k + 4) - 4 = k
    BY <1>1
  <2>2. QED
    BY <1>6, <1>7, <2>1
<1>10. Pgm!Whole[1] = H[1] /\ Pgm!Whole[2] = H[2] /\ Pgm!Whole[3] = H[3]
  BY <1>8
<1>11. \A k \in 1..Pixels : /\ Y[k] = Pgm!Whole[k + 4] /\ Pgm!Whole[k + 4] \in Pgm!Cells
                            /\ Pgm!Whole[k + 4].val = picture[k] % 256
                            /\ picture[k] % 256 \in 0..255
  BY <1>3, <1>5, <1>9
<1>12. Pgm!Whole \in Seq(Pgm!Cells) /\ Len(Pgm!Whole) = Pixels + 4
  BY <1>6, <1>7
<1>13. QED
  BY <1>2, <1>8, <1>10, <1>11, <1>12 DEF H, Y

\* The types, as the steps need them.
LEMMA PgmTypes ==
  ASSUME PgmInv
  PROVE  /\ stream \in Seq(Pgm!Cells) /\ Len(stream) \in Nat /\ pgm \in Seq(Pgm!Cells) /\ Len(pgm) \in Nat
         /\ Len(pgm) <= room /\ room \in Nat /\ Len(stream) <= BufferCells /\ BufferCells \in Nat
         /\ got \in Seq(0..255) /\ Len(got) \in Nat /\ pixel \in Nat /\ pos \in Nat
         /\ brightest \in 0..255 /\ Pixels \in Nat \ {0} /\ threshold \in 1..255 /\ version \in {1, 2}
         /\ pgm = <<>> <=> Len(pgm) = 0
         /\ \A k \in 1..Len(pgm) : pgm[k] \in Pgm!Cells
<1>1. /\ stream \in Seq(Pgm!Cells) /\ pgm \in Seq(Pgm!Cells) /\ got \in Seq(0..255)
      /\ Len(pgm) <= room /\ Len(stream) <= BufferCells /\ brightest \in 0..255
  BY DEF PgmInv, Pgm!TypeOK
<1>2. pixel \in Nat /\ pos \in Nat
  BY PgmConstants DEF PgmInv, Pgm!TypeOK
<1>3. room \in Nat /\ threshold \in 1..255 /\ version \in {1, 2}
  BY PgmConstants DEF PgmInv, Given
<1>4. Len(stream) \in Nat /\ Len(pgm) \in Nat /\ Len(got) \in Nat
  BY <1>1, LenProperties
<1>5. pgm = <<>> <=> Len(pgm) = 0
  BY <1>1, EmptySeq
<1>6. \A k \in 1..Len(pgm) : pgm[k] \in Pgm!Cells
  BY <1>1, ElementOfSeq
<1>7. QED
  BY <1>1, <1>2, <1>3, <1>4, <1>5, <1>6, PgmConstants

\* Nothing is written and nothing read.
LEMMA PgmInit == Pgm!Init => PgmInv
<1> SUFFICES ASSUME Pgm!Init PROVE PgmInv
    OBVIOUS
<1>1. Given
  BY DEF Pgm!Init, Given
<1>2. Len(<<>>) = 0 /\ <<>> \in Seq(Pgm!Cells) /\ <<>> \in Seq(0..255)
  OBVIOUS
<1>3. Pgm!Cell("none", 0) \in Pgm!Cells
  BY DEF Pgm!Cell, Pgm!Cells
<1>4. Len(Pgm!Whole) = Pixels + 4 /\ room \in Nat
  BY <1>1, WholeFile, PgmConstants DEF Given
<1>5. Pgm!TypeOK
  BY <1>2, <1>3, <1>4, PgmConstants DEF Pgm!Init, Pgm!TypeOK
<1>6. Begun /\ Header /\ BytesRead /\ Answered
  BY <1>2, PgmConstants DEF Pgm!Init, Begun, Header, BytesRead, Answered,
    Pgm!ReadIsWhatWasWritten, Pgm!WholeIsAccepted, Pgm!CrashesAre
<1>7. QED
  BY <1>1, <1>5, <1>6 DEF PgmInv

\* What no step changes.
LEMMA GivenStays ==
  ASSUME PgmInv, UNCHANGED Pgm!inputs
  PROVE  /\ Given' /\ Pgm!Whole' = Pgm!Whole /\ room' = room
         /\ picture' = picture /\ version' = version /\ threshold' = threshold
         /\ Given
<1>1. /\ room' = room /\ picture' = picture /\ version' = version /\ threshold' = threshold
  BY DEF Pgm!inputs
<1>2. Pgm!Whole' = Pgm!Whole
  BY <1>1 DEF Pgm!Whole, Pgm!Bytes, Pgm!Header
<1>3. Given
  BY DEF PgmInv
<1>4. Given'
  BY <1>1, <1>3 DEF Given
<1>5. QED
  BY <1>1, <1>2, <1>3, <1>4

-----------------------------------------------------------------------------
(* WriteImage().                                                             *)

\* What the disk takes of the buffer goes on where the file ends.
LEMMA FlushGoesOn ==
  ASSUME PgmInv, pc = "pixels"
  PROVE  /\ Pgm!Flush \in Seq(Pgm!Cells) /\ Len(Pgm!Flush) <= room
         /\ Len(Pgm!Flush) <= Pixels + 4 /\ Len(Pgm!Flush) \in Nat
         /\ \A k \in 1..Len(Pgm!Flush) : Pgm!Flush[k] = Pgm!Whole[k]
         /\ Pgm!Flushed => Len(Pgm!Flush) = pixel + 3
<1>1. /\ stream \in Seq(Pgm!Cells) /\ Len(stream) \in Nat
      /\ pgm \in Seq(Pgm!Cells) /\ Len(pgm) \in Nat
      /\ Len(pgm) <= room /\ room \in Nat /\ pixel \in Nat /\ Pixels \in Nat
  BY PgmTypes
<1>2. /\ Len(pgm) + Len(stream) = pixel + 3
      /\ \A k \in 1..Len(stream) : stream[k] = Pgm!Whole[Len(pgm) + k]
      /\ \A k \in 1..Len(pgm) : pgm[k] = Pgm!Whole[k]
      /\ pixel <= Pixels + 1
  BY <1>1 DEF PgmInv, Begun, Pgm!TypeOK
<1> DEFINE m == IF Len(stream) < room - Len(pgm) THEN Len(stream) ELSE room - Len(pgm)
           T == SubSeq(stream, 1, m)
<1>3. /\ m \in Nat /\ m <= Len(stream) /\ Len(pgm) + m <= room
      /\ Pgm!Flushed => m = Len(stream)
  BY <1>1 DEF Pgm!Flushed
<1>4. Pgm!Flush = pgm \o T
  BY DEF Pgm!Flush
<1> HIDE DEF m
<1>5. T \in Seq(Pgm!Cells) /\ Len(T) = m /\ \A k \in 1..m : T[k] = stream[k]
  BY <1>1, <1>3
<1> HIDE DEF T
<1>6. /\ pgm \o T \in Seq(Pgm!Cells) /\ Len(pgm \o T) = Len(pgm) + Len(T)
      /\ \A k \in 1..Len(pgm) + Len(T) :
            (pgm \o T)[k] = IF k <= Len(pgm) THEN pgm[k] ELSE T[k - Len(pgm)]
  BY <1>1, <1>5, ConcatProperties
<1>7. \A k \in 1..Len(pgm) + m : (pgm \o T)[k] = Pgm!Whole[k]
  <2> TAKE k \in 1..Len(pgm) + m
  <2>1. CASE k <= Len(pgm)
    <3>1. k \in 1..Len(pgm) /\ k \in 1..Len(pgm) + Len(T)
      BY <2>1, <1>1, <1>3, <1>5
    <3>2. QED
      BY <3>1, <2>1, <1>2, <1>6
  <2>2. CASE ~ k <= Len(pgm)
    <3>1. /\ k - Len(pgm) \in 1..m /\ k - Len(pgm) \in 1..Len(stream)
          /\ Len(pgm) + (k - Len(pgm)) = k /\ k \in 1..Len(pgm) + Len(T)
      BY <2>2, <1>1, <1>3, <1>5
    <3>2. (pgm \o T)[k] = T[k - Len(pgm)]
      BY <3>1, <2>2, <1>6
    <3>3. T[k - Len(pgm)] = stream[k - Len(pgm)]
      BY <3>1, <1>5
    <3>4. stream[k - Len(pgm)] = Pgm!Whole[Len(pgm) + (k - Len(pgm))]
      BY <3>1, <1>2
    <3>5. QED
      BY <3>1, <3>2, <3>3, <3>4
  <2>3. QED
    BY <2>1, <2>2
<1>8. Len(pgm) + m <= Pixels + 4 /\ (Pgm!Flushed => Len(pgm) + m = pixel + 3)
  BY <1>1, <1>2, <1>3
<1>9. QED
  BY <1>1, <1>3, <1>4, <1>5, <1>6, <1>7, <1>8

\* A step of WriteImage() leaves what is read alone.
LEMMA NothingReadYet ==
  ASSUME PgmInv, UNCHANGED <<Pgm!inputs, Pgm!rvars>>,
         pc \in {"write", "pixels"}, pc' \in {"pixels", "reader"}
  PROVE  /\ Header' /\ BytesRead' /\ Answered'
         /\ pos' \in 1..Len(Pgm!Whole') + 2 /\ line' \in Pgm!Cells
         /\ got' \in Seq(0..255) /\ brightest' \in 0..255
         /\ loaded' \in {"none", "true", "false", "undefined", "crash"}
<1>1. /\ pos' = pos /\ line' = line /\ got' = got /\ brightest' = brightest /\ loaded' = loaded
  BY DEF Pgm!rvars
<1>2. pos = 1 /\ got = <<>> /\ brightest = 0 /\ loaded = "none"
  BY DEF PgmInv, Header, Answered
<1>3. Header' /\ BytesRead'
  BY <1>1, <1>2 DEF Header, BytesRead
<1>4. Answered'
  BY <1>1, <1>2 DEF Answered, Pgm!ReadIsWhatWasWritten, Pgm!WholeIsAccepted, Pgm!CrashesAre
<1>5. Pgm!Whole' = Pgm!Whole
  BY GivenStays
<1>6. QED
  BY <1>1, <1>3, <1>4, <1>5 DEF PgmInv, Pgm!TypeOK

LEMMA CannotOpenKeepsPgm ==
  ASSUME PgmInv, Pgm!CannotOpen
  PROVE  PgmInv'
<1>1. /\ pc = "write" /\ loaded' = loaded /\ pc' = "reader" /\ UNCHANGED <<Pgm!inputs, Pgm!rvars>>
      /\ stream' = stream /\ pgm' = pgm /\ pixel' = pixel /\ wrote' = "false"
  BY DEF Pgm!CannotOpen, Pgm!rvars
<1>2. /\ Header' /\ BytesRead' /\ Answered'
      /\ pos' \in 1..Len(Pgm!Whole') + 2 /\ line' \in Pgm!Cells
      /\ got' \in Seq(0..255) /\ brightest' \in 0..255
      /\ loaded' \in {"none", "true", "false", "undefined", "crash"}
  BY <1>1, NothingReadYet
<1>3. Given' /\ Pgm!Whole' = Pgm!Whole /\ room' = room
  BY <1>1, GivenStays
<1>4. Begun'
  BY <1>1, <1>3 DEF PgmInv, Begun
<1>5. Pgm!TypeOK'
  BY <1>1, <1>2, <1>3 DEF PgmInv, Pgm!TypeOK
<1>6. QED
  BY <1>2, <1>3, <1>4, <1>5 DEF PgmInv

LEMMA WriteHeaderKeepsPgm ==
  ASSUME PgmInv, Pgm!WriteHeader
  PROVE  PgmInv'
<1>1. /\ pc = "write" /\ pc' = "pixels" /\ UNCHANGED <<Pgm!inputs, Pgm!rvars>>
      /\ stream' = Pgm!Header /\ pgm' = pgm /\ pixel' = pixel /\ wrote' = wrote
  BY DEF Pgm!WriteHeader
<1>2. /\ Header' /\ BytesRead' /\ Answered'
      /\ pos' \in 1..Len(Pgm!Whole') + 2 /\ line' \in Pgm!Cells
      /\ got' \in Seq(0..255) /\ brightest' \in 0..255
      /\ loaded' \in {"none", "true", "false", "undefined", "crash"}
  BY <1>1, NothingReadYet
<1>3. Given' /\ Pgm!Whole' = Pgm!Whole /\ room' = room /\ Given
  BY <1>1, GivenStays
<1>4. /\ Pgm!Header \in Seq(Pgm!Cells) /\ Len(Pgm!Header) = 4
      /\ \A k \in 1..4 : Pgm!Header[k] = Pgm!Whole[k]
  BY <1>3, WholeFile
<1>5. pgm = <<>> /\ Len(pgm) = 0 /\ pixel = 1
  BY <1>1, PgmTypes DEF PgmInv, Begun
<1>6. Begun'
  <2>1. Len(pgm') <= Pixels + 4 /\ \A k \in 1..Len(pgm') : pgm'[k] = Pgm!Whole'[k]
    BY <1>1, <1>5, PgmConstants
  <2>2. Len(pgm') + Len(stream') = pixel' + 3
    BY <1>1, <1>4, <1>5
  <2>3. \A k \in 1..Len(stream') : stream'[k] = Pgm!Whole'[Len(pgm') + k]
    BY <1>1, <1>3, <1>4, <1>5
  <2>4. QED
    BY <1>1, <2>1, <2>2, <2>3 DEF Begun
<1>7. Pgm!TypeOK'
  BY <1>1, <1>2, <1>3, <1>4, PgmConstants DEF PgmInv, Pgm!TypeOK
<1>8. QED
  BY <1>2, <1>3, <1>6, <1>7 DEF PgmInv

LEMMA PutKeepsPgm ==
  ASSUME PgmInv, Pgm!Put
  PROVE  PgmInv'
<1>1. /\ pc = "pixels" /\ pc' = "pixels" /\ UNCHANGED <<Pgm!inputs, Pgm!rvars>>
      /\ pixel <= Pixels /\ Len(stream) < BufferCells
      /\ stream' = Append(stream, Pgm!Bytes(picture)[pixel])
      /\ pgm' = pgm /\ pixel' = pixel + 1 /\ wrote' = wrote
  BY DEF Pgm!Put
<1>2. /\ Header' /\ BytesRead' /\ Answered'
      /\ pos' \in 1..Len(Pgm!Whole') + 2 /\ line' \in Pgm!Cells
      /\ got' \in Seq(0..255) /\ brightest' \in 0..255
      /\ loaded' \in {"none", "true", "false", "undefined", "crash"}
  BY <1>1, NothingReadYet
<1>3. Given' /\ Pgm!Whole' = Pgm!Whole /\ room' = room /\ Given
  BY <1>1, GivenStays
<1>4. /\ stream \in Seq(Pgm!Cells) /\ Len(stream) \in Nat /\ Len(pgm) \in Nat /\ pixel \in Nat
      /\ BufferCells \in Nat /\ Pixels \in Nat
  BY PgmTypes
<1>5. /\ pixel \in 1..Pixels /\ Len(pgm) + Len(stream) = pixel + 3
      /\ \A k \in 1..Len(stream) : stream[k] = Pgm!Whole[Len(pgm) + k]
  BY <1>1, <1>4 DEF PgmInv, Begun, Pgm!TypeOK
<1> DEFINE c == Pgm!Bytes(picture)[pixel]
<1>6. c = Pgm!Whole[pixel + 4] /\ c \in Pgm!Cells
  <2>1. Pgm!Bytes(picture)[pixel] = Pgm!Whole[pixel + 4] /\ Pgm!Whole[pixel + 4] \in Pgm!Cells
    BY <1>3, <1>5, WholeFile
  <2>2. QED
    BY <2>1
<1>7. stream' = Append(stream, c)
  BY <1>1
<1> HIDE DEF c
<1>8. /\ stream' \in Seq(Pgm!Cells) /\ Len(stream') = Len(stream) + 1
      /\ \A k \in 1..Len(stream) : stream'[k] = stream[k]
      /\ stream'[Len(stream) + 1] = c
  BY <1>4, <1>6, <1>7, AppendProperties
<1>9. Begun'
  <2>1. Len(pgm') + Len(stream') = pixel' + 3
    BY <1>1, <1>4, <1>5, <1>8
  <2>2. \A k \in 1..Len(stream') : stream'[k] = Pgm!Whole[Len(pgm) + k]
    <3> TAKE k \in 1..Len(stream')
    <3>1. CASE k \in 1..Len(stream)
      BY <3>1, <1>5, <1>8
    <3>2. CASE k = Len(stream) + 1
      <4>1. Len(pgm) + k = pixel + 4
        BY <3>2, <1>4, <1>5
      <4>2. QED
        BY <4>1, <3>2, <1>6, <1>8
    <3>3. QED
      BY <3>1, <3>2, <1>4, <1>8
  <2>3. Len(pgm') <= Pixels + 4 /\ \A k \in 1..Len(pgm') : pgm'[k] = Pgm!Whole'[k]
    BY <1>1, <1>3 DEF PgmInv, Begun
  <2>4. QED
    BY <1>1, <1>3, <2>1, <2>2, <2>3 DEF Begun
<1>10. Pgm!TypeOK'
  <2>1. Len(stream') <= BufferCells /\ pixel' \in 1..Pixels + 1
    BY <1>1, <1>4, <1>5, <1>8
  <2>2. QED
    BY <1>1, <1>2, <1>3, <1>8, <2>1 DEF PgmInv, Pgm!TypeOK
<1>11. QED
  BY <1>2, <1>3, <1>9, <1>10 DEF PgmInv

\* The buffer goes to the disk: at the end, or before the next pixel.
LEMMA FlushKeepsPgm ==
  ASSUME PgmInv, pc = "pixels", UNCHANGED <<Pgm!inputs, Pgm!rvars>>,
         pgm' = Pgm!Flush, stream' = <<>>, pixel' = pixel,
         \/ pc' = "reader"
         \/ pc' = pc /\ Pgm!Flushed,
         wrote' \in {"none", "true", "false"}
  PROVE  PgmInv'
<1>1. pc' \in {"pixels", "reader"}
  OBVIOUS
<1>2. /\ Header' /\ BytesRead' /\ Answered'
      /\ pos' \in 1..Len(Pgm!Whole') + 2 /\ line' \in Pgm!Cells
      /\ got' \in Seq(0..255) /\ brightest' \in 0..255
      /\ loaded' \in {"none", "true", "false", "undefined", "crash"}
  BY <1>1, NothingReadYet
<1>3. Given' /\ Pgm!Whole' = Pgm!Whole /\ room' = room
  BY GivenStays
<1>4. /\ pgm' \in Seq(Pgm!Cells) /\ Len(pgm') <= room /\ Len(pgm') <= Pixels + 4
      /\ Len(pgm') \in Nat /\ \A k \in 1..Len(pgm') : pgm'[k] = Pgm!Whole[k]
      /\ Pgm!Flushed => Len(pgm') = pixel + 3
  BY FlushGoesOn
<1>5. stream' \in Seq(Pgm!Cells) /\ Len(stream') = 0
  OBVIOUS
<1>6. Begun'
  <2>1. pc' = "pixels" => Len(pgm') + Len(stream') = pixel' + 3
    BY <1>4, <1>5
  <2>2. \A k \in 1..Len(stream') : stream'[k] = Pgm!Whole'[Len(pgm') + k]
    BY <1>5
  <2>3. QED
    BY <1>1, <1>3, <1>4, <2>1, <2>2 DEF Begun
<1>7. Pgm!TypeOK'
  BY <1>1, <1>2, <1>3, <1>4, <1>5, PgmConstants DEF PgmInv, Pgm!TypeOK
<1>8. QED
  BY <1>2, <1>3, <1>6, <1>7 DEF PgmInv

LEMMA WriteImageKeepsPgm ==
  ASSUME PgmInv, Pgm!WriteImage
  PROVE  PgmInv'
<1>1. CASE Pgm!CannotOpen
  BY <1>1, CannotOpenKeepsPgm
<1>2. CASE Pgm!WriteHeader
  BY <1>2, WriteHeaderKeepsPgm
<1>3. CASE Pgm!Put
  BY <1>3, PutKeepsPgm
<1>4. CASE Pgm!PutFlushes
  <2>1. /\ pc = "pixels" /\ UNCHANGED <<Pgm!inputs, Pgm!rvars>>
        /\ pgm' = Pgm!Flush /\ stream' = <<>> /\ pixel' = pixel
        /\ pc' = "reader" \/ (pc' = pc /\ Pgm!Flushed)
        /\ wrote' = wrote \/ wrote' = "false"
    BY <1>4 DEF Pgm!PutFlushes
  <2>2. wrote' \in {"none", "true", "false"}
    BY <2>1 DEF PgmInv, Pgm!TypeOK
  <2>3. QED
    BY <2>1, <2>2, FlushKeepsPgm
<1>5. CASE Pgm!CloseOutput
  <2>1. /\ pc = "pixels" /\ UNCHANGED <<Pgm!inputs, Pgm!rvars>>
        /\ pgm' = Pgm!Flush /\ stream' = <<>> /\ pixel' = pixel
        /\ pc' = "reader" /\ wrote' \in {"none", "true", "false"}
    BY <1>5 DEF Pgm!CloseOutput
  <2>2. QED
    BY <2>1, FlushKeepsPgm
<1>6. QED
  BY <1>1, <1>2, <1>3, <1>4, <1>5 DEF Pgm!WriteImage

-----------------------------------------------------------------------------
(* ReadImage().                                                              *)

\* Reading leaves the file alone.
LEMMA FileStays ==
  ASSUME PgmInv, UNCHANGED <<Pgm!inputs, Pgm!wvars>>,
         pc \notin {"write", "pixels"}, pc' \notin {"write", "pixels"}
  PROVE  /\ Given' /\ Begun' /\ Pgm!Whole' = Pgm!Whole /\ Len(Pgm!Whole) = Pixels + 4
         /\ stream' \in Seq(Pgm!Cells) /\ Len(stream') <= BufferCells
         /\ pgm' \in Seq(Pgm!Cells) /\ Len(pgm') <= room'
         /\ pixel' \in 1..Pixels + 1 /\ wrote' \in {"none", "true", "false"}
         /\ pgm' = pgm /\ picture' = picture /\ version' = version /\ threshold' = threshold
<1>1. stream' = stream /\ pgm' = pgm /\ pixel' = pixel /\ wrote' = wrote
  BY DEF Pgm!wvars
<1>2. /\ Given' /\ Pgm!Whole' = Pgm!Whole /\ room' = room /\ Given
      /\ picture' = picture /\ version' = version /\ threshold' = threshold
  BY GivenStays
<1>3. Begun'
  BY <1>1, <1>2 DEF PgmInv, Begun
<1>4. Len(Pgm!Whole) = Pixels + 4
  BY <1>2, WholeFile
<1>5. QED
  BY <1>1, <1>2, <1>3, <1>4 DEF PgmInv, Pgm!TypeOK

\* A step that gives the answer r leaves the rest alone.
LEMMA AnswerKeepsPgm ==
  ASSUME PgmInv, NEW r \in {"true", "false", "undefined", "crash"}, Pgm!Result(r),
         UNCHANGED <<Pgm!inputs, Pgm!wvars, pos, line, got, brightest>>,
         pc \notin {"write", "pixels"},
         r = "true" /\ version = 2 => got = [k \in 1..Pixels |-> picture[k] % 256],
         r \in {"false", "undefined"} => pgm # Pgm!Whole,
         r = "crash" => /\ version = 1
                        /\ pgm = Pgm!Whole => \A k \in 1..Pixels : picture[k] % 256 # 255
  PROVE  PgmInv'
<1>1. /\ loaded' = r /\ pc' = "done" /\ pos' = pos /\ line' = line /\ got' = got
      /\ brightest' = brightest
  BY DEF Pgm!Result
<1>2. /\ Given' /\ Begun' /\ Pgm!Whole' = Pgm!Whole /\ Len(Pgm!Whole) = Pixels + 4
      /\ stream' \in Seq(Pgm!Cells) /\ Len(stream') <= BufferCells
      /\ pgm' \in Seq(Pgm!Cells) /\ Len(pgm') <= room'
      /\ pixel' \in 1..Pixels + 1 /\ wrote' \in {"none", "true", "false"}
      /\ pgm' = pgm /\ picture' = picture /\ version' = version /\ threshold' = threshold
  BY <1>1, FileStays
<1>3. Header' /\ BytesRead'
  BY <1>1 DEF Header, BytesRead
<1>4. Answered'
  <2>1. Pgm!ReadIsWhatWasWritten' /\ Pgm!WholeIsAccepted'
    BY <1>1, <1>2 DEF Pgm!ReadIsWhatWasWritten, Pgm!WholeIsAccepted
  <2>2. Pgm!CrashesAre'
    BY <1>1, <1>2 DEF Pgm!CrashesAre
  <2>3. QED
    BY <1>1, <2>1, <2>2 DEF Answered
<1>5. Pgm!TypeOK'
  BY <1>1, <1>2 DEF PgmInv, Pgm!TypeOK
<1>6. QED
  BY <1>2, <1>3, <1>4, <1>5 DEF PgmInv

\* A step that goes on reading leaves the answer open.
LEMMA NoAnswerYet ==
  ASSUME PgmInv, UNCHANGED <<Pgm!inputs, Pgm!wvars>>, loaded' = loaded,
         pc \in {"reader", "comments", "size", "bytes"},
         pc' \in {"comments", "size", "bytes"},
         Header', BytesRead',
         pos' \in 1..Pixels + 6, line' \in Pgm!Cells,
         got' \in Seq(0..255), brightest' \in 0..255
  PROVE  PgmInv'
<1>1. /\ Given' /\ Begun' /\ Pgm!Whole' = Pgm!Whole /\ Len(Pgm!Whole) = Pixels + 4
      /\ stream' \in Seq(Pgm!Cells) /\ Len(stream') <= BufferCells
      /\ pgm' \in Seq(Pgm!Cells) /\ Len(pgm') <= room'
      /\ pixel' \in 1..Pixels + 1 /\ wrote' \in {"none", "true", "false"}
      /\ pgm' = pgm /\ picture' = picture /\ version' = version /\ threshold' = threshold
  BY FileStays
<1>2. loaded = "none" /\ loaded' = "none"
  BY DEF PgmInv, Answered
<1>3. Answered'
  BY <1>2 DEF Answered, Pgm!ReadIsWhatWasWritten, Pgm!WholeIsAccepted, Pgm!CrashesAre
<1>4. pos' \in 1..Len(Pgm!Whole') + 2
  BY <1>1, PgmConstants
<1>5. Pgm!TypeOK'
  BY <1>1, <1>2, <1>4 DEF Pgm!TypeOK
<1>6. QED
  BY <1>1, <1>3, <1>5 DEF PgmInv

LEMMA RefuseKeepsPgm ==
  ASSUME PgmInv, Pgm!Refuse
  PROVE  PgmInv'
<1>1. /\ pc = "reader" /\ pgm = <<>> /\ Pgm!Result("false")
      /\ UNCHANGED <<Pgm!inputs, Pgm!wvars, pos, line, got, brightest>>
  BY DEF Pgm!Refuse
<1>2. Len(Pgm!Whole) = Pixels + 4 /\ Len(pgm) = 0 /\ Pixels \in Nat
  BY <1>1, WholeFile, PgmConstants DEF PgmInv
<1>3. pgm # Pgm!Whole
  BY <1>2
<1>4. QED
  BY <1>1, <1>3, AnswerKeepsPgm

LEMMA ReadMagicKeepsPgm ==
  ASSUME PgmInv, Pgm!ReadMagic
  PROVE  PgmInv'
<1>1. /\ pc = "reader" /\ pgm # <<>> /\ pos' = 2 /\ line' = pgm[1] /\ pc' = "comments"
      /\ UNCHANGED <<Pgm!inputs, Pgm!wvars>> /\ loaded' = loaded
      /\ got' = got /\ brightest' = brightest /\ pgm' = pgm
  BY DEF Pgm!ReadMagic, Pgm!wvars
<1>2. Len(pgm) \in Nat /\ Len(pgm) # 0 /\ \A k \in 1..Len(pgm) : pgm[k] \in Pgm!Cells
  BY <1>1, PgmTypes
<1>3. 1 \in 1..Len(pgm) /\ 1 <= Len(pgm)
  BY <1>2
<1>4. pgm[1] = Pgm!Whole[1] /\ pgm[1] \in Pgm!Cells
  BY <1>2, <1>3 DEF PgmInv, Begun
<1>5. got = <<>> /\ brightest = 0 /\ Pgm!Whole' = Pgm!Whole
  BY <1>1, GivenStays DEF PgmInv, Header
<1>6. Header' /\ BytesRead'
  BY <1>1, <1>3, <1>4, <1>5 DEF Header, BytesRead
<1>7. got' \in Seq(0..255) /\ brightest' \in 0..255
  BY <1>1, PgmTypes
<1>8. pos' \in 1..Pixels + 6 /\ line' \in Pgm!Cells
  BY <1>1, <1>4, PgmConstants
<1>9. QED
  BY <1>1, <1>6, <1>7, <1>8, NoAnswerYet

LEMMA SkipCommentsKeepsPgm ==
  ASSUME PgmInv, Pgm!SkipComments
  PROVE  PgmInv'
<1>1. /\ pc = "comments"
      /\ line' = IF pos <= Len(pgm) THEN pgm[pos] ELSE line
      /\ pos' = IF pos <= Len(pgm) THEN pos + 1 ELSE pos
      /\ pc' = IF line'.kind = "#" THEN "comments" ELSE "size"
      /\ UNCHANGED <<Pgm!inputs, Pgm!wvars>> /\ loaded' = loaded
      /\ got' = got /\ brightest' = brightest /\ pgm' = pgm
  BY DEF Pgm!SkipComments, Pgm!wvars
<1>2. /\ pos \in {2, 3} /\ pos - 1 <= Len(pgm) /\ line = Pgm!Whole[pos - 1]
      /\ got = <<>> /\ brightest = 0 /\ line \in Pgm!Cells
  BY <1>1 DEF PgmInv, Header, Pgm!TypeOK
<1>3. Len(pgm) \in Nat /\ \A k \in 1..Len(pgm) : pgm[k] \in Pgm!Cells
  BY PgmTypes
<1>4. \A k \in 1..Len(pgm) : pgm[k] = Pgm!Whole[k]
  BY DEF PgmInv, Begun
<1>5. /\ Pgm!Whole[1].kind = "P5" /\ Pgm!Whole[2].kind = "#" /\ Pgm!Whole[3].kind = "size"
      /\ Pgm!Whole' = Pgm!Whole
  BY <1>1, WholeFile, GivenStays DEF PgmInv
<1>6. /\ line'.kind = "#" => pc' = "comments"
      /\ line'.kind # "#" => pc' = "size"
  BY <1>1
<1>7. Pgm!Whole[1].kind # "#" /\ Pgm!Whole[3].kind # "#" /\ Pgm!Whole[2].kind = "#"
  BY <1>5
<1>8. Header' /\ pos' \in {2, 3, 4} /\ line' \in Pgm!Cells
  <2>1. CASE pos <= Len(pgm)
    <3>1. pos \in 1..Len(pgm) /\ line' = pgm[pos] /\ pos' = pos + 1
      BY <2>1, <1>1, <1>2, <1>3
    <3>2. line' = Pgm!Whole[pos] /\ line' \in Pgm!Cells
      BY <3>1, <1>3, <1>4
    <3>3. CASE pos = 2
      <4>1. line' = Pgm!Whole[2] /\ pos' = 3 /\ pos' - 1 <= Len(pgm) /\ pos' - 1 = 2
        BY <3>1, <3>2, <3>3, <2>1, <1>3
      <4>2. pc' = "comments"
        BY <4>1, <1>6, <1>7
      <4>3. line' = Pgm!Whole'[pos' - 1]
        BY <4>1, <1>5
      <4>4. QED
        BY <4>1, <4>2, <4>3, <3>2, <1>1, <1>2 DEF Header
    <3>4. CASE pos = 3
      <4>1. pos' = 4 /\ line' = Pgm!Whole[3]
        BY <3>1, <3>2, <3>4
      <4>2. pc' = "size"
        BY <4>1, <1>6, <1>7
      <4>3. QED
        BY <4>1, <4>2, <3>2, <1>1, <1>2, <1>5 DEF Header
    <3>5. QED
      BY <3>3, <3>4, <1>2
  <2>2. CASE ~ pos <= Len(pgm)
    <3>1. line' = line /\ pos' = pos
      BY <2>2, <1>1
    <3>2. CASE pos = 2
      <4>1. pos - 1 = 1 /\ Len(pgm) = 1 /\ pos' = 2
        <5>1. pos - 1 <= Len(pgm)
          BY <1>2
        <5>2. QED
          BY <5>1, <2>2, <3>1, <3>2, <1>3
      <4>2. line' = Pgm!Whole[1]
        BY <4>1, <3>1, <1>2
      <4>3. pc' = "size"
        BY <4>2, <1>6, <1>7
      <4>4. QED
        BY <4>1, <4>2, <4>3, <3>1, <1>1, <1>2, <1>5 DEF Header
    <3>3. CASE pos = 3
      <4>1. pos - 1 = 2 /\ pos' = 3 /\ pos' - 1 <= Len(pgm)
        BY <2>2, <3>1, <3>3, <1>2, <1>3
      <4>2. line' = Pgm!Whole[2]
        BY <4>1, <3>1, <1>2
      <4>3. pc' = "comments"
        BY <4>2, <1>6, <1>7
      <4>4. QED
        BY <4>1, <4>2, <4>3, <3>1, <1>1, <1>2, <1>5 DEF Header
    <3>4. QED
      BY <3>2, <3>3, <1>2
  <2>3. QED
    BY <2>1, <2>2
<1>9. pc' \in {"comments", "size"} /\ BytesRead'
  BY <1>1 DEF BytesRead
<1>10. got' \in Seq(0..255) /\ brightest' \in 0..255
  BY <1>1, PgmTypes
<1>11. pos' \in 1..Pixels + 6
  BY <1>8, PgmConstants
<1>12. QED
  BY <1>1, <1>8, <1>9, <1>10, <1>11, NoAnswerYet

LEMMA ReadSizeKeepsPgm ==
  ASSUME PgmInv, Pgm!ReadSize
  PROVE  PgmInv'
<1>1. /\ pc = "size" /\ line.kind = "size" /\ pc' = "bytes"
      /\ line' = (IF pos <= Len(pgm) THEN pgm[pos] ELSE line) /\ pos' = pos + 1
      /\ UNCHANGED <<Pgm!inputs, Pgm!wvars>> /\ loaded' = loaded
      /\ got' = got /\ brightest' = brightest /\ pgm' = pgm
  BY DEF Pgm!ReadSize, Pgm!Fgets, Pgm!wvars
<1>2. /\ Pgm!Whole[1].kind = "P5" /\ Pgm!Whole' = Pgm!Whole
  BY <1>1, WholeFile, GivenStays DEF PgmInv
<1>3. pos = 4 /\ got = <<>> /\ brightest = 0 /\ line \in Pgm!Cells
  BY <1>1, <1>2 DEF PgmInv, Header, Pgm!TypeOK
<1>4. line' \in Pgm!Cells
  <2>1. Len(pgm) \in Nat /\ \A k \in 1..Len(pgm) : pgm[k] \in Pgm!Cells
    BY PgmTypes
  <2>2. CASE pos <= Len(pgm)
    <3>1. pos \in 1..Len(pgm) /\ line' = pgm[pos]
      BY <2>1, <2>2, <1>1, <1>3
    <3>2. QED
      BY <3>1, <2>1
  <2>3. CASE ~ pos <= Len(pgm)
    BY <2>3, <1>1, <1>3
  <2>4. QED
    BY <2>2, <2>3
<1>5. got' = <<>> /\ Len(got') = 0 /\ pos' = 5
  BY <1>1, <1>3
<1>6. Header'
  BY <1>1 DEF Header
<1>7. BytesRead'
  BY <1>1, <1>3, <1>5, PgmConstants DEF BytesRead
<1>8. got' \in Seq(0..255) /\ brightest' \in 0..255 /\ pos' \in 1..Pixels + 6
  BY <1>1, <1>5, PgmTypes
<1>9. QED
  BY <1>1, <1>4, <1>6, <1>7, <1>8, NoAnswerYet

LEMMA ReadNoSizeKeepsPgm ==
  ASSUME PgmInv, Pgm!ReadNoSize
  PROVE  PgmInv'
<1>1. /\ pc = "size" /\ line.kind # "size" /\ Pgm!Result("undefined")
      /\ UNCHANGED <<Pgm!inputs, Pgm!wvars, pos, line, got, brightest>>
  BY DEF Pgm!ReadNoSize
<1>2. Pgm!Whole[3].kind = "size" /\ Len(Pgm!Whole) = Pixels + 4 /\ Pixels \in Nat
  BY WholeFile, PgmConstants DEF PgmInv
<1>3. Len(pgm) = 1
  BY <1>1, <1>2 DEF PgmInv, Header
<1>4. pgm # Pgm!Whole
  BY <1>2, <1>3
<1>5. QED
  BY <1>1, <1>4, AnswerKeepsPgm

\* The byte fgetc() returns is the next one of the image, until the file ends.
LEMMA NextByte ==
  ASSUME PgmInv, pc = "bytes", Len(got) < Pixels
  PROVE  /\ Pgm!byte = ByteOf(Len(got) + 1)
         /\ Pgm!byte \in -1..255
         /\ Pgm!byte = Pgm!EOF <=> ~ pos <= Len(pgm)
         /\ pos = 5 + Len(got)
<1>1. /\ pos = 5 + Len(got) /\ Len(got) \in Nat /\ Pixels \in Nat /\ Len(pgm) \in Nat
  BY PgmTypes DEF PgmInv, BytesRead
<1>2. Len(got) + 1 \in 1..Pixels /\ (Len(got) + 1) + 4 = pos
  BY <1>1
<1>3. Pgm!Whole[pos].val = picture[Len(got) + 1] % 256 /\ picture[Len(got) + 1] % 256 \in 0..255
  BY <1>2, WholeFile DEF PgmInv
<1>4. CASE pos <= Len(pgm)
  <2>1. pos \in 1..Len(pgm)
    BY <1>1, <1>4
  <2>2. pgm[pos] = Pgm!Whole[pos]
    BY <2>1 DEF PgmInv, Begun
  <2>3. Pgm!byte = picture[Len(got) + 1] % 256
    BY <2>2, <1>3, <1>4 DEF Pgm!byte
  <2>4. ByteOf(Len(got) + 1) = picture[Len(got) + 1] % 256
    BY <1>2, <1>4 DEF ByteOf
  <2>5. Pgm!byte \in 0..255
    BY <2>3, <1>3
  <2>6. Pgm!byte # Pgm!EOF /\ Pgm!byte \in -1..255
    BY <2>5 DEF Pgm!EOF
  <2>7. Pgm!byte = ByteOf(Len(got) + 1)
    BY <2>3, <2>4
  <2>8. QED
    BY <2>6, <2>7, <1>1, <1>4
<1>5. CASE ~ pos <= Len(pgm)
  <2>1. Pgm!byte = Pgm!EOF /\ ByteOf(Len(got) + 1) = Pgm!EOF
    BY <1>2, <1>5 DEF Pgm!byte, ByteOf
  <2>2. QED
    BY <2>1, <1>1, <1>5 DEF Pgm!EOF
<1>6. QED
  BY <1>4, <1>5

LEMMA ReadByteKeepsPgm ==
  ASSUME PgmInv, Pgm!ReadByte
  PROVE  PgmInv'
<1> DEFINE b == Pgm!byte
           e == Pgm!Thresholded(b, threshold)
<1>1. /\ pc = "bytes" /\ pc' = "bytes" /\ Len(got) < Pixels /\ e # Pgm!EOF
      /\ got' = Append(got, e)
      /\ brightest' = IF b > brightest THEN b ELSE brightest
      /\ pos' = pos + 1 /\ line' = line /\ loaded' = loaded
      /\ UNCHANGED <<Pgm!inputs, Pgm!wvars>> /\ pgm' = pgm
  BY DEF Pgm!ReadByte, Pgm!wvars
<1>2. /\ b = ByteOf(Len(got) + 1) /\ b \in -1..255 /\ pos = 5 + Len(got)
  BY <1>1, NextByte
<1>3. /\ got \in Seq(0..255) /\ Len(got) \in Nat /\ brightest \in 0..255 /\ Pixels \in Nat
      /\ version \in {1, 2}
  BY PgmTypes
<1>4. e \in 0..255
  BY <1>1, <1>2, <1>3 DEF Pgm!Thresholded, Pgm!EOF
<1>5. /\ \A k \in 1..Len(got) : /\ got[k] = Pgm!Thresholded(ByteOf(k), threshold)
                               /\ got[k] # Pgm!EOF /\ ByteOf(k) <= brightest
      /\ brightest = 0 \/ \E k \in 1..Len(got) : ByteOf(k) = brightest
  BY <1>1 DEF PgmInv, BytesRead
<1>6. e = Pgm!Thresholded(ByteOf(Len(got) + 1), threshold)
  BY <1>2
<1>7. /\ picture' = picture /\ threshold' = threshold /\ version' = version
  BY <1>1, GivenStays
<1>8. \A k \in 1..Len(got) : ByteOf(k) \in Int
  <2> TAKE k \in 1..Len(got)
  <2>1. k \in 1..Pixels
    BY <1>1, <1>3
  <2>2. picture[k] \in Int
    BY <2>1, PgmConstants DEF PgmInv, Given
  <2>3. picture[k] % 256 \in Int
    BY <2>2
  <2>4. Pgm!EOF \in Int
    BY DEF Pgm!EOF
  <2>5. CASE k + 4 <= Len(pgm)
    <3>1. ByteOf(k) = picture[k] % 256
      BY <2>5 DEF ByteOf
    <3>2. QED
      BY <3>1, <2>3
  <2>6. CASE ~ k + 4 <= Len(pgm)
    <3>1. ByteOf(k) = Pgm!EOF
      BY <2>6 DEF ByteOf
    <3>2. QED
      BY <3>1, <2>4
  <2>7. QED
    BY <2>5, <2>6
<1>9. brightest' \in 0..255 /\ brightest' >= brightest /\ b <= brightest'
      /\ (brightest' = brightest \/ brightest' = b)
  <2>1. b \in -1..255 /\ brightest \in 0..255 /\ brightest' = IF b > brightest THEN b ELSE brightest
    BY <1>1, <1>2, <1>3
  <2> HIDE DEF b
  <2>2. QED
    BY <2>1
<1>10. \A k : ByteOf(k)' = ByteOf(k)
  BY <1>1, <1>7 DEF ByteOf
<1>11. \A x : Pgm!Thresholded(x, threshold)' = Pgm!Thresholded(x, threshold)
  BY <1>7 DEF Pgm!Thresholded
<1> HIDE DEF b, e
<1>12. /\ got' \in Seq(0..255) /\ Len(got') = Len(got) + 1
       /\ \A k \in 1..Len(got) : got'[k] = got[k]
       /\ got'[Len(got) + 1] = e
  BY <1>1, <1>3, <1>4, AppendProperties
<1>13. \A k \in 1..Len(got') : /\ got'[k] = Pgm!Thresholded(ByteOf(k), threshold)
                               /\ got'[k] # Pgm!EOF /\ ByteOf(k) <= brightest'
  <2> TAKE k \in 1..Len(got')
  <2>1. CASE k \in 1..Len(got)
    <3>1. /\ got'[k] = got[k] /\ got[k] = Pgm!Thresholded(ByteOf(k), threshold)
          /\ got[k] # Pgm!EOF
      BY <2>1, <1>5, <1>12
    <3>2. ByteOf(k) <= brightest /\ ByteOf(k) \in Int
      BY <2>1, <1>5, <1>8
    <3>3. ByteOf(k) <= brightest'
      BY <3>2, <1>3, <1>9
    <3>4. QED
      BY <3>1, <3>3
  <2>2. CASE k = Len(got) + 1
    <3>1. got'[k] = e /\ ByteOf(k) = b
      BY <2>2, <1>2, <1>12
    <3>2. QED
      BY <3>1, <2>2, <1>1, <1>6, <1>9
  <2>3. QED
    BY <2>1, <2>2, <1>3, <1>12
<1>14. brightest' = 0 \/ \E k \in 1..Len(got') : ByteOf(k) = brightest'
  <2>1. CASE brightest' = brightest
    <3>1. CASE brightest = 0
      BY <3>1, <2>1
    <3>2. CASE \E k \in 1..Len(got) : ByteOf(k) = brightest
      <4>1. PICK k \in 1..Len(got) : ByteOf(k) = brightest
        BY <3>2
      <4>2. k \in 1..Len(got')
        BY <1>3, <1>12
      <4>3. QED
        BY <4>1, <4>2, <2>1
    <3>3. QED
      BY <3>1, <3>2, <1>5
  <2>2. CASE brightest' = b
    <3>1. Len(got) + 1 \in 1..Len(got')
      BY <1>3, <1>12
    <3>2. QED
      BY <3>1, <2>2, <1>2
  <2>3. QED
    BY <2>1, <2>2, <1>9
<1>15. Header'
  BY <1>1 DEF Header
<1>16. BytesRead'
  <2>1. pos' = 5 + Len(got') /\ Len(got') <= Pixels
    BY <1>1, <1>2, <1>3, <1>12
  <2>2. \A k \in 1..Len(got') :
           /\ got'[k] = Pgm!Thresholded(ByteOf(k), threshold)'
           /\ got'[k] # Pgm!EOF /\ ByteOf(k)' <= brightest'
    BY <1>7, <1>10, <1>13 DEF Pgm!Thresholded
  <2>3. brightest' = 0 \/ \E k \in 1..Len(got') : ByteOf(k)' = brightest'
    BY <1>10, <1>14
  <2>4. QED
    BY <2>1, <2>2, <2>3 DEF BytesRead
<1>17. line' \in Pgm!Cells /\ pos' \in 1..Pixels + 6
  BY <1>1, <1>2, <1>3 DEF PgmInv, Pgm!TypeOK
<1>18. QED
  BY <1>1, <1>9, <1>12, <1>15, <1>16, <1>17, NoAnswerYet

LEMMA ReadShortKeepsPgm ==
  ASSUME PgmInv, Pgm!ReadShort
  PROVE  PgmInv'
<1>1. /\ pc = "bytes" /\ Len(got) < Pixels /\ Pgm!Thresholded(Pgm!byte, threshold) = Pgm!EOF
      /\ Pgm!Result("false")
      /\ UNCHANGED <<Pgm!inputs, Pgm!wvars, pos, line, got, brightest>>
  BY DEF Pgm!ReadShort
<1>2. Pgm!EOF # 0 /\ Pgm!EOF # 255
  BY DEF Pgm!EOF
<1>3. Pgm!byte = Pgm!EOF
  BY <1>1, <1>2 DEF Pgm!Thresholded
<1>4. ~ pos <= Len(pgm) /\ pos = 5 + Len(got)
  BY <1>1, <1>3, NextByte
<1>5. Len(Pgm!Whole) = Pixels + 4
  BY WholeFile DEF PgmInv
<1>6. Len(got) \in Nat /\ Len(pgm) \in Nat /\ Pixels \in Nat
  BY PgmTypes
<1>7. pgm # Pgm!Whole
  BY <1>1, <1>4, <1>5, <1>6
<1>8. QED
  BY <1>1, <1>7, AnswerKeepsPgm

\* A value that was read is counted.
LEMMA CountSees ==
  ASSUME PgmInv, NEW x, NEW k \in 1..Len(got), got[k] = x
  PROVE  Pgm!Count(x) # 0
<1> DEFINE K == {j \in DOMAIN got : got[j] = x}
<1>1. got \in Seq(0..255) /\ Len(got) \in Nat
  BY PgmTypes
<1>2. DOMAIN got = 1..Len(got)
  BY <1>1
<1>3. k \in K /\ K \in SUBSET (1..Len(got))
  BY <1>2
<1>4. IsFiniteSet(1..Len(got))
  BY <1>1, FS_Interval
<1>5. Pgm!Count(x) = Cardinality(K)
  <2>1. Pgm!Count(x) = Pgm!Cardinality(K)
    BY DEF Pgm!Count
  <2>2. Pgm!Cardinality(K) = Cardinality(K)
    BY DEF Pgm!Cardinality, Cardinality
  <2>3. QED
    BY <2>1, <2>2
<1> HIDE DEF K
<1>6. IsFiniteSet(K)
  BY <1>3, <1>4, FS_Subset
<1>7. QED
  BY <1>3, <1>5, <1>6, FS_EmptySet

LEMMA EvaluateKeepsPgm ==
  ASSUME PgmInv, Pgm!Evaluate
  PROVE  PgmInv'
<1> DEFINE zero == Pgm!Count(brightest) = 0 \/ (version = 1 /\ Pgm!Count(255) = 0)
           r == IF zero THEN "crash" ELSE "true"
<1>1. /\ pc = "bytes" /\ Len(got) = Pixels /\ Pgm!Result(r)
      /\ UNCHANGED <<Pgm!inputs, Pgm!wvars, pos, line, got, brightest>>
  BY DEF Pgm!Evaluate
<1>2. /\ got \in Seq(0..255) /\ brightest \in 0..255 /\ threshold \in 1..255
      /\ Pixels \in Nat \ {0} /\ version \in {1, 2} /\ Len(pgm) \in Nat
  BY PgmTypes
<1>3. /\ \A k \in 1..Pixels : /\ got[k] = Pgm!Thresholded(ByteOf(k), threshold)
                              /\ got[k] # Pgm!EOF /\ ByteOf(k) <= brightest
      /\ brightest = 0 \/ \E k \in 1..Pixels : ByteOf(k) = brightest
  BY <1>1 DEF PgmInv, BytesRead
<1>4. \A k \in 1..Pixels : picture[k] % 256 \in 0..255
  BY WholeFile DEF PgmInv
<1>5. ASSUME version = 2, NEW k \in 1..Pixels
      PROVE  got[k] = picture[k] % 256 /\ ByteOf(k) = got[k]
  <2>1. got[k] = ByteOf(k) /\ got[k] # Pgm!EOF
    BY <1>3, <1>5 DEF Pgm!Thresholded
  <2>2. QED
    BY <2>1 DEF ByteOf
<1>6. ASSUME version = 2
      PROVE  got = [k \in 1..Pixels |-> picture[k] % 256]
  <2>1. got = [k \in 1..Pixels |-> got[k]]
    BY <1>1, <1>2
  <2>2. QED
    BY <2>1, <1>5, <1>6
<1>7. ASSUME version = 2
      PROVE  Pgm!Count(brightest) # 0
  <2>1. CASE brightest = 0
    <3>1. 1 \in 1..Pixels
      BY <1>2
    <3>2. got[1] = picture[1] % 256 /\ ByteOf(1) = got[1] /\ picture[1] % 256 \in 0..255
      BY <3>1, <1>4, <1>5, <1>7
    <3>3. got[1] \in 0..255 /\ got[1] <= brightest
      BY <3>1, <3>2, <1>3
    <3>4. got[1] = brightest
      BY <3>3, <2>1
    <3>5. QED
      BY <3>1, <3>4, <1>1, CountSees
  <2>2. CASE \E k \in 1..Pixels : ByteOf(k) = brightest
    <3>1. PICK k \in 1..Pixels : ByteOf(k) = brightest
      BY <2>2
    <3>2. got[k] = brightest
      BY <3>1, <1>5, <1>7
    <3>3. QED
      BY <3>1, <3>2, <1>1, CountSees
  <2>3. QED
    BY <2>1, <2>2, <1>3
<1>8. ASSUME pgm = Pgm!Whole, NEW k \in 1..Pixels, picture[k] % 256 = 255
      PROVE  Pgm!Count(brightest) # 0 /\ Pgm!Count(255) # 0
  <2>1. k + 4 <= Len(pgm)
    <3>1. Len(pgm) = Pixels + 4
      BY <1>8, WholeFile DEF PgmInv
    <3>2. QED
      BY <3>1, <1>2
  <2>2. ByteOf(k) = 255
    BY <2>1, <1>8 DEF ByteOf
  <2>3. brightest = 255
    <3>1. 255 <= brightest
      BY <2>2, <1>3
    <3>2. QED
      BY <3>1, <1>2
  <2>4. got[k] = 255
    <3>1. got[k] = Pgm!Thresholded(255, threshold)
      BY <2>2, <1>3
    <3>2. ~ 255 < threshold
      BY <1>2
    <3>3. QED
      BY <3>1, <3>2 DEF Pgm!Thresholded
  <2>5. Pgm!Count(255) # 0
    BY <2>4, <1>1, CountSees
  <2>6. QED
    BY <2>3, <2>5
<1>9. r = "crash" => version = 1 /\ (pgm = Pgm!Whole => \A k \in 1..Pixels : picture[k] % 256 # 255)
  <2> SUFFICES ASSUME r = "crash"
               PROVE  version = 1 /\ (pgm = Pgm!Whole => \A k \in 1..Pixels : picture[k] % 256 # 255)
      OBVIOUS
  <2>1. zero
    OBVIOUS
  <2>2. version = 1
    BY <2>1, <1>2, <1>7
  <2>3. QED
    BY <2>1, <2>2, <1>8
<1>10. r = "true" /\ version = 2 => got = [k \in 1..Pixels |-> picture[k] % 256]
  BY <1>6
<1>11. r \in {"true", "crash"}
  OBVIOUS
<1>12. r \in {"true", "false", "undefined", "crash"} /\ ~ r \in {"false", "undefined"}
  BY <1>11
<1> HIDE DEF r
<1>13. QED
  BY <1>1, <1>9, <1>10, <1>12, AnswerKeepsPgm

\* Each step keeps it.
LEMMA PgmStep == PgmInv /\ [Pgm!Next]_(Pgm!vars) => PgmInv'
<1> SUFFICES ASSUME PgmInv, [Pgm!Next]_(Pgm!vars) PROVE PgmInv'
    OBVIOUS
<1>1. CASE UNCHANGED Pgm!vars
  <2>1. /\ UNCHANGED Pgm!inputs /\ UNCHANGED <<Pgm!wvars, Pgm!rvars>> /\ pc' = pc
        /\ stream' = stream /\ pgm' = pgm /\ pixel' = pixel /\ wrote' = wrote
        /\ pos' = pos /\ line' = line /\ got' = got /\ brightest' = brightest /\ loaded' = loaded
    BY <1>1 DEF Pgm!vars, Pgm!wvars, Pgm!rvars
  <2>2. /\ Given' /\ Pgm!Whole' = Pgm!Whole /\ room' = room
        /\ picture' = picture /\ version' = version /\ threshold' = threshold
    BY <2>1, GivenStays
  <2>3. Pgm!TypeOK'
    BY <2>1, <2>2 DEF PgmInv, Pgm!TypeOK
  <2>4. Begun' /\ Header'
    BY <2>1, <2>2 DEF PgmInv, Begun, Header
  <2>5. BytesRead'
    BY <2>1, <2>2 DEF PgmInv, BytesRead, ByteOf, Pgm!Thresholded
  <2>6. Answered'
    BY <2>1, <2>2 DEF PgmInv, Answered, Pgm!ReadIsWhatWasWritten, Pgm!WholeIsAccepted,
      Pgm!CrashesAre
  <2>7. QED
    BY <2>2, <2>3, <2>4, <2>5, <2>6 DEF PgmInv
<1>2. CASE Pgm!WriteImage
  BY <1>2, WriteImageKeepsPgm
<1>3. CASE Pgm!ReadImage
  <2>1. CASE Pgm!Refuse
    BY <2>1, RefuseKeepsPgm
  <2>2. CASE Pgm!ReadMagic
    BY <2>2, ReadMagicKeepsPgm
  <2>3. CASE Pgm!SkipComments
    BY <2>3, SkipCommentsKeepsPgm
  <2>4. CASE Pgm!ReadSize
    BY <2>4, ReadSizeKeepsPgm
  <2>5. CASE Pgm!ReadNoSize
    BY <2>5, ReadNoSizeKeepsPgm
  <2>6. CASE Pgm!ReadByte
    BY <2>6, ReadByteKeepsPgm
  <2>7. CASE Pgm!ReadShort
    BY <2>7, ReadShortKeepsPgm
  <2>8. CASE Pgm!Evaluate
    BY <2>8, EvaluateKeepsPgm
  <2>9. QED
    BY <1>3, <2>1, <2>2, <2>3, <2>4, <2>5, <2>6, <2>7, <2>8 DEF Pgm!ReadImage
<1>4. QED
  BY <1>1, <1>2, <1>3 DEF Pgm!Next

-----------------------------------------------------------------------------
(* LeeHomework2: the file of books is read, cut off and written again.       *)

(* What is looked for in the file.                                           *)

\* The least of numbers.
LEMMA LeastOne ==
  ASSUME NEW X, X \subseteq Nat, X # {}
  PROVE  \E k \in X : \A j \in X : k <= j
<1> DEFINE T == {m \in Nat : (\E j \in X : j <= m) => \E k \in X : \A j \in X : k <= j}
<1>1. 0 \in T
  <2>1. \A j \in X : j \in Nat
    OBVIOUS
  <2>2. \A j \in X : 0 <= j /\ (j <= 0 => j = 0)
    BY <2>1
  <2>3. QED
    BY <2>2
<1>2. ASSUME NEW m \in Nat, m \in T PROVE m + 1 \in T
  <2> SUFFICES ASSUME NEW k \in X, k <= m + 1, ~\E j \in X : j <= m
               PROVE  \A j \in X : k <= j
      BY <1>2
  <2>1. TAKE j \in X
  <2>2. j \in Nat /\ ~(j <= m)
    OBVIOUS
  <2>3. QED
    BY <2>2
<1>3. \A m \in Nat : m \in T
  <2> HIDE DEF T
  <2>1. QED
    BY <1>1, <1>2, SetInduction
<1>4. PICK m \in X : m \in Nat
  OBVIOUS
<1>5. \E j \in X : j <= m
  BY <1>4
<1>6. QED
  BY <1>3, <1>4, <1>5

LEMMA FindIs ==
  ASSUME NEW f, Len(f) \in Nat, NEW k \in Nat \ {0}, NEW c
  PROVE  \/ /\ Book!Find(c, k, f) \in k..Len(f) /\ f[Book!Find(c, k, f)] = c
            /\ \A j \in k..Len(f) : f[j] = c => Book!Find(c, k, f) <= j
         \/ Book!Find(c, k, f) = 0 /\ \A j \in k..Len(f) : f[j] # c
<1> DEFINE found == {j \in k..Len(f) : f[j] = c}
<1>1. Book!Find(c, k, f) = IF found = {} THEN 0 ELSE CHOOSE m \in found : \A j \in found : m <= j
  BY DEF Book!Find
<1>2. found \subseteq Nat
  OBVIOUS
<1>3. CASE found # {}
  <2> DEFINE m == CHOOSE m \in found : \A j \in found : m <= j
  <2>1. m \in found /\ \A j \in found : m <= j
    <3> HIDE DEF found
    <3>1. QED
      BY <1>2, <1>3, LeastOne
  <2>2. Book!Find(c, k, f) = m
    BY <1>1, <1>3
  <2> HIDE DEF m
  <2>3. QED
    BY <2>1, <2>2
<1>4. CASE found = {}
  BY <1>1, <1>4
<1>5. QED
  BY <1>3, <1>4

\* The ends of lines in front of a position.
LinesAbove(f, p) == Cardinality({j \in 1..p - 1 : f[j] = Book!NL})

LEMMA StartIs ==
  ASSUME NEW f, Len(f) \in Nat, NEW r \in Nat
  PROVE  \/ /\ Book!Start(r, f) \in 1..Len(f) /\ LinesAbove(f, Book!Start(r, f)) >= r
            /\ \A j \in 1..Len(f) : LinesAbove(f, j) >= r => Book!Start(r, f) <= j
         \/ Book!Start(r, f) = 0 /\ \A j \in 1..Len(f) : ~(LinesAbove(f, j) >= r)
<1> DEFINE found == {p \in 1..Len(f) : LinesAbove(f, p) >= r}
<1>1. Book!Start(r, f) = IF found = {} THEN 0 ELSE CHOOSE m \in found : \A j \in found : m <= j
  BY DEF Book!Start, LinesAbove, Book!Cardinality, Cardinality
<1>2. found \subseteq Nat
  OBVIOUS
<1>3. CASE found # {}
  <2> DEFINE m == CHOOSE m \in found : \A j \in found : m <= j
  <2>1. m \in found /\ \A j \in found : m <= j
    <3> HIDE DEF found
    <3>1. QED
      BY <1>2, <1>3, LeastOne
  <2>2. Book!Start(r, f) = m
    BY <1>1, <1>3
  <2> HIDE DEF m
  <2>3. QED
    BY <2>1, <2>2
<1>4. CASE found = {}
  BY <1>1, <1>4
<1>5. QED
  BY <1>3, <1>4

(* The text of rows: four cells of each.                                     *)

Books == Book!Typed \X Book!Typed

\* The cells in f of the rows rs up to the m-th; but the last line may lack its end.
HasRows(f, rs, m) ==
  \A k \in 1..m : /\ f[4 * k - 3] = rs[k][1] /\ f[4 * k - 2] = Book!Space
                  /\ f[4 * k - 1] = rs[k][2] /\ (4 * k <= Len(f) => f[4 * k] = Book!NL)

IsText(f, rs) ==
  /\ f \in Seq(Book!Cell) /\ rs \in Seq(Books)
  /\ Len(f) = 4 * Len(rs) \/ Len(f) = 4 * Len(rs) - 1
  /\ HasRows(f, rs, Len(rs))

LEMMA CellNames ==
  /\ Book!Cell = Book!Typed \cup {Book!Space, Book!NL, Book!NUL, Book!Junk}
  /\ Book!Space \notin Book!Typed /\ Book!NL \notin Book!Typed
  /\ Book!NUL \notin Book!Typed /\ Book!Junk \notin Book!Typed
  /\ Book!Space # Book!NL /\ Book!Space # Book!NUL /\ Book!Space # Book!Junk
  /\ Book!NL # Book!NUL /\ Book!NL # Book!Junk /\ Book!NUL # Book!Junk
  /\ Word \subseteq Book!Typed /\ InitRows \subseteq Seq(Books) /\ Row \subseteq Nat /\ MaxEdits \in Nat
<1>1. Book!BookFileAssumption
  BY FilesAssumption
<1>2. /\ Book!Typed \cap {Book!Space, Book!NL, Book!NUL, Book!Junk} = {}
      /\ InitRows \subseteq Seq(Books) /\ Row \subseteq Nat /\ MaxEdits \in Nat
  BY <1>1 DEF Book!BookFileAssumption, Books
<1>3. /\ Book!Space # Book!NL /\ Book!Space # Book!NUL /\ Book!Space # Book!Junk
      /\ Book!NL # Book!NUL /\ Book!NL # Book!Junk /\ Book!NUL # Book!Junk
  BY DEF Book!Space, Book!NL, Book!NUL, Book!Junk
<1>4. Word \subseteq Book!Typed
  BY DEF Book!Typed
<1>5. QED
  BY <1>2, <1>3, <1>4 DEF Book!Cell

\* The four cells of a row.
Cells(b) == <<b[1], Book!Space, b[2], Book!NL>>

LEMMA CellsOf ==
  ASSUME NEW b \in Books
  PROVE  /\ Cells(b) \in Seq(Book!Cell) /\ Len(Cells(b)) = 4
         /\ Cells(b)[1] = b[1] /\ Cells(b)[2] = Book!Space
         /\ Cells(b)[3] = b[2] /\ Cells(b)[4] = Book!NL
<1>1. b[1] \in Book!Cell /\ b[2] \in Book!Cell
  BY DEF Books, Book!Cell
<1>2. ASSUME NEW p \in Book!Cell, NEW q \in Book!Cell, NEW x \in Book!Cell, NEW y \in Book!Cell
      PROVE  /\ <<p, x, q, y>> \in Seq(Book!Cell) /\ Len(<<p, x, q, y>>) = 4
             /\ <<p, x, q, y>>[1] = p /\ <<p, x, q, y>>[2] = x
             /\ <<p, x, q, y>>[3] = q /\ <<p, x, q, y>>[4] = y
  OBVIOUS
<1>3. Book!Space \in Book!Cell /\ Book!NL \in Book!Cell
  BY DEF Book!Cell
<1>4. QED
  BY <1>1, <1>2, <1>3, Zenon DEF Cells

\* The text x of m rows, with one more.
GoodText(x, rs, m) == x \in Seq(Book!Cell) /\ Len(x) = 4 * m /\ HasRows(x, rs, m)

LEMMA RowAppended ==
  ASSUME NEW rs, NEW m \in Nat, NEW x, GoodText(x, rs, m), NEW b \in Books, b = rs[m + 1]
  PROVE  GoodText(x \o Cells(b), rs, m + 1)
<1> DEFINE z == x \o Cells(b)
<1>1. x \in Seq(Book!Cell) /\ Len(x) = 4 * m /\ Cells(b) \in Seq(Book!Cell) /\ Len(Cells(b)) = 4
  BY CellsOf DEF GoodText
<1>2. /\ z \in Seq(Book!Cell) /\ Len(z) = Len(x) + Len(Cells(b))
      /\ \A j \in 1..Len(x) + Len(Cells(b)) :
           z[j] = IF j <= Len(x) THEN x[j] ELSE Cells(b)[j - Len(x)]
  BY <1>1, ConcatProperties
<1> HIDE DEF z
<1>3. Len(z) = 4 * m + 4 /\ \A j \in 1..4 * m + 4 : z[j] = IF j <= 4 * m THEN x[j] ELSE Cells(b)[j - 4 * m]
  BY <1>1, <1>2
<1>4. \A j \in 1..4 : z[4 * m + j] = Cells(b)[j]
  BY <1>3
<1>5. HasRows(z, rs, m + 1)
  <2> SUFFICES ASSUME NEW p \in 1..m + 1
               PROVE  /\ z[4 * p - 3] = rs[p][1] /\ z[4 * p - 2] = Book!Space
                      /\ z[4 * p - 1] = rs[p][2] /\ (4 * p <= Len(z) => z[4 * p] = Book!NL)
      BY DEF HasRows
  <2>1. CASE p = m + 1
    <3>1. 4 * p - 3 = 4 * m + 1 /\ 4 * p - 2 = 4 * m + 2 /\ 4 * p - 1 = 4 * m + 3 /\ 4 * p = 4 * m + 4
      BY <2>1
    <3>2. /\ z[4 * m + 1] = Cells(b)[1] /\ z[4 * m + 2] = Cells(b)[2]
          /\ z[4 * m + 3] = Cells(b)[3] /\ z[4 * m + 4] = Cells(b)[4]
      BY <1>4
    <3>3. QED
      BY <2>1, <3>1, <3>2, CellsOf
  <2>2. CASE p # m + 1
    <3>1. /\ p \in 1..m /\ 4 * p - 3 \in 1..4 * m /\ 4 * p - 2 \in 1..4 * m
          /\ 4 * p - 1 \in 1..4 * m /\ 4 * p \in 1..4 * m
      BY <2>2
    <3>2. /\ x[4 * p - 3] = rs[p][1] /\ x[4 * p - 2] = Book!Space
          /\ x[4 * p - 1] = rs[p][2] /\ x[4 * p] = Book!NL
      BY <1>1, <3>1 DEF HasRows, GoodText
    <3>3. \A j \in 1..4 * m : z[j] = x[j]
      BY <1>3
    <3>4. QED
      BY <3>1, <3>2, <3>3
  <2>3. QED
    BY <2>1, <2>2
<1>6. Len(z) = 4 * (m + 1)
  BY <1>3
<1>7. QED
  BY <1>2, <1>5, <1>6 DEF GoodText, z

LEMMA TextHasRows ==
  ASSUME NEW rs \in Seq(Books)
  PROVE  /\ Book!Text(rs) \in Seq(Book!Cell) /\ Len(Book!Text(rs)) = 4 * Len(rs)
         /\ HasRows(Book!Text(rs), rs, Len(rs))
<1> DEFINE L == Len(rs)
           ch == [k \in DOMAIN rs |-> Cells(rs[k])]
           st == [k \in Nat |-> [s \in Seq(Book!Cell) |-> IF k + 2 \in 1..L THEN s \o ch[k + 2] ELSE s]]
           Def(f) == [k \in 1..L |-> IF k = 1 THEN ch[k] ELSE f[k - 1] \o ch[k]]
<1>1. L \in Nat /\ DOMAIN rs = 1..L /\ \A k \in 1..L : rs[k] \in Books
  BY ElementOfSeq
<1>2. /\ \A k \in 1..L : ch[k] = Cells(rs[k]) /\ ch[k] \in Seq(Book!Cell)
      /\ ch \in [1..L -> Seq(Book!Cell)] /\ Len(ch) = L
  BY <1>1, CellsOf
<1>3. Book!Text(rs) = Book!FlattenSeq(ch)
  BY DEF Book!Text, Cells
<1>4. CASE L = 0
  <2>1. ch = <<>> /\ rs = <<>>
    BY <1>1, <1>4
  <2> HIDE DEF ch
  <2>2. Book!FlattenSeq(ch) = <<>>
    BY <1>2, <1>4, <2>1 DEF Book!FlattenSeq
  <2>3. QED
    BY <1>3, <1>4, <2>2 DEF HasRows
<1>5. CASE L # 0
  <2>1. 1 \in 1..L
    BY <1>1, <1>5
  <2>2. st \in [Nat -> [Seq(Book!Cell) -> Seq(Book!Cell)]]
    <3>1. \A k \in Nat : \A s \in Seq(Book!Cell) :
            (IF k + 2 \in 1..L THEN s \o ch[k + 2] ELSE s) \in Seq(Book!Cell)
      <4> HIDE DEF L, ch
      <4>1. TAKE k \in Nat
      <4>2. TAKE s \in Seq(Book!Cell)
      <4>3. CASE k + 2 \in 1..L
        <5>1. ch[k + 2] \in Seq(Book!Cell)
          BY <1>2, <4>3
        <5>2. s \o ch[k + 2] \in Seq(Book!Cell)
          BY <5>1
        <5>3. QED
          BY <4>3, <5>2
      <4>4. CASE k + 2 \notin 1..L
        BY <4>4
      <4>5. QED
        BY <4>3, <4>4
    <3> HIDE DEF L, ch
    <3>2. QED
      BY <3>1
  <2> HIDE DEF L
  <2>3. PICK f \in [Nat -> Seq(Book!Cell)] : Iterates(f, ch[1], st)
    <3> HIDE DEF st, ch
    <3>1. QED
      BY <1>2, <2>1, <2>2, Recursion
  <2> DEFINE g == [k \in 1..L |-> f[k - 1]]
  <2>4. \A k \in 2..L : f[k - 1] = f[k - 2] \o ch[k]
    <3>1. TAKE k \in 2..L
    <3>2. k - 2 \in Nat /\ (k - 2) + 1 = k - 1 /\ (k - 2) + 2 = k /\ k \in 1..L
      BY <1>1
    <3>3. f[k - 1] = st[k - 2][f[k - 2]]
      BY <2>3, <3>2 DEF Iterates
    <3>4. f[k - 2] \in Seq(Book!Cell)
      BY <3>2
    <3> HIDE DEF ch
    <3>5. QED
      BY <3>2, <3>3, <3>4
  <2>5. g = Def(g)
    <3>1. \A k \in 1..L : g[k] = IF k = 1 THEN ch[k] ELSE g[k - 1] \o ch[k]
      <4>1. TAKE k \in 1..L
      <4>2. CASE k = 1
        <5>1. f[0] = ch[1]
          BY <2>3 DEF Iterates
        <5> HIDE DEF ch
        <5>2. QED
          BY <4>2, <5>1
      <4>3. CASE k # 1
        <5>1. k \in 2..L /\ k - 1 \in 1..L /\ (k - 1) - 1 = k - 2
          BY <1>1, <4>3
        <5>2. g[k] = f[k - 1] /\ g[k - 1] = f[k - 2]
          BY <5>1
        <5> HIDE DEF ch, g
        <5>3. QED
          BY <2>4, <4>3, <5>1, <5>2
      <4>4. QED
        BY <4>2, <4>3
    <3>2. g = [k \in 1..L |-> g[k]]
      OBVIOUS
    <3> HIDE DEF g, ch
    <3>3. QED
      BY <3>1, <3>2
  <2> DEFINE h == CHOOSE h : h = Def(h)
  <2>6. h = Def(h)
    <3> HIDE DEF g, Def
    <3>1. QED
      BY <2>5
  <2>7. Book!Text(rs) = h[L]
    <3>1. Book!FlattenSeq(ch) = (IF Len(ch) = 0 THEN ch
                                 ELSE LET fl == CHOOSE fl : fl = [k \in 1..Len(ch) |->
                                               IF k = 1 THEN ch[k] ELSE fl[k - 1] \o ch[k]]
                                      IN  fl[Len(ch)])
      BY DEF Book!FlattenSeq
    <3> HIDE DEF ch
    <3>2. QED
      BY <1>2, <1>3, <1>5, <3>1
  <2> HIDE DEF h, g, ch
  <2>8. h[1] = ch[1] /\ \A k \in 2..L : h[k] = h[k - 1] \o ch[k]
    <3>1. \A k \in 1..L : Def(h)[k] = IF k = 1 THEN ch[k] ELSE h[k - 1] \o ch[k]
      OBVIOUS
    <3> HIDE DEF Def
    <3>2. \A k \in 1..L : h[k] = IF k = 1 THEN ch[k] ELSE h[k - 1] \o ch[k]
      BY <2>6, <3>1, Zenon
    <3>3. \A k \in 2..L : k \in 1..L /\ k # 1
      BY <1>1
    <3>4. QED
      BY <2>1, <3>2, <3>3
  <2> DEFINE T == {k \in Nat : k + 1 \in 1..L => GoodText(h[k + 1], rs, k + 1)}
  <2>9. 0 \in T
    <3>1. h[1] = Cells(rs[1]) /\ rs[1] \in Books
      BY <1>1, <1>2, <2>1, <2>8
    <3>2. GoodText(<<>>, rs, 0)
      BY DEF GoodText, HasRows
    <3>3. rs[0 + 1] = rs[1] /\ 0 + 1 = 1 /\ <<>> \o Cells(rs[1]) = Cells(rs[1])
      BY <3>1, CellsOf, ConcatEmptySeq
    <3>4. GoodText(<<>> \o Cells(rs[1]), rs, 0 + 1)
      BY <3>1, <3>2, <3>3, RowAppended
    <3>5. GoodText(h[0 + 1], rs, 0 + 1)
      BY <3>1, <3>3, <3>4
    <3>6. QED
      BY <3>5
  <2>10. ASSUME NEW k \in Nat, k \in T PROVE k + 1 \in T
    <3>1. SUFFICES ASSUME (k + 1) + 1 \in 1..L PROVE GoodText(h[(k + 1) + 1], rs, (k + 1) + 1)
      OBVIOUS
    <3>2. (k + 1) + 1 \in 2..L /\ ((k + 1) + 1) - 1 = k + 1 /\ k + 1 \in 1..L
      BY <1>1, <3>1
    <3>3. GoodText(h[k + 1], rs, k + 1)
      BY <2>10, <3>2
    <3>4. h[(k + 1) + 1] = h[k + 1] \o ch[(k + 1) + 1]
      BY <2>8, <3>2
    <3>5. ch[(k + 1) + 1] = Cells(rs[(k + 1) + 1]) /\ rs[(k + 1) + 1] \in Books
      BY <1>1, <1>2, <3>1
    <3>6. QED
      BY <3>3, <3>4, <3>5, RowAppended
  <2>11. \A k \in Nat : k \in T
    <3> HIDE DEF T
    <3>1. QED
      BY <2>9, <2>10, SetInduction
  <2>12. L - 1 \in Nat /\ (L - 1) + 1 = L /\ L \in 1..L
    BY <1>1, <1>5
  <2>13. GoodText(h[L], rs, L)
    BY <2>11, <2>12
  <2>14. QED
    BY <2>7, <2>13 DEF L, GoodText
<1>6. QED
  BY <1>4, <1>5

\* Each position of a text is one of a row.
LEMMA RowOf ==
  ASSUME NEW m \in Nat, NEW j \in 1..4 * m
  PROVE  \E k \in 1..m : j = 4 * k - 3 \/ j = 4 * k - 2 \/ j = 4 * k - 1 \/ j = 4 * k
<1>1. (j + 3) \div 4 \in 1..m
  OBVIOUS
<1>2. \/ j = 4 * ((j + 3) \div 4) - 3 \/ j = 4 * ((j + 3) \div 4) - 2
      \/ j = 4 * ((j + 3) \div 4) - 1 \/ j = 4 * ((j + 3) \div 4)
  OBVIOUS
<1>3. QED
  BY <1>1, <1>2

\* Two sequences with the cells of the same rows are equal if they are as long.
LEMMA TextsEqual ==
  ASSUME NEW f \in Seq(Book!Cell), NEW g \in Seq(Book!Cell), NEW rs, NEW m \in Nat, Len(f) = Len(g),
         Len(f) <= 4 * m, HasRows(f, rs, m), HasRows(g, rs, m)
  PROVE  f = g
<1>1. ASSUME NEW j \in 1..Len(f) PROVE f[j] = g[j]
  <2>1. j \in 1..4 * m
    OBVIOUS
  <2>2. PICK k \in 1..m : j = 4 * k - 3 \/ j = 4 * k - 2 \/ j = 4 * k - 1 \/ j = 4 * k
    BY <2>1, RowOf
  <2>3. f[4 * k - 3] = g[4 * k - 3] /\ f[4 * k - 2] = g[4 * k - 2] /\ f[4 * k - 1] = g[4 * k - 1]
        /\ (4 * k <= Len(f) => f[4 * k] = g[4 * k])
    BY DEF HasRows
  <2>4. j <= Len(f)
    OBVIOUS
  <2>5. QED
    BY <2>2, <2>3, <2>4
<1>2. QED
  BY <1>1, SeqEqual

LEMMA TextIs ==
  ASSUME NEW rs \in Seq(Books)
  PROVE  /\ IsText(Book!Text(rs), rs)
         /\ rs # <<>> => IsText(Book!Front(Book!Text(rs)), rs)
         /\ \A f : IsText(f, rs) => f = Book!Text(rs) \/ (rs # <<>> /\ f = Book!Front(Book!Text(rs)))
<1> DEFINE x == Book!Text(rs)
           y == SubSeq(x, 1, Len(x) - 1)
           L == Len(rs)
<1>1. x \in Seq(Book!Cell) /\ Len(x) = 4 * L /\ HasRows(x, rs, L) /\ L \in Nat
  BY TextHasRows
<1>2. Book!Front(Book!Text(rs)) = y
  BY DEF Book!Front
<1>3. rs = <<>> <=> L = 0
  OBVIOUS
<1> HIDE DEF x, L
<1>4. L # 0 => /\ y \in Seq(Book!Cell) /\ Len(y) = 4 * L - 1 /\ \A j \in 1..4 * L - 1 : y[j] = x[j]
               /\ HasRows(y, rs, L)
  <2> SUFFICES ASSUME L # 0
               PROVE  /\ y \in Seq(Book!Cell) /\ Len(y) = 4 * L - 1 /\ \A j \in 1..4 * L - 1 : y[j] = x[j]
                      /\ HasRows(y, rs, L)
      OBVIOUS
  <2>1. Len(x) - 1 \in 0..Len(x) /\ Len(x) - 1 = 4 * L - 1
    BY <1>1
  <2>2. y \in Seq(Book!Cell) /\ Len(y) = 4 * L - 1 /\ \A j \in 1..4 * L - 1 : y[j] = x[j]
    BY <1>1, <2>1
  <2> HIDE DEF y
  <2>3. HasRows(y, rs, L)
    <3> SUFFICES ASSUME NEW k \in 1..L
                 PROVE  /\ y[4 * k - 3] = rs[k][1] /\ y[4 * k - 2] = Book!Space
                        /\ y[4 * k - 1] = rs[k][2] /\ (4 * k <= Len(y) => y[4 * k] = Book!NL)
        BY DEF HasRows
    <3>1. /\ 4 * k - 3 \in 1..4 * L - 1 /\ 4 * k - 2 \in 1..4 * L - 1 /\ 4 * k - 1 \in 1..4 * L - 1
          /\ (4 * k <= Len(y) => 4 * k \in 1..4 * L - 1) /\ 4 * k <= Len(x)
      BY <1>1, <2>2
    <3>2. /\ x[4 * k - 3] = rs[k][1] /\ x[4 * k - 2] = Book!Space
          /\ x[4 * k - 1] = rs[k][2] /\ x[4 * k] = Book!NL
      BY <1>1, <3>1 DEF HasRows
    <3>3. QED
      BY <2>2, <3>1, <3>2
  <2>4. QED
    BY <2>2, <2>3
<1>5. IsText(x, rs)
  BY <1>1 DEF IsText, L
<1>6. rs # <<>> => IsText(y, rs)
  <2> HIDE DEF y
  <2>1. QED
    BY <1>3, <1>4 DEF IsText, L
<1>7. ASSUME NEW f, IsText(f, rs) PROVE f = x \/ (rs # <<>> /\ f = y)
  <2>1. f \in Seq(Book!Cell) /\ (Len(f) = 4 * L \/ Len(f) = 4 * L - 1) /\ HasRows(f, rs, L)
        /\ Len(f) \in Nat
    BY <1>7 DEF IsText, L
  <2>2. CASE Len(f) = 4 * L
    BY <1>1, <2>1, <2>2, TextsEqual
  <2>3. CASE Len(f) = 4 * L - 1
    <3>1. L # 0 /\ 4 * L - 1 <= 4 * L
      BY <1>1, <2>1, <2>3
    <3> HIDE DEF y
    <3>2. f = y
      BY <1>1, <1>4, <2>1, <2>3, <3>1, TextsEqual
    <3>3. QED
      BY <1>3, <3>1, <3>2
  <2>4. QED
    BY <2>1, <2>2, <2>3
<1> HIDE DEF y
<1>8. QED
  BY <1>2, <1>5, <1>6, <1>7 DEF x

\* What stands at each position of a text.
LEMMA TextCell ==
  ASSUME NEW f, NEW rs, IsText(f, rs)
  PROVE  /\ Len(f) \in Nat /\ Len(rs) \in Nat
         /\ \A k \in 1..Len(rs) :
              /\ rs[k] \in Books /\ 4 * k - 1 <= Len(f)
              /\ f[4 * k - 3] \in Book!Typed /\ f[4 * k - 2] = Book!Space /\ f[4 * k - 1] \in Book!Typed
              /\ 4 * k <= Len(f) => f[4 * k] = Book!NL
<1>1. f \in Seq(Book!Cell) /\ rs \in Seq(Books) /\ Len(f) \in Nat /\ Len(rs) \in Nat
      /\ (Len(f) = 4 * Len(rs) \/ Len(f) = 4 * Len(rs) - 1) /\ HasRows(f, rs, Len(rs))
  BY DEF IsText
<1>2. ASSUME NEW k \in 1..Len(rs)
      PROVE  /\ rs[k] \in Books /\ 4 * k - 1 <= Len(f)
             /\ f[4 * k - 3] \in Book!Typed /\ f[4 * k - 2] = Book!Space /\ f[4 * k - 1] \in Book!Typed
             /\ 4 * k <= Len(f) => f[4 * k] = Book!NL
  <2>1. rs[k] \in Books
    BY <1>1, ElementOfSeq
  <2>2. rs[k][1] \in Book!Typed /\ rs[k][2] \in Book!Typed
    BY <2>1 DEF Books
  <2>3. 4 * k - 1 <= Len(f)
    BY <1>1
  <2>4. /\ f[4 * k - 3] = rs[k][1] /\ f[4 * k - 2] = Book!Space
        /\ f[4 * k - 1] = rs[k][2] /\ (4 * k <= Len(f) => f[4 * k] = Book!NL)
    BY <1>1 DEF HasRows
  <2>5. QED
    BY <2>1, <2>2, <2>3, <2>4
<1>3. QED
  BY <1>1, <1>2

\* The numbers of one in four.
LEMMA Fourths ==
  ASSUME NEW m \in Nat
  PROVE  Cardinality({4 * k : k \in 1..m}) = m
<1> DEFINE f == [k \in 1..m |-> 4 * k]
           X == {4 * k : k \in 1..m}
<1>1. f \in [1..m -> X] /\ \A x \in X : \E k \in 1..m : f[k] = x
  OBVIOUS
<1>2. \A j, k \in 1..m : f[j] = f[k] => j = k
  OBVIOUS
<1>3. f \in Bijection(1..m, X)
  <2> HIDE DEF f, X
  <2>1. QED
    BY <1>1, <1>2 DEF Bijection, Injection, Surjection, IsInjective
<1> HIDE DEF f, X
<1>4. ExistsBijection(1..m, X)
  BY <1>3 DEF ExistsBijection
<1>5. QED
  BY <1>4, FS_CountingElements DEF X

\* There is an end of a line in front of a position for each four cells.
LEMMA LinesOfText ==
  ASSUME NEW f, NEW rs, IsText(f, rs), NEW p \in 1..Len(f)
  PROVE  LinesAbove(f, p) = (p - 1) \div 4
<1>1. /\ Len(f) \in Nat /\ Len(rs) \in Nat /\ Len(f) <= 4 * Len(rs)
      /\ \A k \in 1..Len(rs) :
           /\ 4 * k - 1 <= Len(f)
           /\ f[4 * k - 3] # Book!NL /\ f[4 * k - 2] # Book!NL /\ f[4 * k - 1] # Book!NL
           /\ 4 * k <= Len(f) => f[4 * k] = Book!NL
  BY TextCell, CellNames DEF IsText
<1>2. (p - 1) \div 4 \in Nat
  BY <1>1
<1>3. ASSUME NEW j \in 1..p - 1
      PROVE  f[j] = Book!NL <=> \E k \in 1..(p - 1) \div 4 : j = 4 * k
  <2>1. j \in 1..4 * Len(rs) /\ j <= Len(f)
    BY <1>1
  <2>2. PICK k \in 1..Len(rs) : j = 4 * k - 3 \/ j = 4 * k - 2 \/ j = 4 * k - 1 \/ j = 4 * k
    BY <1>1, <2>1, RowOf
  <2>3. f[j] = Book!NL <=> j = 4 * k
    BY <1>1, <2>1, <2>2
  <2>4. j = 4 * k => k \in 1..(p - 1) \div 4
    BY <1>1
  <2>5. \A h \in 1..(p - 1) \div 4 : j = 4 * h => j = 4 * k
    BY <2>2
  <2>6. QED
    BY <2>3, <2>4, <2>5
<1>4. {j \in 1..p - 1 : f[j] = Book!NL} = {4 * k : k \in 1..(p - 1) \div 4}
  <2>1. \A k \in 1..(p - 1) \div 4 : 4 * k \in 1..p - 1
    BY <1>1
  <2>2. QED
    BY <1>3, <2>1
<1>5. QED
  BY <1>2, <1>4, Fourths DEF LinesAbove

\* Where row r starts, and where its title and its author end.
LEMMA RowStarts ==
  ASSUME NEW f, NEW rs, IsText(f, rs), NEW r \in Nat, Book!Start(r, f) # 0
  PROVE  /\ r < Len(rs) /\ Book!Start(r, f) = 4 * r + 1
         /\ Book!Find(Book!Space, 4 * r + 1, f) = 4 * r + 2
         /\ Book!Find(Book!NL, 4 * r + 2, f) = IF 4 * r + 4 <= Len(f) THEN 4 * r + 4 ELSE 0
<1> DEFINE s == Book!Start(r, f)
<1>1. Len(f) \in Nat /\ Len(rs) \in Nat /\ Len(f) <= 4 * Len(rs) /\ Len(f) >= 4 * Len(rs) - 1
  BY TextCell DEF IsText
<1>2. /\ s \in 1..Len(f) /\ LinesAbove(f, s) >= r
      /\ \A j \in 1..Len(f) : LinesAbove(f, j) >= r => s <= j
  BY <1>1, StartIs
<1> HIDE DEF s
<1>3. (s - 1) \div 4 >= r
  BY <1>2, LinesOfText
<1>4. s >= 4 * r + 1
  BY <1>2, <1>3
<1>5. 4 * r + 1 \in 1..Len(f) /\ ((4 * r + 1) - 1) \div 4 = r
  BY <1>1, <1>2, <1>4
<1>6. s = 4 * r + 1
  <2>1. LinesAbove(f, 4 * r + 1) >= r
    BY <1>5, LinesOfText
  <2>2. s <= 4 * r + 1
    BY <1>2, <1>5, <2>1
  <2>3. QED
    BY <1>2, <1>4, <2>2
<1>7. r < Len(rs)
  BY <1>1, <1>5
<1>8. /\ r + 1 \in 1..Len(rs) /\ 4 * (r + 1) - 3 = 4 * r + 1 /\ 4 * (r + 1) - 2 = 4 * r + 2
      /\ 4 * (r + 1) - 1 = 4 * r + 3 /\ 4 * (r + 1) = 4 * r + 4
  BY <1>1, <1>7
<1>9. /\ 4 * r + 3 <= Len(f)
      /\ f[4 * r + 1] # Book!Space /\ f[4 * r + 2] = Book!Space
      /\ f[4 * r + 2] # Book!NL /\ f[4 * r + 3] # Book!NL
      /\ 4 * r + 4 <= Len(f) => f[4 * r + 4] = Book!NL
  <2>1. \A k \in 1..Len(rs) :
          /\ 4 * k - 1 <= Len(f)
          /\ f[4 * k - 3] # Book!Space /\ f[4 * k - 2] = Book!Space
          /\ f[4 * k - 2] # Book!NL /\ f[4 * k - 1] # Book!NL
          /\ 4 * k <= Len(f) => f[4 * k] = Book!NL
    BY TextCell, CellNames
  <2>2. QED
    BY <1>8, <2>1
<1>10. Book!Find(Book!Space, 4 * r + 1, f) = 4 * r + 2
  <2>1. 4 * r + 1 \in Nat \ {0} /\ 4 * r + 2 \in 4 * r + 1..Len(f)
    BY <1>1, <1>9
  <2> DEFINE p == Book!Find(Book!Space, 4 * r + 1, f)
  <2>2. \/ /\ p \in 4 * r + 1..Len(f) /\ f[p] = Book!Space
           /\ \A j \in 4 * r + 1..Len(f) : f[j] = Book!Space => p <= j
        \/ p = 0 /\ \A j \in 4 * r + 1..Len(f) : f[j] # Book!Space
    BY <1>1, <2>1, FindIs
  <2> HIDE DEF p
  <2>3. p \in 4 * r + 1..Len(f) /\ p <= 4 * r + 2 /\ p # 4 * r + 1
    BY <1>9, <2>1, <2>2
  <2>4. QED
    BY <2>3 DEF p
<1>11. Book!Find(Book!NL, 4 * r + 2, f) = IF 4 * r + 4 <= Len(f) THEN 4 * r + 4 ELSE 0
  <2> DEFINE p == Book!Find(Book!NL, 4 * r + 2, f)
  <2>1. 4 * r + 2 \in Nat \ {0}
    BY <1>1
  <2>2. \/ /\ p \in 4 * r + 2..Len(f) /\ f[p] = Book!NL
           /\ \A j \in 4 * r + 2..Len(f) : f[j] = Book!NL => p <= j
        \/ p = 0 /\ \A j \in 4 * r + 2..Len(f) : f[j] # Book!NL
    BY <1>1, <2>1, FindIs
  <2> HIDE DEF p
  <2>3. p = 0 \/ (p \in Nat /\ p >= 4 * r + 4 /\ p <= Len(f))
    BY <1>1, <1>9, <2>2
  <2>4. 4 * r + 4 <= Len(f) => p # 0 /\ p <= 4 * r + 4
    BY <1>1, <1>9, <2>2
  <2>5. p = IF 4 * r + 4 <= Len(f) THEN 4 * r + 4 ELSE 0
    BY <1>1, <2>3, <2>4
  <2>6. QED
    BY <2>5 DEF p
<1>12. QED
  BY <1>6, <1>7, <1>10, <1>11 DEF s

(* The calls of an answer.                                                   *)

ACall(X) == [call : {"lseek", "ftruncate", "write"}, at : Nat, cells : Seq(X)]

\* What is in front of the offset after each of the calls pl on the text c.
Part1(pl, c) == SubSeq(c, 1, pl[1].at)
Part2(pl, c) == Part1(pl, c) \o pl[2].cells
Part3(pl, c) == Part2(pl, c) \o pl[3].cells
Part4(pl, c) == Part3(pl, c) \o pl[4].cells
After(pl, c, k) ==
  IF k = 1 THEN Part1(pl, c) ELSE IF k = 2 THEN Part2(pl, c)
  ELSE IF k = 3 THEN Part3(pl, c) ELSE Part4(pl, c)

LEMMA Afters ==
  ASSUME NEW pl, NEW c
  PROVE  /\ After(pl, c, 1) = SubSeq(c, 1, pl[1].at)
         /\ After(pl, c, 2) = After(pl, c, 1) \o pl[2].cells
         /\ After(pl, c, 3) = After(pl, c, 2) \o pl[3].cells
         /\ After(pl, c, 4) = After(pl, c, 3) \o pl[4].cells
<1>1. /\ After(pl, c, 1) = Part1(pl, c) /\ After(pl, c, 2) = Part2(pl, c)
      /\ After(pl, c, 3) = Part3(pl, c) /\ After(pl, c, 4) = Part4(pl, c)
  BY DEF After
<1>2. QED
  BY <1>1, Zenon DEF Part1, Part2, Part3, Part4

\* There are three calls or four.
LEMMA ThreeOrFour ==
  ASSUME NEW m, m = 3 \/ m = 4
  PROVE  /\ m \in Nat /\ m - 1 \in Nat /\ 1 \in 1..m /\ 2 \in 1..m /\ 3 \in 1..m /\ m \in 1..m
         /\ 2 \in 2..m /\ 2 - 1 = 1 /\ 3 \in 2..m /\ 3 - 1 = 2 /\ m >= 2 /\ m >= 1
         /\ 4 <= m => 4 \in 1..m /\ 4 \in 2..m /\ 4 - 1 = 3 /\ m = 4
         /\ \A k \in 0..m : k = 0 \/ k = 1 \/ k = 2 \/ k = 3 \/ (k = 4 /\ m = 4 /\ 4 <= m)
         /\ \A k \in 1..m : k # 1 => k \in 2..m
  OBVIOUS

\* What is left when k of them have been made.
LEMMA NextOfThreeOrFour ==
  ASSUME NEW m, m = 3 \/ m = 4, NEW k \in 0..m - 1
  PROVE  /\ k + 1 \in 1..m /\ (k + 1) - 1 = k /\ k \in Nat
         /\ \/ k = 0
            \/ k = 1 /\ k + 1 = 2
            \/ k = 2 /\ k + 1 = 3
            \/ k = 3 /\ k + 1 = 4 /\ m = 4
         /\ k # 0 => /\ k + 1 \in 2..m /\ k \in 1..m /\ k >= 1 /\ k + 1 >= 2
                    /\ ~(k + 1 <= 1) /\ (k # 1 => k >= 2) /\ (k = 1 => k <= 1)
  OBVIOUS

\* One sequence behind the other.
LEMMA Joined ==
  ASSUME NEW X, NEW x \in Seq(X), NEW y \in Seq(X)
  PROVE  x \o y \in Seq(X) /\ Len(x \o y) = Len(x) + Len(y) /\ Len(x) \in Nat /\ Len(y) \in Nat
  OBVIOUS

\* The calls go to a place in the text, cut it off there or write to behind
\* its end, and write one part after the other.
Planned(pl, c, X) ==
  /\ pl \in Seq(ACall(X)) /\ (Len(pl) = 3 \/ Len(pl) = 4)
  /\ pl[1].call = "lseek" /\ pl[1].at <= Len(c) /\ pl[1].cells = <<>>
  /\ \/ pl[2].call = "ftruncate" /\ pl[2].at = pl[1].at /\ pl[2].cells = <<>>
     \/ pl[2].call = "write" /\ Len(c) <= Len(After(pl, c, Len(pl)))
  /\ pl[3].call = "write" /\ (Len(pl) = 4 => pl[4].call = "write")

LEMMA ACallIs ==
  ASSUME NEW X, NEW w \in Seq(X), NEW k \in Nat
  PROVE  /\ Book!Seek(k) \in ACall(X) /\ Book!Truncate(k) \in ACall(X) /\ Book!Write(w) \in ACall(X)
         /\ Book!Seek(k).call = "lseek" /\ Book!Seek(k).at = k /\ Book!Seek(k).cells = <<>>
         /\ Book!Truncate(k).call = "ftruncate" /\ Book!Truncate(k).at = k /\ Book!Truncate(k).cells = <<>>
         /\ Book!Write(w).call = "write" /\ Book!Write(w).cells = w
<1>1. <<>> \in Seq(X)
  OBVIOUS
<1>2. QED
  BY <1>1 DEF ACall, Book!Seek, Book!Truncate, Book!Write

\* The sequences of three and of four.
LEMMA Four ==
  ASSUME NEW X, NEW p \in X, NEW q \in X, NEW x \in X, NEW y \in X
  PROVE  /\ <<p, q, x, y>> \in Seq(X) /\ Len(<<p, q, x, y>>) = 4
         /\ <<p, q, x, y>>[1] = p /\ <<p, q, x, y>>[2] = q
         /\ <<p, q, x, y>>[3] = x /\ <<p, q, x, y>>[4] = y
         /\ <<p, q, x>> \o <<y>> = <<p, q, x, y>>
<1>1. /\ <<p, q, x, y>> \in Seq(X) /\ Len(<<p, q, x, y>>) = 4
      /\ <<p, q, x, y>>[1] = p /\ <<p, q, x, y>>[2] = q
      /\ <<p, q, x, y>>[3] = x /\ <<p, q, x, y>>[4] = y
  OBVIOUS
<1>2. /\ <<p, q, x>> \in Seq(X) /\ Len(<<p, q, x>>) = 3 /\ <<y>> \in Seq(X) /\ Len(<<y>>) = 1
      /\ <<p, q, x>>[1] = p /\ <<p, q, x>>[2] = q /\ <<p, q, x>>[3] = x /\ <<y>>[1] = y
  OBVIOUS
<1>3. PICK f \in Seq(X) : f = <<p, q, x>> /\ Len(f) = 3 /\ f[1] = p /\ f[2] = q /\ f[3] = x
  BY <1>2
<1>4. PICK g \in Seq(X) : g = <<y>> /\ Len(g) = 1 /\ g[1] = y
  BY <1>2
<1>5. PICK m \in Seq(X) : m = <<p, q, x, y>> /\ Len(m) = 4 /\ m[1] = p /\ m[2] = q /\ m[3] = x /\ m[4] = y
  BY <1>1
<1>6. PICK w \in Seq(X) : /\ w = f \o g /\ Len(w) = 4
                         /\ \A h \in 1..4 : w[h] = IF h <= 3 THEN f[h] ELSE g[h - 3]
  <2>1. 3 + 1 = 4
    OBVIOUS
  <2>2. /\ f \o g \in Seq(X) /\ Len(f \o g) = 3 + 1
        /\ \A h \in 1..3 + 1 : (f \o g)[h] = IF h <= 3 THEN f[h] ELSE g[h - 3]
    BY <1>3, <1>4, ConcatProperties
  <2>3. QED
    BY <2>1, <2>2
<1>7. \A h \in 1..4 : w[h] = m[h]
  <2>1. \A h \in 1..4 : h = 1 \/ h = 2 \/ h = 3 \/ (h = 4 /\ h - 3 = 1 /\ ~(h <= 3))
    OBVIOUS
  <2>2. QED
    BY <1>3, <1>4, <1>5, <1>6, <2>1
<1>8. f \o g = m
  <2>1. w = m
    BY <1>5, <1>6, <1>7, SeqEqual
  <2>2. QED
    BY <1>6, <2>1
<1>9. QED
  BY <1>1, <1>3, <1>4, <1>5, <1>8, Zenon

LEMMA Three ==
  ASSUME NEW X, NEW p \in X, NEW q \in X, NEW x \in X
  PROVE  /\ <<p, q, x>> \in Seq(X) /\ Len(<<p, q, x>>) = 3
         /\ <<p, q, x>>[1] = p /\ <<p, q, x>>[2] = q /\ <<p, q, x>>[3] = x
         /\ <<p, q, x>> \o <<>> = <<p, q, x>>
  OBVIOUS

\* The front of a text and what follows.
LEMMA FrontIs ==
  ASSUME NEW X, NEW c \in Seq(X), NEW k \in 0..Len(c)
  PROVE  /\ SubSeq(c, 1, k) \in Seq(X) /\ Len(SubSeq(c, 1, k)) = k
         /\ \A h \in 1..k : SubSeq(c, 1, k)[h] = c[h]
  OBVIOUS

LEMMA FromIs ==
  ASSUME NEW X, NEW c \in Seq(X), NEW k \in 1..Len(c) + 1
  PROVE  /\ Book!From(k, c) \in Seq(X) /\ Len(Book!From(k, c)) = Len(c) + 1 - k
         /\ \A h \in 1..Len(c) + 1 - k : Book!From(k, c)[h] = c[k - 1 + h]
<1>1. Len(c) \in Nat
  OBVIOUS
<1>2. CASE k <= Len(c)
  <2>1. /\ SubSeq(c, k, Len(c)) \in Seq(X) /\ Len(SubSeq(c, k, Len(c))) = Len(c) + 1 - k
        /\ \A h \in 1..Len(c) + 1 - k : SubSeq(c, k, Len(c))[h] = c[k - 1 + h]
    BY <1>2
  <2>2. QED
    BY <2>1 DEF Book!From
<1>3. CASE k = Len(c) + 1
  <2>1. SubSeq(c, k, Len(c)) = <<>>
    BY <1>3
  <2>2. QED
    BY <1>1, <1>3, <2>1 DEF Book!From
<1>4. QED
  BY <1>1, <1>2, <1>3

LEMMA FoundIn ==
  ASSUME NEW f, Len(f) \in Nat, NEW k \in Nat \ {0}, NEW c
  PROVE  Book!Find(c, k, f) \in 0..Len(f)
<1> DEFINE m == Book!Find(c, k, f)
<1>1. m \in k..Len(f) \/ m = 0
  BY FindIs
<1> HIDE DEF m
<1>2. m \in 0..Len(f)
  BY <1>1
<1>3. QED
  BY <1>2 DEF m

\* The first four of the calls.
LEMMA PlannedFour ==
  ASSUME NEW X, NEW c \in Seq(X), NEW k \in 0..Len(c), NEW x \in Seq(X), NEW y \in Seq(X),
         NEW z \in ACall(X),
         \/ z = Book!Truncate(k)
         \/ z.call = "write" /\ Len(c) <= k + Len(z.cells) + Len(x) + Len(y)
  PROVE  Planned(<<Book!Seek(k), z, Book!Write(x), Book!Write(y)>>, c, X)
<1> DEFINE pl == <<Book!Seek(k), z, Book!Write(x), Book!Write(y)>>
<1>1. /\ k \in Nat /\ Len(c) \in Nat
      /\ Book!Seek(k) \in ACall(X) /\ Book!Write(x) \in ACall(X) /\ Book!Write(y) \in ACall(X)
      /\ Book!Seek(k).call = "lseek" /\ Book!Seek(k).at = k /\ Book!Seek(k).cells = <<>>
      /\ z = Book!Truncate(k) => z.call = "ftruncate" /\ z.at = k /\ z.cells = <<>>
      /\ Book!Write(x).call = "write" /\ Book!Write(x).cells = x
      /\ Book!Write(y).call = "write" /\ Book!Write(y).cells = y
  BY ACallIs
<1>2. /\ pl \in Seq(ACall(X)) /\ Len(pl) = 4
      /\ pl[1] = Book!Seek(k) /\ pl[2] = z /\ pl[3] = Book!Write(x) /\ pl[4] = Book!Write(y)
  BY <1>1, Four
<1>3. z.cells \in Seq(X)
  BY DEF ACall
<1> HIDE DEF pl
<1>4. After(pl, c, 4) = ((SubSeq(c, 1, k) \o z.cells) \o x) \o y
  <2>1. After(pl, c, 4) = ((SubSeq(c, 1, pl[1].at) \o pl[2].cells) \o pl[3].cells) \o pl[4].cells
    BY Afters, Zenon
  <2>2. pl[1].at = k /\ pl[2].cells = z.cells /\ pl[3].cells = x /\ pl[4].cells = y
    BY <1>1, <1>2
  <2>3. QED
    BY <2>1, <2>2, Zenon
<1>5. Len(After(pl, c, 4)) = k + Len(z.cells) + Len(x) + Len(y)
  <2>1. SubSeq(c, 1, k) \in Seq(X) /\ Len(SubSeq(c, 1, k)) = k
    BY FrontIs
  <2>2. SubSeq(c, 1, k) \o z.cells \in Seq(X) /\ Len(SubSeq(c, 1, k) \o z.cells) = k + Len(z.cells)
    BY <1>3, <2>1, Joined
  <2>3. /\ (SubSeq(c, 1, k) \o z.cells) \o x \in Seq(X)
        /\ Len((SubSeq(c, 1, k) \o z.cells) \o x) = k + Len(z.cells) + Len(x)
    BY <2>2, Joined
  <2>4. Len(((SubSeq(c, 1, k) \o z.cells) \o x) \o y) = k + Len(z.cells) + Len(x) + Len(y)
    BY <2>3, Joined
  <2>5. QED
    BY <1>4, <2>4
<1>6. QED
  BY <1>1, <1>2, <1>5 DEF Planned, pl

LEMMA PlannedThree ==
  ASSUME NEW X, NEW c \in Seq(X), NEW k \in 0..Len(c), NEW x \in Seq(X)
  PROVE  Planned(<<Book!Seek(k), Book!Truncate(k), Book!Write(x)>>, c, X)
<1> DEFINE pl == <<Book!Seek(k), Book!Truncate(k), Book!Write(x)>>
<1>1. /\ k \in Nat /\ Len(c) \in Nat
      /\ Book!Seek(k) \in ACall(X) /\ Book!Truncate(k) \in ACall(X) /\ Book!Write(x) \in ACall(X)
      /\ Book!Seek(k).call = "lseek" /\ Book!Seek(k).at = k /\ Book!Seek(k).cells = <<>>
      /\ Book!Truncate(k).call = "ftruncate" /\ Book!Truncate(k).at = k /\ Book!Truncate(k).cells = <<>>
      /\ Book!Write(x).call = "write" /\ Book!Write(x).cells = x
  BY ACallIs
<1>2. /\ pl \in Seq(ACall(X)) /\ Len(pl) = 3
      /\ pl[1] = Book!Seek(k) /\ pl[2] = Book!Truncate(k) /\ pl[3] = Book!Write(x)
  BY <1>1, Three
<1> HIDE DEF pl
<1>3. QED
  BY <1>1, <1>2 DEF Planned, pl

\* The cells that may be in a file without a hole, and in any.
Ample(X) == X \subseteq Book!Cell /\ Book!Typed \cup {Book!Space, Book!NL, Book!Junk} \subseteq X

LEMMA Pair ==
  ASSUME NEW X, NEW x \in X, NEW y \in X
  PROVE  /\ <<x, y>> \in Seq(X) /\ Len(<<x, y>>) = 2 /\ <<x, y>>[1] = x /\ <<x, y>>[2] = y
         /\ <<x>> \in Seq(X) /\ <<>> \in Seq(X)
  OBVIOUS

\* What the calls write, p and q being where the title and the row end.
Fits(X, c, s, j, t, x, p, q) ==
  /\ p = Book!Find(Book!Space, s, c) /\ q = Book!Find(Book!NL, IF p = 0 THEN 1 ELSE p, c)
  /\ p \in 0..Len(c) /\ q \in 0..Len(c) /\ s - 1 \in 0..Len(c)
  /\ <<t, Book!Space>> \in Seq(X) /\ <<x, Book!NL>> \in Seq(X)
  /\ Book!From(p + 1, c) \o j \in Seq(X) /\ Book!From(q + 1, c) \o j \in Seq(X)
  /\ Book!From(s, c) \o j \in Seq(X)
  /\ Len(Book!From(s, c) \o j) = Len(c) + 1 - s + Len(j) /\ Len(j) \in Nat

LEMMA CallsAre ==
  ASSUME NEW X, Ample(X), NEW c \in Seq(X), NEW s \in 1..Len(c), NEW j \in {<<>>, <<Book!Junk>>},
         NEW t \in Word, NEW x \in Word
  PROVE  \E p, q : Fits(X, c, s, j, t, x, p, q)
<1> PICK p : p = Book!Find(Book!Space, s, c)
  OBVIOUS
<1> PICK q : q = Book!Find(Book!NL, IF p = 0 THEN 1 ELSE p, c)
  OBVIOUS
<1>1. Len(c) \in Nat /\ s \in Nat \ {0}
  OBVIOUS
<1>2. p \in 0..Len(c)
  BY <1>1, FoundIn
<1>3. (IF p = 0 THEN 1 ELSE p) \in Nat \ {0}
  BY <1>2
<1>4. q \in 0..Len(c)
  BY <1>1, <1>3, FoundIn
<1>5. t \in X /\ x \in X /\ Book!Space \in X /\ Book!NL \in X /\ Book!Junk \in X
  BY CellNames DEF Ample
<1>6. <<t, Book!Space>> \in Seq(X) /\ <<x, Book!NL>> \in Seq(X)
  BY <1>5, Pair
<1>7. j \in Seq(X) /\ Len(j) \in Nat
  <2>1. <<Book!Junk>> \in Seq(X) /\ <<>> \in Seq(X)
    BY <1>5, Pair
  <2>2. j \in Seq(X)
    BY <2>1, Zenon
  <2>3. QED
    BY <2>2
<1>8. p + 1 \in 1..Len(c) + 1 /\ q + 1 \in 1..Len(c) + 1 /\ s \in 1..Len(c) + 1
  BY <1>1, <1>2, <1>4
<1>9. /\ Book!From(p + 1, c) \in Seq(X) /\ Book!From(q + 1, c) \in Seq(X)
      /\ Book!From(s, c) \in Seq(X) /\ Len(Book!From(s, c)) = Len(c) + 1 - s
  BY <1>8, FromIs
<1>10. /\ Book!From(p + 1, c) \o j \in Seq(X) /\ Book!From(q + 1, c) \o j \in Seq(X)
       /\ Book!From(s, c) \o j \in Seq(X)
       /\ Len(Book!From(s, c) \o j) = Len(c) + 1 - s + Len(j)
  BY <1>7, <1>9, Joined
<1>11. s - 1 \in 0..Len(c)
  BY <1>1
<1>12. Fits(X, c, s, j, t, x, p, q)
  BY <1>2, <1>4, <1>6, <1>7, <1>10, <1>11 DEF Fits
<1>13. QED
  BY <1>12, Zenon

LEMMA CallsPlanned ==
  ASSUME NEW X, Ample(X), NEW c \in Seq(X), NEW s \in 1..Len(c), NEW j \in {<<>>, <<Book!Junk>>},
         NEW op \in {"B", "T", "A"}, NEW t \in Word, NEW x \in Word
  PROVE  Planned(Book!Calls(c, s, j, op, t, x), c, X)
<1>1. PICK p, q : Fits(X, c, s, j, t, x, p, q)
  BY CallsAre
<1>3. /\ p \in 0..Len(c) /\ q \in 0..Len(c) /\ s - 1 \in 0..Len(c)
      /\ <<t, Book!Space>> \in Seq(X) /\ <<x, Book!NL>> \in Seq(X)
      /\ Book!From(p + 1, c) \o j \in Seq(X)
      /\ Book!From(q + 1, c) \o j \in Seq(X)
      /\ Book!From(s, c) \o j \in Seq(X)
      /\ Len(Book!From(s, c) \o j) = Len(c) + 1 - s + Len(j)
      /\ Len(j) \in Nat
  BY <1>1, Zenon DEF Fits
<1>4. Book!Calls(c, s, j, op, t, x) =
        CASE op = "B" -> Book!Insert(c, s, j, t, x)
          [] op = "T" -> Book!ReplaceTitle(c, s, p, q, j, t)
          [] op = "A" -> Book!ReplaceAuthor(c, s, p, q, j, x)
  <2>1. p = Book!Find(Book!Space, s, c) /\ q = Book!Find(Book!NL, IF p = 0 THEN 1 ELSE p, c)
    BY <1>1, Zenon DEF Fits
  <2>2. QED
    BY <2>1, Zenon DEF Book!Calls
<1>5. CASE op = "B"
  <2>1. Book!Calls(c, s, j, op, t, x) =
          <<Book!Seek(s - 1), Book!Write(<<t, Book!Space>>), Book!Write(<<x, Book!NL>>),
            Book!Write(Book!From(s, c) \o j)>>
    BY <1>4, <1>5 DEF Book!Insert
  <2>2. /\ Book!Write(<<t, Book!Space>>) \in ACall(X)
        /\ Book!Write(<<t, Book!Space>>).call = "write"
        /\ Book!Write(<<t, Book!Space>>).cells = <<t, Book!Space>>
    BY <1>3, ACallIs
  <2>3. Len(<<t, Book!Space>>) = 2 /\ Len(<<x, Book!NL>>) = 2 /\ Len(c) \in Nat
    OBVIOUS
  <2>4. Len(c) <= (s - 1) + Len(<<t, Book!Space>>) + Len(<<x, Book!NL>>) + Len(Book!From(s, c) \o j)
    BY <1>3, <2>3
  <2>5. QED
    BY <1>3, <2>1, <2>2, <2>4, PlannedFour
<1>6. CASE op = "T"
  <2>1. Book!Calls(c, s, j, op, t, x) =
          <<Book!Seek(s - 1), Book!Truncate(s - 1), Book!Write(<<t, Book!Space>>),
            Book!Write(Book!From(p + 1, c) \o j)>>
    BY <1>4, <1>6 DEF Book!ReplaceTitle
  <2>2. Book!Truncate(s - 1) \in ACall(X)
    <3>1. s - 1 \in Nat
      BY <1>3
    <3>2. QED
      BY <1>3, <3>1, ACallIs
  <2>3. QED
    BY <1>3, <2>1, <2>2, PlannedFour
<1>7. CASE op = "A"
  <2>1. Book!Calls(c, s, j, op, t, x) =
          <<Book!Seek(p), Book!Truncate(p), Book!Write(<<x, Book!NL>>)>>
          \o IF q > 0 THEN <<Book!Write(Book!From(q + 1, c) \o j)>> ELSE <<>>
    BY <1>4, <1>7 DEF Book!ReplaceAuthor
  <2>2. /\ Book!Seek(p) \in ACall(X) /\ Book!Truncate(p) \in ACall(X)
        /\ Book!Write(<<x, Book!NL>>) \in ACall(X) /\ Book!Write(Book!From(q + 1, c) \o j) \in ACall(X)
    <3>1. p \in Nat
      BY <1>3
    <3>2. QED
      BY <1>3, <3>1, ACallIs
  <2>3. CASE q > 0
    <3>1. Book!Calls(c, s, j, op, t, x) =
            <<Book!Seek(p), Book!Truncate(p), Book!Write(<<x, Book!NL>>),
              Book!Write(Book!From(q + 1, c) \o j)>>
      BY <2>1, <2>2, <2>3, Four
    <3>2. QED
      BY <1>3, <2>2, <3>1, PlannedFour
  <2>4. CASE ~(q > 0)
    <3>1. Book!Calls(c, s, j, op, t, x) = <<Book!Seek(p), Book!Truncate(p), Book!Write(<<x, Book!NL>>)>>
      BY <2>1, <2>2, <2>4, Three
    <3>2. QED
      BY <1>3, <3>1, PlannedThree
  <2>5. QED
    BY <2>3, <2>4
<1>8. QED
  BY <1>5, <1>6, <1>7

\* What is in front of the offset grows by what is written.
LEMMA AfterIs ==
  ASSUME NEW X, NEW c \in Seq(X), NEW pl, Planned(pl, c, X)
  PROVE  /\ Len(After(pl, c, 1)) = pl[1].at /\ After(pl, c, 1) = SubSeq(c, 1, pl[1].at)
         /\ \A k \in 1..Len(pl) : /\ After(pl, c, k) \in Seq(X) /\ pl[k].cells \in Seq(X)
                                  /\ pl[k].call = "write" => k > 1
                                  /\ Len(After(pl, c, k)) <= Len(After(pl, c, Len(pl)))
         /\ \A k \in 2..Len(pl) : After(pl, c, k) = After(pl, c, k - 1) \o pl[k].cells
<1>1. /\ pl \in Seq(ACall(X)) /\ (Len(pl) = 3 \/ Len(pl) = 4)
      /\ pl[1].at <= Len(c) /\ pl[1].call = "lseek"
  BY DEF Planned
<1>2. \A k \in 1..Len(pl) : pl[k] \in ACall(X)
  BY <1>1, ElementOfSeq
<1>3. \A k \in 1..Len(pl) : pl[k].cells \in Seq(X) /\ pl[k].at \in Nat
  BY <1>2 DEF ACall
<1>4. 1 \in 1..Len(pl) /\ 2 \in 1..Len(pl) /\ 3 \in 1..Len(pl)
  BY <1>1, ThreeOrFour, Zenon
<1>5. pl[1].at \in 0..Len(c)
  BY <1>1, <1>3, <1>4
<1>6. /\ After(pl, c, 1) = SubSeq(c, 1, pl[1].at) /\ After(pl, c, 1) \in Seq(X)
      /\ Len(After(pl, c, 1)) = pl[1].at
  <2>1. After(pl, c, 1) = SubSeq(c, 1, pl[1].at)
    BY Afters, Zenon
  <2>2. SubSeq(c, 1, pl[1].at) \in Seq(X) /\ Len(SubSeq(c, 1, pl[1].at)) = pl[1].at
    BY <1>5, FrontIs
  <2>3. QED
    BY <2>1, <2>2, Zenon
<1>7. /\ After(pl, c, 2) = After(pl, c, 1) \o pl[2].cells
      /\ After(pl, c, 3) = After(pl, c, 2) \o pl[3].cells
      /\ After(pl, c, 4) = After(pl, c, 3) \o pl[4].cells
  BY Afters, Zenon
<1>8. /\ After(pl, c, 2) \in Seq(X) /\ After(pl, c, 3) \in Seq(X)
      /\ Len(After(pl, c, 1)) <= Len(After(pl, c, 2))
      /\ Len(After(pl, c, 2)) <= Len(After(pl, c, 3))
  <2>1. ASSUME NEW x \in Seq(X), NEW y \in Seq(X)
        PROVE  x \o y \in Seq(X) /\ Len(x) <= Len(x \o y)
    OBVIOUS
  <2>2. After(pl, c, 2) \in Seq(X) /\ Len(After(pl, c, 1)) <= Len(After(pl, c, 2))
    BY <1>3, <1>4, <1>6, <1>7, <2>1
  <2>3. QED
    BY <1>3, <1>4, <1>7, <2>1, <2>2
<1>9. Len(After(pl, c, 1)) \in Nat /\ Len(After(pl, c, 2)) \in Nat /\ Len(After(pl, c, 3)) \in Nat
  BY <1>6, <1>8
<1>10. \A k \in 1..Len(pl) : pl[k].call = "write" => k > 1
  BY <1>1
<1>11. CASE Len(pl) = 3
  <2>1. \A k \in 1..3 : k = 1 \/ k = 2 \/ k = 3
    OBVIOUS
  <2>2. \A k \in 1..3 : After(pl, c, k) \in Seq(X) /\ Len(After(pl, c, k)) <= Len(After(pl, c, 3))
    BY <1>6, <1>8, <1>9, <2>1
  <2>3. \A k \in 2..3 : (k = 2 /\ k - 1 = 1) \/ (k = 3 /\ k - 1 = 2)
    OBVIOUS
  <2>4. \A k \in 2..3 : After(pl, c, k) = After(pl, c, k - 1) \o pl[k].cells
    BY <1>7, <2>3
  <2>5. QED
    BY <1>3, <1>6, <1>10, <1>11, <2>2, <2>4
<1>12. CASE Len(pl) = 4
  <2>1. \A k \in 1..4 : k = 1 \/ k = 2 \/ k = 3 \/ k = 4
    OBVIOUS
  <2>2. After(pl, c, 4) \in Seq(X) /\ Len(After(pl, c, 3)) <= Len(After(pl, c, 4))
        /\ Len(After(pl, c, 4)) \in Nat
    <3>1. pl[4].cells \in Seq(X)
      BY <1>3, <1>12
    <3>2. ASSUME NEW x \in Seq(X), NEW y \in Seq(X)
          PROVE  x \o y \in Seq(X) /\ Len(x) <= Len(x \o y) /\ Len(x \o y) \in Nat
      BY Joined
    <3>3. QED
      BY <1>7, <1>8, <3>1, <3>2, Zenon
  <2>3. \A k \in 1..4 : After(pl, c, k) \in Seq(X) /\ Len(After(pl, c, k)) <= Len(After(pl, c, 4))
    BY <1>6, <1>8, <1>9, <2>1, <2>2
  <2>4. \A k \in 2..4 : (k = 2 /\ k - 1 = 1) \/ (k = 3 /\ k - 1 = 2) \/ (k = 4 /\ k - 1 = 3)
    OBVIOUS
  <2>5. \A k \in 2..4 : After(pl, c, k) = After(pl, c, k - 1) \o pl[k].cells
    BY <1>7, <2>4
  <2>6. QED
    BY <1>3, <1>6, <1>10, <1>12, <2>3, <2>5
<1>13. QED
  BY <1>1, <1>11, <1>12

(* What the calls do to the file.                                            *)

Begins(f, x) == Len(x) <= Len(f) /\ \A h \in 1..Len(x) : f[h] = x[h]

LEMMA ResizedIs ==
  ASSUME NEW f \in Seq(Book!Cell), NEW m \in Nat
  PROVE  /\ Book!Resized(f, m) \in Seq(Book!Cell) /\ Len(Book!Resized(f, m)) = m
         /\ \A h \in 1..m : Book!Resized(f, m)[h] = IF h <= Len(f) THEN f[h] ELSE Book!NUL
<1>1. Book!NUL \in Book!Cell /\ Len(f) \in Nat
  BY DEF Book!Cell
<1>2. \A h \in 1..m : h <= Len(f) => f[h] \in Book!Cell
  BY <1>1, ElementOfSeq
<1>3. QED
  BY <1>1, <1>2 DEF Book!Resized

LEMMA Shortened ==
  ASSUME NEW X, X \subseteq Book!Cell, NEW f \in Seq(X), NEW m \in 0..Len(f)
  PROVE  Book!Resized(f, m) = SubSeq(f, 1, m)
<1>1. f \in Seq(Book!Cell) /\ m \in Nat /\ Len(f) \in Nat
  OBVIOUS
<1>2. /\ Book!Resized(f, m) \in Seq(Book!Cell) /\ Len(Book!Resized(f, m)) = m
      /\ \A h \in 1..m : Book!Resized(f, m)[h] = f[h]
  <2>1. \A h \in 1..m : h <= Len(f)
    BY <1>1
  <2>2. QED
    BY <1>1, <2>1, ResizedIs
<1>3. /\ SubSeq(f, 1, m) \in Seq(Book!Cell) /\ Len(SubSeq(f, 1, m)) = m
      /\ \A h \in 1..m : SubSeq(f, 1, m)[h] = f[h]
  BY <1>1, FrontIs
<1>4. QED
  BY <1>2, <1>3, SeqEqual

\* A write at any place ...
LEMMA FileWritten ==
  ASSUME NEW f \in Seq(Book!Cell), NEW k \in Nat, NEW w \in Seq(Book!Cell)
  PROVE  LET g == Book!Written(f, k, w)
         IN  /\ g \in Seq(Book!Cell)
             /\ Len(g) = IF Len(f) < k + Len(w) THEN k + Len(w) ELSE Len(f)
             /\ \A h \in 1..Len(g) : g[h] = IF h \in k + 1..k + Len(w) THEN w[h - k]
                                            ELSE IF h <= Len(f) THEN f[h] ELSE Book!NUL
<1> DEFINE m == IF Len(f) < k + Len(w) THEN k + Len(w) ELSE Len(f)
           y == IF Len(f) < k + Len(w) THEN Book!Resized(f, k + Len(w)) ELSE f
           g == Book!Written(f, k, w)
<1>1. Len(f) \in Nat /\ Len(w) \in Nat /\ k + Len(w) \in Nat /\ m \in Nat
  OBVIOUS
<1>2. /\ y \in Seq(Book!Cell) /\ Len(y) = m
      /\ \A h \in 1..m : y[h] = IF h <= Len(f) THEN f[h] ELSE Book!NUL
  <2>1. CASE Len(f) < k + Len(w)
    BY <1>1, <2>1, ResizedIs
  <2>2. CASE ~(Len(f) < k + Len(w))
    BY <1>1, <2>2
  <2>3. QED
    BY <2>1, <2>2
<1>3. DOMAIN y = 1..m
  BY <1>2
<1>4. g = [h \in DOMAIN y |-> IF h \in k + 1..k + Len(w) THEN w[h - k] ELSE y[h]]
  BY DEF Book!Written
<1> HIDE DEF g, y
<1>5. \A h \in k + 1..k + Len(w) : w[h - k] \in Book!Cell
  <2>1. \A h \in k + 1..k + Len(w) : h - k \in 1..Len(w)
    BY <1>1
  <2>2. QED
    BY <2>1, ElementOfSeq
<1>6. \A h \in 1..m : y[h] \in Book!Cell
  BY <1>2, ElementOfSeq
<1> HIDE DEF m
<1>7. /\ g \in Seq(Book!Cell) /\ Len(g) = m
      /\ \A h \in 1..m : g[h] = IF h \in k + 1..k + Len(w) THEN w[h - k] ELSE y[h]
  BY <1>1, <1>3, <1>4, <1>5, <1>6
<1>8. QED
  BY <1>2, <1>7 DEF g, m

\* ... and one behind x, with which f begins.
LEMMA WriteBehind ==
  ASSUME NEW X, X \subseteq Book!Cell, NEW f \in Seq(X), NEW x \in Seq(X), Begins(f, x), NEW w \in Seq(X)
  PROVE  LET g == Book!Written(f, Len(x), w)
         IN  /\ g \in Seq(X) /\ Begins(g, x \o w)
             /\ Len(g) = IF Len(f) < Len(x) + Len(w) THEN Len(x) + Len(w) ELSE Len(f)
<1> DEFINE g == Book!Written(f, Len(x), w)
           y == x \o w
<1>1. /\ f \in Seq(Book!Cell) /\ w \in Seq(Book!Cell) /\ Len(f) \in Nat /\ Len(w) \in Nat /\ Len(x) \in Nat
      /\ Len(x) <= Len(f) /\ \A h \in 1..Len(x) : f[h] = x[h]
  BY DEF Begins
<1>2. /\ g \in Seq(Book!Cell)
      /\ Len(g) = IF Len(f) < Len(x) + Len(w) THEN Len(x) + Len(w) ELSE Len(f)
      /\ \A h \in 1..Len(g) : g[h] = IF h \in Len(x) + 1..Len(x) + Len(w) THEN w[h - Len(x)]
                                     ELSE IF h <= Len(f) THEN f[h] ELSE Book!NUL
  BY <1>1, FileWritten
<1>3. y \in Seq(X) /\ Len(y) = Len(x) + Len(w)
      /\ \A h \in 1..Len(x) + Len(w) : y[h] = IF h <= Len(x) THEN x[h] ELSE w[h - Len(x)]
  BY ConcatProperties
<1> HIDE DEF g, y
<1>4. Len(g) \in Nat /\ Len(x) + Len(w) <= Len(g)
  BY <1>1, <1>2
<1>5. ASSUME NEW h \in 1..Len(x) + Len(w) PROVE g[h] = y[h]
  <2>1. h \in 1..Len(g)
    BY <1>1, <1>4
  <2>2. CASE h <= Len(x)
    <3>1. h \notin Len(x) + 1..Len(x) + Len(w) /\ h <= Len(f) /\ h \in 1..Len(x)
      BY <1>1, <2>2
    <3>2. QED
      BY <1>1, <1>2, <1>3, <2>1, <2>2, <3>1
  <2>3. CASE ~(h <= Len(x))
    <3>1. h \in Len(x) + 1..Len(x) + Len(w)
      BY <1>1, <2>3
    <3>2. QED
      BY <1>2, <1>3, <2>1, <2>3, <3>1
  <2>4. QED
    BY <2>2, <2>3
<1>6. Begins(g, y)
  BY <1>3, <1>4, <1>5 DEF Begins
<1>7. ASSUME NEW h \in 1..Len(g) PROVE g[h] \in X
  <2>1. CASE h \in Len(x) + 1..Len(x) + Len(w)
    <3>1. h - Len(x) \in 1..Len(w)
      BY <1>1, <2>1
    <3>2. w[h - Len(x)] \in X
      BY <3>1, ElementOfSeq
    <3>3. QED
      BY <1>2, <2>1, <3>2
  <2>2. CASE h \notin Len(x) + 1..Len(x) + Len(w)
    <3>1. h \in 1..Len(f)
      BY <1>1, <1>2, <2>2
    <3>2. f[h] \in X
      BY <3>1, ElementOfSeq
    <3>3. QED
      BY <1>2, <2>2, <3>1, <3>2
  <2>3. QED
    BY <2>1, <2>2
<1>8. g \in Seq(X)
  <2>1. g = [h \in 1..Len(g) |-> g[h]]
    BY <1>2
  <2>2. QED
    BY <1>4, <1>7, <2>1
<1>9. QED
  BY <1>2, <1>6, <1>8 DEF g, y

(* How far an edit is.                                                       *)

\* The calls td that are left when k of the calls pl have been made, and where
\* they left the file f and the offset o.
Rest(td, pl, k) == Len(td) = Len(pl) - k /\ \A h \in 1..Len(pl) - k : td[h] = pl[k + h]

AtStage(k, f, o, c, pl, X) ==
  /\ f \in Seq(X)
  /\ k <= 1 => f = c
  /\ k >= 1 => o = Len(After(pl, c, k)) /\ Begins(f, After(pl, c, k))
  /\ k >= 2 => Len(f) <= Len(After(pl, c, Len(pl)))

\* What a call does to the file f and the offset o.
Made(x, f, o, g, u) ==
  /\ x.call = "lseek" => g = f /\ u = x.at
  /\ x.call = "ftruncate" => g = Book!Resized(f, x.at) /\ u = o + Len(x.cells)
  /\ x.call = "write" => g = Book!Written(f, o, x.cells) /\ u = o + Len(x.cells)

\* Each call leaves the file as the next one needs it.
LEMMA CallStage ==
  ASSUME NEW X, X \subseteq Book!Cell, NEW c \in Seq(X), NEW pl, Planned(pl, c, X),
         NEW k \in 0..Len(pl) - 1, NEW f, NEW o, AtStage(k, f, o, c, pl, X),
         NEW g, NEW u, Made(pl[k + 1], f, o, g, u)
  PROVE  AtStage(k + 1, g, u, c, pl, X)
<1>1. /\ Len(After(pl, c, 1)) = pl[1].at /\ After(pl, c, 1) = SubSeq(c, 1, pl[1].at)
      /\ \A m \in 1..Len(pl) : /\ After(pl, c, m) \in Seq(X) /\ pl[m].cells \in Seq(X)
                               /\ Len(After(pl, c, m)) <= Len(After(pl, c, Len(pl)))
      /\ \A m \in 2..Len(pl) : After(pl, c, m) = After(pl, c, m - 1) \o pl[m].cells
  BY AfterIs
<1>2. /\ Len(pl) = 3 \/ Len(pl) = 4
      /\ pl[1].call = "lseek" /\ pl[1].at <= Len(c) /\ pl[1].at \in Nat /\ Len(c) \in Nat
      /\ \/ pl[2].call = "ftruncate" /\ pl[2].at = pl[1].at /\ pl[2].cells = <<>>
         \/ pl[2].call = "write" /\ Len(c) <= Len(After(pl, c, Len(pl)))
      /\ pl[3].call = "write" /\ (Len(pl) = 4 => pl[4].call = "write")
  <2>1. pl \in Seq(ACall(X)) /\ 1 \in 1..Len(pl)
    BY DEF Planned
  <2>2. pl[1] \in ACall(X)
    BY <2>1, ElementOfSeq
  <2>3. QED
    BY <2>2 DEF Planned, ACall
<1>8. Len(pl) = 3 \/ Len(pl) = 4
  BY <1>2, Zenon
<1>9. /\ k + 1 \in 1..Len(pl) /\ (k + 1) - 1 = k /\ k \in Nat
      /\ \/ k = 0
         \/ k = 1 /\ k + 1 = 2
         \/ k = 2 /\ k + 1 = 3
         \/ k = 3 /\ k + 1 = 4 /\ Len(pl) = 4
      /\ k # 0 => /\ k + 1 \in 2..Len(pl) /\ k \in 1..Len(pl) /\ k >= 1 /\ k + 1 >= 2
                 /\ ~(k + 1 <= 1) /\ (k # 1 => k >= 2) /\ (k = 1 => k <= 1)
  BY <1>8, NextOfThreeOrFour
<1>3. CASE k = 0
  <2>1. f = c /\ f \in Seq(X)
    BY <1>3 DEF AtStage
  <2>2. g = f /\ u = pl[1].at
    BY <1>2, <1>3 DEF Made
  <2>3. Begins(c, SubSeq(c, 1, pl[1].at))
    <3>1. pl[1].at \in 0..Len(c)
      BY <1>2
    <3>2. QED
      BY <3>1, FrontIs DEF Begins
  <2>4. 0 + 1 = 1 /\ ~(1 >= 2)
    OBVIOUS
  <2>5. QED
    BY <1>1, <1>3, <2>1, <2>2, <2>3, <2>4 DEF AtStage
<1>4. CASE k # 0 /\ pl[k + 1].call = "ftruncate"
  <2>1. k = 1
    <3>1. k = 1 \/ k = 2 \/ k = 3
      BY <1>4, <1>9, Zenon
    <3>2. pl[3].call # "ftruncate" /\ (Len(pl) = 4 => pl[4].call # "ftruncate")
      BY <1>2
    <3>3. (k = 2 => k + 1 = 3) /\ (k = 3 => k + 1 = 4 /\ Len(pl) = 4)
      BY <1>2
    <3>4. QED
      BY <1>4, <3>1, <3>2, <3>3
  <2>2. 1 + 1 = 2 /\ pl[2].at = pl[1].at /\ pl[2].cells = <<>>
    BY <1>2, <1>4, <2>1
  <2>3. f = c /\ f \in Seq(X) /\ o = pl[1].at
    BY <1>1, <2>1 DEF AtStage
  <2>4. pl[1].at \in 0..Len(c)
    BY <1>2
  <2>5. g = SubSeq(c, 1, pl[1].at) /\ u = pl[1].at
    <3>1. g = Book!Resized(c, pl[1].at) /\ u = pl[1].at + Len(<<>>)
      BY <1>4, <2>1, <2>2, <2>3 DEF Made
    <3>2. QED
      BY <1>2, <2>4, <3>1, Shortened
  <2>6. After(pl, c, 2) = SubSeq(c, 1, pl[1].at)
    <3>1. 2 \in 2..Len(pl) /\ 2 - 1 = 1 /\ 1 \in 1..Len(pl)
      BY <1>2
    <3>2. After(pl, c, 2) = SubSeq(c, 1, pl[1].at) \o <<>> /\ SubSeq(c, 1, pl[1].at) \in Seq(X)
      BY <1>1, <2>2, <3>1
    <3>3. QED
      BY <3>2, ConcatEmptySeq
  <2>7. Len(g) = pl[1].at /\ g \in Seq(X)
    BY <2>4, <2>5, FrontIs
  <2>8. Begins(g, g)
    BY <2>7 DEF Begins
  <2>9. 2 \in 1..Len(pl)
    BY <1>2
  <2>10. Len(g) <= Len(After(pl, c, Len(pl)))
    BY <1>1, <2>5, <2>6, <2>9
  <2>11. ~(2 <= 1)
    OBVIOUS
  <2>12. QED
    BY <2>1, <2>2, <2>5, <2>6, <2>7, <2>8, <2>10, <2>11 DEF AtStage
<1>5. CASE k # 0 /\ pl[k + 1].call = "write"
  <2>1. /\ k + 1 \in 2..Len(pl) /\ k + 1 \in 1..Len(pl) /\ k \in 1..Len(pl) /\ (k + 1) - 1 = k
        /\ k \in Nat /\ k >= 1 /\ k + 1 >= 2 /\ ~(k + 1 <= 1)
    BY <1>5, <1>9, Zenon
  <2> DEFINE x == After(pl, c, k)
             w == pl[k + 1].cells
             L == Len(After(pl, c, Len(pl)))
  <2>2. f \in Seq(X) /\ o = Len(x) /\ Begins(f, x)
    BY <2>1 DEF AtStage
  <2>3. x \in Seq(X) /\ w \in Seq(X) /\ After(pl, c, k + 1) = x \o w
    BY <1>1, <2>1
  <2>4. g = Book!Written(f, Len(x), w) /\ u = Len(x) + Len(w)
    BY <1>5, <2>2 DEF Made
  <2>5. /\ Len(x \o w) <= L /\ L \in Nat
    <3>1. Len(pl) \in 1..Len(pl)
      BY <1>2
    <3>2. After(pl, c, Len(pl)) \in Seq(X)
      BY <1>1, <3>1
    <3>3. QED
      BY <1>1, <2>1, <2>3, <3>2
  <2>6. Len(f) <= L
    <3>1. CASE k = 1
      <4>1. k <= 1 /\ k + 1 = 2
        BY <3>1
      <4>2. pl[2].call = "write"
        BY <1>5, <4>1
      <4>3. Len(c) <= L /\ f = c
        BY <1>2, <4>1, <4>2 DEF AtStage
      <4>4. QED
        BY <4>3
    <3>2. CASE k # 1
      <4>1. k >= 2
        BY <2>1, <3>2
      <4>2. QED
        BY <4>1 DEF AtStage
    <3>3. QED
      BY <3>1, <3>2
  <2> HIDE DEF x, w, L
  <2>7. /\ g \in Seq(X) /\ Begins(g, x \o w)
        /\ Len(g) = IF Len(f) < Len(x) + Len(w) THEN Len(x) + Len(w) ELSE Len(f)
    BY <2>2, <2>3, <2>4, WriteBehind
  <2>8. Len(x \o w) = Len(x) + Len(w) /\ u = Len(x \o w)
    BY <2>3, <2>4
  <2>9. Len(g) <= L
    BY <2>5, <2>6, <2>7, <2>8
  <2>10. QED
    BY <2>1, <2>3, <2>7, <2>8, <2>9 DEF AtStage, L
<1>6. k # 0 => pl[k + 1].call = "ftruncate" \/ pl[k + 1].call = "write"
  <2>1. k = 0 \/ (k = 1 /\ k + 1 = 2) \/ (k = 2 /\ k + 1 = 3) \/ (k = 3 /\ k + 1 = 4 /\ Len(pl) = 4)
    BY <1>2
  <2>2. QED
    BY <1>2, <2>1
<1>7. QED
  BY <1>3, <1>4, <1>5, <1>6

\* The last one leaves what the calls are for.
LEMMA LastStage ==
  ASSUME NEW X, NEW c \in Seq(X), NEW pl, Planned(pl, c, X), NEW f, NEW o,
         AtStage(Len(pl), f, o, c, pl, X)
  PROVE  f = After(pl, c, Len(pl))
<1> DEFINE x == After(pl, c, Len(pl))
<1>1. Len(pl) = 3 \/ Len(pl) = 4
  BY DEF Planned
<1>2. Len(pl) >= 1 /\ Len(pl) >= 2 /\ Len(pl) \in 1..Len(pl)
  BY <1>1, ThreeOrFour, Zenon
<1>3. f \in Seq(X) /\ Begins(f, x) /\ Len(f) <= Len(x)
  BY <1>2, Zenon DEF AtStage
<1>4. x \in Seq(X)
  BY <1>2, AfterIs
<1> HIDE DEF x
<1>5. Len(f) = Len(x) /\ \A h \in 1..Len(f) : f[h] = x[h]
  BY <1>3, <1>4 DEF Begins
<1>6. f = x
  BY <1>3, <1>4, <1>5, SeqEqual
<1>7. QED
  BY <1>6 DEF x

\* Whatever has been made, the file begins with what is in front of the place.
LEMMA FrontStays ==
  ASSUME NEW X, NEW c \in Seq(X), NEW pl, Planned(pl, c, X), NEW k \in 0..Len(pl), NEW f, NEW o,
         AtStage(k, f, o, c, pl, X)
  PROVE  Begins(f, SubSeq(c, 1, pl[1].at)) /\ pl[1].at \in 0..Len(c)
<1>1. /\ After(pl, c, 1) = SubSeq(c, 1, pl[1].at)
      /\ \A m \in 1..Len(pl) : After(pl, c, m) \in Seq(X) /\ pl[m].cells \in Seq(X)
      /\ \A m \in 2..Len(pl) : After(pl, c, m) = After(pl, c, m - 1) \o pl[m].cells
      /\ Len(pl) = 3 \/ Len(pl) = 4
  BY AfterIs DEF Planned
<1>2. pl[1].at \in 0..Len(c)
  <2>1. pl \in Seq(ACall(X)) /\ 1 \in 1..Len(pl) /\ pl[1].at <= Len(c)
    BY DEF Planned
  <2>2. pl[1] \in ACall(X)
    BY <2>1, ElementOfSeq
  <2>3. pl[1].at \in Nat
    BY <2>2 DEF ACall
  <2>4. QED
    BY <2>1, <2>3
<1>3. \A x, y \in Seq(X) : \A z \in Seq(X) : Begins(z, x \o y) => Begins(z, x)
  <2> SUFFICES ASSUME NEW x \in Seq(X), NEW y \in Seq(X), NEW z \in Seq(X), Begins(z, x \o y)
               PROVE  Begins(z, x)
      OBVIOUS
  <2>1. /\ Len(x \o y) = Len(x) + Len(y) /\ Len(x) \in Nat /\ Len(y) \in Nat
        /\ \A h \in 1..Len(x) : (x \o y)[h] = x[h] /\ h \in 1..Len(x) + Len(y)
    OBVIOUS
  <2>2. /\ Len(x \o y) <= Len(z) /\ Len(z) \in Nat
        /\ \A h \in 1..Len(x) + Len(y) : z[h] = (x \o y)[h]
    BY <2>1 DEF Begins
  <2>3. Len(x) <= Len(z) /\ \A h \in 1..Len(x) : z[h] = x[h]
    BY <2>1, <2>2
  <2>4. QED
    BY <2>3 DEF Begins
<1>4. f \in Seq(X)
  BY DEF AtStage
<1>5. /\ 1 \in 1..Len(pl) /\ 2 \in 1..Len(pl) /\ 3 \in 1..Len(pl)
      /\ 4 <= Len(pl) => 4 \in 1..Len(pl)
  BY <1>1, ThreeOrFour, Zenon
<1>6. /\ Begins(f, After(pl, c, 2)) => Begins(f, After(pl, c, 1))
      /\ Begins(f, After(pl, c, 3)) => Begins(f, After(pl, c, 2))
      /\ 4 <= Len(pl) => (Begins(f, After(pl, c, 4)) => Begins(f, After(pl, c, 3)))
  <2>1. /\ After(pl, c, 2) = After(pl, c, 1) \o pl[2].cells
        /\ After(pl, c, 3) = After(pl, c, 2) \o pl[3].cells
        /\ After(pl, c, 4) = After(pl, c, 3) \o pl[4].cells
    BY Afters, Zenon
  <2>2. /\ After(pl, c, 1) \in Seq(X) /\ After(pl, c, 2) \in Seq(X) /\ After(pl, c, 3) \in Seq(X)
        /\ pl[2].cells \in Seq(X) /\ pl[3].cells \in Seq(X)
        /\ 4 <= Len(pl) => pl[4].cells \in Seq(X)
    BY <1>1, <1>5, Zenon
  <2>3. QED
    BY <1>3, <1>4, <2>1, <2>2, Zenon
<1>7. CASE k = 0
  <2>1. f = c
    BY <1>7 DEF AtStage
  <2>2. QED
    BY <1>2, <2>1, FrontIs DEF Begins
<1>8. CASE k # 0
  <2>1. k = 1 \/ k = 2 \/ k = 3 \/ (k = 4 /\ 4 <= Len(pl))
    BY <1>1, <1>8, ThreeOrFour, Zenon
  <2>2. k >= 1
    BY <2>1
  <2>3. Begins(f, After(pl, c, k))
    BY <2>2, Zenon DEF AtStage
  <2>4. Begins(f, After(pl, c, 1))
    BY <1>6, <2>1, <2>3, Zenon
  <2>5. QED
    BY <1>1, <1>2, <2>4
<1>9. QED
  BY <1>7, <1>8

(* What an edit that is completed leaves.                                    *)

\* Two parts, and four, one behind the other.
LEMMA TwoParts ==
  ASSUME NEW X, NEW x \in Seq(X), NEW y \in Seq(X), NEW g, g = x \o y
  PROVE  /\ g \in Seq(X) /\ Len(g) = Len(x) + Len(y)
         /\ \A h \in 1..Len(x) : g[h] = x[h]
         /\ \A h \in 1..Len(y) : g[Len(x) + h] = y[h]
  OBVIOUS

LEMMA FourParts ==
  ASSUME NEW X, NEW x \in Seq(X), NEW y \in Seq(X), NEW z \in Seq(X), NEW w \in Seq(X),
         NEW g, g = ((x \o y) \o z) \o w
  PROVE  /\ g \in Seq(X) /\ Len(g) = Len(x) + Len(y) + Len(z) + Len(w)
         /\ \A h \in 1..Len(x) : g[h] = x[h]
         /\ \A h \in 1..Len(y) : g[Len(x) + h] = y[h]
         /\ \A h \in 1..Len(z) : g[Len(x) + Len(y) + h] = z[h]
         /\ \A h \in 1..Len(w) : g[Len(x) + Len(y) + Len(z) + h] = w[h]
<1>2. Len(x) \in Nat /\ Len(y) \in Nat /\ Len(z) \in Nat /\ Len(w) \in Nat
  OBVIOUS
<1>3. PICK p : p = x \o y
  OBVIOUS
<1>4. PICK q : q = p \o z
  OBVIOUS
<1>5. /\ p \in Seq(X) /\ Len(p) = Len(x) + Len(y)
      /\ \A h \in 1..Len(x) : p[h] = x[h]
      /\ \A h \in 1..Len(y) : p[Len(x) + h] = y[h]
  BY <1>3, TwoParts
<1>6. /\ q \in Seq(X) /\ Len(q) = Len(p) + Len(z)
      /\ \A h \in 1..Len(p) : q[h] = p[h]
      /\ \A h \in 1..Len(z) : q[Len(p) + h] = z[h]
  <2>1. p \in Seq(X) /\ z \in Seq(X)
    BY <1>5
  <2>2. QED
    BY <1>4, <2>1, TwoParts
<1>7. /\ g \in Seq(X) /\ Len(g) = Len(q) + Len(w)
      /\ \A h \in 1..Len(q) : g[h] = q[h]
      /\ \A h \in 1..Len(w) : g[Len(q) + h] = w[h]
  <2>1. g = q \o w
    BY <1>3, <1>4
  <2>2. QED
    <3>1. q \in Seq(X) /\ w \in Seq(X)
      BY <1>6
    <3>2. QED
      BY <2>1, <3>1, TwoParts
<1>8. \A h \in 1..Len(x) : g[h] = x[h]
  <2>1. \A h \in 1..Len(x) : h \in 1..Len(p) /\ h \in 1..Len(q)
    BY <1>2, <1>5, <1>6
  <2>2. QED
    BY <1>5, <1>6, <1>7, <2>1
<1>9. \A h \in 1..Len(y) : g[Len(x) + h] = y[h]
  <2>1. \A h \in 1..Len(y) : Len(x) + h \in 1..Len(p) /\ Len(x) + h \in 1..Len(q)
    BY <1>2, <1>5, <1>6
  <2>2. QED
    BY <1>5, <1>6, <1>7, <2>1
<1>10. \A h \in 1..Len(z) : g[Len(x) + Len(y) + h] = z[h]
  <2>1. \A h \in 1..Len(z) : Len(p) + h \in 1..Len(q)
    BY <1>2, <1>5, <1>6
  <2>2. \A h \in 1..Len(z) : g[Len(p) + h] = z[h]
    BY <1>6, <1>7, <2>1
  <2>3. QED
    BY <1>5, <2>2
<1>11. QED
  BY <1>5, <1>6, <1>7, <1>8, <1>9, <1>10

\* The rows after each edit.
LEMMA TitleEdited ==
  ASSUME NEW rs \in Seq(Books), NEW k \in 1..Len(rs), NEW t \in Word, NEW x
  PROVE  LET ed == Book!Edited(rs, k, "T", t, x)
         IN  /\ ed \in Seq(Books) /\ Len(ed) = Len(rs)
             /\ ed[k][1] = t /\ ed[k][2] = rs[k][2]
             /\ \A h \in 1..Len(rs) : h # k => ed[h] = rs[h]
<1>1. rs[k] \in Books /\ t \in Book!Typed
  BY CellNames, ElementOfSeq
<1>2. PICK b \in Books : b = [rs[k] EXCEPT ![1] = t] /\ b[1] = t /\ b[2] = rs[k][2]
  <2>1. PICK p \in Book!Typed, q \in Book!Typed : rs[k] = <<p, q>>
    BY <1>1 DEF Books
  <2>2. [<<p, q>> EXCEPT ![1] = t] = <<t, q>>
    OBVIOUS
  <2>3. <<t, q>> \in Books /\ <<t, q>>[1] = t /\ <<t, q>>[2] = q /\ <<p, q>>[2] = q
    BY <1>1 DEF Books
  <2>4. QED
    BY <2>1, <2>2, <2>3
<1>3. Book!Edited(rs, k, "T", t, x) = [rs EXCEPT ![k] = b]
  BY <1>2 DEF Book!Edited
<1>4. /\ [rs EXCEPT ![k] = b] \in Seq(Books) /\ Len([rs EXCEPT ![k] = b]) = Len(rs)
      /\ [rs EXCEPT ![k] = b][k] = b
      /\ \A h \in 1..Len(rs) : h # k => [rs EXCEPT ![k] = b][h] = rs[h]
  BY ExceptSeq
<1>5. QED
  BY <1>2, <1>3, <1>4, Zenon

LEMMA AuthorEdited ==
  ASSUME NEW rs \in Seq(Books), NEW k \in 1..Len(rs), NEW t, NEW x \in Word
  PROVE  LET ed == Book!Edited(rs, k, "A", t, x)
         IN  /\ ed \in Seq(Books) /\ Len(ed) = Len(rs)
             /\ ed[k][1] = rs[k][1] /\ ed[k][2] = x
             /\ \A h \in 1..Len(rs) : h # k => ed[h] = rs[h]
<1>1. rs[k] \in Books /\ x \in Book!Typed
  BY CellNames, ElementOfSeq
<1>2. PICK b \in Books : b = [rs[k] EXCEPT ![2] = x] /\ b[1] = rs[k][1] /\ b[2] = x
  <2>1. PICK p \in Book!Typed, q \in Book!Typed : rs[k] = <<p, q>>
    BY <1>1 DEF Books
  <2>2. [<<p, q>> EXCEPT ![2] = x] = <<p, x>>
    OBVIOUS
  <2>3. <<p, x>> \in Books /\ <<p, x>>[1] = p /\ <<p, x>>[2] = x /\ <<p, q>>[1] = p
    BY <1>1 DEF Books
  <2>4. QED
    BY <2>1, <2>2, <2>3
<1>3. Book!Edited(rs, k, "A", t, x) = [rs EXCEPT ![k] = b]
  BY <1>2 DEF Book!Edited
<1>4. /\ [rs EXCEPT ![k] = b] \in Seq(Books) /\ Len([rs EXCEPT ![k] = b]) = Len(rs)
      /\ [rs EXCEPT ![k] = b][k] = b
      /\ \A h \in 1..Len(rs) : h # k => [rs EXCEPT ![k] = b][h] = rs[h]
  BY ExceptSeq
<1>5. QED
  BY <1>2, <1>3, <1>4, Zenon

LEMMA RowInserted ==
  ASSUME NEW rs \in Seq(Books), NEW k \in 1..Len(rs), NEW t \in Word, NEW x \in Word
  PROVE  LET ed == Book!Edited(rs, k, "B", t, x)
         IN  /\ ed \in Seq(Books) /\ Len(ed) = Len(rs) + 1
             /\ ed[k][1] = t /\ ed[k][2] = x
             /\ \A h \in 1..k - 1 : ed[h] = rs[h]
             /\ \A h \in k..Len(rs) : ed[h + 1] = rs[h]
<1> DEFINE ed == Book!Edited(rs, k, "B", t, x)
<1>1. t \in Book!Typed /\ x \in Book!Typed /\ Len(rs) \in Nat
  BY CellNames
<1>2. PICK b \in Books : b = <<t, x>> /\ b[1] = t /\ b[2] = x
  <2>1. <<t, x>> \in Books /\ <<t, x>>[1] = t /\ <<t, x>>[2] = x
    BY <1>1 DEF Books
  <2>2. QED
    BY <2>1
<1>3. ed = SubSeq(rs, 1, k - 1) \o <<b>> \o SubSeq(rs, k, Len(rs))
  BY <1>2 DEF Book!Edited, Book!InsertAt
<1>4. /\ SubSeq(rs, 1, k - 1) \in Seq(Books) /\ Len(SubSeq(rs, 1, k - 1)) = k - 1
      /\ \A h \in 1..k - 1 : SubSeq(rs, 1, k - 1)[h] = rs[h]
  <2>1. k - 1 \in 0..Len(rs)
    BY <1>1
  <2>2. QED
    BY <2>1, FrontIs
<1>5. /\ SubSeq(rs, k, Len(rs)) \in Seq(Books) /\ Len(SubSeq(rs, k, Len(rs))) = Len(rs) + 1 - k
      /\ \A h \in 1..Len(rs) + 1 - k : SubSeq(rs, k, Len(rs))[h] = rs[k - 1 + h]
  <2>1. k \in 1..Len(rs) + 1
    BY <1>1
  <2>2. QED
    BY <2>1, FromIs DEF Book!From
<1>6. PICK y \in Seq(Books) : y = SubSeq(rs, 1, k - 1)
  BY <1>4
<1>7. PICK z \in Seq(Books) : z = SubSeq(rs, k, Len(rs))
  BY <1>5
<1> HIDE DEF ed
<1>8. <<>> \in Seq(Books) /\ <<b>> \in Seq(Books) /\ Len(<<>>) = 0 /\ Len(<<b>>) = 1 /\ <<b>>[1] = b
  OBVIOUS
<1>9. ed = ((y \o <<>>) \o <<b>>) \o z
  BY <1>3, <1>6, <1>7, ConcatEmptySeq
<1>10. /\ ed \in Seq(Books) /\ Len(ed) = Len(y) + 0 + 1 + Len(z)
       /\ \A h \in 1..Len(y) : ed[h] = y[h]
       /\ \A h \in 1..1 : ed[Len(y) + 0 + h] = <<b>>[h]
       /\ \A h \in 1..Len(z) : ed[Len(y) + 0 + 1 + h] = z[h]
  BY <1>8, <1>9, FourParts
<1>11. Len(y) = k - 1 /\ Len(z) = Len(rs) + 1 - k /\ k \in Nat
  BY <1>4, <1>5, <1>6, <1>7
<1>12. Len(ed) = Len(rs) + 1 /\ ed[k] = b
  <2>1. 1 \in 1..1 /\ (k - 1) + 0 + 1 = k
    BY <1>11
  <2>2. ed[(k - 1) + 0 + 1] = <<b>>[1]
    BY <1>10, <1>11, <2>1
  <2>3. QED
    BY <1>1, <1>8, <1>10, <1>11, <2>1, <2>2
<1>13. \A h \in 1..k - 1 : ed[h] = rs[h]
  BY <1>4, <1>6, <1>10, <1>11
<1>14. ASSUME NEW h \in k..Len(rs) PROVE ed[h + 1] = rs[h]
  <2>1. /\ h + 1 - k \in 1..Len(rs) + 1 - k /\ (k - 1) + 0 + 1 + (h + 1 - k) = h + 1
        /\ k - 1 + (h + 1 - k) = h
    BY <1>1, <1>11
  <2>2. ed[(k - 1) + 0 + 1 + (h + 1 - k)] = z[h + 1 - k]
    BY <1>10, <1>11, <2>1
  <2>3. z[h + 1 - k] = rs[k - 1 + (h + 1 - k)]
    BY <1>5, <1>7, <2>1
  <2>4. QED
    BY <2>1, <2>2, <2>3
<1>15. QED
  BY <1>2, <1>10, <1>12, <1>13, <1>14 DEF ed

\* A text with another title, with another author and with one more row.
WithTitle(c, r, t) ==
  ((SubSeq(c, 1, 4 * r) \o <<>>) \o <<t, Book!Space>>) \o Book!From(4 * r + 3, c)
AfterAuthor(c, r) == IF 4 * r + 4 <= Len(c) THEN Book!From(4 * r + 5, c) ELSE <<>>
WithAuthor(c, r, x) ==
  ((SubSeq(c, 1, 4 * r + 2) \o <<>>) \o <<x, Book!NL>>) \o AfterAuthor(c, r)
WithRow(c, r, t, x) ==
  ((SubSeq(c, 1, 4 * r) \o <<t, Book!Space>>) \o <<x, Book!NL>>) \o Book!From(4 * r + 1, c)

LEMMA TitleText ==
  ASSUME NEW c, NEW rs, IsText(c, rs), NEW r \in Nat, r < Len(rs), NEW t \in Word, NEW x,
         NEW g, g = WithTitle(c, r, t)
  PROVE  IsText(g, Book!Edited(rs, r + 1, "T", t, x))
<1> DEFINE ed == Book!Edited(rs, r + 1, "T", t, x)
           y == SubSeq(c, 1, 4 * r)
           z == Book!From(4 * r + 3, c)
           L == Len(rs)
<1>1. /\ c \in Seq(Book!Cell) /\ rs \in Seq(Books) /\ L \in Nat /\ Len(c) \in Nat
      /\ Len(c) = 4 * L \/ Len(c) = 4 * L - 1
      /\ HasRows(c, rs, L)
  BY DEF IsText
<1>2. r + 1 \in 1..L /\ 4 * r \in 0..Len(c) /\ 4 * r + 3 \in 1..Len(c) + 1 /\ 4 * r + 3 <= Len(c)
  BY <1>1
<1>3. /\ ed \in Seq(Books) /\ Len(ed) = L
      /\ ed[r + 1][1] = t /\ ed[r + 1][2] = rs[r + 1][2]
      /\ \A h \in 1..L : h # r + 1 => ed[h] = rs[h]
  BY <1>1, <1>2, TitleEdited
<1>4. y \in Seq(Book!Cell) /\ Len(y) = 4 * r /\ \A h \in 1..4 * r : y[h] = c[h]
  BY <1>1, <1>2, FrontIs
<1>5. /\ z \in Seq(Book!Cell) /\ Len(z) = Len(c) + 1 - (4 * r + 3)
      /\ \A h \in 1..Len(c) + 1 - (4 * r + 3) : z[h] = c[(4 * r + 3) - 1 + h]
  BY <1>1, <1>2, FromIs
<1>6. t \in Book!Cell /\ Book!Space \in Book!Cell
  BY CellNames
<1>7. /\ <<t, Book!Space>> \in Seq(Book!Cell) /\ Len(<<t, Book!Space>>) = 2
      /\ <<t, Book!Space>>[1] = t /\ <<t, Book!Space>>[2] = Book!Space
      /\ <<>> \in Seq(Book!Cell) /\ Len(<<>>) = 0
  BY <1>6, Pair
<1> HIDE DEF y, z, ed, L
<1>8. /\ g \in Seq(Book!Cell) /\ Len(g) = Len(y) + 0 + 2 + Len(z)
      /\ \A h \in 1..Len(y) : g[h] = y[h]
      /\ \A h \in 1..2 : g[Len(y) + 0 + h] = <<t, Book!Space>>[h]
      /\ \A h \in 1..Len(z) : g[Len(y) + 0 + 2 + h] = z[h]
  <2>1. PICK p \in Seq(Book!Cell) : p = <<t, Book!Space>> /\ Len(p) = 2
    BY <1>7
  <2>2. PICK q \in Seq(Book!Cell) : q = <<>> /\ Len(q) = 0
    BY <1>7
  <2>3. g = ((y \o q) \o p) \o z
    BY <2>1, <2>2 DEF y, z, WithTitle
  <2>4. y \in Seq(Book!Cell) /\ z \in Seq(Book!Cell)
    BY <1>4, <1>5
  <2>5. /\ g \in Seq(Book!Cell) /\ Len(g) = Len(y) + Len(q) + Len(p) + Len(z)
        /\ \A h \in 1..Len(y) : g[h] = y[h]
        /\ \A h \in 1..Len(q) : g[Len(y) + h] = q[h]
        /\ \A h \in 1..Len(p) : g[Len(y) + Len(q) + h] = p[h]
        /\ \A h \in 1..Len(z) : g[Len(y) + Len(q) + Len(p) + h] = z[h]
    BY <2>3, <2>4, FourParts
  <2>6. Len(q) = 0 /\ Len(p) = 2
    BY <2>1, <2>2
  <2>7. QED
    BY <2>1, <2>5, <2>6
<1>9. Len(g) = Len(c)
  <2>1. \A m \in Nat : 4 * r + 0 + 2 + (m + 1 - (4 * r + 3)) = m
    OBVIOUS
  <2>2. QED
    BY <1>1, <1>4, <1>5, <1>8, <2>1, Zenon
<1>10. \A h \in 1..4 * r : g[h] = c[h]
  BY <1>4, <1>8
<1>11. g[4 * r + 1] = t /\ g[4 * r + 2] = Book!Space
  <2>1. 1 \in 1..2 /\ 2 \in 1..2 /\ 4 * r + 0 + 1 = 4 * r + 1 /\ 4 * r + 0 + 2 = 4 * r + 2
    OBVIOUS
  <2>2. g[4 * r + 0 + 1] = t /\ g[4 * r + 0 + 2] = Book!Space
    BY <1>4, <1>7, <1>8, <2>1
  <2>3. QED
    BY <2>1, <2>2
<1>12. ASSUME NEW h \in 4 * r + 3..Len(c) PROVE g[h] = c[h]
  <2>1. /\ h - (4 * r + 2) \in 1..Len(c) + 1 - (4 * r + 3)
        /\ 4 * r + 0 + 2 + (h - (4 * r + 2)) = h
        /\ (4 * r + 3) - 1 + (h - (4 * r + 2)) = h
    BY <1>1
  <2>2. g[4 * r + 0 + 2 + (h - (4 * r + 2))] = z[h - (4 * r + 2)]
    BY <1>4, <1>5, <1>8, <2>1
  <2>3. z[h - (4 * r + 2)] = c[(4 * r + 3) - 1 + (h - (4 * r + 2))]
    BY <1>5, <2>1
  <2>4. QED
    BY <2>1, <2>2, <2>3
<1>13. HasRows(g, ed, L)
  <2> SUFFICES ASSUME NEW k \in 1..L
               PROVE  /\ g[4 * k - 3] = ed[k][1] /\ g[4 * k - 2] = Book!Space
                      /\ g[4 * k - 1] = ed[k][2] /\ (4 * k <= Len(g) => g[4 * k] = Book!NL)
      BY DEF HasRows
  <2>1. /\ c[4 * k - 3] = rs[k][1] /\ c[4 * k - 2] = Book!Space
        /\ c[4 * k - 1] = rs[k][2] /\ (4 * k <= Len(c) => c[4 * k] = Book!NL)
        /\ 4 * k - 1 <= Len(c)
    <3>1. 4 * k - 1 <= Len(c)
      BY <1>1
    <3>2. QED
      BY <1>1, <3>1 DEF HasRows
  <2>2. CASE k < r + 1
    <3>1. /\ 4 * k - 3 \in 1..4 * r /\ 4 * k - 2 \in 1..4 * r /\ 4 * k - 1 \in 1..4 * r /\ 4 * k \in 1..4 * r
          /\ k # r + 1
      BY <2>2
    <3>2. ed[k] = rs[k]
      BY <1>3, <3>1
    <3>3. QED
      BY <1>9, <1>10, <2>1, <3>1, <3>2
  <2>3. CASE k = r + 1
    <3>1. 4 * k - 3 = 4 * r + 1 /\ 4 * k - 2 = 4 * r + 2 /\ 4 * k - 1 \in 4 * r + 3..Len(c)
          /\ (4 * k <= Len(c) => 4 * k \in 4 * r + 3..Len(c))
      BY <1>1, <2>1, <2>3
    <3>2. ed[k][1] = t /\ ed[k][2] = rs[k][2]
      BY <1>3, <2>3
    <3>3. QED
      BY <1>9, <1>11, <1>12, <2>1, <3>1, <3>2
  <2>4. CASE k > r + 1
    <3>1. /\ 4 * k - 3 \in 4 * r + 3..Len(c) /\ 4 * k - 2 \in 4 * r + 3..Len(c)
          /\ 4 * k - 1 \in 4 * r + 3..Len(c)
          /\ (4 * k <= Len(c) => 4 * k \in 4 * r + 3..Len(c)) /\ k # r + 1
      <4>1. 4 * k - 1 <= Len(c) /\ Len(c) \in Nat
        BY <1>1, <2>1
      <4>2. QED
        BY <2>4, <4>1
    <3>2. ed[k] = rs[k]
      BY <1>3, <3>1
    <3>3. QED
      BY <1>9, <1>12, <2>1, <3>1, <3>2
  <2>5. QED
    BY <2>2, <2>3, <2>4
<1>14. QED
  BY <1>1, <1>3, <1>8, <1>9, <1>13 DEF IsText, ed

\* Another author ends the last line.
LEMMA AuthorText ==
  ASSUME NEW c, NEW rs, IsText(c, rs), NEW r \in Nat, r < Len(rs), NEW t, NEW x \in Word,
         NEW g, g = WithAuthor(c, r, x)
  PROVE  IsText(g, Book!Edited(rs, r + 1, "A", t, x))
<1> DEFINE ed == Book!Edited(rs, r + 1, "A", t, x)
           y == SubSeq(c, 1, 4 * r + 2)
           w == AfterAuthor(c, r)
           L == Len(rs)
<1>1. /\ c \in Seq(Book!Cell) /\ rs \in Seq(Books) /\ L \in Nat /\ Len(c) \in Nat
      /\ Len(c) = 4 * L \/ Len(c) = 4 * L - 1
      /\ HasRows(c, rs, L)
  BY DEF IsText
<1>2. r + 1 \in 1..L /\ 4 * r + 2 \in 0..Len(c) /\ 4 * r + 3 <= Len(c)
  BY <1>1
<1>3. /\ ed \in Seq(Books) /\ Len(ed) = L
      /\ ed[r + 1][1] = rs[r + 1][1] /\ ed[r + 1][2] = x
      /\ \A h \in 1..L : h # r + 1 => ed[h] = rs[h]
  BY <1>1, <1>2, AuthorEdited
<1>4. y \in Seq(Book!Cell) /\ Len(y) = 4 * r + 2 /\ \A h \in 1..4 * r + 2 : y[h] = c[h]
  BY <1>1, <1>2, FrontIs
<1>5. x \in Book!Cell /\ Book!NL \in Book!Cell
  BY CellNames
<1>6. /\ <<x, Book!NL>> \in Seq(Book!Cell) /\ Len(<<x, Book!NL>>) = 2
      /\ <<x, Book!NL>>[1] = x /\ <<x, Book!NL>>[2] = Book!NL
      /\ <<>> \in Seq(Book!Cell) /\ Len(<<>>) = 0
  BY <1>5, Pair
<1>7. /\ w \in Seq(Book!Cell)
      /\ Len(w) = IF 4 * r + 4 <= Len(c) THEN Len(c) - (4 * r + 4) ELSE 0
      /\ \A h \in 1..Len(w) : w[h] = c[(4 * r + 5) - 1 + h]
  <2>1. CASE 4 * r + 4 <= Len(c)
    <3>1. 4 * r + 5 \in 1..Len(c) + 1 /\ Len(c) + 1 - (4 * r + 5) = Len(c) - (4 * r + 4)
      BY <1>1, <2>1
    <3>2. w = Book!From(4 * r + 5, c)
      BY <2>1 DEF AfterAuthor
    <3> HIDE DEF w
    <3>3. QED
      BY <1>1, <2>1, <3>1, <3>2, FromIs
  <2>2. CASE ~(4 * r + 4 <= Len(c))
    <3>1. w = <<>>
      BY <2>2 DEF AfterAuthor
    <3>2. QED
      BY <1>6, <2>2, <3>1
  <2>3. QED
    BY <2>1, <2>2
<1> HIDE DEF y, w, ed, L
<1>8. /\ g \in Seq(Book!Cell) /\ Len(g) = Len(y) + 0 + 2 + Len(w)
      /\ \A h \in 1..Len(y) : g[h] = y[h]
      /\ \A h \in 1..2 : g[Len(y) + 0 + h] = <<x, Book!NL>>[h]
      /\ \A h \in 1..Len(w) : g[Len(y) + 0 + 2 + h] = w[h]
  <2>1. PICK p \in Seq(Book!Cell) : p = <<x, Book!NL>> /\ Len(p) = 2
    BY <1>6
  <2>2. PICK q \in Seq(Book!Cell) : q = <<>> /\ Len(q) = 0
    BY <1>6
  <2>3. g = ((y \o q) \o p) \o w
    BY <2>1, <2>2 DEF y, w, WithAuthor
  <2>4. y \in Seq(Book!Cell) /\ w \in Seq(Book!Cell)
    BY <1>4, <1>7
  <2>5. /\ g \in Seq(Book!Cell) /\ Len(g) = Len(y) + Len(q) + Len(p) + Len(w)
        /\ \A h \in 1..Len(y) : g[h] = y[h]
        /\ \A h \in 1..Len(q) : g[Len(y) + h] = q[h]
        /\ \A h \in 1..Len(p) : g[Len(y) + Len(q) + h] = p[h]
        /\ \A h \in 1..Len(w) : g[Len(y) + Len(q) + Len(p) + h] = w[h]
    BY <2>3, <2>4, FourParts
  <2>6. Len(q) = 0 /\ Len(p) = 2
    BY <2>1, <2>2
  <2>7. QED
    BY <2>1, <2>5, <2>6
<1>9. Len(g) = IF 4 * r + 4 <= Len(c) THEN Len(c) ELSE 4 * r + 4
  <2>1. Len(g) = (4 * r + 2) + 0 + 2 + IF 4 * r + 4 <= Len(c) THEN Len(c) - (4 * r + 4) ELSE 0
    BY <1>4, <1>7, <1>8, Zenon
  <2>2. /\ \A m \in Nat : (4 * r + 2) + 0 + 2 + (m - (4 * r + 4)) = m
        /\ (4 * r + 2) + 0 + 2 + 0 = 4 * r + 4
    OBVIOUS
  <2>3. QED
    BY <1>1, <2>1, <2>2, Zenon
<1>10. \A h \in 1..4 * r + 2 : g[h] = c[h]
  BY <1>4, <1>8
<1>11. g[4 * r + 3] = x /\ g[4 * r + 4] = Book!NL
  <2>1. 1 \in 1..2 /\ 2 \in 1..2 /\ (4 * r + 2) + 0 + 1 = 4 * r + 3 /\ (4 * r + 2) + 0 + 2 = 4 * r + 4
    OBVIOUS
  <2>2. g[(4 * r + 2) + 0 + 1] = x /\ g[(4 * r + 2) + 0 + 2] = Book!NL
    BY <1>4, <1>6, <1>8, <2>1
  <2>3. QED
    BY <2>1, <2>2
<1>12. ASSUME NEW h \in 4 * r + 5..Len(c) PROVE g[h] = c[h]
  <2>1. /\ h - (4 * r + 4) \in 1..Len(c) - (4 * r + 4)
        /\ (4 * r + 2) + 0 + 2 + (h - (4 * r + 4)) = h
        /\ (4 * r + 5) - 1 + (h - (4 * r + 4)) = h
        /\ 4 * r + 4 <= Len(c)
    BY <1>1
  <2>2. h - (4 * r + 4) \in 1..Len(w)
    BY <1>7, <2>1
  <2>3. g[(4 * r + 2) + 0 + 2 + (h - (4 * r + 4))] = w[h - (4 * r + 4)]
    BY <1>4, <1>8, <2>2
  <2>4. w[h - (4 * r + 4)] = c[(4 * r + 5) - 1 + (h - (4 * r + 4))]
    BY <1>7, <2>2
  <2>5. QED
    BY <2>1, <2>3, <2>4
<1>13. Len(g) = 4 * L \/ Len(g) = 4 * L - 1
  BY <1>1, <1>2, <1>9
<1>14. HasRows(g, ed, L)
  <2> SUFFICES ASSUME NEW k \in 1..L
               PROVE  /\ g[4 * k - 3] = ed[k][1] /\ g[4 * k - 2] = Book!Space
                      /\ g[4 * k - 1] = ed[k][2] /\ (4 * k <= Len(g) => g[4 * k] = Book!NL)
      BY DEF HasRows
  <2>1. /\ c[4 * k - 3] = rs[k][1] /\ c[4 * k - 2] = Book!Space
        /\ c[4 * k - 1] = rs[k][2] /\ (4 * k <= Len(c) => c[4 * k] = Book!NL)
        /\ 4 * k - 1 <= Len(c)
    <3>1. 4 * k - 1 <= Len(c)
      BY <1>1
    <3>2. QED
      BY <1>1, <3>1 DEF HasRows
  <2>2. CASE k < r + 1
    <3>1. /\ 4 * k - 3 \in 1..4 * r + 2 /\ 4 * k - 2 \in 1..4 * r + 2 /\ 4 * k - 1 \in 1..4 * r + 2
          /\ 4 * k \in 1..4 * r + 2 /\ 4 * k <= Len(c) /\ k # r + 1
      BY <1>1, <1>2, <2>2
    <3>2. ed[k] = rs[k]
      BY <1>3, <3>1
    <3>3. QED
      BY <1>10, <2>1, <3>1, <3>2
  <2>3. CASE k = r + 1
    <3>1. /\ 4 * k - 3 \in 1..4 * r + 2 /\ 4 * k - 2 \in 1..4 * r + 2
          /\ 4 * k - 1 = 4 * r + 3 /\ 4 * k = 4 * r + 4
      BY <2>3
    <3>2. ed[k][1] = rs[k][1] /\ ed[k][2] = x
      BY <1>3, <2>3
    <3>3. QED
      BY <1>10, <1>11, <2>1, <3>1, <3>2
  <2>4. CASE k > r + 1
    <3>1. /\ 4 * k - 3 \in 4 * r + 5..Len(c) /\ 4 * k - 2 \in 4 * r + 5..Len(c)
          /\ 4 * k - 1 \in 4 * r + 5..Len(c)
          /\ (4 * k <= Len(c) => 4 * k \in 4 * r + 5..Len(c)) /\ k # r + 1
          /\ Len(g) = Len(c)
      BY <1>1, <1>9, <2>1, <2>4
    <3>2. ed[k] = rs[k]
      BY <1>3, <3>1
    <3>3. QED
      BY <1>12, <2>1, <3>1, <3>2
  <2>5. QED
    BY <2>2, <2>3, <2>4
<1>15. QED
  BY <1>3, <1>8, <1>13, <1>14 DEF IsText, ed

LEMMA InsertedText ==
  ASSUME NEW c, NEW rs, IsText(c, rs), NEW r \in Nat, r < Len(rs), NEW t \in Word, NEW x \in Word,
         NEW g, g = WithRow(c, r, t, x)
  PROVE  IsText(g, Book!Edited(rs, r + 1, "B", t, x))
<1> DEFINE ed == Book!Edited(rs, r + 1, "B", t, x)
           y == SubSeq(c, 1, 4 * r)
           z == Book!From(4 * r + 1, c)
           L == Len(rs)
<1>1. /\ c \in Seq(Book!Cell) /\ rs \in Seq(Books) /\ L \in Nat /\ Len(c) \in Nat
      /\ Len(c) = 4 * L \/ Len(c) = 4 * L - 1
      /\ HasRows(c, rs, L)
  BY DEF IsText
<1>2. r + 1 \in 1..L /\ 4 * r \in 0..Len(c) /\ 4 * r + 1 \in 1..Len(c) + 1
  BY <1>1
<1>3. /\ ed \in Seq(Books) /\ Len(ed) = L + 1
      /\ ed[r + 1][1] = t /\ ed[r + 1][2] = x
      /\ \A h \in 1..(r + 1) - 1 : ed[h] = rs[h]
      /\ \A h \in r + 1..L : ed[h + 1] = rs[h]
  BY <1>1, <1>2, RowInserted
<1>4. y \in Seq(Book!Cell) /\ Len(y) = 4 * r /\ \A h \in 1..4 * r : y[h] = c[h]
  BY <1>1, <1>2, FrontIs
<1>5. /\ z \in Seq(Book!Cell) /\ Len(z) = Len(c) + 1 - (4 * r + 1)
      /\ \A h \in 1..Len(c) + 1 - (4 * r + 1) : z[h] = c[(4 * r + 1) - 1 + h]
  BY <1>1, <1>2, FromIs
<1>6. t \in Book!Cell /\ Book!Space \in Book!Cell /\ x \in Book!Cell /\ Book!NL \in Book!Cell
  BY CellNames
<1>7. /\ <<t, Book!Space>> \in Seq(Book!Cell) /\ Len(<<t, Book!Space>>) = 2
      /\ <<t, Book!Space>>[1] = t /\ <<t, Book!Space>>[2] = Book!Space
      /\ <<x, Book!NL>> \in Seq(Book!Cell) /\ Len(<<x, Book!NL>>) = 2
      /\ <<x, Book!NL>>[1] = x /\ <<x, Book!NL>>[2] = Book!NL
  BY <1>6, Pair
<1> HIDE DEF y, z, ed, L
<1>8. /\ g \in Seq(Book!Cell) /\ Len(g) = Len(y) + 2 + 2 + Len(z)
      /\ \A h \in 1..Len(y) : g[h] = y[h]
      /\ \A h \in 1..2 : g[Len(y) + h] = <<t, Book!Space>>[h]
      /\ \A h \in 1..2 : g[Len(y) + 2 + h] = <<x, Book!NL>>[h]
      /\ \A h \in 1..Len(z) : g[Len(y) + 2 + 2 + h] = z[h]
  <2>1. PICK p \in Seq(Book!Cell) : p = <<x, Book!NL>> /\ Len(p) = 2
    BY <1>7
  <2>2. PICK q \in Seq(Book!Cell) : q = <<t, Book!Space>> /\ Len(q) = 2
    BY <1>7
  <2>3. g = ((y \o q) \o p) \o z
    BY <2>1, <2>2 DEF y, z, WithRow
  <2>4. y \in Seq(Book!Cell) /\ z \in Seq(Book!Cell)
    BY <1>4, <1>5
  <2>5. /\ g \in Seq(Book!Cell) /\ Len(g) = Len(y) + Len(q) + Len(p) + Len(z)
        /\ \A h \in 1..Len(y) : g[h] = y[h]
        /\ \A h \in 1..Len(q) : g[Len(y) + h] = q[h]
        /\ \A h \in 1..Len(p) : g[Len(y) + Len(q) + h] = p[h]
        /\ \A h \in 1..Len(z) : g[Len(y) + Len(q) + Len(p) + h] = z[h]
    BY <2>3, <2>4, FourParts
  <2>6. Len(q) = 2 /\ Len(p) = 2
    BY <2>1, <2>2
  <2>7. /\ Len(g) = Len(y) + 2 + 2 + Len(z)
        /\ \A h \in 1..2 : g[Len(y) + h] = q[h]
        /\ \A h \in 1..2 : g[Len(y) + 2 + h] = p[h]
        /\ \A h \in 1..Len(z) : g[Len(y) + 2 + 2 + h] = z[h]
    BY <2>5, <2>6, Zenon
  <2>8. QED
    BY <2>1, <2>2, <2>5, <2>7, Zenon
<1>9. Len(g) = Len(c) + 4
  BY <1>1, <1>4, <1>5, <1>8
<1>10. \A h \in 1..4 * r : g[h] = c[h]
  BY <1>4, <1>8
<1>11. g[4 * r + 1] = t /\ g[4 * r + 2] = Book!Space /\ g[4 * r + 3] = x /\ g[4 * r + 4] = Book!NL
  <2>1. 1 \in 1..2 /\ 2 \in 1..2 /\ 4 * r + 2 + 1 = 4 * r + 3 /\ 4 * r + 2 + 2 = 4 * r + 4
    OBVIOUS
  <2>2. g[4 * r + 1] = t /\ g[4 * r + 2] = Book!Space
    BY <1>4, <1>7, <1>8, <2>1
  <2>3. g[4 * r + 2 + 1] = x /\ g[4 * r + 2 + 2] = Book!NL
    BY <1>4, <1>7, <1>8, <2>1
  <2>4. QED
    BY <2>1, <2>2, <2>3
<1>12. ASSUME NEW h \in 4 * r + 1..Len(c) PROVE g[h + 4] = c[h]
  <2>1. /\ h - 4 * r \in 1..Len(c) + 1 - (4 * r + 1)
        /\ 4 * r + 2 + 2 + (h - 4 * r) = h + 4
        /\ (4 * r + 1) - 1 + (h - 4 * r) = h
    BY <1>1
  <2>2. g[4 * r + 2 + 2 + (h - 4 * r)] = z[h - 4 * r]
    BY <1>4, <1>5, <1>8, <2>1
  <2>3. z[h - 4 * r] = c[(4 * r + 1) - 1 + (h - 4 * r)]
    BY <1>5, <2>1
  <2>4. QED
    BY <2>1, <2>2, <2>3
<1>13. HasRows(g, ed, L + 1)
  <2> SUFFICES ASSUME NEW k \in 1..L + 1
               PROVE  /\ g[4 * k - 3] = ed[k][1] /\ g[4 * k - 2] = Book!Space
                      /\ g[4 * k - 1] = ed[k][2] /\ (4 * k <= Len(g) => g[4 * k] = Book!NL)
      BY DEF HasRows
  <2>1. \A h \in 1..L :
          /\ c[4 * h - 3] = rs[h][1] /\ c[4 * h - 2] = Book!Space
          /\ c[4 * h - 1] = rs[h][2] /\ (4 * h <= Len(c) => c[4 * h] = Book!NL)
    BY <1>1 DEF HasRows
  <2>2. CASE k < r + 1
    <3>1. /\ 4 * k - 3 \in 1..4 * r /\ 4 * k - 2 \in 1..4 * r /\ 4 * k - 1 \in 1..4 * r /\ 4 * k \in 1..4 * r
          /\ 4 * k <= Len(c) /\ k \in 1..(r + 1) - 1 /\ k \in 1..L
      BY <1>1, <1>2, <2>2
    <3>2. ed[k] = rs[k]
      BY <1>3, <3>1
    <3>3. QED
      BY <1>10, <2>1, <3>1, <3>2
  <2>3. CASE k = r + 1
    <3>1. /\ 4 * k - 3 = 4 * r + 1 /\ 4 * k - 2 = 4 * r + 2
          /\ 4 * k - 1 = 4 * r + 3 /\ 4 * k = 4 * r + 4
      BY <2>3
    <3>2. QED
      BY <1>3, <1>11, <2>3, <3>1
  <2>4. CASE k > r + 1
    <3>1. PICK h \in r + 1..L : k = h + 1
      <4>1. k - 1 \in r + 1..L /\ k = (k - 1) + 1
        BY <1>1, <2>4
      <4>2. QED
        BY <4>1
    <3>2. /\ 4 * h - 3 \in 4 * r + 1..Len(c) /\ 4 * h - 2 \in 4 * r + 1..Len(c)
          /\ 4 * h - 1 \in 4 * r + 1..Len(c)
          /\ (4 * h <= Len(c) => 4 * h \in 4 * r + 1..Len(c)) /\ h \in 1..L
      BY <1>1, <1>2, <3>1
    <3>3. /\ 4 * k - 3 = (4 * h - 3) + 4 /\ 4 * k - 2 = (4 * h - 2) + 4
          /\ 4 * k - 1 = (4 * h - 1) + 4 /\ 4 * k = 4 * h + 4
          /\ (4 * k <= Len(g) => 4 * h <= Len(c))
      BY <1>1, <1>9, <3>1
    <3>4. ed[k] = rs[h]
      BY <1>3, <3>1
    <3>5. /\ g[(4 * h - 3) + 4] = c[4 * h - 3] /\ g[(4 * h - 2) + 4] = c[4 * h - 2]
          /\ g[(4 * h - 1) + 4] = c[4 * h - 1]
          /\ (4 * h <= Len(c) => g[4 * h + 4] = c[4 * h])
      BY <1>12, <3>2
    <3>6. QED
      BY <2>1, <3>2, <3>3, <3>4, <3>5
  <2>5. QED
    BY <2>2, <2>3, <2>4
<1>14. Len(g) = 4 * (L + 1) \/ Len(g) = 4 * (L + 1) - 1
  BY <1>1, <1>9
<1>15. QED
  BY <1>3, <1>8, <1>13, <1>14 DEF IsText, ed

\* Junk is written at the end, or not at all.
LEMMA JunkAtEnd ==
  ASSUME NEW w \in Seq(Book!Cell)
  PROVE  Book!Contains(w \o <<Book!Junk>>, Book!Junk)
<1>1. Book!Junk \in Book!Cell
  BY CellNames
<1>2. PICK y \in Seq(Book!Cell) : y = <<Book!Junk>> /\ Len(y) = 1 /\ y[1] = Book!Junk
  <2>1. /\ <<Book!Junk>> \in Seq(Book!Cell) /\ Len(<<Book!Junk>>) = 1
        /\ <<Book!Junk>>[1] = Book!Junk
    BY <1>1
  <2>2. QED
    BY <2>1, Zenon
<1>3. /\ Len(w \o y) = Len(w) + Len(y) /\ Len(w) \in Nat
      /\ \A h \in 1..Len(y) : (w \o y)[Len(w) + h] = y[h]
  OBVIOUS
<1>4. Len(w) + 1 \in 1..Len(w \o y) /\ 1 \in 1..1
  BY <1>2, <1>3
<1>5. (w \o y)[Len(w) + 1] = Book!Junk
  BY <1>2, <1>3, <1>4, Zenon
<1>6. Book!Contains(w \o y, Book!Junk)
  BY <1>4, <1>5, Zenon DEF Book!Contains
<1>7. QED
  BY <1>2, <1>6, Zenon

LEMMA JunkIsWritten ==
  ASSUME NEW w \in Seq(Book!Cell), NEW j \in {<<>>, <<Book!Junk>>}, ~Book!Contains(w \o j, Book!Junk)
  PROVE  w \o j = w
<1>1. CASE j = <<>>
  BY <1>1, ConcatEmptySeq
<1>2. CASE j = <<Book!Junk>>
  BY <1>2, JunkAtEnd
<1>3. QED
  BY <1>1, <1>2

\* What four calls and three write.
FourIs(pl, c, k, u, x, y) ==
  /\ Len(pl) = 4 /\ pl[1].at = k /\ pl[4].cells = y
  /\ After(pl, c, 4) = ((SubSeq(c, 1, k) \o u) \o x) \o y

ThreeIs(pl, c, k, x) ==
  Len(pl) = 3 /\ pl[1].at = k /\ After(pl, c, 3) = (SubSeq(c, 1, k) \o <<>>) \o x

LEMMA FourCalls ==
  ASSUME NEW X, NEW k \in Nat, NEW z \in ACall(X), NEW x \in Seq(X), NEW y \in Seq(X), NEW c,
         NEW pl, pl = <<Book!Seek(k), z, Book!Write(x), Book!Write(y)>>
  PROVE  FourIs(pl, c, k, z.cells, x, y)
<1>1. /\ Book!Seek(k) \in ACall(X) /\ Book!Write(x) \in ACall(X) /\ Book!Write(y) \in ACall(X)
      /\ Book!Seek(k).at = k /\ Book!Write(x).cells = x /\ Book!Write(y).cells = y
  BY ACallIs
<1>2. /\ Len(pl) = 4
      /\ pl[1] = Book!Seek(k) /\ pl[2] = z /\ pl[3] = Book!Write(x) /\ pl[4] = Book!Write(y)
  BY <1>1, Four
<1>3. After(pl, c, 4) = ((SubSeq(c, 1, pl[1].at) \o pl[2].cells) \o pl[3].cells) \o pl[4].cells
  BY Afters, Zenon
<1>4. pl[1].at = k /\ pl[2].cells = z.cells /\ pl[3].cells = x /\ pl[4].cells = y
  BY <1>1, <1>2
<1>5. QED
  BY <1>2, <1>3, <1>4, Zenon DEF FourIs

LEMMA ThreeCalls ==
  ASSUME NEW X, NEW k \in Nat, NEW x \in Seq(X), NEW c,
         NEW pl, pl = <<Book!Seek(k), Book!Truncate(k), Book!Write(x)>>
  PROVE  ThreeIs(pl, c, k, x)
<1>1. /\ Book!Seek(k) \in ACall(X) /\ Book!Truncate(k) \in ACall(X) /\ Book!Write(x) \in ACall(X)
      /\ Book!Seek(k).at = k /\ Book!Truncate(k).cells = <<>> /\ Book!Write(x).cells = x
  BY ACallIs
<1>2. /\ Len(pl) = 3
      /\ pl[1] = Book!Seek(k) /\ pl[2] = Book!Truncate(k) /\ pl[3] = Book!Write(x)
  BY <1>1, Three
<1>3. After(pl, c, 3) = (SubSeq(c, 1, pl[1].at) \o pl[2].cells) \o pl[3].cells
  BY Afters, Zenon
<1>4. pl[1].at = k /\ pl[2].cells = <<>> /\ pl[3].cells = x
  BY <1>1, <1>2
<1>5. QED
  BY <1>2, <1>3, <1>4, Zenon DEF ThreeIs

\* The calls of an edit that begins on the text of the rows leave the text of
\* the rows edited, if they write no junk; they begin at the row, or in it.
RightEnd(pl, c, j, ed, k) ==
  pl[1].at >= k /\ (~Book!Contains(pl[Len(pl)].cells, Book!Junk) => IsText(After(pl, c, Len(pl)), ed))

LEMMA EndsRight ==
  ASSUME NEW c, NEW rs, IsText(c, rs), NEW r \in Nat, Book!Start(r, c) # 0,
         NEW j \in {<<>>, <<Book!Junk>>}, NEW op \in {"B", "T", "A"}, NEW t \in Word, NEW x \in Word,
         NEW pl, pl = Book!Calls(c, Book!Start(r, c), j, op, t, x)
  PROVE  RightEnd(pl, c, j, Book!Edited(rs, r + 1, op, t, x), Book!Start(r, c) - 1)
<1>1. /\ c \in Seq(Book!Cell) /\ Len(c) \in Nat
      /\ Len(c) = 4 * Len(rs) \/ Len(c) = 4 * Len(rs) - 1
  BY DEF IsText
<1>2. PICK q : q = IF 4 * r + 4 <= Len(c) THEN 4 * r + 4 ELSE 0
  OBVIOUS
<1>3. /\ r < Len(rs) /\ Book!Start(r, c) = 4 * r + 1
      /\ Book!Find(Book!Space, 4 * r + 1, c) = 4 * r + 2
      /\ Book!Find(Book!NL, 4 * r + 2, c) = q
  BY <1>2, RowStarts
<1>4. 4 * r + 2 # 0 /\ (4 * r + 1) - 1 = 4 * r /\ (4 * r + 2) + 1 = 4 * r + 3
      /\ 4 * r \in Nat /\ 4 * r + 2 \in Nat /\ 4 * r >= 4 * r /\ 4 * r + 2 >= 4 * r
  OBVIOUS
<1>5. pl = CASE op = "B" -> Book!Insert(c, 4 * r + 1, j, t, x)
             [] op = "T" -> Book!ReplaceTitle(c, 4 * r + 1, 4 * r + 2, q, j, t)
             [] op = "A" -> Book!ReplaceAuthor(c, 4 * r + 1, 4 * r + 2, q, j, x)
  <2>1. (IF 4 * r + 2 = 0 THEN 1 ELSE 4 * r + 2) = 4 * r + 2
    BY <1>4, Zenon
  <2>2. QED
    BY <1>3, <2>1, Zenon DEF Book!Calls
<1>6. 4 * r + 3 <= Len(c) /\ 4 * r + 1 \in 1..Len(c) + 1 /\ 4 * r + 3 \in 1..Len(c) + 1
  <2>1. Len(rs) \in Nat
    BY DEF IsText
  <2>2. QED
    BY <1>1, <1>3, <2>1
<1>7. t \in Book!Cell /\ x \in Book!Cell /\ Book!Space \in Book!Cell /\ Book!NL \in Book!Cell
      /\ Book!Junk \in Book!Cell
  BY CellNames
<1>8. <<t, Book!Space>> \in Seq(Book!Cell) /\ <<x, Book!NL>> \in Seq(Book!Cell)
  BY <1>7, Pair
<1>9. /\ Book!From(4 * r + 1, c) \in Seq(Book!Cell) /\ Book!From(4 * r + 3, c) \in Seq(Book!Cell)
  BY <1>1, <1>6, FromIs
<1>10. j \in Seq(Book!Cell)
  <2>1. <<Book!Junk>> \in Seq(Book!Cell) /\ <<>> \in Seq(Book!Cell)
    BY <1>7, Pair
  <2>2. QED
    BY <2>1, Zenon
<1>11. CASE op = "B"
  <2> DEFINE y == Book!From(4 * r + 1, c)
  <2>1. pl = <<Book!Seek(4 * r), Book!Write(<<t, Book!Space>>), Book!Write(<<x, Book!NL>>),
               Book!Write(y \o j)>>
    <3>1. pl = Book!Insert(c, 4 * r + 1, j, t, x)
      BY <1>5, <1>11
    <3>2. QED
      BY <1>4, <3>1, Zenon DEF Book!Insert
  <2>2. /\ Book!Write(<<t, Book!Space>>) \in ACall(Book!Cell)
        /\ Book!Write(<<t, Book!Space>>).cells = <<t, Book!Space>>
    BY <1>4, <1>8, ACallIs
  <2>3. y \in Seq(Book!Cell) /\ y \o j \in Seq(Book!Cell)
    <3> HIDE DEF y
    <3>1. y \in Seq(Book!Cell)
      BY <1>9 DEF y
    <3>2. QED
      BY <1>10, <3>1, Joined
  <2>4. /\ Len(pl) = 4 /\ pl[1].at = 4 * r /\ pl[4].cells = y \o j
        /\ After(pl, c, 4) = ((SubSeq(c, 1, 4 * r) \o <<t, Book!Space>>) \o <<x, Book!NL>>) \o (y \o j)
    <3> HIDE DEF y
    <3>1. FourIs(pl, c, 4 * r, Book!Write(<<t, Book!Space>>).cells, <<x, Book!NL>>, y \o j)
      BY <1>4, <1>8, <2>1, <2>2, <2>3, FourCalls
    <3>2. QED
      BY <2>2, <3>1, Zenon DEF FourIs
  <2>5. ASSUME ~Book!Contains(y \o j, Book!Junk)
        PROVE  IsText(After(pl, c, 4), Book!Edited(rs, r + 1, op, t, x))
    <3>1. y \o j = y
      BY <2>3, <2>5, JunkIsWritten
    <3>2. After(pl, c, 4) = WithRow(c, r, t, x)
      BY <2>4, <3>1, Zenon DEF WithRow
    <3>3. QED
      BY <1>3, <1>11, <3>2, InsertedText
  <2>6. QED
    BY <1>3, <1>4, <2>4, <2>5, Zenon DEF RightEnd
<1>12. CASE op = "T"
  <2> DEFINE y == Book!From(4 * r + 3, c)
  <2>1. pl = <<Book!Seek(4 * r), Book!Truncate(4 * r), Book!Write(<<t, Book!Space>>),
               Book!Write(y \o j)>>
    <3>1. pl = Book!ReplaceTitle(c, 4 * r + 1, 4 * r + 2, q, j, t)
      BY <1>5, <1>12
    <3>2. QED
      BY <1>4, <3>1, Zenon DEF Book!ReplaceTitle
  <2>2. /\ Book!Truncate(4 * r) \in ACall(Book!Cell)
        /\ Book!Truncate(4 * r).cells = <<>>
    BY <1>4, <1>8, ACallIs
  <2>3. y \in Seq(Book!Cell) /\ y \o j \in Seq(Book!Cell)
    <3> HIDE DEF y
    <3>1. y \in Seq(Book!Cell)
      BY <1>9 DEF y
    <3>2. QED
      BY <1>10, <3>1, Joined
  <2>4. /\ Len(pl) = 4 /\ pl[1].at = 4 * r /\ pl[4].cells = y \o j
        /\ After(pl, c, 4) = ((SubSeq(c, 1, 4 * r) \o <<>>) \o <<t, Book!Space>>) \o (y \o j)
    <3> HIDE DEF y
    <3>1. FourIs(pl, c, 4 * r, Book!Truncate(4 * r).cells, <<t, Book!Space>>, y \o j)
      BY <1>4, <1>8, <2>1, <2>2, <2>3, FourCalls
    <3>2. QED
      BY <2>2, <3>1, Zenon DEF FourIs
  <2>5. ASSUME ~Book!Contains(y \o j, Book!Junk)
        PROVE  IsText(After(pl, c, 4), Book!Edited(rs, r + 1, op, t, x))
    <3>1. y \o j = y
      BY <2>3, <2>5, JunkIsWritten
    <3>2. After(pl, c, 4) = WithTitle(c, r, t)
      BY <2>4, <3>1, Zenon DEF WithTitle
    <3>3. QED
      BY <1>3, <1>12, <3>2, TitleText
  <2>6. QED
    BY <1>3, <1>4, <2>4, <2>5, Zenon DEF RightEnd
<1>13. CASE op = "A" /\ 4 * r + 4 <= Len(c)
  <2> DEFINE y == Book!From(4 * r + 5, c)
  <2>1. q = 4 * r + 4 /\ q > 0 /\ (4 * r + 4) + 1 = 4 * r + 5 /\ 4 * r + 5 \in 1..Len(c) + 1
    BY <1>1, <1>2, <1>13
  <2>2. y \in Seq(Book!Cell) /\ y \o j \in Seq(Book!Cell)
    <3> HIDE DEF y
    <3>1. y \in Seq(Book!Cell)
      BY <1>1, <2>1, FromIs DEF y
    <3>2. QED
      BY <1>10, <3>1, Joined
  <2>3. /\ Book!Truncate(4 * r + 2) \in ACall(Book!Cell)
        /\ Book!Seek(4 * r + 2) \in ACall(Book!Cell)
        /\ Book!Truncate(4 * r + 2).cells = <<>>
        /\ Book!Write(<<x, Book!NL>>) \in ACall(Book!Cell)
        /\ Book!Write(y \o j) \in ACall(Book!Cell)
    <3> HIDE DEF y
    <3>1. QED
      BY <1>4, <1>8, <2>2, ACallIs
  <2>4. pl = <<Book!Seek(4 * r + 2), Book!Truncate(4 * r + 2), Book!Write(<<x, Book!NL>>),
               Book!Write(y \o j)>>
    <3>1. pl = Book!ReplaceAuthor(c, 4 * r + 1, 4 * r + 2, q, j, x)
      BY <1>5, <1>13
    <3>2. pl = <<Book!Seek(4 * r + 2), Book!Truncate(4 * r + 2), Book!Write(<<x, Book!NL>>)>>
               \o <<Book!Write(y \o j)>>
      BY <2>1, <3>1, Zenon DEF Book!ReplaceAuthor
    <3> HIDE DEF y
    <3>3. QED
      BY <2>3, <3>2, Four
  <2>5. /\ Len(pl) = 4 /\ pl[1].at = 4 * r + 2 /\ pl[4].cells = y \o j
        /\ After(pl, c, 4) = ((SubSeq(c, 1, 4 * r + 2) \o <<>>) \o <<x, Book!NL>>) \o (y \o j)
    <3> HIDE DEF y
    <3>1. FourIs(pl, c, 4 * r + 2, Book!Truncate(4 * r + 2).cells, <<x, Book!NL>>, y \o j)
      BY <1>4, <1>8, <2>2, <2>3, <2>4, FourCalls
    <3>2. QED
      BY <2>3, <3>1, Zenon DEF FourIs
  <2>6. ASSUME ~Book!Contains(y \o j, Book!Junk)
        PROVE  IsText(After(pl, c, 4), Book!Edited(rs, r + 1, op, t, x))
    <3>1. y \o j = y
      BY <2>2, <2>6, JunkIsWritten
    <3>2. AfterAuthor(c, r) = y
      BY <1>13 DEF AfterAuthor
    <3>3. After(pl, c, 4) = WithAuthor(c, r, x)
      BY <2>5, <3>1, <3>2, Zenon DEF WithAuthor
    <3>4. QED
      BY <1>3, <1>13, <3>3, AuthorText
  <2>7. QED
    BY <1>3, <1>4, <2>5, <2>6, Zenon DEF RightEnd
<1>14. CASE op = "A" /\ ~(4 * r + 4 <= Len(c))
  <2>1. q = 0 /\ ~(q > 0)
    BY <1>2, <1>14
  <2>2. pl = <<Book!Seek(4 * r + 2), Book!Truncate(4 * r + 2), Book!Write(<<x, Book!NL>>)>>
    <3>1. pl = Book!ReplaceAuthor(c, 4 * r + 1, 4 * r + 2, q, j, x)
      BY <1>5, <1>14
    <3>2. pl = <<Book!Seek(4 * r + 2), Book!Truncate(4 * r + 2), Book!Write(<<x, Book!NL>>)>> \o <<>>
      BY <2>1, <3>1, Zenon DEF Book!ReplaceAuthor
    <3>3. /\ Book!Seek(4 * r + 2) \in ACall(Book!Cell) /\ Book!Truncate(4 * r + 2) \in ACall(Book!Cell)
          /\ Book!Write(<<x, Book!NL>>) \in ACall(Book!Cell)
      BY <1>4, <1>8, ACallIs
    <3>4. QED
      BY <3>2, <3>3, Three
  <2>3. /\ Len(pl) = 3 /\ pl[1].at = 4 * r + 2
        /\ After(pl, c, 3) = (SubSeq(c, 1, 4 * r + 2) \o <<>>) \o <<x, Book!NL>>
    <3>1. ThreeIs(pl, c, 4 * r + 2, <<x, Book!NL>>)
      BY <1>4, <1>8, <2>2, ThreeCalls
    <3>2. QED
      BY <3>1, Zenon DEF ThreeIs
  <2>4. AfterAuthor(c, r) = <<>>
    BY <1>14 DEF AfterAuthor
  <2>5. After(pl, c, 3) = WithAuthor(c, r, x)
    <3>1. SubSeq(c, 1, 4 * r + 2) \in Seq(Book!Cell)
      <4>1. 4 * r + 2 \in 0..Len(c)
        BY <1>1, <1>6
      <4>2. QED
        BY <1>1, <4>1, FrontIs
    <3>2. (SubSeq(c, 1, 4 * r + 2) \o <<>>) \o <<x, Book!NL>> \in Seq(Book!Cell)
      <4>1. <<>> \in Seq(Book!Cell)
        OBVIOUS
      <4>2. SubSeq(c, 1, 4 * r + 2) \o <<>> \in Seq(Book!Cell)
        BY <3>1, <4>1, Joined
      <4>3. QED
        BY <1>8, <4>2, Joined
    <3>3. After(pl, c, 3) \o <<>> = After(pl, c, 3)
      BY <2>3, <3>2, ConcatEmptySeq
    <3>4. QED
      BY <2>3, <2>4, <3>3, Zenon DEF WithAuthor
  <2>6. IsText(After(pl, c, 3), Book!Edited(rs, r + 1, op, t, x))
    BY <1>3, <1>14, <2>5, AuthorText
  <2>7. QED
    BY <1>3, <1>4, <2>3, <2>6, Zenon DEF RightEnd
<1>15. QED
  BY <1>11, <1>12, <1>13, <1>14

(* What always holds of the file and of those who edit it.                   *)

\* The cells of a file without a hole.
Clean == Book!Cell \ {Book!NUL}

\* The calls of an edit ed of row r, of which a file c was read.
PlanOf(c, r, j, ed) == Book!Calls(c, Book!Start(r, c), j, ed.op, ed.title, ed.author)

\* The calls td are left of the calls pl, and not all of these.
UnderWay(td, f, o, c, pl) ==
  \E k \in 0..Len(pl) - 1 : Rest(td, pl, k) /\ AtStage(k, f, o, c, pl, Clean)

AnEdit == [op : {"none", "B", "T", "A"}, title : Book!Cell, author : Book!Cell]

BookTypes ==
  /\ books \in Seq(Book!Cell) /\ rows \in Seq(Books)
  /\ pc \in [Editor -> {"idle", "read", "ask", "write", "killed"}]
  /\ buf \in [Editor -> Seq(Book!Cell)] /\ junk \in [Editor -> {<<>>, <<Book!Junk>>}]
  /\ row \in [Editor -> Row \cup {0}] /\ at \in [Editor -> Nat]
  /\ todo \in [Editor -> Seq(ACall(Book!Cell))] /\ edit \in [Editor -> AnEdit]
  /\ edits \in 0..MaxEdits /\ overlapped \in BOOLEAN /\ cut \in BOOLEAN

\* An editor has found its row, and one that writes has calls to make.
Asked ==
  \A e \in Editor :
    /\ Book!Busy(e) => Book!Start(row[e], buf[e]) \in 1..Len(buf[e])
    /\ pc[e] = "write" => /\ todo[e] # <<>> /\ edit[e].op \in {"B", "T", "A"}
                          /\ edit[e].title \in Word /\ edit[e].author \in Word

\* As long as no edits overlap there is one, which has measured the file or is
\* as far as its calls, and no hole.
OneEdits ==
  ~overlapped =>
    /\ \A e, f \in Editor : Book!Active(e) /\ Book!Active(f) => e = f
    /\ books \in Seq(Clean)
    /\ \A e \in Editor :
         /\ pc[e] = "read" => Len(buf[e]) = Len(books)
         /\ Book!Busy(e) => buf[e] \in Seq(Clean)
         /\ pc[e] = "ask" => books = buf[e]
         /\ pc[e] = "write" =>
              UnderWay(todo[e], books, at[e], buf[e], PlanOf(buf[e], row[e], junk[e], edit[e]))

\* The file, or what was read of it, is the text of the rows.
HasText ==
  ~overlapped /\ ~cut =>
    /\ (\A e \in Editor : ~Book!Busy(e)) => IsText(books, rows)
    /\ \A e \in Editor : Book!Busy(e) => IsText(buf[e], rows)

BookInv == BookTypes /\ Asked /\ OneEdits /\ HasText

\* There is no hole in the text of rows.
LEMMA TextHasNoNul ==
  ASSUME NEW f, NEW rs, IsText(f, rs)
  PROVE  f \in Seq(Book!Cell) /\ \A k \in 1..Len(f) : f[k] # Book!NUL
<1>1. /\ f \in Seq(Book!Cell) /\ Len(f) \in Nat /\ Len(rs) \in Nat /\ Len(f) <= 4 * Len(rs)
      /\ \A k \in 1..Len(rs) :
           /\ f[4 * k - 3] # Book!NUL /\ f[4 * k - 2] # Book!NUL /\ f[4 * k - 1] # Book!NUL
           /\ 4 * k <= Len(f) => f[4 * k] # Book!NUL
  BY TextCell, CellNames DEF IsText
<1>2. ASSUME NEW j \in 1..Len(f) PROVE f[j] # Book!NUL
  <2>1. j \in 1..4 * Len(rs) /\ j <= Len(f)
    BY <1>1
  <2>2. PICK k \in 1..Len(rs) : j = 4 * k - 3 \/ j = 4 * k - 2 \/ j = 4 * k - 1 \/ j = 4 * k
    BY <1>1, <2>1, RowOf
  <2>3. QED
    BY <1>1, <2>1, <2>2
<1>3. QED
  BY <1>1, <1>2

LEMMA NoNul == Ample(Clean) /\ Ample(Book!Cell) /\ Clean \subseteq Book!Cell /\ Book!NUL \notin Clean
  BY CellNames DEF Ample, Clean

LEMMA PlanIs ==
  ASSUME NEW X, Ample(X), NEW c \in Seq(X), NEW r, Book!Start(r, c) \in 1..Len(c),
         NEW j \in {<<>>, <<Book!Junk>>}, NEW ed, ed.op \in {"B", "T", "A"},
         ed.title \in Word, ed.author \in Word
  PROVE  Planned(PlanOf(c, r, j, ed), c, X)
  BY CallsPlanned DEF PlanOf

LEMMA RowNumber ==
  ASSUME BookTypes, NEW e \in Editor
  PROVE  row[e] \in Nat
<1>1. Row \subseteq Nat
  BY CellNames
<1>2. row[e] \in Row \/ row[e] = 0
  BY DEF BookTypes
<1>3. CASE row[e] \in Row
  BY <1>1, <1>3, Zenon
<1>4. CASE row[e] = 0
  BY <1>4
<1>5. QED
  BY <1>2, <1>3, <1>4

LEMMA BookInit ==
  ASSUME Book!Init
  PROVE  BookInv
<1>1. /\ rows \in InitRows
      /\ books \in {Book!Text(rs) : rs \in {rows}} \cup {IF rows = <<>> THEN <<>> ELSE Book!Front(Book!Text(rows))}
      /\ edits = 0 /\ overlapped = FALSE /\ cut = FALSE
      /\ pc = [e \in Editor |-> "idle"] /\ row = [e \in Editor |-> 0]
      /\ buf = [e \in Editor |-> <<>>] /\ junk = [e \in Editor |-> <<>>]
      /\ todo = [e \in Editor |-> <<>>] /\ at = [e \in Editor |-> 0]
      /\ edit = [e \in Editor |-> [op |-> "none", title |-> Book!NUL, author |-> Book!NUL]]
  BY DEF Book!Init
<1>2. rows \in Seq(Books) /\ MaxEdits \in Nat
  BY <1>1, CellNames
<1>3. books = Book!Text(rows) \/ books = IF rows = <<>> THEN <<>> ELSE Book!Front(Book!Text(rows))
  BY <1>1
<1>4. IsText(books, rows)
  <2>1. CASE rows = <<>>
    <3>1. IsText(Book!Text(rows), rows)
      BY <1>2, TextIs
    <3>2. IsText(<<>>, <<>>)
      BY DEF IsText, HasRows
    <3>3. QED
      BY <1>3, <2>1, <3>1, <3>2
  <2>2. CASE rows # <<>>
    BY <1>2, <1>3, <2>2, TextIs
  <2>3. QED
    BY <2>1, <2>2
<1>5. BookTypes
  <2>1. books \in Seq(Book!Cell)
    BY <1>4 DEF IsText
  <2>2. 0 \in 0..MaxEdits /\ <<>> \in Seq(Book!Cell) /\ <<>> \in Seq(ACall(Book!Cell))
    BY <1>2
  <2>3. edit \in [Editor -> AnEdit]
    BY <1>1, CellNames DEF AnEdit
  <2>4. QED
    BY <1>1, <1>2, <2>1, <2>2, <2>3 DEF BookTypes
<1>6. \A e \in Editor : ~Book!Busy(e) /\ ~Book!Active(e) /\ pc[e] # "write" /\ pc[e] # "ask" /\ pc[e] # "read"
  BY <1>1 DEF Book!Busy, Book!Active
<1>7. books \in Seq(Clean)
  <2>1. books \in Seq(Book!Cell) /\ \A k \in 1..Len(books) : books[k] # Book!NUL
    BY <1>4, TextHasNoNul
  <2>2. QED
    BY <2>1 DEF Clean
<1>8. QED
  BY <1>4, <1>5, <1>6, <1>7 DEF BookInv, Asked, OneEdits, HasText

\* Nothing changes.
LEMMA BookStays ==
  ASSUME BookInv, UNCHANGED Book!vars
  PROVE  BookInv'
<1>1. /\ books' = books /\ edits' = edits /\ pc' = pc /\ buf' = buf /\ junk' = junk /\ row' = row
      /\ todo' = todo /\ at' = at /\ edit' = edit /\ rows' = rows
      /\ overlapped' = overlapped /\ cut' = cut
  BY DEF Book!vars
<1>2. BookTypes'
  BY <1>1, Zenon DEF BookInv, BookTypes
<1>3. Asked'
  BY <1>1, Zenon DEF BookInv, Asked, Book!Busy
<1>4. OneEdits'
  BY <1>1, Zenon DEF BookInv, OneEdits, Book!Busy, Book!Active
<1>5. HasText'
  BY <1>1, Zenon DEF BookInv, HasText, Book!Busy
<1>6. QED
  BY <1>2, <1>3, <1>4, <1>5 DEF BookInv

LEMMA BusyIsActive ==
  ASSUME NEW e, Book!Busy(e)
  PROVE  Book!Active(e)
  BY DEF Book!Active

\* While edits do not overlap nobody edits but e.
LEMMA OthersRest ==
  ASSUME BookInv, NEW e \in Editor, Book!Active(e), ~overlapped
  PROVE  \A f \in Editor : f # e => /\ ~Book!Busy(f) /\ ~Book!Active(f) /\ pc[f] # "read"
                                    /\ pc[f] # "ask" /\ pc[f] # "write"
<1>1. \A f \in Editor : f # e => ~Book!Active(f)
  BY Zenon DEF BookInv, OneEdits
<1>2. QED
  BY <1>1 DEF Book!Busy, Book!Active

\* replaceAtRow() measures the file.
LEMMA MeasureKeeps ==
  ASSUME BookInv, NEW e \in Editor, NEW r \in Row, Book!Measure(e, r)
  PROVE  BookInv'
<1>1. /\ pc[e] = "idle" /\ edits' = edits + 1 /\ edits < MaxEdits
      /\ books' = books /\ junk' = junk /\ todo' = todo /\ at' = at /\ edit' = edit
      /\ rows' = rows /\ cut' = cut
      /\ pc' = [pc EXCEPT ![e] = "read"] /\ row' = [row EXCEPT ![e] = r]
      /\ buf' = [buf EXCEPT ![e] = [k \in DOMAIN books |-> Book!Junk]]
      /\ overlapped' = (overlapped \/ \E f \in Editor \ {e} : Book!Active(f))
  BY DEF Book!Measure
<1>2. BookTypes /\ Asked /\ OneEdits /\ HasText
  BY DEF BookInv
<1>3. edits' \in 0..MaxEdits
  BY <1>1, <1>2, CellNames DEF BookTypes
<1>4. PICK c : c = [k \in DOMAIN books |-> Book!Junk]
  OBVIOUS
<1>5. c \in Seq(Book!Cell) /\ Len(c) = Len(books)
  <2>1. books \in Seq(Book!Cell) /\ Book!Junk \in Book!Cell
    BY <1>2, CellNames DEF BookTypes
  <2>2. QED
    BY <1>4, <2>1
<1>6. /\ pc'[e] = "read" /\ buf'[e] = c
      /\ \A f \in Editor : f # e => pc'[f] = pc[f] /\ buf'[f] = buf[f] /\ row'[f] = row[f]
  BY <1>1, <1>2, <1>4 DEF BookTypes
<1>7. BookTypes'
  <2>1. /\ pc' \in [Editor -> {"idle", "read", "ask", "write", "killed"}]
        /\ row' \in [Editor -> Row \cup {0}] /\ overlapped' \in BOOLEAN
    BY <1>1, <1>2 DEF BookTypes
  <2>2. buf' \in [Editor -> Seq(Book!Cell)]
    BY <1>1, <1>2, <1>4, <1>5, Zenon DEF BookTypes
  <2>3. QED
    BY <1>1, <1>2, <1>3, <2>1, <2>2, Zenon DEF BookTypes
<1>8. \A f \in Editor : pc'[f] \in {"ask", "write"} => f # e /\ Book!Busy(f) /\ pc'[f] = pc[f]
  BY <1>6 DEF Book!Busy
<1>9. Asked'
  <2> SUFFICES ASSUME NEW f \in Editor
               PROVE  /\ pc'[f] \in {"ask", "write"} => Book!Start(row'[f], buf'[f]) \in 1..Len(buf'[f])
                      /\ pc'[f] = "write" => /\ todo'[f] # <<>> /\ edit'[f].op \in {"B", "T", "A"}
                                             /\ edit'[f].title \in Word /\ edit'[f].author \in Word
      BY DEF Asked, Book!Busy
  <2>1. CASE f = e
    BY <1>6, <2>1
  <2>2. CASE f # e
    BY <1>1, <1>2, <1>6, <2>2, Zenon DEF Asked, Book!Busy
  <2>3. QED
    BY <2>1, <2>2
<1>10. ASSUME ~overlapped'
       PROVE  ~overlapped /\ \A f \in Editor : f # e => pc'[f] \notin {"read", "ask", "write"}
  BY <1>1, <1>6, <1>10 DEF Book!Active, Book!Busy
<1>11. OneEdits'
  <2> SUFFICES ASSUME ~overlapped' PROVE OneEdits'
      BY DEF OneEdits
  <2>1. books' \in Seq(Clean)
    BY <1>1, <1>2, <1>10 DEF OneEdits
  <2>2. \A f \in Editor : /\ pc'[f] \notin {"ask", "write"} /\ pc'[f] # "ask" /\ pc'[f] # "write"
                          /\ pc'[f] = "read" => f = e
    BY <1>6, <1>10
  <2>3. Len(buf'[e]) = Len(books')
    BY <1>1, <1>5, <1>6
  <2>4. QED
    BY <2>1, <2>2, <2>3, Zenon DEF OneEdits, Book!Busy, Book!Active
<1>12. HasText'
  <2> SUFFICES ASSUME ~overlapped', ~cut' PROVE HasText'
      BY DEF HasText
  <2>1. \A f \in Editor : ~Book!Busy(f) /\ pc'[f] \notin {"ask", "write"}
    BY <1>1, <1>6, <1>10 DEF Book!Busy
  <2>2. IsText(books', rows')
    BY <1>1, <1>2, <1>10, <2>1, Zenon DEF HasText
  <2>3. QED
    BY <2>1, <2>2, Zenon DEF HasText, Book!Busy
<1>13. QED
  BY <1>7, <1>9, <1>11, <1>12 DEF BookInv

\* It reads as much as it measured.
LEMMA ReadKeeps ==
  ASSUME BookInv, NEW e \in Editor, Book!Read(e)
  PROVE  BookInv'
<1>1. PICK c : c = [k \in DOMAIN buf[e] |-> IF k <= Len(books) THEN books[k] ELSE Book!Junk]
  OBVIOUS
<1>2. BookTypes /\ Asked /\ OneEdits /\ HasText
  BY DEF BookInv
<1>3. /\ pc[e] = "read" /\ Book!Active(e) /\ ~Book!Busy(e)
      /\ books' = books /\ edits' = edits /\ row' = row /\ todo' = todo /\ at' = at
      /\ edit' = edit /\ rows' = rows /\ overlapped' = overlapped /\ cut' = cut
  BY DEF Book!Read, Book!Active, Book!Busy
<1>4. buf' = [buf EXCEPT ![e] = c]
  BY <1>1 DEF Book!Read
<1>5. buf'[e] = c /\ \A f \in Editor : f # e => buf'[f] = buf[f]
  BY <1>2, <1>4, Zenon DEF BookTypes
<1>6. pc' = [pc EXCEPT ![e] = IF Book!Start(row[e], c) = 0 THEN "idle" ELSE "ask"]
  BY <1>5 DEF Book!Read
<1>7. PICK j \in {<<>>, <<Book!Junk>>} : junk' = [junk EXCEPT ![e] = j]
  BY DEF Book!Read
<1>8. /\ pc'[e] = IF Book!Start(row[e], c) = 0 THEN "idle" ELSE "ask"
      /\ \A f \in Editor : f # e => pc'[f] = pc[f] /\ junk'[f] = junk[f]
  BY <1>2, <1>6, <1>7 DEF BookTypes
<1>9. c \in Seq(Book!Cell) /\ Len(c) = Len(buf[e])
  <2>1. books \in Seq(Book!Cell) /\ buf[e] \in Seq(Book!Cell) /\ Book!Junk \in Book!Cell
    BY <1>2, CellNames DEF BookTypes
  <2>2. PICK n \in Nat : n = Len(buf[e])
    BY <2>1
  <2>3. DOMAIN buf[e] = 1..n /\ Len(books) \in Nat /\ \A k \in 1..Len(books) : books[k] \in Book!Cell
    BY <2>1, <2>2
  <2>4. \A k \in 1..n : (IF k <= Len(books) THEN books[k] ELSE Book!Junk) \in Book!Cell
    BY <2>1, <2>3
  <2>5. c = [k \in 1..n |-> IF k <= Len(books) THEN books[k] ELSE Book!Junk]
    BY <1>1, <2>3
  <2>6. QED
    BY <2>2, <2>4, <2>5
<1>10. BookTypes'
  <2>1. pc' \in [Editor -> {"idle", "read", "ask", "write", "killed"}]
    BY <1>2, <1>6 DEF BookTypes
  <2>2. buf' \in [Editor -> Seq(Book!Cell)] /\ junk' \in [Editor -> {<<>>, <<Book!Junk>>}]
    BY <1>2, <1>4, <1>7, <1>9, Zenon DEF BookTypes
  <2>3. QED
    BY <1>2, <1>3, <2>1, <2>2, Zenon DEF BookTypes
<1>11. pc'[e] = "ask" => Book!Start(row[e], c) \in 1..Len(c)
  <2>1. row[e] \in Nat /\ Len(c) \in Nat
    BY <1>2, <1>9, RowNumber
  <2>2. QED
    BY <1>8, <1>9, <2>1, StartIs
<1>12. Asked'
  <2> SUFFICES ASSUME NEW f \in Editor
               PROVE  /\ pc'[f] \in {"ask", "write"} => Book!Start(row'[f], buf'[f]) \in 1..Len(buf'[f])
                      /\ pc'[f] = "write" => /\ todo'[f] # <<>> /\ edit'[f].op \in {"B", "T", "A"}
                                             /\ edit'[f].title \in Word /\ edit'[f].author \in Word
      BY DEF Asked, Book!Busy
  <2>1. CASE f = e
    BY <1>3, <1>5, <1>8, <1>11, <2>1
  <2>2. CASE f # e
    BY <1>2, <1>3, <1>5, <1>8, <2>2, Zenon DEF Asked, Book!Busy
  <2>3. QED
    BY <2>1, <2>2
<1>13. ASSUME ~overlapped
       PROVE  c = books /\ \A f \in Editor : f # e => ~Book!Busy(f) /\ pc'[f] \notin {"read", "ask", "write"}
  <2>1. Len(buf[e]) = Len(books)
    BY <1>2, <1>3, <1>13, Zenon DEF OneEdits
  <2>2. books \in Seq(Book!Cell) /\ buf[e] \in Seq(Book!Cell)
    BY <1>2 DEF BookTypes
  <2>3. DOMAIN buf[e] = 1..Len(books)
    BY <2>1, <2>2
  <2>4. \A k \in 1..Len(books) : c[k] = books[k]
    BY <1>1, <2>2, <2>3
  <2>5. c = books
    BY <1>9, <2>1, <2>2, <2>4, SeqEqual
  <2>6. \A f \in Editor : f # e => /\ ~Book!Busy(f) /\ pc[f] # "read" /\ pc[f] # "ask" /\ pc[f] # "write"
    BY <1>3, <1>13, OthersRest
  <2>7. QED
    BY <1>8, <2>5, <2>6
<1>14. OneEdits'
  <2> SUFFICES ASSUME ~overlapped' PROVE OneEdits'
      BY DEF OneEdits
  <2>1. books' \in Seq(Clean) /\ buf'[e] = books'
    BY <1>2, <1>3, <1>5, <1>13 DEF OneEdits
  <2>2. pc'[e] # "read" /\ pc'[e] # "write"
    BY <1>8
  <2>3. \A f \in Editor : /\ pc'[f] # "read" /\ pc'[f] # "write"
                          /\ pc'[f] \in {"ask", "write"} => f = e
                          /\ pc'[f] = "ask" => f = e
    BY <1>3, <1>13, <2>2
  <2>4. QED
    BY <2>1, <2>3, Zenon DEF OneEdits, Book!Busy, Book!Active
<1>15. HasText'
  <2> SUFFICES ASSUME ~overlapped', ~cut' PROVE HasText'
      BY DEF HasText
  <2>1. \A f \in Editor : ~Book!Busy(f)
    BY <1>3, <1>13
  <2>2. IsText(books', rows') /\ buf'[e] = books'
    BY <1>2, <1>3, <1>5, <1>13, <2>1, Zenon DEF HasText
  <2>3. \A f \in Editor : pc'[f] \in {"ask", "write"} => f = e
    BY <1>3, <1>13
  <2>4. QED
    BY <2>2, <2>3, Zenon DEF HasText, Book!Busy
<1>16. QED
  BY <1>10, <1>12, <1>14, <1>15 DEF BookInv

\* An edit ends without a call.
LEMMA Leaves ==
  ASSUME BookInv, NEW e \in Editor, Book!Busy(e), NEW p \in {"idle", "killed"},
         pc' = [pc EXCEPT ![e] = p], cut' = (cut \/ pc[e] = "write"), pc[e] = "write" => p = "killed",
         UNCHANGED <<books, edits, buf, junk, row, todo, at, edit, rows, overlapped>>
  PROVE  BookInv'
<1>1. BookTypes /\ Asked /\ OneEdits /\ HasText
  BY DEF BookInv
<1>2. pc'[e] = p /\ \A f \in Editor : f # e => pc'[f] = pc[f]
  BY <1>1 DEF BookTypes
<1>3. pc'[e] \notin {"ask", "write"} /\ (\A f \in Editor : pc'[f] \in {"ask", "write"} => f # e /\ pc'[f] = pc[f])
  BY <1>2
<1>4. BookTypes'
  <2>1. pc' \in [Editor -> {"idle", "read", "ask", "write", "killed"}] /\ cut' \in BOOLEAN
    BY <1>1 DEF BookTypes
  <2>2. QED
    BY <1>1, <2>1, Zenon DEF BookTypes
<1>5. Asked'
  <2>1. \A f \in Editor : (pc'[f] = "write" => pc[f] = "write")
                          /\ (pc'[f] \in {"ask", "write"} => pc[f] \in {"ask", "write"})
    BY <1>3
  <2>2. QED
    BY <1>1, <2>1, Zenon DEF Asked, Book!Busy
<1>6. OneEdits'
  <2> SUFFICES ASSUME ~overlapped' PROVE OneEdits'
      BY DEF OneEdits
  <2>1. \A f \in Editor : /\ pc'[f] \notin {"ask", "write"} /\ pc'[f] # "ask" /\ pc'[f] # "write"
                          /\ pc'[f] # "read"
    <3>1. \A f \in Editor : f # e => ~Book!Busy(f) /\ pc[f] # "read"
      BY BusyIsActive, OthersRest
    <3>2. QED
      BY <1>2, <3>1 DEF Book!Busy
  <2>2. books' \in Seq(Clean)
    BY <1>1 DEF OneEdits
  <2>3. QED
    BY <2>1, <2>2, Zenon DEF OneEdits, Book!Busy, Book!Active
<1>7. HasText'
  <2> SUFFICES ASSUME ~overlapped', ~cut' PROVE HasText'
      BY DEF HasText
  <2>1. \A f \in Editor : pc'[f] \notin {"ask", "write"}
    <3>1. \A f \in Editor : f # e => ~Book!Busy(f)
      BY BusyIsActive, OthersRest
    <3>2. QED
      BY <1>2, <3>1 DEF Book!Busy
  <2>2. pc[e] = "ask" /\ ~cut /\ ~overlapped
    BY DEF Book!Busy
  <2>3. books = buf[e] /\ IsText(buf[e], rows)
    BY <1>1, <2>2, Zenon DEF OneEdits, HasText
  <2>4. IsText(books', rows')
    BY <2>3
  <2>5. QED
    BY <2>1, <2>4, Zenon DEF HasText, Book!Busy
<1>8. QED
  BY <1>4, <1>5, <1>6, <1>7 DEF BookInv

LEMMA AnswerNothingKeeps ==
  ASSUME BookInv, NEW e \in Editor, Book!AnswerNothing(e)
  PROVE  BookInv'
<1>1. /\ pc[e] = "ask" /\ pc' = [pc EXCEPT ![e] = "idle"] /\ cut' = cut
      /\ UNCHANGED <<books, edits, buf, junk, row, todo, at, edit, rows, overlapped>>
  BY DEF Book!AnswerNothing
<1>2. cut \in BOOLEAN
  BY DEF BookInv, BookTypes
<1>3. Book!Busy(e) /\ cut' = (cut \/ pc[e] = "write") /\ pc[e] # "write"
  BY <1>1, <1>2 DEF Book!Busy
<1>4. QED
  BY <1>1, <1>3, Leaves

LEMMA KillKeeps ==
  ASSUME BookInv, NEW e \in Editor, Book!Kill(e)
  PROVE  BookInv'
<1>1. /\ Book!Active(e) /\ pc' = [pc EXCEPT ![e] = "killed"] /\ cut' = (cut \/ pc[e] = "write")
      /\ UNCHANGED <<books, edits, buf, junk, row, todo, at, edit, rows, overlapped>>
  BY DEF Book!Kill
<1>2. CASE Book!Busy(e)
  BY <1>1, <1>2, Leaves
<1>3. CASE ~Book!Busy(e)
  <2>1. BookTypes /\ Asked /\ OneEdits /\ HasText
    BY DEF BookInv
  <2>2. cut' = cut
    BY <1>1, <1>3, <2>1 DEF Book!Busy, BookTypes
  <2>3. pc'[e] = "killed" /\ \A f \in Editor : f # e => pc'[f] = pc[f]
    BY <1>1, <2>1 DEF BookTypes
  <2>4. \A f \in Editor : /\ pc'[f] \in {"ask", "write"} <=> pc[f] \in {"ask", "write"}
                          /\ pc'[f] = "ask" <=> pc[f] = "ask"
                          /\ pc'[f] = "write" <=> pc[f] = "write"
                          /\ pc'[f] = "read" => pc[f] = "read"
    BY <1>3, <2>3 DEF Book!Busy
  <2>5. BookTypes'
    <3>1. pc' \in [Editor -> {"idle", "read", "ask", "write", "killed"}]
      BY <1>1, <2>1 DEF BookTypes
    <3>2. QED
      BY <1>1, <2>1, <2>2, <3>1, Zenon DEF BookTypes
  <2>6. Asked'
    BY <1>1, <2>1, <2>4, Zenon DEF Asked, Book!Busy
  <2>7. OneEdits'
    BY <1>1, <2>1, <2>4, Zenon DEF OneEdits, Book!Busy, Book!Active
  <2>8. HasText'
    BY <1>1, <2>1, <2>2, <2>4, Zenon DEF HasText, Book!Busy
  <2>9. QED
    BY <2>5, <2>6, <2>7, <2>8 DEF BookInv
<1>4. QED
  BY <1>2, <1>3

\* No call has been made of those that an answer sets out.
LEMMA NotBegun ==
  ASSUME NEW f \in Seq(Clean), NEW o, NEW pl, Len(pl) = 3 \/ Len(pl) = 4
  PROVE  UnderWay(pl, f, o, f, pl)
<1>1. 0 \in 0..Len(pl) - 1 /\ Len(pl) - 0 = Len(pl) /\ 0 <= 1 /\ ~(0 >= 1) /\ ~(0 >= 2)
  OBVIOUS
<1>2. \A h \in 1..Len(pl) : 0 + h = h
  OBVIOUS
<1>3. Rest(pl, pl, 0)
  BY <1>1, <1>2 DEF Rest
<1>4. AtStage(0, f, o, f, pl, Clean)
  BY <1>1, Zenon DEF AtStage
<1>5. QED
  BY <1>1, <1>3, <1>4, Zenon DEF UnderWay

\* An answer sets out the calls, none of which has been made.
LEMMA AnswerKeeps ==
  ASSUME BookInv, NEW e \in Editor, NEW op \in {"B", "T", "A"}, NEW t \in Word, NEW x \in Word,
         Book!Answer(e, op, t, x)
  PROVE  BookInv'
<1> DEFINE c == buf[e]
           ed == [op |-> op, title |-> t, author |-> x]
           pl == PlanOf(c, row[e], junk[e], ed)
<1>1. BookTypes /\ Asked /\ OneEdits /\ HasText
  BY DEF BookInv
<1>2. /\ pc[e] = "ask" /\ Book!Busy(e)
      /\ todo' = [todo EXCEPT ![e] = Book!Calls(c, Book!Start(row[e], c), junk[e], op, t, x)]
      /\ edit' = [edit EXCEPT ![e] = ed] /\ pc' = [pc EXCEPT ![e] = "write"]
      /\ books' = books /\ edits' = edits /\ buf' = buf /\ junk' = junk /\ row' = row
      /\ at' = at /\ rows' = rows /\ overlapped' = overlapped /\ cut' = cut
  BY DEF Book!Answer, Book!Busy
<1>3. ed.op = op /\ ed.title = t /\ ed.author = x
  OBVIOUS
<1>4. pl = Book!Calls(c, Book!Start(row[e], c), junk[e], op, t, x)
  BY <1>3, Zenon DEF PlanOf
<1>5. c \in Seq(Book!Cell) /\ junk[e] \in {<<>>, <<Book!Junk>>} /\ Book!Start(row[e], c) \in 1..Len(c)
  BY <1>1, <1>2, Zenon DEF BookTypes, Asked
<1> HIDE DEF ed, pl
<1>6. Planned(pl, c, Book!Cell)
  <2>1. ed.op \in {"B", "T", "A"} /\ ed.title \in Word /\ ed.author \in Word
    BY <1>3
  <2>2. QED
    BY <1>5, <2>1, NoNul, PlanIs DEF pl
<1>7. pl \in Seq(ACall(Book!Cell)) /\ (Len(pl) = 3 \/ Len(pl) = 4)
  BY <1>6 DEF Planned
<1>8. pl # <<>>
  BY <1>7
<1>9. /\ pc'[e] = "write" /\ edit'[e] = ed /\ todo'[e] = pl
      /\ \A f \in Editor : f # e => pc'[f] = pc[f] /\ edit'[f] = edit[f] /\ todo'[f] = todo[f]
  BY <1>1, <1>2, <1>4 DEF BookTypes
<1>10. BookTypes'
  <2>1. op \in {"none", "B", "T", "A"} /\ t \in Book!Cell /\ x \in Book!Cell
    BY CellNames
  <2>2. ed \in AnEdit
    BY <2>1 DEF AnEdit, ed
  <2>3. edit' \in [Editor -> AnEdit]
    BY <1>1, <1>2, <2>2 DEF BookTypes
  <2>4. todo' \in [Editor -> Seq(ACall(Book!Cell))]
    BY <1>1, <1>2, <1>4, <1>7, Zenon DEF BookTypes
  <2>5. pc' \in [Editor -> {"idle", "read", "ask", "write", "killed"}]
    BY <1>1, <1>2 DEF BookTypes
  <2>6. QED
    BY <1>1, <1>2, <2>3, <2>4, <2>5, Zenon DEF BookTypes
<1>11. \A f \in Editor : f # e => (Book!Busy(f)' <=> Book!Busy(f))
  BY <1>9 DEF Book!Busy
<1>12. Asked'
  <2>1. \A f \in Editor : Book!Busy(f)' => Book!Busy(f)
    BY <1>2, <1>11
  <2>2. \A f \in Editor : Book!Busy(f)' => Book!Start(row'[f], buf'[f]) \in 1..Len(buf'[f])
    BY <1>1, <1>2, <2>1, Zenon DEF Asked
  <2>3. ASSUME NEW f \in Editor, pc'[f] = "write"
        PROVE  /\ todo'[f] # <<>> /\ edit'[f].op \in {"B", "T", "A"}
               /\ edit'[f].title \in Word /\ edit'[f].author \in Word
    <3>1. CASE f = e
      <4>1. /\ ed.op \in {"B", "T", "A"} /\ ed.title \in Word /\ ed.author \in Word
        BY <1>3
      <4>2. QED
        BY <1>8, <1>9, <3>1, <4>1
    <3>2. CASE f # e
      <4>1. pc[f] = "write" /\ edit'[f] = edit[f] /\ todo'[f] = todo[f]
        BY <1>9, <2>3, <3>2
      <4>2. QED
        BY <1>1, <4>1 DEF Asked
    <3>3. QED
      BY <3>1, <3>2
  <2>4. QED
    BY <2>2, <2>3, Zenon DEF Asked, Book!Busy
<1>13. OneEdits'
  <2> SUFFICES ASSUME ~overlapped' PROVE OneEdits'
      BY DEF OneEdits
  <2>1. ~overlapped
    BY <1>2
  <2>2. \A f \in Editor : f # e => /\ ~Book!Busy(f) /\ pc[f] # "read"
                                   /\ pc[f] # "ask" /\ pc[f] # "write"
    BY <1>2, <2>1, BusyIsActive, OthersRest
  <2>3. \A f \in Editor : f # e => /\ pc'[f] \notin {"ask", "write"} /\ pc'[f] # "read"
                                   /\ pc'[f] # "ask" /\ pc'[f] # "write"
    BY <1>9, <2>2 DEF Book!Busy
  <2>4. books' \in Seq(Clean) /\ books' = buf'[e]
    BY <1>1, <1>2, <2>1 DEF OneEdits
  <2>5. UnderWay(todo'[e], books', at'[e], buf'[e], PlanOf(buf'[e], row'[e], junk'[e], edit'[e]))
    <3>1. PlanOf(buf'[e], row'[e], junk'[e], edit'[e]) = pl
      BY <1>2, <1>9 DEF pl
    <3>2. UnderWay(pl, books', at'[e], books', pl)
      BY <1>7, <2>4, NotBegun
    <3>3. QED
      BY <1>9, <2>4, <3>1, <3>2
  <2>6. pc'[e] # "ask" /\ pc'[e] # "read"
    BY <1>9
  <2>7. QED
    BY <2>3, <2>4, <2>5, <2>6, Zenon DEF OneEdits, Book!Busy, Book!Active
<1>14. HasText'
  <2> SUFFICES ASSUME ~overlapped', ~cut' PROVE HasText'
      BY DEF HasText
  <2>1. \A f \in Editor : pc'[f] \in {"ask", "write"} => Book!Busy(f)
    BY <1>2, <1>11 DEF Book!Busy
  <2>2. \A f \in Editor : pc'[f] \in {"ask", "write"} => IsText(buf'[f], rows')
    BY <1>1, <1>2, <2>1 DEF HasText
  <2>3. pc'[e] \in {"ask", "write"}
    BY <1>9
  <2>4. QED
    BY <2>2, <2>3, Zenon DEF HasText, Book!Busy
<1>15. QED
  BY <1>10, <1>12, <1>13, <1>14 DEF BookInv

\* A call leaves a file, and an offset.
LEMMA MadeType ==
  ASSUME NEW x \in ACall(Book!Cell), NEW f \in Seq(Book!Cell), NEW o \in Nat, NEW g, NEW u,
         Made(x, f, o, g, u)
  PROVE  g \in Seq(Book!Cell) /\ u \in Nat
<1>1. x.call \in {"lseek", "ftruncate", "write"} /\ x.at \in Nat /\ x.cells \in Seq(Book!Cell)
  BY DEF ACall
<1>2. Len(x.cells) \in Nat
  BY <1>1
<1>3. o + Len(x.cells) \in Nat
  BY <1>2
<1>4. Book!Resized(f, x.at) \in Seq(Book!Cell)
  BY <1>1, ResizedIs
<1>5. Book!Written(f, o, x.cells) \in Seq(Book!Cell)
  BY <1>1, FileWritten
<1>6. QED
  BY <1>1, <1>3, <1>4, <1>5 DEF Made

\* What a call of an editor does.
LEMMA CallMakes ==
  ASSUME BookTypes, NEW e \in Editor, todo[e] # <<>>, Book!Call(e)
  PROVE  /\ todo[e] \in Seq(ACall(Book!Cell)) /\ todo[e][1] \in ACall(Book!Cell)
         /\ Made(todo[e][1], books, at[e], books', at'[e])
         /\ at' = [at EXCEPT ![e] = at'[e]]
         /\ cut' = (cut \/ Book!Contains(todo[e][1].cells, Book!Junk))
         /\ todo' = [todo EXCEPT ![e] = Tail(todo[e])]
         /\ books' \in Seq(Book!Cell) /\ at'[e] \in Nat
<1>1. todo[e] \in Seq(ACall(Book!Cell)) /\ at[e] \in Nat /\ books \in Seq(Book!Cell)
  BY DEF BookTypes
<1>2. PICK q : q = todo[e][1]
  OBVIOUS
<1>3. todo[e][1] \in ACall(Book!Cell) /\ Head(todo[e]) = todo[e][1]
  BY <1>1
<1>4. q.call \in {"lseek", "ftruncate", "write"}
  BY <1>2, <1>3 DEF ACall
<1>5. /\ books' = CASE q.call = "lseek" -> books
                    [] q.call = "ftruncate" -> Book!Resized(books, q.at)
                    [] q.call = "write" -> Book!Written(books, at[e], q.cells)
      /\ at' = [at EXCEPT ![e] = IF q.call = "lseek" THEN q.at ELSE @ + Len(q.cells)]
      /\ cut' = (cut \/ Book!Contains(q.cells, Book!Junk))
      /\ todo' = [todo EXCEPT ![e] = Tail(@)]
  BY <1>2, <1>3, Zenon DEF Book!Call
<1>6. at'[e] = IF q.call = "lseek" THEN q.at ELSE at[e] + Len(q.cells)
  BY <1>5 DEF BookTypes
<1>7. Made(q, books, at[e], books', at'[e])
  <2>1. q.call = "lseek" => books' = books
    BY <1>5
  <2>2. q.call = "ftruncate" => books' = Book!Resized(books, q.at)
    BY <1>5
  <2>3. q.call = "write" => books' = Book!Written(books, at[e], q.cells)
    BY <1>5
  <2>4. QED
    BY <1>6, <2>1, <2>2, <2>3 DEF Made
<1>8. at' = [at EXCEPT ![e] = at'[e]]
  BY <1>5, <1>6 DEF BookTypes
<1>9. books' \in Seq(Book!Cell) /\ at'[e] \in Nat
  BY <1>1, <1>2, <1>3, <1>7, MadeType
<1>10. QED
  BY <1>1, <1>2, <1>3, <1>5, <1>7, <1>8, <1>9, Zenon

\* What is left after a call.
LEMMA RestTail ==
  ASSUME NEW X, NEW td \in Seq(X), NEW pl, NEW k, Rest(td, pl, k), Len(pl) \in Nat,
         k \in 0..Len(pl) - 1, Len(td) > 1
  PROVE  Rest(Tail(td), pl, k + 1) /\ k + 1 \in 0..Len(pl) - 1
<1>1. Len(td) = Len(pl) - k /\ \A h \in 1..Len(pl) - k : td[h] = pl[k + h]
  BY DEF Rest
<1>2. Len(Tail(td)) = Len(td) - 1 /\ \A h \in 1..Len(td) - 1 : Tail(td)[h] = td[h + 1]
  <2>1. td # <<>>
    OBVIOUS
  <2>2. QED
    BY <2>1, HeadTailProperties
<1>3. Len(td) - 1 = Len(pl) - (k + 1) /\ k + 1 \in 0..Len(pl) - 1
  BY <1>1
<1>4. ASSUME NEW h \in 1..Len(pl) - (k + 1) PROVE Tail(td)[h] = pl[(k + 1) + h]
  <2>1. h \in 1..Len(td) - 1 /\ h + 1 \in 1..Len(pl) - k /\ k + (h + 1) = (k + 1) + h
    BY <1>3
  <2>2. Tail(td)[h] = td[h + 1] /\ td[h + 1] = pl[k + (h + 1)]
    BY <1>1, <1>2, <2>1
  <2>3. QED
    BY <2>1, <2>2
<1>5. QED
  BY <1>2, <1>3, <1>4, Zenon DEF Rest

LEMMA RestFirst ==
  ASSUME NEW td, NEW pl, NEW k, Rest(td, pl, k), Len(pl) \in Nat, k \in 0..Len(pl) - 1
  PROVE  td[1] = pl[k + 1] /\ (~(Len(td) > 1) => k + 1 = Len(pl))
<1>1. Len(td) = Len(pl) - k /\ \A h \in 1..Len(pl) - k : td[h] = pl[k + h]
  BY DEF Rest
<1>2. 1 \in 1..Len(pl) - k
  OBVIOUS
<1>3. ~(Len(td) > 1) => k + 1 = Len(pl)
  BY <1>1
<1>4. QED
  BY <1>1, <1>2, <1>3

\* Where a call of an edit that does not overlap another leaves the file.
LEMMA CallAdvances ==
  ASSUME BookInv, NEW e \in Editor, ~overlapped, Book!Call(e),
         NEW pl, pl = PlanOf(buf[e], row[e], junk[e], edit[e])
  PROVE  /\ Planned(pl, buf[e], Clean) /\ buf[e] \in Seq(Clean) /\ (Len(pl) = 3 \/ Len(pl) = 4)
         /\ \E k \in 0..Len(pl) - 1 : /\ Rest(todo[e], pl, k)
                                      /\ AtStage(k + 1, books', at'[e], buf[e], pl, Clean)
<1>1. BookTypes /\ Asked /\ OneEdits
  BY DEF BookInv
<1>2. pc[e] = "write" /\ Book!Busy(e)
  BY DEF Book!Call, Book!Busy
<1>3. /\ Book!Start(row[e], buf[e]) \in 1..Len(buf[e]) /\ todo[e] # <<>>
      /\ edit[e].op \in {"B", "T", "A"} /\ edit[e].title \in Word /\ edit[e].author \in Word
  BY <1>1, <1>2, Zenon DEF Asked
<1>4. buf[e] \in Seq(Clean) /\ UnderWay(todo[e], books, at[e], buf[e], pl)
  BY <1>1, <1>2, Zenon DEF OneEdits
<1>5. junk[e] \in {<<>>, <<Book!Junk>>}
  BY <1>1, Zenon DEF BookTypes
<1>6. Planned(pl, buf[e], Clean)
  BY <1>3, <1>4, <1>5, NoNul, PlanIs
<1>7. Len(pl) = 3 \/ Len(pl) = 4
  BY <1>6, Zenon DEF Planned
<1>8. PICK k \in 0..Len(pl) - 1 : Rest(todo[e], pl, k) /\ AtStage(k, books, at[e], buf[e], pl, Clean)
  BY <1>4, Zenon DEF UnderWay
<1>9. todo[e][1] = pl[k + 1]
  BY <1>7, <1>8, RestFirst
<1>10. Made(todo[e][1], books, at[e], books', at'[e])
  BY <1>1, <1>3, CallMakes
<1>11. Made(pl[k + 1], books, at[e], books', at'[e])
  BY <1>9, <1>10
<1>12. AtStage(k + 1, books', at'[e], buf[e], pl, Clean)
  BY <1>4, <1>6, <1>8, <1>11, NoNul, CallStage
<1>13. QED
  BY <1>4, <1>6, <1>7, <1>8, <1>12, Zenon

\* What the last one leaves.
LEMMA CallEnds ==
  ASSUME BookInv, NEW e \in Editor, ~overlapped, Book!Call(e), ~(Len(todo[e]) > 1)
  PROVE  /\ books' \in Seq(Clean)
         /\ ~cut' => IsText(books', Book!Edited(rows, row[e] + 1, edit[e].op, edit[e].title, edit[e].author))
<1>1. BookTypes /\ Asked /\ OneEdits /\ HasText
  BY DEF BookInv
<1>2. pc[e] = "write" /\ Book!Busy(e)
  BY DEF Book!Call, Book!Busy
<1>3. /\ Book!Start(row[e], buf[e]) \in 1..Len(buf[e]) /\ todo[e] # <<>>
      /\ edit[e].op \in {"B", "T", "A"} /\ edit[e].title \in Word /\ edit[e].author \in Word
  BY <1>1, <1>2, Zenon DEF Asked
<1>4. PICK pl : pl = PlanOf(buf[e], row[e], junk[e], edit[e])
  OBVIOUS
<1>5. /\ Planned(pl, buf[e], Clean) /\ buf[e] \in Seq(Clean) /\ (Len(pl) = 3 \/ Len(pl) = 4)
      /\ \E k \in 0..Len(pl) - 1 : /\ Rest(todo[e], pl, k)
                                   /\ AtStage(k + 1, books', at'[e], buf[e], pl, Clean)
  BY <1>4, CallAdvances
<1>6. PICK k \in 0..Len(pl) - 1 : /\ Rest(todo[e], pl, k)
                                  /\ AtStage(k + 1, books', at'[e], buf[e], pl, Clean)
  BY <1>5
<1>7. todo[e][1] = pl[k + 1] /\ k + 1 = Len(pl)
  BY <1>5, <1>6, RestFirst
<1>8. AtStage(Len(pl), books', at'[e], buf[e], pl, Clean)
  BY <1>6, <1>7
<1>9. books' = After(pl, buf[e], Len(pl))
  BY <1>5, <1>8, LastStage
<1>10. books' \in Seq(Clean)
  BY <1>8 DEF AtStage
<1>11. ASSUME ~cut'
       PROVE  IsText(books', Book!Edited(rows, row[e] + 1, edit[e].op, edit[e].title, edit[e].author))
  <2>1. cut' = (cut \/ Book!Contains(todo[e][1].cells, Book!Junk))
    BY <1>1, <1>3, CallMakes
  <2>2. ~cut /\ ~Book!Contains(pl[Len(pl)].cells, Book!Junk)
    BY <1>7, <1>11, <2>1
  <2>3. IsText(buf[e], rows)
    BY <1>1, <1>2, <2>2, Zenon DEF HasText
  <2>4. row[e] \in Nat /\ junk[e] \in {<<>>, <<Book!Junk>>} /\ Book!Start(row[e], buf[e]) # 0
    BY <1>1, <1>3, RowNumber DEF BookTypes
  <2>5. pl = Book!Calls(buf[e], Book!Start(row[e], buf[e]), junk[e], edit[e].op, edit[e].title, edit[e].author)
    BY <1>4, Zenon DEF PlanOf
  <2>6. RightEnd(pl, buf[e], junk[e],
                 Book!Edited(rows, row[e] + 1, edit[e].op, edit[e].title, edit[e].author),
                 Book!Start(row[e], buf[e]) - 1)
    BY <1>3, <2>3, <2>4, <2>5, EndsRight
  <2>7. QED
    BY <1>9, <2>2, <2>6, Zenon DEF RightEnd
<1>12. QED
  BY <1>10, <1>11

LEMMA TailRemains ==
  ASSUME NEW X, NEW td \in Seq(X), Len(td) > 1
  PROVE  Tail(td) # <<>>
<1>1. PICK m \in Nat : m = Len(td)
  OBVIOUS
<1>2. m # 0 /\ m - 1 # 0
  BY <1>1
<1>3. td # <<>>
  BY <1>1, <1>2
<1>4. Len(Tail(td)) = m - 1
  BY <1>1, <1>3, HeadTailProperties
<1>5. QED
  BY <1>2, <1>4

LEMMA CallKeeps ==
  ASSUME BookInv, NEW e \in Editor, Book!Call(e)
  PROVE  BookInv'
<1>1. BookTypes /\ Asked /\ OneEdits /\ HasText
  BY DEF BookInv
<1>2. /\ pc[e] = "write" /\ Book!Busy(e)
      /\ edits' = edits /\ buf' = buf /\ junk' = junk /\ row' = row /\ edit' = edit
      /\ overlapped' = overlapped
      /\ Len(todo[e]) > 1 => pc' = pc /\ rows' = rows
      /\ ~(Len(todo[e]) > 1) =>
           /\ pc' = [pc EXCEPT ![e] = "idle"]
           /\ rows' = IF overlapped \/ cut' THEN rows
                      ELSE Book!Edited(rows, row[e] + 1, edit[e].op, edit[e].title, edit[e].author)
  BY DEF Book!Call, Book!Busy
<1>3. todo[e] # <<>>
  BY <1>1, <1>2, Zenon DEF Asked
<1>4. /\ todo[e] \in Seq(ACall(Book!Cell)) /\ todo[e][1] \in ACall(Book!Cell)
      /\ at' = [at EXCEPT ![e] = at'[e]]
      /\ cut' = (cut \/ Book!Contains(todo[e][1].cells, Book!Junk))
      /\ todo' = [todo EXCEPT ![e] = Tail(todo[e])]
      /\ books' \in Seq(Book!Cell) /\ at'[e] \in Nat
  BY <1>1, <1>3, CallMakes
<1>5. /\ todo'[e] = Tail(todo[e])
      /\ \A f \in Editor : f # e => todo'[f] = todo[f] /\ at'[f] = at[f] /\ pc'[f] = pc[f]
      /\ Len(todo[e]) > 1 => pc'[e] = "write"
      /\ ~(Len(todo[e]) > 1) => pc'[e] = "idle"
  <2>1. \A f \in Editor : f # e => todo'[f] = todo[f] /\ at'[f] = at[f]
    BY <1>1, <1>4, Zenon DEF BookTypes
  <2>2. todo'[e] = Tail(todo[e])
    BY <1>1, <1>4, Zenon DEF BookTypes
  <2>3. CASE Len(todo[e]) > 1
    BY <1>2, <2>1, <2>2, <2>3
  <2>4. CASE ~(Len(todo[e]) > 1)
    <3>1. pc' = [pc EXCEPT ![e] = "idle"]
      BY <1>2, <2>4
    <3>2. pc'[e] = "idle" /\ \A f \in Editor : f # e => pc'[f] = pc[f]
      BY <1>1, <3>1 DEF BookTypes
    <3>3. QED
      BY <2>1, <2>2, <2>4, <3>2
  <2>5. QED
    BY <2>3, <2>4
<1>6. ~overlapped /\ ~cut' /\ ~(Len(todo[e]) > 1) => IsText(books', rows')
  <2>1. CASE ~overlapped /\ ~cut' /\ ~(Len(todo[e]) > 1)
    <3>1. rows' = Book!Edited(rows, row[e] + 1, edit[e].op, edit[e].title, edit[e].author)
      BY <1>2, <2>1
    <3>2. IsText(books', Book!Edited(rows, row[e] + 1, edit[e].op, edit[e].title, edit[e].author))
      BY <2>1, CallEnds
    <3>3. QED
      BY <3>1, <3>2
  <2>2. QED
    BY <2>1
<1>7. BookTypes'
  <2>1. rows' \in Seq(Books)
    <3>1. rows \in Seq(Books)
      BY <1>1 DEF BookTypes
    <3>2. rows' = rows \/ IsText(books', rows')
      BY <1>2, <1>6
    <3>3. QED
      BY <3>1, <3>2 DEF IsText
  <2>2. pc' \in [Editor -> {"idle", "read", "ask", "write", "killed"}]
    BY <1>1, <1>2 DEF BookTypes
  <2>3. Tail(todo[e]) \in Seq(ACall(Book!Cell))
    BY <1>3, <1>4, HeadTailProperties
  <2>4. todo' \in [Editor -> Seq(ACall(Book!Cell))]
    BY <1>1, <1>4, <2>3, Zenon DEF BookTypes
  <2>5. at' \in [Editor -> Nat]
    BY <1>1, <1>4, Zenon DEF BookTypes
  <2>6. cut' \in BOOLEAN
    BY <1>1, <1>4 DEF BookTypes
  <2>7. QED
    BY <1>1, <1>2, <1>4, <2>1, <2>2, <2>4, <2>5, <2>6, Zenon DEF BookTypes
<1>8. \A f \in Editor : /\ pc'[f] \in {"ask", "write"} => Book!Busy(f)
                        /\ pc'[f] = "write" => pc[f] = "write" /\ (f = e => Len(todo[e]) > 1)
  <2> SUFFICES ASSUME NEW f \in Editor
               PROVE  /\ pc'[f] \in {"ask", "write"} => Book!Busy(f)
                      /\ pc'[f] = "write" => pc[f] = "write" /\ (f = e => Len(todo[e]) > 1)
      OBVIOUS
  <2>1. CASE f = e
    BY <1>2, <1>5, <2>1
  <2>2. CASE f # e
    BY <1>5, <2>2 DEF Book!Busy
  <2>3. QED
    BY <2>1, <2>2
<1>9. Asked'
  <2>1. \A f \in Editor : pc'[f] \in {"ask", "write"} => Book!Start(row'[f], buf'[f]) \in 1..Len(buf'[f])
    BY <1>1, <1>2, <1>8, Zenon DEF Asked
  <2>2. ASSUME NEW f \in Editor, pc'[f] = "write" PROVE todo'[f] # <<>>
    <3>1. CASE f = e
      <4>1. Len(todo[e]) > 1
        BY <1>8, <2>2, <3>1
      <4>2. Tail(todo[e]) # <<>>
        BY <1>4, <4>1, TailRemains
      <4>3. QED
        BY <1>5, <3>1, <4>2
    <3>2. CASE f # e
      <4>1. todo'[f] = todo[f] /\ pc[f] = "write"
        BY <1>5, <1>8, <2>2, <3>2
      <4>2. QED
        BY <1>1, <4>1, Zenon DEF Asked
    <3>3. QED
      BY <3>1, <3>2
  <2>3. \A f \in Editor : pc'[f] = "write" => /\ edit'[f].op \in {"B", "T", "A"}
                                              /\ edit'[f].title \in Word /\ edit'[f].author \in Word
    BY <1>1, <1>2, <1>8, Zenon DEF Asked
  <2>4. QED
    BY <2>1, <2>2, <2>3, Zenon DEF Asked, Book!Busy
<1>10. OneEdits'
  <2> SUFFICES ASSUME ~overlapped' PROVE OneEdits'
      BY DEF OneEdits
  <2>1. ~overlapped
    BY <1>2
  <2>2. \A f \in Editor : f # e => /\ ~Book!Busy(f) /\ pc[f] # "read"
                                   /\ pc[f] # "ask" /\ pc[f] # "write"
    BY <1>2, <2>1, BusyIsActive, OthersRest
  <2>3. \A f \in Editor : f # e => /\ pc'[f] \notin {"ask", "write"} /\ pc'[f] # "read"
                                   /\ pc'[f] # "ask" /\ pc'[f] # "write"
    BY <1>5, <2>2 DEF Book!Busy
  <2>4. pc'[e] # "ask" /\ pc'[e] # "read" /\ (pc'[e] = "write" => Len(todo[e]) > 1)
    BY <1>5
  <2>5. PICK pl : pl = PlanOf(buf[e], row[e], junk[e], edit[e])
    OBVIOUS
  <2>6. /\ buf[e] \in Seq(Clean) /\ (Len(pl) = 3 \/ Len(pl) = 4)
        /\ \E k \in 0..Len(pl) - 1 : /\ Rest(todo[e], pl, k)
                                     /\ AtStage(k + 1, books', at'[e], buf[e], pl, Clean)
    BY <2>1, <2>5, CallAdvances
  <2>7. books' \in Seq(Clean)
    BY <2>6, Zenon DEF AtStage
  <2>8. ASSUME pc'[e] = "write"
        PROVE  UnderWay(todo'[e], books', at'[e], buf'[e], PlanOf(buf'[e], row'[e], junk'[e], edit'[e]))
    <3>1. PICK k \in 0..Len(pl) - 1 : /\ Rest(todo[e], pl, k)
                                      /\ AtStage(k + 1, books', at'[e], buf[e], pl, Clean)
      BY <2>6
    <3>2. Len(todo[e]) > 1 /\ Len(pl) \in Nat
      BY <2>4, <2>6, <2>8
    <3>3. Rest(Tail(todo[e]), pl, k + 1) /\ k + 1 \in 0..Len(pl) - 1
      BY <1>4, <3>1, <3>2, RestTail
    <3>4. UnderWay(Tail(todo[e]), books', at'[e], buf[e], pl)
      BY <3>1, <3>3, Zenon DEF UnderWay
    <3>5. PlanOf(buf'[e], row'[e], junk'[e], edit'[e]) = pl
      BY <1>2, <2>5
    <3>6. QED
      BY <1>2, <1>5, <3>4, <3>5
  <2>9. buf'[e] \in Seq(Clean)
    BY <1>2, <2>6
  <2>10. QED
    BY <2>3, <2>4, <2>7, <2>8, <2>9, Zenon DEF OneEdits, Book!Busy, Book!Active
<1>11. HasText'
  <2> SUFFICES ASSUME ~overlapped', ~cut' PROVE HasText'
      BY DEF HasText
  <2>1. ~overlapped /\ ~cut
    BY <1>2, <1>4
  <2>2. \A f \in Editor : f # e => pc'[f] \notin {"ask", "write"}
    <3>1. \A f \in Editor : f # e => ~Book!Busy(f)
      BY <1>2, <2>1, BusyIsActive, OthersRest
    <3>2. QED
      BY <1>5, <3>1 DEF Book!Busy
  <2>3. CASE Len(todo[e]) > 1
    <3>1. pc'[e] \in {"ask", "write"} /\ rows' = rows
      BY <1>2, <1>5, <2>3
    <3>2. IsText(buf[e], rows)
      BY <1>1, <1>2, <2>1, Zenon DEF HasText
    <3>3. IsText(buf'[e], rows')
      BY <1>2, <3>1, <3>2
    <3>4. QED
      BY <2>2, <3>1, <3>3, Zenon DEF HasText, Book!Busy
  <2>4. CASE ~(Len(todo[e]) > 1)
    <3>1. IsText(books', rows')
      BY <1>6, <2>1, <2>4
    <3>2. pc'[e] \notin {"ask", "write"}
      BY <1>5, <2>4
    <3>3. QED
      BY <2>2, <3>1, <3>2, Zenon DEF HasText, Book!Busy
  <2>5. QED
    BY <2>3, <2>4
<1>12. QED
  BY <1>7, <1>9, <1>10, <1>11 DEF BookInv

LEMMA BookStep ==
  ASSUME BookInv, [Book!Next]_(Book!vars)
  PROVE  BookInv'
<1>1. CASE UNCHANGED Book!vars
  BY <1>1, BookStays
<1>2. ASSUME NEW e \in Editor, NEW r \in Row, Book!Measure(e, r) PROVE BookInv'
  BY <1>2, MeasureKeeps
<1>3. ASSUME NEW e \in Editor, Book!AnswerNothing(e) PROVE BookInv'
  BY <1>3, AnswerNothingKeeps
<1>4. ASSUME NEW e \in Editor, NEW op \in {"B", "T", "A"}, NEW t \in Word, NEW x \in Word,
             Book!Answer(e, op, t, x)
      PROVE BookInv'
  BY <1>4, AnswerKeeps
<1>5. ASSUME NEW e \in Editor, Book!Call(e) PROVE BookInv'
  BY <1>5, CallKeeps
<1>6. ASSUME NEW e \in Editor, Book!Kill(e) PROVE BookInv'
  BY <1>6, KillKeeps
<1>7. ASSUME NEW e \in Editor, Book!Read(e) PROVE BookInv'
  BY <1>7, ReadKeeps
<1>8. QED
  BY <1>1, <1>2, <1>3, <1>4, <1>5, <1>6, <1>7, Zenon DEF Book!Next

(* What the invariant says of the file.                                      *)

\* No hole.
LEMMA BookHoles ==
  ASSUME BookInv
  PROVE  Book!NoHoles
<1>1. ~overlapped => books \in Seq(Clean)
  BY DEF BookInv, OneEdits
<1>2. ASSUME books \in Seq(Clean) PROVE ~Book!Contains(books, Book!NUL)
  <2>1. \A k \in 1..Len(books) : books[k] \in Clean
    BY <1>2
  <2>2. \A k \in 1..Len(books) : books[k] # Book!NUL
    BY <2>1, NoNul, Zenon
  <2>3. QED
    BY <2>2 DEF Book!Contains
<1>3. QED
  BY <1>1, <1>2, Zenon DEF Book!NoHoles

\* The rows, when nobody edits.
LEMMA BookHasRows ==
  ASSUME BookInv
  PROVE  Book!FileHasTheRows
<1>1. BookTypes /\ HasText
  BY DEF BookInv
<1>2. SUFFICES ASSUME ~overlapped, ~cut, \A e \in Editor : ~Book!Busy(e)
               PROVE  books = Book!Text(rows) \/ (rows # <<>> /\ books = Book!Front(Book!Text(rows)))
  BY Zenon DEF Book!FileHasTheRows
<1>3. IsText(books, rows)
  BY <1>1, <1>2, Zenon DEF HasText
<1>4. rows \in Seq(Books)
  BY <1>1, Zenon DEF BookTypes
<1>5. QED
  BY <1>3, <1>4, TextIs

\* What the file begins with is a prefix of it.
LEMMA BeginsIsPrefix ==
  ASSUME NEW X, NEW f \in Seq(X), NEW c \in Seq(X), NEW k \in Nat, NEW m \in 0..Len(c), k <= m,
         Begins(f, SubSeq(c, 1, m))
  PROVE  Book!IsPrefix(SubSeq(c, 1, k), f)
<1>1. /\ k \in 0..Len(c) /\ k \in 0..Len(f) /\ k \in Nat /\ Len(SubSeq(c, 1, m)) = m
      /\ \A h \in 1..k : h \in 1..m
  <2>1. Len(SubSeq(c, 1, m)) = m
    BY FrontIs
  <2>2. m <= Len(f) /\ Len(c) \in Nat /\ Len(f) \in Nat
    BY <2>1 DEF Begins
  <2>3. QED
    BY <2>1, <2>2
<1>2. PICK p : p = SubSeq(c, 1, k)
  OBVIOUS
<1>3. PICK q : q = SubSeq(f, 1, k)
  OBVIOUS
<1>4. p \in Seq(X) /\ Len(p) = k /\ \A h \in 1..k : p[h] = c[h]
  BY <1>1, <1>2, FrontIs
<1>5. q \in Seq(X) /\ Len(q) = k /\ \A h \in 1..k : q[h] = f[h]
  BY <1>1, <1>3, FrontIs
<1>6. \A h \in 1..m : SubSeq(c, 1, m)[h] = c[h] /\ f[h] = SubSeq(c, 1, m)[h]
  BY <1>1, FrontIs DEF Begins
<1>7. \A h \in 1..k : p[h] = q[h]
  BY <1>1, <1>4, <1>5, <1>6
<1>8. p = q
  BY <1>4, <1>5, <1>7, SeqEqual
<1>9. k <= Len(f)
  BY <1>1
<1>10. Len(p) <= Len(f) /\ SubSeq(p, 1, Len(p)) = SubSeq(f, 1, Len(p))
  <2>1. SubSeq(p, 1, k) = p
    <3>1. k \in 0..Len(p)
      BY <1>1, <1>4
    <3>2. PICK y : y = SubSeq(p, 1, k)
      OBVIOUS
    <3>3. y \in Seq(X) /\ Len(y) = k /\ \A h \in 1..k : y[h] = p[h]
      BY <1>4, <3>1, <3>2, FrontIs
    <3>4. y = p
      BY <1>4, <3>3, SeqEqual
    <3>5. QED
      BY <3>2, <3>4
  <2>2. QED
    BY <1>3, <1>4, <1>8, <1>9, <2>1
<1>11. QED
  BY <1>2, <1>10 DEF Book!IsPrefix

\* The rows above an edit.
LEMMA BookAboveSurvives ==
  ASSUME BookInv
  PROVE  Book!RowsAboveSurvive
<1>1. BookTypes /\ Asked /\ OneEdits /\ HasText
  BY DEF BookInv
<1>2. SUFFICES ASSUME ~overlapped, ~cut, NEW e \in Editor, Book!Busy(e)
               PROVE  Book!IsPrefix(SubSeq(buf[e], 1, Book!Start(row[e], buf[e]) - 1), books)
  BY Zenon DEF Book!RowsAboveSurvive
<1>3. PICK s : s = Book!Start(row[e], buf[e])
  OBVIOUS
<1>4. s \in 1..Len(buf[e]) /\ buf[e] \in Seq(Clean) /\ books \in Seq(Clean) /\ IsText(buf[e], rows)
  BY <1>1, <1>2, <1>3, Zenon DEF Asked, OneEdits, HasText
<1>5. Len(buf[e]) \in Nat
  BY <1>4
<1>6. s - 1 \in Nat /\ s - 1 <= Len(buf[e]) /\ s # 0
  BY <1>4, <1>5
<1>7. CASE pc[e] = "ask"
  <2>1. books = buf[e]
    BY <1>1, <1>2, <1>7, Zenon DEF OneEdits
  <2>2. Len(buf[e]) \in 0..Len(buf[e])
    BY <1>5
  <2>3. Begins(books, SubSeq(buf[e], 1, Len(buf[e])))
    <3>1. PICK y : y = SubSeq(buf[e], 1, Len(buf[e]))
      OBVIOUS
    <3>2. Len(y) = Len(buf[e]) /\ \A h \in 1..Len(buf[e]) : y[h] = buf[e][h]
      BY <1>4, <2>2, <3>1, FrontIs
    <3>3. Begins(buf[e], y)
      BY <1>5, <3>2 DEF Begins
    <3>4. QED
      BY <2>1, <3>1, <3>3
  <2>4. Book!IsPrefix(SubSeq(buf[e], 1, s - 1), books)
    BY <1>4, <1>6, <2>2, <2>3, BeginsIsPrefix
  <2>5. QED
    BY <1>3, <2>4
<1>8. CASE pc[e] = "write"
  <2>1. PICK pl : pl = PlanOf(buf[e], row[e], junk[e], edit[e])
    OBVIOUS
  <2>2. UnderWay(todo[e], books, at[e], buf[e], pl)
    BY <1>1, <1>2, <1>8, <2>1, Zenon DEF OneEdits
  <2>3. edit[e].op \in {"B", "T", "A"} /\ edit[e].title \in Word /\ edit[e].author \in Word
    BY <1>1, <1>8, Zenon DEF Asked
  <2>4. junk[e] \in {<<>>, <<Book!Junk>>} /\ row[e] \in Nat
    BY <1>1, RowNumber DEF BookTypes
  <2>5. Planned(pl, buf[e], Clean)
    BY <1>3, <1>4, <2>1, <2>3, <2>4, NoNul, PlanIs
  <2>6. Len(pl) = 3 \/ Len(pl) = 4
    BY <2>5, Zenon DEF Planned
  <2>7. PICK k \in 0..Len(pl) - 1 : AtStage(k, books, at[e], buf[e], pl, Clean)
    BY <2>2, Zenon DEF UnderWay
  <2>8. k \in 0..Len(pl)
    BY <2>6, <2>7
  <2>9. Begins(books, SubSeq(buf[e], 1, pl[1].at)) /\ pl[1].at \in 0..Len(buf[e])
    BY <1>4, <2>5, <2>7, <2>8, FrontStays
  <2>10. pl = Book!Calls(buf[e], Book!Start(row[e], buf[e]), junk[e], edit[e].op, edit[e].title, edit[e].author)
    BY <2>1, Zenon DEF PlanOf
  <2>11. RightEnd(pl, buf[e], junk[e],
                  Book!Edited(rows, row[e] + 1, edit[e].op, edit[e].title, edit[e].author),
                  Book!Start(row[e], buf[e]) - 1)
    BY <1>3, <1>4, <1>6, <2>3, <2>4, <2>10, EndsRight
  <2>12. pl[1].at >= s - 1
    BY <1>3, <2>11, Zenon DEF RightEnd
  <2>13. s - 1 <= pl[1].at
    BY <1>6, <2>9, <2>12
  <2>14. Book!IsPrefix(SubSeq(buf[e], 1, s - 1), books)
    BY <1>4, <1>6, <2>9, <2>13, BeginsIsPrefix
  <2>15. QED
    BY <1>3, <2>14
<1>9. QED
  BY <1>2, <1>7, <1>8 DEF Book!Busy

LEMMA BookTypeRight ==
  ASSUME BookInv
  PROVE  Book!TypeOK
<1>1. BookTypes /\ Asked
  BY DEF BookInv
<1>2. \A e \in Editor : /\ pc[e] = "write" => todo[e] # <<>>
                        /\ Book!Busy(e) => Book!Start(row[e], buf[e]) \in DOMAIN buf[e]
  <2> SUFFICES ASSUME NEW e \in Editor
               PROVE  /\ pc[e] = "write" => todo[e] # <<>>
                      /\ Book!Busy(e) => Book!Start(row[e], buf[e]) \in DOMAIN buf[e]
      OBVIOUS
  <2>1. buf[e] \in Seq(Book!Cell)
    BY <1>1, Zenon DEF BookTypes
  <2>2. DOMAIN buf[e] = 1..Len(buf[e])
    BY <2>1
  <2>3. QED
    BY <1>1, <2>2, Zenon DEF Asked
<1>3. QED
  BY <1>1, <1>2, Zenon DEF BookTypes, Book!TypeOK

LEMMA BookInvRight ==
  ASSUME BookInv
  PROVE  Book!RowsAreKept
  BY BookTypeRight, BookHasRows, BookAboveSurvives, BookHoles DEF Book!RowsAreKept

=============================================================================
