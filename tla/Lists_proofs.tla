----------------------------- MODULE Lists_proofs -----------------------------
(* That the linked lists of koml and of vision implement a roster, whatever   *)
(* the addresses, the names and the grades.  First lists in general: what it  *)
(* does to the list when an address is linked first or last, or is unlinked;  *)
(* then the actions of the two programs.                                      *)
EXTENDS Lists, FiniteSets, FiniteSetTheorems, SequenceTheorems,
  WellFoundedInduction, TLAPS

-----------------------------------------------------------------------------
(* Induction, as a fact about sets.                                          *)

LEMMA SetInduction ==
  ASSUME NEW T, 0 \in T, \A k \in Nat : k \in T => k + 1 \in T
  PROVE  \A k \in Nat : k \in T
<1> SUFFICES ASSUME NEW k \in Nat, k \notin T PROVE FALSE
    OBVIOUS
<1> DEFINE D == Nat \ T
           R == OpToRel(<, Nat)
<1>1. \A x, y \in Nat : x < y => <<x, y>> \in R
  BY DEF OpToRel
<1>2. IsWellFoundedOn(R, Nat)
  BY NatLessThanWellFounded
<1>3. D \subseteq Nat /\ D # {}
  OBVIOUS
<1> HIDE DEF R
<1>4. PICK x \in D : \A y \in D : <<y, x>> \notin R
  <2> HIDE DEF D
  <2>1. QED
    BY <1>2, <1>3, WFMin
<1>5. x \in Nat /\ x # 0
  BY <1>4
<1>6. x - 1 \in Nat /\ x - 1 < x /\ (x - 1) + 1 = x
  BY <1>5
<1>7. <<x - 1, x>> \in R
  BY <1>1, <1>5, <1>6
<1>8. x - 1 \in T
  BY <1>4, <1>6, <1>7
<1>9. QED
  BY <1>4, <1>6, <1>8

\* The least of numbers.
LEMMA LeastOne ==
  ASSUME NEW X, X \subseteq Nat, X # {}
  PROVE  \E k \in X : \A j \in X : k <= j
<1> DEFINE T == {m \in Nat : (\E j \in X : j <= m) => \E k \in X : \A j \in X : k <= j}
<1>1. 0 \in T
  <2>1. \A j \in X : j \in Nat
    OBVIOUS
  <2>2. \A j \in X : 0 <= j /\ (j <= 0 => j = 0)
    BY <2>1
  <2>3. QED
    BY <2>2
<1>2. ASSUME NEW m \in Nat, m \in T PROVE m + 1 \in T
  <2> SUFFICES ASSUME NEW k \in X, k <= m + 1, ~\E j \in X : j <= m
               PROVE  \A j \in X : k <= j
      BY <1>2
  <2>1. TAKE j \in X
  <2>2. j \in Nat /\ ~(j <= m)
    OBVIOUS
  <2>3. QED
    BY <2>2
<1>3. \A m \in Nat : m \in T
  <2> HIDE DEF T
  <2>1. QED
    BY <1>1, <1>2, SetInduction
<1>4. PICK m \in X : m \in Nat
  OBVIOUS
<1>5. \E j \in X : j <= m
  BY <1>4
<1>6. QED
  BY <1>3, <1>4, <1>5

\* Two sequences with the same elements.
LEMMA SameLists ==
  ASSUME NEW X, NEW x \in Seq(X), NEW y \in Seq(X), Len(x) = Len(y),
         \A i \in 1..Len(x) : x[i] = y[i]
  PROVE  x = y
  OBVIOUS

\* What a sequence of two parts has.
LEMMA TwoParts ==
  ASSUME NEW X, NEW x \in Seq(X), NEW y \in Seq(X), NEW g, g = x \o y
  PROVE  /\ g \in Seq(X) /\ Len(g) = Len(x) + Len(y)
         /\ \A h \in 1..Len(x) : g[h] = x[h]
         /\ \A h \in 1..Len(y) : g[Len(x) + h] = y[h]
  OBVIOUS

\* An element in front.
LEMMA PushedFirst ==
  ASSUME NEW A, NEW c \in Seq(A), NEW a \in A, NEW e, e = <<a>> \o c
  PROVE  /\ e \in Seq(A) /\ Len(e) = Len(c) + 1 /\ e[1] = a
         /\ \A i \in 1..Len(c) : e[i + 1] = c[i]
         /\ \A i \in 2..Len(e) : e[i] = c[i - 1]
<1>1. PICK w : w = <<a>>
  OBVIOUS
<1>2. w \in Seq(A) /\ Len(w) = 1 /\ w[1] = a /\ e = w \o c
  BY <1>1
<1>3. /\ e \in Seq(A) /\ Len(e) = Len(w) + Len(c)
      /\ \A h \in 1..Len(w) : e[h] = w[h]
      /\ \A h \in 1..Len(c) : e[Len(w) + h] = c[h]
  BY <1>2, TwoParts
<1>4. Len(c) \in Nat
  OBVIOUS
<1>5. \A i \in 2..Len(e) : i - 1 \in 1..Len(c) /\ i = 1 + (i - 1)
  BY <1>2, <1>3, <1>4
<1>6. QED
  BY <1>2, <1>3, <1>4, <1>5

-----------------------------------------------------------------------------
(* Linked lists.                                                             *)

\* The addresses from each on, as both lists are walked.
OnFrom(A, nx) ==
  CHOOSE f : f = [s \in A \cup {0} |-> IF s = 0 THEN <<>> ELSE <<s>> \o f[nx[s]]]

\* The links lead from rt through c to the end; no other address has one.
Linked(A, nx, rt, c) ==
  /\ nx \in [A -> A \cup {0}] /\ c \in Seq(A)
  /\ \A i, j \in 1..Len(c) : c[i] = c[j] => i = j
  /\ rt = IF Len(c) = 0 THEN 0 ELSE c[1]
  /\ \A i \in 1..Len(c) : nx[c[i]] = IF i = Len(c) THEN 0 ELSE c[i + 1]
  /\ \A s \in A : (\A i \in 1..Len(c) : c[i] # s) => nx[s] = 0

\* A sequence from its i-th element on.
Rest(c, i) == [j \in 1..Len(c) - i + 1 |-> c[i + j - 1]]

LEMMA RestIs ==
  ASSUME NEW A, NEW c \in Seq(A), NEW i \in 1..Len(c)
  PROVE  Rest(c, i) = <<c[i]>> \o (IF i = Len(c) THEN <<>> ELSE Rest(c, i + 1))
<1>1. Len(c) \in Nat /\ c[i] \in A
  OBVIOUS
<1>2. PICK r : r = Rest(c, i)
  OBVIOUS
<1>3. r \in Seq(A) /\ Len(r) = Len(c) - i + 1 /\ \A j \in 1..Len(r) : r[j] = c[i + j - 1]
  BY <1>1, <1>2 DEF Rest
<1>4. CASE i = Len(c)
  <2>1. Len(r) = 1 /\ r[1] = c[i]
    BY <1>1, <1>3, <1>4
  <2>2. r = <<c[i]>>
    BY <1>1, <1>3, <2>1
  <2>3. r = <<c[i]>> \o <<>>
    BY <1>1, <2>2
  <2>4. QED
    BY <1>2, <1>4, <2>3
<1>5. CASE i # Len(c)
  <2>1. PICK q : q = Rest(c, i + 1)
    OBVIOUS
  <2>2. q \in Seq(A) /\ Len(q) = Len(c) - i /\ \A j \in 1..Len(q) : q[j] = c[i + j]
    BY <1>1, <1>5, <2>1 DEF Rest
  <2>3. PICK o : o = <<c[i]>> \o q
    OBVIOUS
  <2>4. o \in Seq(A) /\ Len(o) = 1 + Len(q) /\ o[1] = c[i] /\ \A j \in 1..Len(q) : o[j + 1] = q[j]
    <3>1. PICK a \in A : a = c[i]
      OBVIOUS
    <3>2. q \in Seq(A) /\ o = <<a>> \o q
      BY <2>2, <2>3, <3>1
    <3>3. /\ o \in Seq(A) /\ Len(o) = Len(q) + 1 /\ o[1] = a
          /\ \A j \in 1..Len(q) : o[j + 1] = q[j]
      BY <3>2, PushedFirst
    <3>4. QED
      BY <2>2, <3>1, <3>3
  <2>5. Len(o) = Len(r)
    BY <1>1, <1>3, <2>2, <2>4
  <2>6. ASSUME NEW j \in 1..Len(r) PROVE o[j] = r[j]
    <3>1. CASE j = 1
      BY <1>1, <1>3, <2>4, <3>1
    <3>2. CASE j # 1
      <4>1. j - 1 \in 1..Len(q) /\ j = (j - 1) + 1
        BY <1>1, <1>3, <2>2, <3>2
      <4>2. o[j] = q[j - 1] /\ q[j - 1] = c[i + (j - 1)]
        BY <2>2, <2>4, <4>1
      <4>3. QED
        BY <1>1, <1>3, <4>1, <4>2
    <3>3. QED
      BY <3>1, <3>2
  <2>7. o = r
    <3>1. o \in Seq(A) /\ r \in Seq(A)
      BY <1>3, <2>4
    <3>2. QED
      BY <2>5, <2>6, <3>1, SameLists
  <2>8. QED
    BY <1>2, <1>5, <2>1, <2>3, <2>7
<1>6. QED
  BY <1>4, <1>5

\* A linked list is what is walked.
LEMMA ChainIs ==
  ASSUME NEW A, 0 \notin A, NEW nx, NEW rt, NEW c, Linked(A, nx, rt, c)
  PROVE  OnFrom(A, nx)[rt] = c
<1>1. /\ nx \in [A -> A \cup {0}] /\ c \in Seq(A)
      /\ \A i, j \in 1..Len(c) : c[i] = c[j] => i = j
      /\ rt = IF Len(c) = 0 THEN 0 ELSE c[1]
      /\ \A i \in 1..Len(c) : nx[c[i]] = IF i = Len(c) THEN 0 ELSE c[i + 1]
      /\ \A s \in A : (\A i \in 1..Len(c) : c[i] # s) => nx[s] = 0
  BY DEF Linked
<1>2. Len(c) \in Nat /\ \A i \in 1..Len(c) : c[i] \in A
  BY <1>1
<1> DEFINE At(s) == CHOOSE i \in 1..Len(c) : c[i] = s
           On(s) == \E i \in 1..Len(c) : c[i] = s
           g == [s \in A \cup {0} |-> IF s = 0 THEN <<>> ELSE IF On(s) THEN Rest(c, At(s)) ELSE <<s>>]
           Eq(f) == f = [s \in A \cup {0} |-> IF s = 0 THEN <<>> ELSE <<s>> \o f[nx[s]]]
<1>3. \A i \in 1..Len(c) : On(c[i]) /\ At(c[i]) = i
  BY <1>1
<1>4. g[0] = <<>> /\ (\A i \in 1..Len(c) : g[c[i]] = Rest(c, i))
      /\ (\A s \in A : ~On(s) => g[s] = <<s>>)
  <2> HIDE DEF At, On
  <2>1. \A i \in 1..Len(c) : c[i] # 0
    BY <1>2
  <2>2. QED
    BY <1>2, <1>3, <2>1
<1>5. ASSUME NEW s \in A PROVE g[s] = <<s>> \o g[nx[s]]
  <2> HIDE DEF g
  <2>1. CASE On(s)
    <3>1. PICK i \in 1..Len(c) : c[i] = s
      BY <2>1
    <3>2. g[s] = <<s>> \o (IF i = Len(c) THEN <<>> ELSE Rest(c, i + 1))
      BY <1>1, <1>4, <3>1, RestIs
    <3>3. CASE i = Len(c)
      BY <1>1, <1>4, <3>1, <3>2, <3>3
    <3>4. CASE i # Len(c)
      <4>1. i + 1 \in 1..Len(c) /\ nx[s] = c[i + 1]
        BY <1>1, <1>2, <3>1, <3>4
      <4>2. g[nx[s]] = Rest(c, i + 1)
        BY <1>4, <4>1
      <4>3. QED
        BY <3>2, <3>4, <4>2
    <3>5. QED
      BY <3>3, <3>4
  <2>2. CASE ~On(s)
    <3>1. nx[s] = 0 /\ g[s] = <<s>>
      BY <1>1, <1>4, <2>2
    <3>2. <<s>> \o <<>> = <<s>>
      OBVIOUS
    <3>3. QED
      BY <1>4, <3>1, <3>2
  <2>3. QED
    BY <2>1, <2>2
<1>6. Eq(g)
  <2>1. g = [s \in A \cup {0} |-> g[s]]
    OBVIOUS
  <2>2. \A s \in A \cup {0} : g[s] = IF s = 0 THEN <<>> ELSE <<s>> \o g[nx[s]]
    <3> HIDE DEF g
    <3>1. QED
      BY <1>4, <1>5
  <2> HIDE DEF g
  <2>3. QED
    BY <2>1, <2>2
<1> HIDE DEF g, Eq
<1>7. PICK f : f = OnFrom(A, nx)
  OBVIOUS
<1>8. Eq(f)
  BY <1>6, <1>7 DEF OnFrom, Eq
<1>9. f[0] = <<>> /\ \A s \in A : f[s] = <<s>> \o f[nx[s]]
  BY <1>8 DEF Eq
<1> DEFINE T == {k \in Nat : k < Len(c) => f[c[Len(c) - k]] = Rest(c, Len(c) - k)}
<1>10. 0 \in T
  <2> SUFFICES ASSUME 0 < Len(c) PROVE f[c[Len(c)]] = Rest(c, Len(c))
      BY <1>2
  <2>1. Len(c) \in 1..Len(c) /\ nx[c[Len(c)]] = 0
    BY <1>1, <1>2
  <2>2. Rest(c, Len(c)) = <<c[Len(c)]>> \o <<>>
    BY <1>1, <2>1, RestIs
  <2>3. QED
    BY <1>2, <1>9, <2>1, <2>2
<1>11. ASSUME NEW k \in Nat, k \in T PROVE k + 1 \in T
  <2> SUFFICES ASSUME k + 1 < Len(c) PROVE f[c[Len(c) - (k + 1)]] = Rest(c, Len(c) - (k + 1))
      OBVIOUS
  <2>1. PICK i : i = Len(c) - (k + 1)
    OBVIOUS
  <2>2. i \in 1..Len(c) /\ i + 1 = Len(c) - k /\ i # Len(c) /\ k < Len(c)
    BY <1>2, <2>1
  <2>3. f[c[i + 1]] = Rest(c, i + 1)
    BY <1>11, <2>2
  <2>4. f[c[i]] = <<c[i]>> \o f[c[i + 1]]
    BY <1>1, <1>2, <1>9, <2>2
  <2>5. Rest(c, i) = <<c[i]>> \o Rest(c, i + 1)
    BY <1>1, <2>2, RestIs
  <2>6. QED
    BY <2>1, <2>3, <2>4, <2>5
<1>12. \A k \in Nat : k \in T
  <2> HIDE DEF T
  <2>1. QED
    BY <1>10, <1>11, SetInduction
<1>13. CASE Len(c) = 0
  <2>1. c = <<>>
    BY <1>1, <1>13
  <2>2. QED
    BY <1>1, <1>7, <1>9, <1>13, <2>1
<1>14. CASE Len(c) # 0
  <2>1. Len(c) - 1 \in Nat /\ Len(c) - 1 < Len(c) /\ Len(c) - (Len(c) - 1) = 1
    BY <1>2, <1>14
  <2>2. Len(c) - 1 \in T
    BY <1>12, <2>1
  <2>3. f[c[1]] = Rest(c, 1)
    BY <2>1, <2>2
  <2>4. Rest(c, 1) = c
    <3>1. PICK r : r = Rest(c, 1)
      OBVIOUS
    <3>2. r \in Seq(A) /\ Len(r) = Len(c) /\ \A j \in 1..Len(r) : r[j] = c[j]
      BY <1>1, <1>2, <3>1 DEF Rest
    <3>3. r = c
      BY <1>1, <3>2
    <3>4. QED
      BY <3>1, <3>3
  <2>5. QED
    BY <1>1, <1>7, <1>14, <2>3, <2>4
<1>15. QED
  BY <1>13, <1>14

\* The sequence without its i-th element.
Without(c, i) == SubSeq(c, 1, i - 1) \o SubSeq(c, i + 1, Len(c))

OneLess(e, c, i, X) ==
  /\ e \in Seq(X) /\ Len(e) = Len(c) - 1
  /\ \A j \in 1..i - 1 : e[j] = c[j]
  /\ \A j \in i..Len(c) - 1 : e[j] = c[j + 1]

LEMMA TakenOut ==
  ASSUME NEW X, NEW c \in Seq(X), NEW i \in 1..Len(c), NEW e, e = Without(c, i)
  PROVE  OneLess(e, c, i, X)
<1>1. Len(c) \in Nat /\ i \in Nat
  OBVIOUS
<1>2. PICK x, y : /\ e = x \o y
                  /\ x \in Seq(X) /\ Len(x) = i - 1 /\ (\A h \in 1..i - 1 : x[h] = c[h])
                  /\ y \in Seq(X) /\ Len(y) = Len(c) - i /\ \A h \in 1..Len(c) - i : y[h] = c[i + h]
  <2> DEFINE x == SubSeq(c, 1, i - 1)
             y == SubSeq(c, i + 1, Len(c))
  <2>1. x \in Seq(X) /\ Len(x) = i - 1 /\ \A h \in 1..i - 1 : x[h] = c[h]
    OBVIOUS
  <2>2. y \in Seq(X) /\ Len(y) = Len(c) - i /\ \A h \in 1..Len(c) - i : y[h] = c[i + h]
    <3>1. CASE i = Len(c)
      BY <1>1, <3>1
    <3>2. CASE i # Len(c)
      BY <1>1, <3>2
    <3>3. QED
      BY <3>1, <3>2
  <2>3. e = x \o y
    BY DEF Without
  <2> HIDE DEF x, y
  <2>4. QED
    BY <2>1, <2>2, <2>3, Zenon
<1>3. x \in Seq(X) /\ y \in Seq(X) /\ e = x \o y
  BY <1>2
<1>4. /\ e \in Seq(X) /\ Len(e) = Len(x) + Len(y)
      /\ \A h \in 1..Len(x) : e[h] = x[h]
      /\ \A h \in 1..Len(y) : e[Len(x) + h] = y[h]
  BY <1>3, TwoParts
<1>5. Len(e) = Len(c) - 1 /\ e \in Seq(X)
  BY <1>1, <1>2, <1>4
<1>6. \A j \in 1..i - 1 : e[j] = c[j]
  BY <1>2, <1>4
<1>7. \A j \in i..Len(c) - 1 : e[j] = c[j + 1]
  <2>1. TAKE j \in i..Len(c) - 1
  <2>2. PICK h \in 1..Len(c) - i : h = j - (i - 1) /\ j = (i - 1) + h /\ i + h = j + 1
    BY <1>1
  <2>3. e[(i - 1) + h] = y[h] /\ y[h] = c[i + h]
    BY <1>2, <1>4
  <2>4. QED
    BY <2>2, <2>3
<1>8. QED
  BY <1>5, <1>6, <1>7 DEF OneLess

\* A new address goes in front.
LEMMA LinkFirst ==
  ASSUME NEW A, 0 \notin A, NEW nx, NEW rt, NEW c, Linked(A, nx, rt, c),
         NEW a \in A, \A i \in 1..Len(c) : c[i] # a
  PROVE  Linked(A, [nx EXCEPT ![a] = rt], a, <<a>> \o c)
<1>1. /\ nx \in [A -> A \cup {0}] /\ c \in Seq(A)
      /\ \A i, j \in 1..Len(c) : c[i] = c[j] => i = j
      /\ rt = IF Len(c) = 0 THEN 0 ELSE c[1]
      /\ \A i \in 1..Len(c) : nx[c[i]] = IF i = Len(c) THEN 0 ELSE c[i + 1]
      /\ \A s \in A : (\A i \in 1..Len(c) : c[i] # s) => nx[s] = 0
  BY DEF Linked
<1>2. PICK e : e = <<a>> \o c
  OBVIOUS
<1>3. /\ e \in Seq(A) /\ Len(e) = Len(c) + 1 /\ e[1] = a
      /\ \A i \in 1..Len(c) : e[i + 1] = c[i]
      /\ \A i \in 2..Len(e) : e[i] = c[i - 1]
  BY <1>1, <1>2, PushedFirst
<1>4. PICK m : m = [nx EXCEPT ![a] = rt]
  OBVIOUS
<1>5. rt \in A \cup {0} /\ Len(c) \in Nat
  BY <1>1
<1>6. m \in [A -> A \cup {0}] /\ m[a] = rt /\ \A s \in A : s # a => m[s] = nx[s]
  BY <1>1, <1>4, <1>5
<1>7. \A i \in 1..Len(e) : i = 1 \/ (i - 1 \in 1..Len(c) /\ i \in 2..Len(e))
  BY <1>3, <1>5
<1>8. \A i, j \in 1..Len(e) : e[i] = e[j] => i = j
  <2>1. TAKE i, j \in 1..Len(e)
  <2>2. HAVE e[i] = e[j]
  <2>3. CASE i = 1 \/ j = 1
    BY <1>3, <1>7, <2>2, <2>3
  <2>4. CASE i # 1 /\ j # 1
    <3>1. i - 1 \in 1..Len(c) /\ j - 1 \in 1..Len(c) /\ c[i - 1] = c[j - 1]
      BY <1>3, <1>7, <2>2, <2>4
    <3>2. i - 1 = j - 1
      BY <1>1, <3>1
    <3>3. QED
      BY <3>2
  <2>5. QED
    BY <2>3, <2>4
<1>9. \A i \in 1..Len(e) : m[e[i]] = IF i = Len(e) THEN 0 ELSE e[i + 1]
  <2>1. TAKE i \in 1..Len(e)
  <2>2. CASE i = 1
    <3>1. CASE Len(c) = 0
      BY <1>1, <1>3, <1>6, <2>2, <3>1
    <3>2. CASE Len(c) # 0
      <4>1. 1 \in 1..Len(c)
        BY <1>5, <3>2
      <4>2. e[1 + 1] = c[1] /\ m[e[i]] = c[1] /\ i # Len(e)
        BY <1>1, <1>3, <1>5, <1>6, <2>2, <3>2, <4>1
      <4>3. QED
        BY <2>2, <4>2
    <3>3. QED
      BY <3>1, <3>2
  <2>3. CASE i # 1
    <3>1. i - 1 \in 1..Len(c) /\ e[i] = c[i - 1] /\ c[i - 1] \in A /\ c[i - 1] # a
      BY <1>1, <1>3, <1>7, <2>3
    <3>2. m[e[i]] = nx[c[i - 1]]
      BY <1>6, <3>1
    <3>3. CASE i - 1 = Len(c)
      BY <1>1, <1>3, <1>5, <3>1, <3>2, <3>3
    <3>4. CASE i - 1 # Len(c)
      <4>1. i \in 1..Len(c) /\ i # Len(e) /\ nx[c[i - 1]] = c[i]
        BY <1>1, <1>3, <1>5, <3>1, <3>4
      <4>2. e[i + 1] = c[i]
        BY <1>3, <4>1
      <4>3. QED
        BY <3>2, <4>1, <4>2
    <3>5. QED
      BY <3>3, <3>4
  <2>4. QED
    BY <2>2, <2>3
<1>10. \A s \in A : (\A i \in 1..Len(e) : e[i] # s) => m[s] = 0
  <2>1. TAKE s \in A
  <2>2. HAVE \A i \in 1..Len(e) : e[i] # s
  <2>3. s # a
    BY <1>3, <1>5, <2>2
  <2>4. \A i \in 1..Len(c) : i + 1 \in 1..Len(e)
    BY <1>3, <1>5
  <2>5. \A i \in 1..Len(c) : c[i] # s
    BY <1>3, <2>2, <2>4
  <2>6. QED
    BY <1>1, <1>6, <2>3, <2>5
<1>11. a = IF Len(e) = 0 THEN 0 ELSE e[1]
  BY <1>3, <1>5
<1>12. Linked(A, m, a, e)
  BY <1>3, <1>6, <1>8, <1>9, <1>10, <1>11 DEF Linked
<1>13. QED
  BY <1>2, <1>4, <1>12

\* A new address goes last.
LinkedLast(nx, rt, c, a, nx2, rt2) ==
  /\ nx2 = IF rt = 0 THEN nx ELSE [nx EXCEPT ![c[Len(c)]] = a]
  /\ rt2 = IF rt = 0 THEN a ELSE rt

LEMMA LinkLast ==
  ASSUME NEW A, 0 \notin A, NEW nx, NEW rt, NEW c, Linked(A, nx, rt, c),
         NEW a \in A, \A i \in 1..Len(c) : c[i] # a,
         NEW nx2, NEW rt2, LinkedLast(nx, rt, c, a, nx2, rt2)
  PROVE  Linked(A, nx2, rt2, Append(c, a))
<1>1. /\ nx \in [A -> A \cup {0}] /\ c \in Seq(A)
      /\ \A i, j \in 1..Len(c) : c[i] = c[j] => i = j
      /\ rt = IF Len(c) = 0 THEN 0 ELSE c[1]
      /\ \A i \in 1..Len(c) : nx[c[i]] = IF i = Len(c) THEN 0 ELSE c[i + 1]
      /\ \A s \in A : (\A i \in 1..Len(c) : c[i] # s) => nx[s] = 0
  BY DEF Linked
<1>2. PICK e : e = Append(c, a)
  OBVIOUS
<1>3. /\ e \in Seq(A) /\ Len(e) = Len(c) + 1 /\ e[Len(c) + 1] = a
      /\ \A i \in 1..Len(c) : e[i] = c[i]
  BY <1>1, <1>2
<1>4. PICK m : m = IF rt = 0 THEN nx ELSE [nx EXCEPT ![c[Len(c)]] = a]
  OBVIOUS
<1>5. Len(c) \in Nat /\ (rt = 0 <=> Len(c) = 0) /\ (Len(c) # 0 => Len(c) \in 1..Len(c) /\ 1 \in 1..Len(c))
  BY <1>1
<1>6. /\ m \in [A -> A \cup {0}]
      /\ Len(c) # 0 => m[c[Len(c)]] = a
      /\ \A s \in A : Len(c) = 0 \/ s # c[Len(c)] => m[s] = nx[s]
  <2>1. CASE Len(c) = 0
    BY <1>1, <1>4, <1>5, <2>1
  <2>2. CASE Len(c) # 0
    <3>1. c[Len(c)] \in A /\ m = [nx EXCEPT ![c[Len(c)]] = a]
      BY <1>1, <1>4, <1>5, <2>2
    <3>2. QED
      BY <1>1, <2>2, <3>1
  <2>3. QED
    BY <2>1, <2>2
<1>7. \A i \in 1..Len(e) : i \in 1..Len(c) \/ (i = Len(c) + 1 /\ e[i] = a)
  BY <1>3, <1>5
<1>8. \A i, j \in 1..Len(e) : e[i] = e[j] => i = j
  BY <1>1, <1>3, <1>7
<1>9. \A i \in 1..Len(e) : m[e[i]] = IF i = Len(e) THEN 0 ELSE e[i + 1]
  <2>1. TAKE i \in 1..Len(e)
  <2>2. CASE i \in 1..Len(c) /\ i # Len(c)
    <3>1. i + 1 \in 1..Len(c) /\ c[i] \in A /\ c[i] # c[Len(c)] /\ i # Len(e)
      BY <1>1, <1>3, <1>5, <2>2
    <3>2. e[i + 1] = c[i + 1] /\ e[i] = c[i]
      BY <1>3, <2>2, <3>1
    <3>3. m[c[i]] = nx[c[i]] /\ nx[c[i]] = c[i + 1]
      BY <1>1, <1>6, <2>2, <3>1
    <3>4. QED
      BY <3>1, <3>2, <3>3
  <2>3. CASE i \in 1..Len(c) /\ i = Len(c)
    <3>1. i # Len(e) /\ e[i + 1] = a /\ e[i] = c[Len(c)] /\ Len(c) # 0
      BY <1>3, <1>5, <2>3
    <3>2. QED
      BY <1>6, <3>1
  <2>4. CASE i = Len(c) + 1
    <3>1. e[i] = a /\ i = Len(e)
      BY <1>3, <2>4
    <3>2. nx[a] = 0 /\ (Len(c) = 0 \/ a # c[Len(c)])
      BY <1>1, <1>5
    <3>3. QED
      BY <1>6, <3>1, <3>2
  <2>5. QED
    BY <1>7, <2>2, <2>3, <2>4
<1>10. \A s \in A : (\A i \in 1..Len(e) : e[i] # s) => m[s] = 0
  <2>1. TAKE s \in A
  <2>2. HAVE \A i \in 1..Len(e) : e[i] # s
  <2>3. \A i \in 1..Len(c) : i \in 1..Len(e)
    BY <1>3, <1>5
  <2>4. \A i \in 1..Len(c) : c[i] # s
    BY <1>3, <2>2, <2>3
  <2>5. QED
    BY <1>1, <1>5, <1>6, <2>4
<1>11. (IF rt = 0 THEN a ELSE rt) = IF Len(e) = 0 THEN 0 ELSE e[1]
  BY <1>1, <1>3, <1>5
<1>12. Linked(A, m, IF rt = 0 THEN a ELSE rt, e)
  BY <1>3, <1>6, <1>8, <1>9, <1>10, <1>11 DEF Linked
<1>13. QED
  BY <1>2, <1>4, <1>12 DEF LinkedLast

\* An address is unlinked.
Unlinked(A, nx, rt, s, nx2, rt2) ==
  /\ nx2 = [q \in A |-> IF q = s THEN 0 ELSE IF nx[q] = s THEN nx[s] ELSE nx[q]]
  /\ rt2 = IF s = rt THEN nx[s] ELSE rt

LEMMA Unlink ==
  ASSUME NEW A, 0 \notin A, NEW nx, NEW rt, NEW c, Linked(A, nx, rt, c), NEW i \in 1..Len(c),
         NEW nx2, NEW rt2, Unlinked(A, nx, rt, c[i], nx2, rt2)
  PROVE  Linked(A, nx2, rt2, Without(c, i))
<1>1. /\ nx \in [A -> A \cup {0}] /\ c \in Seq(A)
      /\ \A k, j \in 1..Len(c) : c[k] = c[j] => k = j
      /\ rt = IF Len(c) = 0 THEN 0 ELSE c[1]
      /\ \A k \in 1..Len(c) : nx[c[k]] = IF k = Len(c) THEN 0 ELSE c[k + 1]
      /\ \A s \in A : (\A k \in 1..Len(c) : c[k] # s) => nx[s] = 0
  BY DEF Linked
<1>2. PICK e : e = Without(c, i)
  OBVIOUS
<1>3. /\ e \in Seq(A) /\ Len(e) = Len(c) - 1
      /\ \A j \in 1..i - 1 : e[j] = c[j]
      /\ \A j \in i..Len(c) - 1 : e[j] = c[j + 1]
  <2>1. c \in Seq(A)
    BY <1>1
  <2>2. OneLess(e, c, i, A)
    BY <1>2, <2>1, TakenOut
  <2>3. QED
    BY <2>2 DEF OneLess
<1>4. PICK m : m = nx2 /\ m = [q \in A |-> IF q = c[i] THEN 0
                                      ELSE IF nx[q] = c[i] THEN nx[c[i]] ELSE nx[q]]
  BY DEF Unlinked
<1>5. Len(c) \in Nat /\ c[i] \in A /\ nx[c[i]] \in A \cup {0} /\ c[i] # 0
  BY <1>1
<1>6. /\ m \in [A -> A \cup {0}] /\ m[c[i]] = 0
      /\ \A s \in A : s # c[i] => m[s] = IF nx[s] = c[i] THEN nx[c[i]] ELSE nx[s]
  BY <1>1, <1>4, <1>5
\* Where the j-th was.
<1> DEFINE old(j) == IF j < i THEN j ELSE j + 1
<1>7. \A j \in 1..Len(e) : old(j) \in 1..Len(c) /\ old(j) # i /\ e[j] = c[old(j)] /\ (j = Len(e) => old(j) = Len(c) \/ (old(j) + 1 = i /\ i = Len(c)))
  BY <1>3, <1>5
<1>8. \A j, k \in 1..Len(e) : old(j) = old(k) => j = k
  BY <1>3, <1>5
<1>9. \A j \in 1..Len(e) : j # Len(e) => old(j + 1) = IF old(j) + 1 = i THEN i + 1 ELSE old(j) + 1
  BY <1>3, <1>5
<1>10. \A k \in 1..Len(c) : k # i => \E j \in 1..Len(e) : old(j) = k
  <2>1. TAKE k \in 1..Len(c)
  <2>2. HAVE k # i
  <2>3. CASE k < i
    <3>1. k \in 1..Len(e) /\ old(k) = k
      BY <1>3, <1>5, <2>3
    <3>2. QED
      BY <3>1
  <2>4. CASE k > i
    <3>1. k - 1 \in 1..Len(e) /\ old(k - 1) = k
      BY <1>3, <1>5, <2>4
    <3>2. QED
      BY <3>1
  <2>5. QED
    BY <2>2, <2>3, <2>4
<1>11. \A j \in 1..Len(e) : j # Len(e) => j + 1 \in 1..Len(e)
  BY <1>3, <1>5
<1> HIDE DEF old
<1>12. \A j, k \in 1..Len(e) : e[j] = e[k] => j = k
  <2>1. TAKE j, k \in 1..Len(e)
  <2>2. HAVE e[j] = e[k]
  <2>3. old(j) \in 1..Len(c) /\ old(k) \in 1..Len(c) /\ c[old(j)] = c[old(k)]
    BY <1>7, <2>2
  <2>4. old(j) = old(k)
    BY <1>1, <2>3
  <2>5. QED
    BY <1>8, <2>4
<1>13. \A j \in 1..Len(e) : m[e[j]] = IF j = Len(e) THEN 0 ELSE e[j + 1]
  <2>1. TAKE j \in 1..Len(e)
  <2>2. PICK k \in 1..Len(c) : k = old(j) /\ k # i /\ e[j] = c[k]
                               /\ (j = Len(e) => k = Len(c) \/ (k + 1 = i /\ i = Len(c)))
    BY <1>7
  <2>3. c[k] \in A /\ c[k] # c[i] /\ k \in Nat /\ i \in Nat
    BY <1>1, <2>2
  <2>4. nx[c[k]] = IF k = Len(c) THEN 0 ELSE c[k + 1]
    BY <1>1
  <2>5. CASE k = Len(c)
    <3>1. m[c[k]] = 0
      BY <1>5, <1>6, <2>3, <2>4, <2>5
    <3>2. j = Len(e)
      <4>1. SUFFICES ASSUME j # Len(e) PROVE FALSE
        OBVIOUS
      <4>2. j + 1 \in 1..Len(e)
        BY <1>11, <4>1
      <4>3. old(j + 1) = (IF k + 1 = i THEN i + 1 ELSE k + 1) /\ old(j + 1) \in 1..Len(c)
        BY <1>7, <1>9, <2>2, <4>1, <4>2
      <4>4. QED
        BY <1>5, <2>3, <2>5, <4>3
    <3>3. QED
      BY <2>2, <3>1, <3>2
  <2>6. CASE k # Len(c) /\ k + 1 = i
    <3>1. nx[c[k]] = c[i] /\ m[c[k]] = nx[c[i]]
      BY <1>6, <2>3, <2>4, <2>6
    <3>2. CASE i = Len(c)
      <4>1. m[c[k]] = 0
        BY <1>1, <3>1, <3>2
      <4>2. j = Len(e)
        <5>1. SUFFICES ASSUME j # Len(e) PROVE FALSE
          OBVIOUS
        <5>2. j + 1 \in 1..Len(e)
          BY <1>11, <5>1
        <5>3. old(j + 1) = i + 1 /\ old(j + 1) \in 1..Len(c)
          BY <1>7, <1>9, <2>2, <2>6, <5>1, <5>2
        <5>4. QED
          BY <1>5, <2>3, <3>2, <5>3
      <4>3. QED
        BY <2>2, <4>1, <4>2
    <3>3. CASE i # Len(c)
      <4>1. m[c[k]] = c[i + 1] /\ j # Len(e)
        BY <1>1, <1>5, <2>2, <2>6, <3>1, <3>3
      <4>2. j + 1 \in 1..Len(e) /\ old(j + 1) = i + 1
        BY <1>9, <1>11, <2>2, <2>6, <4>1
      <4>3. e[j + 1] = c[i + 1]
        BY <1>7, <4>2
      <4>4. QED
        BY <2>2, <4>1, <4>3
    <3>4. QED
      BY <3>2, <3>3
  <2>7. CASE k # Len(c) /\ k + 1 # i
    <3>1. k + 1 \in 1..Len(c) /\ nx[c[k]] = c[k + 1]
      BY <1>5, <2>3, <2>4, <2>7
    <3>2. c[k + 1] # c[i]
      BY <1>1, <2>7, <3>1
    <3>3. m[c[k]] = c[k + 1] /\ j # Len(e)
      BY <1>6, <2>2, <2>3, <2>7, <3>1, <3>2
    <3>4. j + 1 \in 1..Len(e) /\ old(j + 1) = k + 1
      BY <1>9, <1>11, <2>2, <2>7, <3>3
    <3>5. e[j + 1] = c[k + 1]
      BY <1>7, <3>4
    <3>6. QED
      BY <2>2, <3>3, <3>5
  <2>8. QED
    BY <2>5, <2>6, <2>7
<1>14. \A s \in A : (\A j \in 1..Len(e) : e[j] # s) => m[s] = 0
  <2>1. TAKE s \in A
  <2>2. HAVE \A j \in 1..Len(e) : e[j] # s
  <2>3. CASE s = c[i]
    BY <1>6, <2>3
  <2>4. CASE s # c[i]
    <3>1. \A k \in 1..Len(c) : c[k] # s
      BY <1>7, <1>10, <2>2, <2>4
    <3>2. nx[s] = 0
      BY <1>1, <3>1
    <3>3. QED
      BY <1>5, <1>6, <2>4, <3>2
  <2>5. QED
    BY <2>3, <2>4
<1>15. (IF c[i] = rt THEN nx[c[i]] ELSE rt) = IF Len(e) = 0 THEN 0 ELSE e[1]
  <2>1. Len(c) # 0 /\ rt = c[1] /\ 1 \in 1..Len(c)
    BY <1>1, <1>5
  <2>2. c[i] = rt <=> i = 1
    BY <1>1, <2>1
  <2>3. CASE i = 1
    <3>1. CASE Len(c) = 1
      BY <1>1, <1>3, <2>1, <2>2, <2>3, <3>1
    <3>2. CASE Len(c) # 1
      <4>1. Len(e) # 0 /\ 1 \in i..Len(c) - 1 /\ e[1] = c[1 + 1]
        BY <1>3, <1>5, <2>1, <2>3, <3>2
      <4>2. nx[c[1]] = c[1 + 1]
        BY <1>1, <2>1, <3>2
      <4>3. QED
        BY <2>2, <2>3, <4>1, <4>2
    <3>3. QED
      BY <3>1, <3>2
  <2>4. CASE i # 1
    <3>1. 1 \in 1..i - 1 /\ Len(e) # 0
      BY <1>3, <1>5, <2>4
    <3>2. e[1] = c[1]
      BY <1>3, <3>1
    <3>3. QED
      BY <2>1, <2>2, <2>4, <3>1, <3>2
  <2>5. QED
    BY <2>3, <2>4
<1>16. Linked(A, m, IF c[i] = rt THEN nx[c[i]] ELSE rt, e)
  BY <1>3, <1>6, <1>12, <1>13, <1>14, <1>15 DEF Linked
<1>17. QED
  BY <1>2, <1>4, <1>16 DEF Unlinked

\* Whoever else was there is left.
Once(c) == \A j, k \in 1..Len(c) : c[j] = c[k] => j = k
\* t is on the list c.
IsOn(c, t) == \E j \in 1..Len(c) : c[j] = t

\* Without one, those on the list are the others.
LEMMA OthersLeft ==
  ASSUME NEW A, NEW c \in Seq(A), Once(c), NEW i \in 1..Len(c), NEW e, OneLess(e, c, i, A), NEW t
  PROVE  IsOn(e, t) <=> t # c[i] /\ IsOn(c, t)
<1>1. /\ Len(e) = Len(c) - 1 /\ Len(c) \in Nat /\ i \in Nat
      /\ \A j \in 1..i - 1 : e[j] = c[j]
      /\ \A j \in i..Len(c) - 1 : e[j] = c[j + 1]
  BY DEF OneLess
<1>2. ASSUME NEW j \in 1..Len(e), e[j] = t
      PROVE  t # c[i] /\ \E k \in 1..Len(c) : c[k] = t
  <2>1. CASE j < i
    <3>1. j \in 1..i - 1 /\ j \in 1..Len(c) /\ j # i
      BY <1>1, <2>1
    <3>2. c[j] = t
      BY <1>1, <1>2, <3>1
    <3>3. QED
      BY <3>1, <3>2 DEF Once
  <2>2. CASE ~(j < i)
    <3>1. j \in i..Len(c) - 1 /\ j + 1 \in 1..Len(c) /\ j + 1 # i
      BY <1>1, <2>2
    <3>2. c[j + 1] = t
      BY <1>1, <1>2, <3>1
    <3>3. QED
      BY <3>1, <3>2 DEF Once
  <2>3. QED
    BY <2>1, <2>2
<1>3. ASSUME NEW k \in 1..Len(c), c[k] = t, t # c[i]
      PROVE  \E j \in 1..Len(e) : e[j] = t
  <2>1. CASE k < i
    <3>1. k \in 1..i - 1 /\ k \in 1..Len(e)
      BY <1>1, <2>1
    <3>2. QED
      BY <1>1, <1>3, <3>1
  <2>2. CASE ~(k < i)
    <3>1. k # i
      BY <1>3
    <3>2. k - 1 \in i..Len(c) - 1 /\ k - 1 \in 1..Len(e) /\ (k - 1) + 1 = k
      BY <1>1, <2>2, <3>1
    <3>3. e[k - 1] = t
      BY <1>1, <1>3, <3>2
    <3>4. QED
      BY <3>2, <3>3
  <2>3. QED
    BY <2>1, <2>2
<1>4. QED
  BY <1>2, <1>3 DEF IsOn

\* What the function r has at the addresses c, and what a change of either
\* makes of it.
Maps(f, A, B) == f \in [A -> B]
Map(c, r) == [i \in DOMAIN c |-> r[c[i]]]

IsMap(l, c, r, R) == l \in Seq(R) /\ Len(l) = Len(c) /\ \A i \in 1..Len(c) : l[i] = r[c[i]]

LEMMA MapIs ==
  ASSUME NEW A, NEW R, NEW c \in Seq(A), NEW r, Maps(r, A, R), NEW l, l = Map(c, r)
  PROVE  IsMap(l, c, r, R)
<1>1. PICK n \in Nat : n = Len(c)
  OBVIOUS
<1>2. l = [i \in 1..n |-> r[c[i]]]
  BY <1>1 DEF Map
<1>3. \A i \in 1..n : r[c[i]] \in R
  BY <1>1 DEF Maps
<1>4. l \in [1..n -> R]
  BY <1>2, <1>3
<1>5. l \in Seq(R) /\ Len(l) = n
  BY <1>4
<1>6. QED
  BY <1>1, <1>2, <1>5 DEF IsMap

\* e is c with a in front, or at its end.
Pushed(e, a, c) == e = <<a>> \o c
Appended(e, c, a) == e = Append(c, a)

\* The functions have the same at the addresses c but the i-th.
AgreeBut(c, i, r, r2) == \A j \in 1..Len(c) : j # i => r2[c[j]] = r[c[j]]

\* What changes with the addresses c.
LEMMA MapFirst ==
  ASSUME NEW A, NEW R, NEW c \in Seq(A), NEW a \in A, NEW r, NEW r2,
         Maps(r, A, R), Maps(r2, A, R),
         AgreeBut(c, 0, r, r2), NEW e, Pushed(e, a, c)
  PROVE  Pushed(Map(e, r2), r2[a], Map(c, r))
<1>1. e = <<a>> \o c
  BY DEF Pushed
<1>2. /\ e \in Seq(A) /\ Len(e) = Len(c) + 1 /\ e[1] = a
      /\ \A i \in 1..Len(c) : e[i + 1] = c[i]
      /\ \A i \in 2..Len(e) : e[i] = c[i - 1]
  BY <1>1, PushedFirst
<1>3. PICK l : l = Map(c, r)
  OBVIOUS
<1>4. l \in Seq(R) /\ Len(l) = Len(c) /\ \A i \in 1..Len(c) : l[i] = r[c[i]]
  <2>1. IsMap(l, c, r, R)
    BY <1>3, MapIs
  <2>2. QED
    BY <2>1 DEF IsMap
<1>5. PICK m : m = Map(e, r2)
  OBVIOUS
<1>6. m \in Seq(R) /\ Len(m) = Len(e) /\ \A i \in 1..Len(e) : m[i] = r2[e[i]]
  <2>1. e \in Seq(A)
    BY <1>2
  <2>2. IsMap(m, e, r2, R)
    BY <1>5, <2>1, MapIs
  <2>3. QED
    BY <2>2 DEF IsMap
<1>7. PICK b \in R : b = r2[a]
  BY DEF Maps
<1>8. PICK o : o = <<b>> \o l
  OBVIOUS
<1>9. /\ o \in Seq(R) /\ Len(o) = Len(l) + 1 /\ o[1] = b
      /\ \A i \in 2..Len(o) : o[i] = l[i - 1]
  <2>1. l \in Seq(R)
    BY <1>4
  <2>2. QED
    BY <1>8, <2>1, PushedFirst
<1>10. \A i \in 1..Len(m) : m[i] = o[i]
  <2>1. TAKE i \in 1..Len(m)
  <2>2. Len(c) \in Nat
    OBVIOUS
  <2>3. CASE i = 1
    BY <1>2, <1>6, <1>7, <1>9, <2>2, <2>3
  <2>4. CASE i # 1
    <3>1. i - 1 \in 1..Len(c) /\ i \in 2..Len(e) /\ i \in 2..Len(o) /\ i \in 1..Len(e)
      BY <1>2, <1>4, <1>6, <1>9, <2>2, <2>4
    <3>2. m[i] = r2[c[i - 1]] /\ o[i] = r[c[i - 1]]
      BY <1>2, <1>4, <1>6, <1>9, <3>1
    <3>3. QED
      BY <3>1, <3>2 DEF AgreeBut
  <2>5. QED
    BY <2>3, <2>4
<1>11. m \in Seq(R) /\ o \in Seq(R) /\ Len(m) = Len(o)
  BY <1>2, <1>4, <1>6, <1>9
<1>12. m = o
  BY <1>10, <1>11, SameLists
<1>13. QED
  BY <1>1, <1>3, <1>5, <1>7, <1>8, <1>12 DEF Pushed

LEMMA MapLast ==
  ASSUME NEW A, NEW R, NEW c \in Seq(A), NEW a \in A, NEW r, NEW r2,
         Maps(r, A, R), Maps(r2, A, R),
         AgreeBut(c, 0, r, r2), NEW e, Appended(e, c, a)
  PROVE  Appended(Map(e, r2), Map(c, r), r2[a])
<1>1. e = Append(c, a)
  BY DEF Appended
<1>2. /\ e \in Seq(A) /\ Len(e) = Len(c) + 1 /\ e[Len(c) + 1] = a
      /\ \A i \in 1..Len(c) : e[i] = c[i]
  BY <1>1
<1>3. PICK l : l = Map(c, r)
  OBVIOUS
<1>4. l \in Seq(R) /\ Len(l) = Len(c) /\ \A i \in 1..Len(c) : l[i] = r[c[i]]
  <2>1. IsMap(l, c, r, R)
    BY <1>3, MapIs
  <2>2. QED
    BY <2>1 DEF IsMap
<1>5. PICK m : m = Map(e, r2)
  OBVIOUS
<1>6. m \in Seq(R) /\ Len(m) = Len(e) /\ \A i \in 1..Len(e) : m[i] = r2[e[i]]
  <2>1. e \in Seq(A)
    BY <1>2
  <2>2. IsMap(m, e, r2, R)
    BY <1>5, <2>1, MapIs
  <2>3. QED
    BY <2>2 DEF IsMap
<1>7. PICK b \in R : b = r2[a]
  BY DEF Maps
<1>8. PICK o : o = Append(l, b)
  OBVIOUS
<1>9. /\ o \in Seq(R) /\ Len(o) = Len(l) + 1 /\ o[Len(l) + 1] = b
      /\ \A i \in 1..Len(l) : o[i] = l[i]
  BY <1>4, <1>8
<1>10. \A i \in 1..Len(m) : m[i] = o[i]
  <2>1. TAKE i \in 1..Len(m)
  <2>2. Len(c) \in Nat
    OBVIOUS
  <2>3. CASE i = Len(c) + 1
    BY <1>2, <1>4, <1>6, <1>7, <1>9, <2>2, <2>3
  <2>4. CASE i # Len(c) + 1
    <3>1. i \in 1..Len(c) /\ i \in 1..Len(l) /\ i \in 1..Len(e)
      BY <1>2, <1>4, <1>6, <2>2, <2>4
    <3>2. m[i] = r2[c[i]] /\ o[i] = r[c[i]]
      BY <1>2, <1>4, <1>6, <1>9, <3>1
    <3>3. QED
      BY <3>1, <3>2 DEF AgreeBut
  <2>5. QED
    BY <2>3, <2>4
<1>11. m \in Seq(R) /\ o \in Seq(R) /\ Len(m) = Len(o)
  BY <1>2, <1>4, <1>6, <1>9
<1>12. m = o
  BY <1>10, <1>11, SameLists
<1>13. QED
  BY <1>1, <1>3, <1>5, <1>7, <1>8, <1>12 DEF Appended

LEMMA MapWithout ==
  ASSUME NEW A, NEW R, NEW c \in Seq(A), NEW i \in 1..Len(c), NEW r, NEW r2,
         Maps(r, A, R), Maps(r2, A, R), AgreeBut(c, i, r, r2),
         NEW e, e = Without(c, i)
  PROVE  Map(e, r2) = Without(Map(c, r), i)
<1>1. e = Without(c, i)
  OBVIOUS
<1>2. /\ e \in Seq(A) /\ Len(e) = Len(c) - 1
      /\ \A j \in 1..i - 1 : e[j] = c[j]
      /\ \A j \in i..Len(c) - 1 : e[j] = c[j + 1]
  BY <1>1, TakenOut DEF OneLess
<1>3. PICK l : l = Map(c, r)
  OBVIOUS
<1>4. l \in Seq(R) /\ Len(l) = Len(c) /\ \A j \in 1..Len(c) : l[j] = r[c[j]]
  <2>1. IsMap(l, c, r, R)
    BY <1>3, MapIs
  <2>2. QED
    BY <2>1 DEF IsMap
<1>5. PICK m : m = Map(e, r2)
  OBVIOUS
<1>6. m \in Seq(R) /\ Len(m) = Len(e) /\ \A j \in 1..Len(e) : m[j] = r2[e[j]]
  <2>1. e \in Seq(A)
    BY <1>2
  <2>2. IsMap(m, e, r2, R)
    BY <1>5, <2>1, MapIs
  <2>3. QED
    BY <2>2 DEF IsMap
<1>7. PICK o : o = Without(l, i)
  OBVIOUS
<1>8. /\ o \in Seq(R) /\ Len(o) = Len(l) - 1
      /\ \A j \in 1..i - 1 : o[j] = l[j]
      /\ \A j \in i..Len(l) - 1 : o[j] = l[j + 1]
  <2>1. i \in 1..Len(l) /\ l \in Seq(R)
    BY <1>4
  <2>2. OneLess(o, l, i, R)
    BY <1>7, <2>1, TakenOut
  <2>3. QED
    BY <2>2 DEF OneLess
<1>9. \A j \in 1..Len(m) : m[j] = o[j]
  <2>1. TAKE j \in 1..Len(m)
  <2>2. Len(c) \in Nat /\ i \in Nat
    OBVIOUS
  <2>3. CASE j < i
    <3>1. j \in 1..i - 1 /\ j \in 1..Len(c) /\ j # i /\ j \in 1..Len(e)
      BY <1>2, <1>6, <2>2, <2>3
    <3>2. m[j] = r2[c[j]] /\ o[j] = r[c[j]]
      BY <1>2, <1>4, <1>6, <1>8, <3>1
    <3>3. QED
      BY <3>1, <3>2 DEF AgreeBut
  <2>4. CASE ~(j < i)
    <3>1. /\ j \in i..Len(c) - 1 /\ j \in i..Len(l) - 1 /\ j + 1 \in 1..Len(c) /\ j + 1 # i
          /\ j \in 1..Len(e)
      BY <1>2, <1>4, <1>6, <2>2, <2>4
    <3>2. m[j] = r2[c[j + 1]] /\ o[j] = r[c[j + 1]]
      BY <1>2, <1>4, <1>6, <1>8, <3>1
    <3>3. QED
      BY <3>1, <3>2 DEF AgreeBut
  <2>5. QED
    BY <2>3, <2>4
<1>10. m \in Seq(R) /\ o \in Seq(R) /\ Len(m) = Len(o)
  BY <1>2, <1>4, <1>6, <1>8
<1>11. m = o
  BY <1>9, <1>10, SameLists
<1>12. QED
  BY <1>1, <1>3, <1>5, <1>7, <1>11

ChangedAt(m, l, i, b) == m = [l EXCEPT ![i] = b]

LEMMA MapAt ==
  ASSUME NEW A, NEW R, NEW c \in Seq(A), NEW i \in 1..Len(c), NEW r, NEW r2,
         Maps(r, A, R), Maps(r2, A, R), AgreeBut(c, i, r, r2)
  PROVE  ChangedAt(Map(c, r2), Map(c, r), i, r2[c[i]])
<1>1. PICK n \in Nat : n = Len(c)
  OBVIOUS
<1>2. DOMAIN c = 1..n
  BY <1>1
<1>3. Map(c, r2) = [j \in 1..n |-> r2[c[j]]] /\ Map(c, r) = [j \in 1..n |-> r[c[j]]]
  BY <1>2 DEF Map
<1>4. \A j \in 1..n : r2[c[j]] = IF j = i THEN r2[c[i]] ELSE r[c[j]]
  BY <1>1 DEF AgreeBut
<1>5. PICK l : l = Map(c, r)
  OBVIOUS
<1>6. PICK b : b = r2[c[i]]
  OBVIOUS
<1>7. [l EXCEPT ![i] = b] = [j \in 1..n |-> IF j = i THEN b ELSE r[c[j]]]
  BY <1>3, <1>5
<1>8. Map(c, r2) = [j \in 1..n |-> IF j = i THEN b ELSE r[c[j]]]
  BY <1>3, <1>4, <1>6
<1>9. QED
  BY <1>5, <1>6, <1>7, <1>8 DEF ChangedAt

\* The entries of the addresses c, of which k are the keys and g the grades.
Rec(A, k, g) == [s \in A |-> [key |-> k[s], grade |-> g[s]]]

LEMMA EntriesAre ==
  ASSUME NEW A, NEW c \in Seq(A), NEW k, NEW g
  PROVE  [i \in DOMAIN c |-> [key |-> k[c[i]], grade |-> g[c[i]]]] = Map(c, Rec(A, k, g))
<1>1. \A i \in DOMAIN c : c[i] \in A
  OBVIOUS
<1>2. QED
  BY <1>1 DEF Map, Rec

Entries(K, G) == [key : K, grade : G]

LEMMA RecIs ==
  ASSUME NEW A, NEW K, NEW G, NEW k, NEW g, Maps(k, A, K), Maps(g, A, G),
         NEW r, r = Rec(A, k, g)
  PROVE  Maps(r, A, Entries(K, G)) /\ \A s \in A : r[s] = [key |-> k[s], grade |-> g[s]]
BY DEF Rec, Entries, Maps

\* Records that agree but for the i-th.
LEMMA RecsAgree ==
  ASSUME NEW A, NEW c \in Seq(A), NEW i, NEW k, NEW g, NEW k2, NEW g2,
         AgreeBut(c, i, k, k2), AgreeBut(c, i, g, g2)
  PROVE  AgreeBut(c, i, Rec(A, k, g), Rec(A, k2, g2))
<1>1. ASSUME NEW j \in 1..Len(c), j # i PROVE Rec(A, k2, g2)[c[j]] = Rec(A, k, g)[c[j]]
  <2>1. PICK s \in A : s = c[j]
    OBVIOUS
  <2>2. k2[s] = k[s] /\ g2[s] = g[s]
    BY <1>1, <2>1 DEF AgreeBut
  <2>3. /\ Rec(A, k, g)[s] = [key |-> k[s], grade |-> g[s]]
        /\ Rec(A, k2, g2)[s] = [key |-> k2[s], grade |-> g2[s]]
    BY DEF Rec
  <2>4. QED
    BY <2>1, <2>2, <2>3
<1>2. QED
  BY <1>1 DEF AgreeBut

\* The i-th of the addresses is the first one with the key n.
FirstWith(c, i, k, n) ==
  i \in 1..Len(c) /\ k[c[i]] = n /\ \A j \in 1..i - 1 : k[c[j]] # n

\* Then so is its entry.
LEMMA FirstEntry ==
  ASSUME NEW A, NEW c \in Seq(A), NEW i, NEW n, NEW K, NEW G, NEW k, NEW g,
         Maps(k, A, K), Maps(g, A, G), FirstWith(c, i, k, n),
         NEW r, r = Rec(A, k, g), NEW l, l = Map(c, r)
  PROVE  i \in DOMAIN l /\ l[i].key = n /\ \A j \in 1..i - 1 : l[j].key # n
<1>1. Maps(r, A, Entries(K, G)) /\ \A s \in A : r[s] = [key |-> k[s], grade |-> g[s]]
  BY RecIs
<1>2. IsMap(l, c, r, Entries(K, G))
  BY <1>1, MapIs
<1>3. Len(l) = Len(c) /\ DOMAIN l = 1..Len(c) /\ \A j \in 1..Len(c) : l[j] = r[c[j]]
  BY <1>2 DEF IsMap
<1>4. ASSUME NEW j \in 1..Len(c) PROVE l[j].key = k[c[j]]
  <2>1. PICK s \in A : s = c[j]
    OBVIOUS
  <2>2. l[j] = [key |-> k[s], grade |-> g[s]]
    BY <1>1, <1>3, <2>1
  <2>3. QED
    BY <2>1, <2>2
<1>5. i \in 1..Len(c) /\ \A j \in 1..i - 1 : j \in 1..Len(c)
  BY DEF FirstWith
<1>6. QED
  BY <1>3, <1>4, <1>5 DEF FirstWith

-----------------------------------------------------------------------------
(* koml: the list of students by name.                                       *)

LEMMA KomlConstants == Student \subseteq Nat \ {0} /\ 0 \notin Student /\ 0 \notin Name
BY ListsAssumption DEF Koml!KomlAssumption, Koml!nullptr

\* Those in use are on the chain, which the links make of them.
KomlInv ==
  /\ Koml!TypeOK
  /\ Linked(Student, next, root, Koml!Chain)
  /\ \A s \in Student : name[s] # 0 <=> \E i \in 1..Len(Koml!Chain) : Koml!Chain[i] = s

LEMMA KomlChain ==
  ASSUME NEW c, Linked(Student, next, root, c)
  PROVE  Koml!Chain = c
<1>1. OnFrom(Student, next)[root] = c
  BY KomlConstants, ChainIs
<1>2. QED
  BY <1>1 DEF Koml!Chain, Koml!From, OnFrom, Koml!Pointer, Koml!nullptr

LEMMA KomlChainNext ==
  ASSUME NEW c, Linked(Student, next', root', c)
  PROVE  Koml!Chain' = c
<1>1. OnFrom(Student, next')[root'] = c
  BY KomlConstants, ChainIs
<1>2. QED
  BY <1>1 DEF Koml!Chain, Koml!From, OnFrom, Koml!Pointer, Koml!nullptr

\* The program starts with an empty list.
LEMMA KomlStart == Koml!Init => KomlInv /\ Koml!R!Init
<1> SUFFICES ASSUME Koml!Init PROVE KomlInv /\ Koml!R!Init
    OBVIOUS
<1>1. /\ root = 0 /\ name = [s \in Student |-> 0] /\ grade = [s \in Student |-> 0]
      /\ next = [s \in Student |-> 0] /\ wild = FALSE
  BY DEF Koml!Init, Koml!nullptr
<1>2. PICK c : c = <<>>
  OBVIOUS
<1>3. c \in Seq(Student) /\ Len(c) = 0 /\ \A i : i \notin 1..Len(c)
  BY <1>2
<1>4. next \in [Student -> Student \cup {0}] /\ \A s \in Student : next[s] = 0
  BY <1>1
<1>5. Linked(Student, next, root, c)
  BY <1>1, <1>3, <1>4 DEF Linked
<1>6. Koml!Chain = c
  BY <1>5, KomlChain
<1>7. Koml!TypeOK
  BY <1>1 DEF Koml!TypeOK, Koml!Pointer, Koml!nullptr
<1>8. KomlInv
  <2>1. \A s \in Student : name[s] = 0
    BY <1>1
  <2>2. QED
    BY <1>3, <1>5, <1>6, <1>7, <2>1 DEF KomlInv
<1>9. Koml!R!Init
  <2>1. [i \in DOMAIN c |-> [key |-> name[c[i]], grade |-> grade[c[i]]]] = <<>>
    BY <1>2
  <2>2. QED
    BY <1>1, <1>6, <2>1 DEF Koml!R!Init
<1>10. QED
  BY <1>8, <1>9

\* There is an address for one more.
LEMMA KomlFree ==
  ASSUME Koml!Used # Student
  PROVE  /\ Koml!Min(Student \ Koml!Used) \in Student
         /\ name[Koml!Min(Student \ Koml!Used)] = 0
<1> DEFINE X == Student \ Koml!Used
<1>1. X \subseteq Nat /\ X # {}
  BY KomlConstants DEF Koml!Used
<1>2. \E k \in X : \A j \in X : k <= j
  <2> HIDE DEF X
  <2>1. QED
    BY <1>1, LeastOne
<1>3. Koml!Min(X) \in X
  BY <1>2 DEF Koml!Min
<1>4. QED
  BY <1>3 DEF Koml!Used, Koml!nullptr

\* add(): the new student is linked first.
LEMMA KomlAdd ==
  ASSUME KomlInv, NEW n \in Name, NEW g \in Grade, Koml!Add(n, g)
  PROVE  KomlInv' /\ Koml!R!AddFirst([key |-> n, grade |-> g])
<1>1. PICK a : a = Koml!Min(Student \ Koml!Used)
  OBVIOUS
<1>2. a \in Student /\ name[a] = 0
  BY <1>1, KomlFree DEF Koml!Add
<1>3. /\ root' = a /\ name' = [name EXCEPT ![a] = n] /\ grade' = [grade EXCEPT ![a] = g]
      /\ next' = [next EXCEPT ![a] = root] /\ wild' = wild
  BY <1>1 DEF Koml!Add
<1>4. PICK c : c = Koml!Chain
  OBVIOUS
<1>5. /\ Linked(Student, next, root, c) /\ c \in Seq(Student)
      /\ \A s \in Student : name[s] # 0 <=> \E i \in 1..Len(c) : c[i] = s
  BY <1>4 DEF KomlInv, Linked
<1>6. \A i \in 1..Len(c) : c[i] # a
  BY <1>2, <1>5
<1>7. PICK e : e = <<a>> \o c
  OBVIOUS
<1>8. Linked(Student, next', root', e)
  <2>1. Linked(Student, [next EXCEPT ![a] = root], a, <<a>> \o c)
    BY <1>2, <1>5, <1>6, KomlConstants, LinkFirst
  <2>2. QED
    BY <1>3, <1>7, <2>1
<1>9. Koml!Chain' = e
  BY <1>8, KomlChainNext
<1>10. /\ e \in Seq(Student) /\ Len(e) = Len(c) + 1 /\ e[1] = a
       /\ \A i \in 1..Len(c) : e[i + 1] = c[i]
       /\ \A i \in 2..Len(e) : e[i] = c[i - 1]
  BY <1>2, <1>5, <1>7, PushedFirst
<1>11. /\ name \in [Student -> Name \cup {0}] /\ grade \in [Student -> Grade \cup {0}]
       /\ name' \in [Student -> Name \cup {0}] /\ grade' \in [Student -> Grade \cup {0}]
  BY <1>3 DEF KomlInv, Koml!TypeOK, Koml!nullptr
<1>12. Koml!TypeOK'
  <2>1. next' \in [Student -> Koml!Pointer] /\ root' \in Koml!Pointer
    BY <1>2, <1>3 DEF KomlInv, Koml!TypeOK, Koml!Pointer, Koml!nullptr
  <2>2. wild' \in BOOLEAN
    BY <1>3 DEF KomlInv, Koml!TypeOK
  <2>3. QED
    BY <1>11, <2>1, <2>2 DEF Koml!TypeOK, Koml!Pointer, Koml!nullptr
<1>13. \A s \in Student : name'[s] # 0 <=> \E i \in 1..Len(e) : e[i] = s
  <2>1. TAKE s \in Student
  <2>2. Len(c) \in Nat
    BY <1>5
  <2>3. CASE s = a
    <3>1. 1 \in 1..Len(e) /\ name'[a] = n /\ n # 0
      BY <1>2, <1>3, <1>10, <1>11, <2>2, KomlConstants
    <3>2. QED
      BY <1>10, <2>3, <3>1
  <2>4. CASE s # a
    <3>1. name'[s] = name[s]
      BY <1>3, <1>11, <2>4
    <3>2. ASSUME NEW i \in 1..Len(c), c[i] = s PROVE \E j \in 1..Len(e) : e[j] = s
      <4>1. i + 1 \in 1..Len(e) /\ e[i + 1] = s
        BY <1>10, <2>2, <3>2
      <4>2. QED
        BY <4>1
    <3>3. ASSUME NEW j \in 1..Len(e), e[j] = s PROVE \E i \in 1..Len(c) : c[i] = s
      <4>1. j # 1
        BY <1>10, <2>4, <3>3
      <4>2. j \in 2..Len(e) /\ j - 1 \in 1..Len(c)
        BY <1>10, <2>2, <4>1
      <4>3. c[j - 1] = s
        BY <1>10, <3>3, <4>2
      <4>4. QED
        BY <4>2, <4>3
    <3>4. QED
      BY <1>5, <3>1, <3>2, <3>3
  <2>5. QED
    BY <2>3, <2>4
<1>14. KomlInv'
  BY <1>8, <1>9, <1>12, <1>13 DEF KomlInv
<1>15. PICK r, r2 : r = Rec(Student, name, grade) /\ r2 = Rec(Student, name', grade')
  OBVIOUS
<1> DEFINE RS == Entries(Name \cup {0}, Grade \cup {0})
<1>16. /\ Maps(r, Student, RS) /\ Maps(r2, Student, RS) /\ AgreeBut(c, 0, r, r2)
       /\ r2[a] = [key |-> n, grade |-> g]
  <2>1. /\ Maps(name, Student, Name \cup {0}) /\ Maps(grade, Student, Grade \cup {0})
        /\ Maps(name', Student, Name \cup {0}) /\ Maps(grade', Student, Grade \cup {0})
    BY <1>11 DEF Maps
  <2>2. AgreeBut(c, 0, name, name') /\ AgreeBut(c, 0, grade, grade')
    BY <1>3, <1>5, <1>6, <1>11 DEF AgreeBut
  <2>3. c \in Seq(Student)
    BY <1>5
  <2>4. Maps(r, Student, RS) /\ Maps(r2, Student, RS) /\ AgreeBut(c, 0, r, r2)
    <3>1. Maps(r, Student, RS)
      BY <1>15, <2>1, RecIs
    <3>2. Maps(r2, Student, RS)
      BY <1>15, <2>1, RecIs
    <3>3. AgreeBut(c, 0, r, r2)
      BY <1>15, <2>2, <2>3, RecsAgree
    <3>4. QED
      BY <3>1, <3>2, <3>3
  <2>5. r2[a] = [key |-> n, grade |-> g]
    BY <1>2, <1>3, <1>11, <1>15 DEF Rec
  <2> HIDE DEF RS
  <2>6. QED
    BY <2>4, <2>5
<1>17. Map(e, r2) = <<[key |-> n, grade |-> g]>> \o Map(c, r)
  <2>1. c \in Seq(Student) /\ a \in Student /\ Pushed(e, a, c)
    BY <1>2, <1>5, <1>7 DEF Pushed
  <2>2. Maps(r, Student, RS) /\ Maps(r2, Student, RS) /\ AgreeBut(c, 0, r, r2)
    BY <1>16
  <2> HIDE DEF RS
  <2>3. Pushed(Map(e, r2), r2[a], Map(c, r))
    BY <2>1, <2>2, MapFirst
  <2>4. QED
    BY <1>16, <2>3 DEF Pushed
<1>18. Koml!R!AddFirst([key |-> n, grade |-> g])
  <2>1. /\ [i \in DOMAIN c |-> [key |-> name[c[i]], grade |-> grade[c[i]]]] = Map(c, r)
        /\ [i \in DOMAIN e |-> [key |-> name'[e[i]], grade |-> grade'[e[i]]]] = Map(e, r2)
    BY <1>5, <1>10, <1>15, EntriesAre
  <2>2. QED
    BY <1>3, <1>4, <1>9, <1>17, <2>1 DEF Koml!R!AddFirst
<1>19. QED
  BY <1>14, <1>18

\* remove(): the first student of the name is unlinked.
LEMMA KomlRemove ==
  ASSUME KomlInv, NEW n \in Name, Koml!RemoveStudent(n), root # 0
  PROVE  KomlInv' /\ Koml!R!TakeOut(n)
<1>1. PICK s \in Student :
        /\ Koml!FirstNamed(s, n)
        /\ root' = IF s = root THEN next[s] ELSE root
        /\ name' = [name EXCEPT ![s] = 0]
        /\ grade' = [grade EXCEPT ![s] = 0]
        /\ next' = [p \in Student |-> IF p = s THEN 0
                                      ELSE IF next[p] = s THEN next[s] ELSE next[p]]
        /\ wild' = wild
  BY DEF Koml!RemoveStudent, Koml!Used, Koml!nullptr
<1>2. PICK c : c = Koml!Chain
  OBVIOUS
<1>3. /\ Linked(Student, next, root, c) /\ c \in Seq(Student)
      /\ \A i, j \in 1..Len(c) : c[i] = c[j] => i = j
      /\ \A t \in Student : name[t] # 0 <=> \E i \in 1..Len(c) : c[i] = t
  BY <1>2 DEF KomlInv, Linked
<1>4. PICK i \in 1..Len(c) : c[i] = s /\ FirstWith(c, i, name, n)
  BY <1>1, <1>2, <1>3 DEF Koml!FirstNamed, FirstWith
<1>5. PICK e : e = Without(c, i)
  OBVIOUS
<1>6. Linked(Student, next', root', e)
  <2>1. Unlinked(Student, next, root, c[i], next', root')
    BY <1>1, <1>4 DEF Unlinked
  <2>2. Linked(Student, next, root, c) /\ 0 \notin Student
    BY <1>3, KomlConstants
  <2>3. Linked(Student, next', root', Without(c, i))
    BY <2>1, <2>2, Unlink
  <2>4. QED
    BY <1>5, <2>3
<1>7. Koml!Chain' = e
  BY <1>6, KomlChainNext
<1>8. OneLess(e, c, i, Student)
  BY <1>3, <1>5, TakenOut
<1>9. /\ name \in [Student -> Name \cup {0}] /\ grade \in [Student -> Grade \cup {0}]
      /\ name' \in [Student -> Name \cup {0}] /\ grade' \in [Student -> Grade \cup {0}]
  BY <1>1 DEF KomlInv, Koml!TypeOK, Koml!nullptr
<1>10. Koml!TypeOK'
  <2>1. next' \in [Student -> Student \cup {0}] /\ root' \in Student \cup {0}
    <3>1. next \in [Student -> Student \cup {0}] /\ root \in Student \cup {0}
      BY DEF KomlInv, Koml!TypeOK, Koml!Pointer, Koml!nullptr
    <3>2. QED
      BY <1>1, <3>1
  <2>2. wild' \in BOOLEAN
    BY <1>1 DEF KomlInv, Koml!TypeOK
  <2>3. QED
    BY <1>9, <2>1, <2>2 DEF Koml!TypeOK, Koml!Pointer, Koml!nullptr
<1>11. \A t \in Student : name'[t] # 0 <=> \E j \in 1..Len(e) : e[j] = t
  <2>1. TAKE t \in Student
  <2>2. IsOn(e, t) <=> t # c[i] /\ IsOn(c, t)
    <3>1. c \in Seq(Student) /\ Once(c)
      BY <1>3 DEF Once
    <3>2. i \in 1..Len(c) /\ OneLess(e, c, i, Student)
      BY <1>8
    <3>3. QED
      BY <3>1, <3>2, OthersLeft
  <2>3. name'[t] = IF t = s THEN 0 ELSE name[t]
    BY <1>1, <1>9
  <2>4. QED
    BY <1>3, <1>4, <2>2, <2>3 DEF IsOn
<1>12. KomlInv'
  BY <1>6, <1>7, <1>10, <1>11 DEF KomlInv
<1>13. PICK r, r2 : r = Rec(Student, name, grade) /\ r2 = Rec(Student, name', grade')
  OBVIOUS
<1> DEFINE RS == Entries(Name \cup {0}, Grade \cup {0})
<1>14. c \in Seq(Student) /\ e \in Seq(Student) /\ i \in 1..Len(c)
  BY <1>3, <1>8 DEF OneLess
<1>15. /\ Maps(name, Student, Name \cup {0}) /\ Maps(grade, Student, Grade \cup {0})
       /\ Maps(name', Student, Name \cup {0}) /\ Maps(grade', Student, Grade \cup {0})
  BY <1>9 DEF Maps
<1>16. Maps(r, Student, RS) /\ Maps(r2, Student, RS) /\ AgreeBut(c, i, r, r2)
  <2>1. \A j \in 1..Len(c) : j # i => c[j] \in Student /\ c[j] # s
    BY <1>3, <1>4
  <2>2. AgreeBut(c, i, name, name') /\ AgreeBut(c, i, grade, grade')
    BY <1>1, <1>9, <2>1 DEF AgreeBut
  <2>3. Maps(r, Student, RS)
    BY <1>13, <1>15, RecIs
  <2>4. Maps(r2, Student, RS)
    BY <1>13, <1>15, RecIs
  <2>5. AgreeBut(c, i, r, r2)
    BY <1>13, <1>14, <2>2, RecsAgree
  <2>6. QED
    BY <2>3, <2>4, <2>5
<1>17. Map(e, r2) = Without(Map(c, r), i)
  <2> HIDE DEF RS
  <2>1. QED
    BY <1>5, <1>14, <1>16, MapWithout
<1>18. PICK l : l = Map(c, r)
  OBVIOUS
<1>19. i \in DOMAIN l /\ l[i].key = n /\ \A j \in 1..i - 1 : l[j].key # n
  BY <1>4, <1>13, <1>14, <1>15, <1>18, FirstEntry
<1>20. Koml!R!TakeOut(n)
  <2>1. /\ [j \in DOMAIN c |-> [key |-> name[c[j]], grade |-> grade[c[j]]]] = l
        /\ [j \in DOMAIN e |-> [key |-> name'[e[j]], grade |-> grade'[e[j]]]] = Without(l, i)
    BY <1>13, <1>14, <1>17, <1>18, EntriesAre
  <2>2. /\ [j \in DOMAIN Koml!Chain |-> [key |-> name[Koml!Chain[j]], grade |-> grade[Koml!Chain[j]]]] = l
        /\ [j \in DOMAIN Koml!Chain' |-> [key |-> name'[Koml!Chain'[j]], grade |-> grade'[Koml!Chain'[j]]]] = Without(l, i)
    BY <1>2, <1>7, <2>1
  <2>3. wild' = wild
    BY <1>1
  <2>4. QED
    BY <1>19, <2>2, <2>3
       DEF Koml!R!TakeOut, Koml!R!IsFirst, Koml!R!RemoveAt, Without
<1>21. QED
  BY <1>12, <1>20

\* What keeps the list keeps the invariant.
LEMMA KomlSame ==
  ASSUME KomlInv, root' = root /\ name' = name /\ next' = next,
         grade' \in [Student -> Grade \cup {0}], wild' \in BOOLEAN
  PROVE  KomlInv' /\ Koml!Chain' = Koml!Chain
<1>1. PICK c : c = Koml!Chain
  OBVIOUS
<1>2. /\ Linked(Student, next, root, c)
      /\ \A s \in Student : name[s] # 0 <=> \E i \in 1..Len(c) : c[i] = s
  BY <1>1 DEF KomlInv
<1>3. Linked(Student, next', root', c)
  BY <1>2
<1>4. Koml!Chain' = c
  BY <1>3, KomlChainNext
<1>5. Koml!TypeOK'
  BY DEF KomlInv, Koml!TypeOK, Koml!Pointer, Koml!nullptr
<1>6. \A s \in Student : name'[s] # 0 <=> \E i \in 1..Len(c) : c[i] = s
  BY <1>2
<1>7. QED
  BY <1>1, <1>3, <1>4, <1>5, <1>6 DEF KomlInv

\* remove() of an empty list, and no other, dereferences a null pointer.
LEMMA KomlRemoveNone ==
  ASSUME KomlInv, NEW n \in Name, Koml!RemoveStudent(n), root = 0
  PROVE  KomlInv' /\ Koml!R!RemoveFromNone
<1>1. wild' = TRUE /\ UNCHANGED <<root, name, grade, next>>
  BY DEF Koml!RemoveStudent, Koml!nullptr
<1>2. grade' \in [Student -> Grade \cup {0}]
  BY <1>1 DEF KomlInv, Koml!TypeOK, Koml!nullptr
<1>3. KomlInv' /\ Koml!Chain' = Koml!Chain
  BY <1>1, <1>2, KomlSame
<1>4. PICK c : c = Koml!Chain
  OBVIOUS
<1>5. c = <<>>
  <2>1. Linked(Student, next, root, c)
    BY <1>4 DEF KomlInv
  <2>2. c \in Seq(Student) /\ 0 = IF Len(c) = 0 THEN 0 ELSE c[1]
    BY <2>1 DEF Linked
  <2>3. Len(c) = 0
    <3>1. SUFFICES ASSUME Len(c) # 0 PROVE FALSE
      OBVIOUS
    <3>2. c[1] \in Student /\ c[1] = 0
      BY <2>2, <3>1
    <3>3. QED
      BY <3>2, KomlConstants
  <2>4. QED
    BY <2>2, <2>3
<1>6. [j \in DOMAIN c |-> [key |-> name[c[j]], grade |-> grade[c[j]]]] = <<>>
  BY <1>5
<1>7. /\ [j \in DOMAIN Koml!Chain |-> [key |-> name[Koml!Chain[j]], grade |-> grade[Koml!Chain[j]]]] = <<>>
      /\ [j \in DOMAIN Koml!Chain' |-> [key |-> name'[Koml!Chain'[j]], grade |-> grade'[Koml!Chain'[j]]]] = <<>>
  BY <1>1, <1>3, <1>4, <1>6
<1>8. QED
  BY <1>1, <1>3, <1>7 DEF Koml!R!RemoveFromNone

\* update(): the grade of the first student of the name.
LEMMA KomlUpdate ==
  ASSUME KomlInv, NEW n \in Name, NEW g \in Grade, Koml!Update(n, g)
  PROVE  KomlInv' /\ Koml!R!Grades(n, g)
<1>1. PICK s \in Student :
        /\ Koml!FirstNamed(s, n) /\ grade' = [grade EXCEPT ![s] = g]
        /\ root' = root /\ name' = name /\ next' = next /\ wild' = wild
  BY DEF Koml!Update, Koml!Used
<1>2. /\ name \in [Student -> Name \cup {0}] /\ grade \in [Student -> Grade \cup {0}]
      /\ name' \in [Student -> Name \cup {0}] /\ grade' \in [Student -> Grade \cup {0}]
      /\ wild' \in BOOLEAN
  BY <1>1 DEF KomlInv, Koml!TypeOK, Koml!nullptr
<1>3. KomlInv' /\ Koml!Chain' = Koml!Chain
  BY <1>1, <1>2, KomlSame
<1>4. PICK c : c = Koml!Chain
  OBVIOUS
<1>5. c \in Seq(Student) /\ \A i, j \in 1..Len(c) : c[i] = c[j] => i = j
  BY <1>4 DEF KomlInv, Linked
<1>6. PICK i \in 1..Len(c) : c[i] = s /\ FirstWith(c, i, name, n)
  BY <1>1, <1>4, <1>5 DEF Koml!FirstNamed, FirstWith
<1>7. PICK r, r2 : r = Rec(Student, name, grade) /\ r2 = Rec(Student, name', grade')
  OBVIOUS
<1> DEFINE RS == Entries(Name \cup {0}, Grade \cup {0})
<1>8. /\ Maps(name, Student, Name \cup {0}) /\ Maps(grade, Student, Grade \cup {0})
      /\ Maps(name', Student, Name \cup {0}) /\ Maps(grade', Student, Grade \cup {0})
  BY <1>2 DEF Maps
<1>9. Maps(r, Student, RS) /\ Maps(r2, Student, RS) /\ AgreeBut(c, i, r, r2)
  <2>1. \A j \in 1..Len(c) : j # i => c[j] \in Student /\ c[j] # s
    BY <1>5, <1>6
  <2>2. AgreeBut(c, i, name, name') /\ AgreeBut(c, i, grade, grade')
    BY <1>1, <1>2, <2>1 DEF AgreeBut
  <2>3. Maps(r, Student, RS)
    BY <1>7, <1>8, RecIs
  <2>4. Maps(r2, Student, RS)
    BY <1>7, <1>8, RecIs
  <2>5. AgreeBut(c, i, r, r2)
    BY <1>5, <1>7, <2>2, RecsAgree
  <2>6. QED
    BY <2>3, <2>4, <2>5
<1>10. PICK l : l = Map(c, r)
  OBVIOUS
<1>11. i \in DOMAIN l /\ l[i].key = n /\ \A j \in 1..i - 1 : l[j].key # n
  BY <1>5, <1>6, <1>7, <1>8, <1>10, FirstEntry
<1>12. Map(c, r2) = [l EXCEPT ![i] = r2[c[i]]]
  <2> HIDE DEF RS
  <2>1. ChangedAt(Map(c, r2), Map(c, r), i, r2[c[i]])
    BY <1>5, <1>9, MapAt
  <2>2. QED
    BY <1>10, <2>1 DEF ChangedAt
<1>13. r2[c[i]] = [l[i] EXCEPT !.grade = g]
  <2>1. l[i] = r[s]
    BY <1>5, <1>6, <1>10 DEF Map
  <2>2. r[s] = [key |-> name[s], grade |-> grade[s]] /\ r2[s] = [key |-> name[s], grade |-> g]
    BY <1>1, <1>2, <1>7 DEF Rec
  <2>3. QED
    BY <1>6, <2>1, <2>2
<1>14. Koml!R!Grades(n, g)
  <2>1. /\ [j \in DOMAIN c |-> [key |-> name[c[j]], grade |-> grade[c[j]]]] = l
        /\ [j \in DOMAIN c |-> [key |-> name'[c[j]], grade |-> grade'[c[j]]]] = [l EXCEPT ![i] = [l[i] EXCEPT !.grade = g]]
    <3>1. /\ [j \in DOMAIN c |-> [key |-> name[c[j]], grade |-> grade[c[j]]]] = Map(c, r)
          /\ [j \in DOMAIN c |-> [key |-> name'[c[j]], grade |-> grade'[c[j]]]] = Map(c, r2)
      BY <1>5, <1>7, EntriesAre
    <3>2. Map(c, r2) = [l EXCEPT ![i] = [l[i] EXCEPT !.grade = g]]
      BY <1>12, <1>13
    <3>3. QED
      BY <1>10, <3>1, <3>2
  <2>2. /\ [j \in DOMAIN Koml!Chain |-> [key |-> name[Koml!Chain[j]], grade |-> grade[Koml!Chain[j]]]] = l
        /\ [j \in DOMAIN Koml!Chain' |-> [key |-> name'[Koml!Chain'[j]], grade |-> grade'[Koml!Chain'[j]]]]
             = [l EXCEPT ![i] = [l[i] EXCEPT !.grade = g]]
    BY <1>3, <1>4, <2>1
  <2>3. wild' = wild
    BY <1>1
  <2>4. QED
    BY <1>11, <2>2, <2>3 DEF Koml!R!Grades, Koml!R!IsFirst
<1>15. QED
  BY <1>3, <1>14

\* So koml keeps its list and changes the roster as a roster is changed.
LEMMA KomlStep ==
  ASSUME KomlInv, Koml!Next
  PROVE  KomlInv' /\ Koml!R!NextFirst
<1>1. PICK n \in Name : \/ Koml!RemoveStudent(n)
                        \/ \E g \in Grade : Koml!Add(n, g)
                        \/ \E g \in Grade : Koml!Update(n, g)
  BY DEF Koml!Next
<1>2. CASE Koml!RemoveStudent(n) /\ root = 0
  BY <1>2, KomlRemoveNone DEF Koml!R!NextFirst
<1>3. CASE Koml!RemoveStudent(n) /\ root # 0
  BY <1>3, KomlRemove DEF Koml!R!NextFirst, Koml!R!Change
<1>4. ASSUME NEW g \in Grade, Koml!Add(n, g) PROVE KomlInv' /\ Koml!R!NextFirst
  <2>1. KomlInv' /\ Koml!R!AddFirst([key |-> n, grade |-> g])
    BY <1>4, KomlAdd
  <2>2. [key |-> n, grade |-> g] \in Koml!R!Entry
    BY DEF Koml!R!Entry
  <2>3. QED
    BY <2>1, <2>2 DEF Koml!R!NextFirst
<1>5. ASSUME NEW g \in Grade, Koml!Update(n, g) PROVE KomlInv' /\ Koml!R!NextFirst
  BY <1>5, KomlUpdate DEF Koml!R!NextFirst, Koml!R!Change
<1>6. QED
  BY <1>1, <1>2, <1>3, <1>4, <1>5

LEMMA KomlStutter ==
  ASSUME KomlInv, UNCHANGED kml
  PROVE  KomlInv' /\ UNCHANGED Koml!R!vars
<1>1. root' = root /\ name' = name /\ grade' = grade /\ next' = next /\ wild' = wild
  BY DEF kml
<1>2. KomlInv' /\ Koml!Chain' = Koml!Chain
  BY <1>1, KomlSame DEF KomlInv, Koml!TypeOK, Koml!nullptr
<1>3. QED
  BY <1>1, <1>2 DEF Koml!R!vars

\* The list is then right.
LEMMA KomlRight ==
  ASSUME KomlInv
  PROVE  Koml!ListIsRight
<1>1. PICK c : c = Koml!Chain
  OBVIOUS
<1>2. /\ next \in [Student -> Student \cup {0}] /\ c \in Seq(Student)
      /\ \A i, j \in 1..Len(c) : c[i] = c[j] => i = j
      /\ root = IF Len(c) = 0 THEN 0 ELSE c[1]
      /\ \A i \in 1..Len(c) : next[c[i]] = IF i = Len(c) THEN 0 ELSE c[i + 1]
      /\ \A s \in Student : name[s] # 0 <=> \E i \in 1..Len(c) : c[i] = s
  BY <1>1 DEF KomlInv, Linked
<1>3. Len(c) \in Nat /\ DOMAIN c = 1..Len(c) /\ \A i \in 1..Len(c) : c[i] \in Koml!Used
  BY <1>2 DEF Koml!Used, Koml!nullptr
<1>4. root \in Koml!Used \cup {0}
  <2>1. Len(c) \in Nat
    BY <1>3
  <2>2. Len(c) # 0 => 1 \in 1..Len(c)
    BY <2>1
  <2>3. QED
    BY <1>2, <1>3, <2>2
<1>5. \A s \in Koml!Used : next[s] \in Koml!Used \cup {0}
  <2>1. TAKE s \in Koml!Used
  <2>2. PICK i \in 1..Len(c) : c[i] = s
    BY <1>2 DEF Koml!Used, Koml!nullptr
  <2>3. Len(c) \in Nat
    BY <1>3
  <2>4. i # Len(c) => i + 1 \in 1..Len(c)
    BY <2>3
  <2>5. QED
    BY <1>2, <1>3, <2>2, <2>4
<1>6. Koml!Range(c) = Koml!Used
  <2>1. \A s \in Koml!Used : \E i \in 1..Len(c) : c[i] = s
    BY <1>2 DEF Koml!Used, Koml!nullptr
  <2>2. QED
    BY <1>3, <2>1 DEF Koml!Range
<1>7. Koml!IsInjective(c)
  BY <1>2, <1>3 DEF Koml!IsInjective
<1>8. QED
  BY <1>1, <1>4, <1>5, <1>6, <1>7 DEF KomlInv, Koml!ListIsRight, Koml!ChainIsSound, Koml!nullptr

-----------------------------------------------------------------------------
(* vision: the list of students by roll number.                              *)

LEMMA VisConstants == Record \subseteq Nat \ {0} /\ 0 \notin Record /\ 0 \notin Roll
BY ListsAssumption DEF Vis!VisionAssumption, Vis!Unset

\* Those in use are on the chain, which the links make of them.
VisInv ==
  /\ Vis!TypeOK
  /\ Linked(Record, link, hptr, Vis!Chain)
  /\ \A s \in Record : roll[s] # 0 <=> \E i \in 1..Len(Vis!Chain) : Vis!Chain[i] = s

LEMMA VisChain ==
  ASSUME NEW c, Linked(Record, link, hptr, c)
  PROVE  Vis!Chain = c
<1>1. OnFrom(Record, link)[hptr] = c
  BY VisConstants, ChainIs
<1>2. QED
  BY <1>1 DEF Vis!Chain, Vis!From, OnFrom, Vis!Pointer, Vis!Unset

LEMMA VisChainNext ==
  ASSUME NEW c, Linked(Record, link', hptr', c)
  PROVE  Vis!Chain' = c
<1>1. OnFrom(Record, link')[hptr'] = c
  BY VisConstants, ChainIs
<1>2. QED
  BY <1>1 DEF Vis!Chain, Vis!From, OnFrom, Vis!Pointer, Vis!Unset

\* The program starts with an empty list.
LEMMA VisStart == Vis!Init => VisInv /\ Vis!R!Init
<1> SUFFICES ASSUME Vis!Init PROVE VisInv /\ Vis!R!Init
    OBVIOUS
<1>1. /\ hptr = 0 /\ roll = [s \in Record |-> 0] /\ mark = [s \in Record |-> 0]
      /\ link = [s \in Record |-> 0] /\ pc = "menu" /\ failed = FALSE /\ ch \in {"y", "n"}
  BY DEF Vis!Init, Vis!Unset
<1>2. PICK c : c = <<>>
  OBVIOUS
<1>3. c \in Seq(Record) /\ Len(c) = 0 /\ \A i : i \notin 1..Len(c)
  BY <1>2
<1>4. link \in [Record -> Record \cup {0}] /\ \A s \in Record : link[s] = 0
  BY <1>1
<1>5. Linked(Record, link, hptr, c)
  BY <1>1, <1>3, <1>4 DEF Linked
<1>6. Vis!Chain = c
  BY <1>5, VisChain
<1>7. Vis!TypeOK
  BY <1>1 DEF Vis!TypeOK, Vis!Pointer, Vis!Unset
<1>8. VisInv
  <2>1. \A s \in Record : roll[s] = 0
    BY <1>1
  <2>2. QED
    BY <1>3, <1>5, <1>6, <1>7, <2>1 DEF VisInv
<1>9. Vis!R!Init
  <2>1. [i \in DOMAIN c |-> [key |-> roll[c[i]], grade |-> mark[c[i]]]] = <<>>
    BY <1>2
  <2>2. QED
    BY <1>1, <1>6, <2>1 DEF Vis!R!Init
<1>10. QED
  BY <1>8, <1>9

\* What a round leaves of the console.
Console == pc \in {"menu", "ended"} /\ failed \in BOOLEAN /\ ch \in {"y", "n"}

LEMMA VisConsole ==
  ASSUME Console, NEW failure \in BOOLEAN, Vis!Continue(failure)
  PROVE  Console'
BY DEF Console, Vis!Continue

\* There is an address for one more.
LEMMA VisFree ==
  ASSUME Vis!Used # Record
  PROVE  /\ Vis!Min(Record \ Vis!Used) \in Record
         /\ roll[Vis!Min(Record \ Vis!Used)] = 0
<1> DEFINE X == Record \ Vis!Used
<1>1. X \subseteq Nat /\ X # {}
  BY VisConstants DEF Vis!Used
<1>2. \E k \in X : \A j \in X : k <= j
  <2> HIDE DEF X
  <2>1. QED
    BY <1>1, LeastOne
<1>3. Vis!Min(X) \in X
  BY <1>2 DEF Vis!Min
<1>4. QED
  BY <1>3 DEF Vis!Used, Vis!Unset

\* addStudent(): the new record is linked last.
LEMMA VisAdd ==
  ASSUME VisInv, NEW n \in Roll, Vis!AddStudent(n)
  PROVE  VisInv' /\ \E g \in Mark \cup {0} : Vis!R!AddLast([key |-> n, grade |-> g])
<1>1. PICK a : a = Vis!Min(Record \ Vis!Used)
  OBVIOUS
<1>2. a \in Record /\ roll[a] = 0
  BY <1>1, VisFree DEF Vis!AddStudent
<1>3. PICK g \in Mark \cup {0} :
        /\ hptr' = (IF hptr = 0 THEN a ELSE hptr)
        /\ roll' = [roll EXCEPT ![a] = n] /\ mark' = [mark EXCEPT ![a] = g]
        /\ link' = IF hptr = 0 THEN link ELSE [link EXCEPT ![Vis!Last(Vis!Chain)] = a]
        /\ Console'
  <2>1. PICK failure \in BOOLEAN, h \in Mark :
          /\ hptr' = (IF hptr = 0 THEN a ELSE hptr)
          /\ roll' = [roll EXCEPT ![a] = n]
          /\ mark' = [mark EXCEPT ![a] = IF failure THEN 0 ELSE h]
          /\ link' = (IF hptr = 0 THEN link ELSE [link EXCEPT ![Vis!Last(Vis!Chain)] = a])
          /\ Vis!Continue(failure)
    BY <1>1 DEF Vis!AddStudent, Vis!Unset
  <2>2. Console'
    BY <2>1, VisConsole DEF VisInv, Vis!TypeOK, Console
  <2>3. (IF failure THEN 0 ELSE h) \in Mark \cup {0}
    OBVIOUS
  <2>4. QED
    BY <2>1, <2>2, <2>3
<1>4. PICK c : c = Vis!Chain
  OBVIOUS
<1>5. /\ Linked(Record, link, hptr, c) /\ c \in Seq(Record)
      /\ \A s \in Record : roll[s] # 0 <=> \E i \in 1..Len(c) : c[i] = s
  BY <1>4 DEF VisInv, Linked
<1>6. \A i \in 1..Len(c) : c[i] # a
  BY <1>2, <1>5
<1>7. PICK e : e = Append(c, a)
  OBVIOUS
<1>8. Linked(Record, link', hptr', e)
  <2>1. LinkedLast(link, hptr, c, a, link', hptr')
    BY <1>3, <1>4 DEF LinkedLast, Vis!Last
  <2>2. Linked(Record, link, hptr, c) /\ 0 \notin Record /\ a \in Record
    BY <1>2, <1>5, VisConstants
  <2>3. Linked(Record, link', hptr', Append(c, a))
    BY <1>6, <2>1, <2>2, LinkLast
  <2>4. QED
    BY <1>7, <2>3
<1>9. Vis!Chain' = e
  BY <1>8, VisChainNext
<1>10. /\ e \in Seq(Record) /\ Len(e) = Len(c) + 1 /\ e[Len(c) + 1] = a
       /\ \A i \in 1..Len(c) : e[i] = c[i]
  BY <1>2, <1>5, <1>7
<1>11. /\ roll \in [Record -> Roll \cup {0}] /\ mark \in [Record -> Mark \cup {0}]
       /\ roll' \in [Record -> Roll \cup {0}] /\ mark' \in [Record -> Mark \cup {0}]
  BY <1>3 DEF VisInv, Vis!TypeOK, Vis!Unset
<1>12. Vis!TypeOK'
  <2>1. link' \in [Record -> Record \cup {0}]
    BY <1>8 DEF Linked
  <2>2. hptr' \in Record \cup {0}
    BY <1>2, <1>3 DEF VisInv, Vis!TypeOK, Vis!Pointer
  <2>3. QED
    BY <1>3, <1>11, <2>1, <2>2 DEF Vis!TypeOK, Vis!Pointer, Vis!Unset, Console
<1>13. \A s \in Record : roll'[s] # 0 <=> \E i \in 1..Len(e) : e[i] = s
  <2>1. TAKE s \in Record
  <2>2. Len(c) \in Nat
    BY <1>5
  <2>3. CASE s = a
    <3>1. Len(c) + 1 \in 1..Len(e) /\ roll'[a] = n /\ n # 0
      BY <1>2, <1>3, <1>10, <1>11, <2>2, VisConstants
    <3>2. QED
      BY <1>10, <2>3, <3>1
  <2>4. CASE s # a
    <3>1. roll'[s] = roll[s]
      BY <1>3, <1>11, <2>4
    <3>2. \A i \in 1..Len(c) : i \in 1..Len(e)
      BY <1>10, <2>2
    <3>3. \A i \in 1..Len(e) : i \in 1..Len(c) \/ e[i] = a
      BY <1>10, <2>2
    <3>4. QED
      BY <1>5, <1>10, <2>4, <3>1, <3>2, <3>3
  <2>5. QED
    BY <2>3, <2>4
<1>14. VisInv'
  BY <1>8, <1>9, <1>12, <1>13 DEF VisInv
<1>15. PICK r, r2 : r = Rec(Record, roll, mark) /\ r2 = Rec(Record, roll', mark')
  OBVIOUS
<1> DEFINE RS == Entries(Roll \cup {0}, Mark \cup {0})
<1>16. /\ Maps(r, Record, RS) /\ Maps(r2, Record, RS) /\ AgreeBut(c, 0, r, r2)
       /\ r2[a] = [key |-> n, grade |-> g]
  <2>1. /\ Maps(roll, Record, Roll \cup {0}) /\ Maps(mark, Record, Mark \cup {0})
        /\ Maps(roll', Record, Roll \cup {0}) /\ Maps(mark', Record, Mark \cup {0})
    BY <1>11 DEF Maps
  <2>2. AgreeBut(c, 0, roll, roll') /\ AgreeBut(c, 0, mark, mark')
    BY <1>3, <1>5, <1>6, <1>11 DEF AgreeBut
  <2>3. c \in Seq(Record)
    BY <1>5
  <2>4. Maps(r, Record, RS) /\ Maps(r2, Record, RS) /\ AgreeBut(c, 0, r, r2)
    <3>1. Maps(r, Record, RS)
      BY <1>15, <2>1, RecIs
    <3>2. Maps(r2, Record, RS)
      BY <1>15, <2>1, RecIs
    <3>3. AgreeBut(c, 0, r, r2)
      BY <1>15, <2>2, <2>3, RecsAgree
    <3>4. QED
      BY <3>1, <3>2, <3>3
  <2>5. r2[a] = [key |-> n, grade |-> g]
    BY <1>2, <1>3, <1>11, <1>15 DEF Rec
  <2> HIDE DEF RS
  <2>6. QED
    BY <2>4, <2>5
<1>17. Map(e, r2) = Append(Map(c, r), [key |-> n, grade |-> g])
  <2>1. c \in Seq(Record) /\ a \in Record /\ Appended(e, c, a)
    BY <1>2, <1>5, <1>7 DEF Appended
  <2>2. Maps(r, Record, RS) /\ Maps(r2, Record, RS) /\ AgreeBut(c, 0, r, r2)
    BY <1>16
  <2> HIDE DEF RS
  <2>3. Appended(Map(e, r2), Map(c, r), r2[a])
    BY <2>1, <2>2, MapLast
  <2>4. QED
    BY <1>16, <2>3 DEF Appended
<1>18. Vis!R!AddLast([key |-> n, grade |-> g])
  <2>1. /\ [i \in DOMAIN c |-> [key |-> roll[c[i]], grade |-> mark[c[i]]]] = Map(c, r)
        /\ [i \in DOMAIN e |-> [key |-> roll'[e[i]], grade |-> mark'[e[i]]]] = Map(e, r2)
    BY <1>5, <1>10, <1>15, EntriesAre
  <2>2. QED
    BY <1>4, <1>9, <1>17, <2>1 DEF Vis!R!AddLast
<1>19. QED
  BY <1>14, <1>18

\* delete_student(): the first record with the number is unlinked.
LEMMA VisRemove ==
  ASSUME VisInv, NEW n \in Roll, Vis!DeleteStudent(n)
  PROVE  VisInv' /\ Vis!R!TakeOut(n)
<1>1. PICK s \in Record :
        /\ Vis!FirstOf(s, n)
        /\ hptr' = IF s = hptr THEN link[s] ELSE hptr
        /\ roll' = [roll EXCEPT ![s] = 0]
        /\ mark' = [mark EXCEPT ![s] = 0]
        /\ link' = [p \in Record |-> IF p = s THEN 0
                                      ELSE IF link[p] = s THEN link[s] ELSE link[p]]
        /\ Console'
  <2>1. Console'
    <3>1. Vis!Continue(FALSE) /\ Console
      BY DEF Vis!DeleteStudent, VisInv, Vis!TypeOK, Console
    <3>2. QED
      BY <3>1, VisConsole
  <2>2. QED
    BY <2>1 DEF Vis!DeleteStudent, Vis!Used, Vis!Unset
<1>2. PICK c : c = Vis!Chain
  OBVIOUS
<1>3. /\ Linked(Record, link, hptr, c) /\ c \in Seq(Record)
      /\ \A i, j \in 1..Len(c) : c[i] = c[j] => i = j
      /\ \A t \in Record : roll[t] # 0 <=> \E i \in 1..Len(c) : c[i] = t
  BY <1>2 DEF VisInv, Linked
<1>4. PICK i \in 1..Len(c) : c[i] = s /\ FirstWith(c, i, roll, n)
  BY <1>1, <1>2, <1>3 DEF Vis!FirstOf, FirstWith
<1>5. PICK e : e = Without(c, i)
  OBVIOUS
<1>6. Linked(Record, link', hptr', e)
  <2>1. Unlinked(Record, link, hptr, c[i], link', hptr')
    BY <1>1, <1>4 DEF Unlinked
  <2>2. Linked(Record, link, hptr, c) /\ 0 \notin Record
    BY <1>3, VisConstants
  <2>3. Linked(Record, link', hptr', Without(c, i))
    BY <2>1, <2>2, Unlink
  <2>4. QED
    BY <1>5, <2>3
<1>7. Vis!Chain' = e
  BY <1>6, VisChainNext
<1>8. OneLess(e, c, i, Record)
  BY <1>3, <1>5, TakenOut
<1>9. /\ roll \in [Record -> Roll \cup {0}] /\ mark \in [Record -> Mark \cup {0}]
      /\ roll' \in [Record -> Roll \cup {0}] /\ mark' \in [Record -> Mark \cup {0}]
  BY <1>1 DEF VisInv, Vis!TypeOK, Vis!Unset
<1>10. Vis!TypeOK'
  <2>1. link' \in [Record -> Record \cup {0}] /\ hptr' \in Record \cup {0}
    <3>1. link \in [Record -> Record \cup {0}] /\ hptr \in Record \cup {0}
      BY DEF VisInv, Vis!TypeOK, Vis!Pointer, Vis!Unset
    <3>2. QED
      BY <1>1, <3>1
  <2>2. QED
    BY <1>1, <1>9, <2>1 DEF Vis!TypeOK, Vis!Pointer, Vis!Unset, Console
<1>11. \A t \in Record : roll'[t] # 0 <=> \E j \in 1..Len(e) : e[j] = t
  <2>1. TAKE t \in Record
  <2>2. IsOn(e, t) <=> t # c[i] /\ IsOn(c, t)
    <3>1. c \in Seq(Record) /\ Once(c)
      BY <1>3 DEF Once
    <3>2. i \in 1..Len(c) /\ OneLess(e, c, i, Record)
      BY <1>8
    <3>3. QED
      BY <3>1, <3>2, OthersLeft
  <2>3. roll'[t] = IF t = s THEN 0 ELSE roll[t]
    BY <1>1, <1>9
  <2>4. QED
    BY <1>3, <1>4, <2>2, <2>3 DEF IsOn
<1>12. VisInv'
  BY <1>6, <1>7, <1>10, <1>11 DEF VisInv
<1>13. PICK r, r2 : r = Rec(Record, roll, mark) /\ r2 = Rec(Record, roll', mark')
  OBVIOUS
<1> DEFINE RS == Entries(Roll \cup {0}, Mark \cup {0})
<1>14. c \in Seq(Record) /\ e \in Seq(Record) /\ i \in 1..Len(c)
  BY <1>3, <1>8 DEF OneLess
<1>15. /\ Maps(roll, Record, Roll \cup {0}) /\ Maps(mark, Record, Mark \cup {0})
       /\ Maps(roll', Record, Roll \cup {0}) /\ Maps(mark', Record, Mark \cup {0})
  BY <1>9 DEF Maps
<1>16. Maps(r, Record, RS) /\ Maps(r2, Record, RS) /\ AgreeBut(c, i, r, r2)
  <2>1. \A j \in 1..Len(c) : j # i => c[j] \in Record /\ c[j] # s
    BY <1>3, <1>4
  <2>2. AgreeBut(c, i, roll, roll') /\ AgreeBut(c, i, mark, mark')
    BY <1>1, <1>9, <2>1 DEF AgreeBut
  <2>3. Maps(r, Record, RS)
    BY <1>13, <1>15, RecIs
  <2>4. Maps(r2, Record, RS)
    BY <1>13, <1>15, RecIs
  <2>5. AgreeBut(c, i, r, r2)
    BY <1>13, <1>14, <2>2, RecsAgree
  <2>6. QED
    BY <2>3, <2>4, <2>5
<1>17. Map(e, r2) = Without(Map(c, r), i)
  <2> HIDE DEF RS
  <2>1. QED
    BY <1>5, <1>14, <1>16, MapWithout
<1>18. PICK l : l = Map(c, r)
  OBVIOUS
<1>19. i \in DOMAIN l /\ l[i].key = n /\ \A j \in 1..i - 1 : l[j].key # n
  BY <1>4, <1>13, <1>14, <1>15, <1>18, FirstEntry
<1>20. Vis!R!TakeOut(n)
  <2>1. /\ [j \in DOMAIN c |-> [key |-> roll[c[j]], grade |-> mark[c[j]]]] = l
        /\ [j \in DOMAIN e |-> [key |-> roll'[e[j]], grade |-> mark'[e[j]]]] = Without(l, i)
    BY <1>13, <1>14, <1>17, <1>18, EntriesAre
  <2>2. /\ [j \in DOMAIN Vis!Chain |-> [key |-> roll[Vis!Chain[j]], grade |-> mark[Vis!Chain[j]]]] = l
        /\ [j \in DOMAIN Vis!Chain' |-> [key |-> roll'[Vis!Chain'[j]], grade |-> mark'[Vis!Chain'[j]]]] = Without(l, i)
    BY <1>2, <1>7, <2>1
  <2>3. QED
    BY <1>19, <2>2
       DEF Vis!R!TakeOut, Vis!R!IsFirst, Vis!R!RemoveAt, Without
<1>21. QED
  BY <1>12, <1>20

\* What keeps the list keeps the invariant.
LEMMA VisSame ==
  ASSUME VisInv, hptr' = hptr /\ roll' = roll /\ link' = link,
         mark' \in [Record -> Mark \cup {0}], Console'
  PROVE  VisInv' /\ Vis!Chain' = Vis!Chain
<1>1. PICK c : c = Vis!Chain
  OBVIOUS
<1>2. /\ Linked(Record, link, hptr, c)
      /\ \A s \in Record : roll[s] # 0 <=> \E i \in 1..Len(c) : c[i] = s
  BY <1>1 DEF VisInv
<1>3. Linked(Record, link', hptr', c)
  BY <1>2
<1>4. Vis!Chain' = c
  BY <1>3, VisChainNext
<1>5. Vis!TypeOK'
  BY DEF VisInv, Vis!TypeOK, Vis!Pointer, Vis!Unset, Console
<1>6. \A s \in Record : roll'[s] # 0 <=> \E i \in 1..Len(c) : c[i] = s
  BY <1>2
<1>7. QED
  BY <1>1, <1>3, <1>4, <1>5, <1>6 DEF VisInv

\* A round that leaves the records alone.
LEMMA VisNoChange ==
  ASSUME VisInv, UNCHANGED <<hptr, roll, mark, link>>, Console'
  PROVE  VisInv' /\ UNCHANGED Vis!R!vars
<1>1. hptr' = hptr /\ roll' = roll /\ mark' = mark /\ link' = link
  OBVIOUS
<1>2. mark' \in [Record -> Mark \cup {0}]
  BY <1>1 DEF VisInv, Vis!TypeOK, Vis!Unset
<1>3. VisInv' /\ Vis!Chain' = Vis!Chain
  BY <1>1, <1>2, VisSame
<1>4. QED
  BY <1>1, <1>3 DEF Vis!R!vars

\* update() that reads a mark: that of the first record with the number.
LEMMA VisUpdate ==
  ASSUME VisInv, NEW n \in Roll, NEW g \in Mark, NEW s \in Record, Vis!FirstOf(s, n),
         mark' = [mark EXCEPT ![s] = g], UNCHANGED <<hptr, roll, link>>, Console'
  PROVE  VisInv' /\ Vis!R!Grades(n, g)
<1>1. /\ Vis!FirstOf(s, n) /\ mark' = [mark EXCEPT ![s] = g]
      /\ hptr' = hptr /\ roll' = roll /\ link' = link
  OBVIOUS
<1>2. /\ roll \in [Record -> Roll \cup {0}] /\ mark \in [Record -> Mark \cup {0}]
      /\ roll' \in [Record -> Roll \cup {0}] /\ mark' \in [Record -> Mark \cup {0}]
  BY <1>1 DEF VisInv, Vis!TypeOK, Vis!Unset
<1>3. VisInv' /\ Vis!Chain' = Vis!Chain
  BY <1>1, <1>2, VisSame
<1>4. PICK c : c = Vis!Chain
  OBVIOUS
<1>5. c \in Seq(Record) /\ \A i, j \in 1..Len(c) : c[i] = c[j] => i = j
  BY <1>4 DEF VisInv, Linked
<1>6. PICK i \in 1..Len(c) : c[i] = s /\ FirstWith(c, i, roll, n)
  BY <1>1, <1>4, <1>5 DEF Vis!FirstOf, FirstWith
<1>7. PICK r, r2 : r = Rec(Record, roll, mark) /\ r2 = Rec(Record, roll', mark')
  OBVIOUS
<1> DEFINE RS == Entries(Roll \cup {0}, Mark \cup {0})
<1>8. /\ Maps(roll, Record, Roll \cup {0}) /\ Maps(mark, Record, Mark \cup {0})
      /\ Maps(roll', Record, Roll \cup {0}) /\ Maps(mark', Record, Mark \cup {0})
  BY <1>2 DEF Maps
<1>9. Maps(r, Record, RS) /\ Maps(r2, Record, RS) /\ AgreeBut(c, i, r, r2)
  <2>1. \A j \in 1..Len(c) : j # i => c[j] \in Record /\ c[j] # s
    BY <1>5, <1>6
  <2>2. AgreeBut(c, i, roll, roll') /\ AgreeBut(c, i, mark, mark')
    BY <1>1, <1>2, <2>1 DEF AgreeBut
  <2>3. Maps(r, Record, RS)
    BY <1>7, <1>8, RecIs
  <2>4. Maps(r2, Record, RS)
    BY <1>7, <1>8, RecIs
  <2>5. AgreeBut(c, i, r, r2)
    BY <1>5, <1>7, <2>2, RecsAgree
  <2>6. QED
    BY <2>3, <2>4, <2>5
<1>10. PICK l : l = Map(c, r)
  OBVIOUS
<1>11. i \in DOMAIN l /\ l[i].key = n /\ \A j \in 1..i - 1 : l[j].key # n
  BY <1>5, <1>6, <1>7, <1>8, <1>10, FirstEntry
<1>12. Map(c, r2) = [l EXCEPT ![i] = r2[c[i]]]
  <2> HIDE DEF RS
  <2>1. ChangedAt(Map(c, r2), Map(c, r), i, r2[c[i]])
    BY <1>5, <1>9, MapAt
  <2>2. QED
    BY <1>10, <2>1 DEF ChangedAt
<1>13. r2[c[i]] = [l[i] EXCEPT !.grade = g]
  <2>1. l[i] = r[s]
    BY <1>5, <1>6, <1>10 DEF Map
  <2>2. r[s] = [key |-> roll[s], grade |-> mark[s]] /\ r2[s] = [key |-> roll[s], grade |-> g]
    BY <1>1, <1>2, <1>7 DEF Rec
  <2>3. QED
    BY <1>6, <2>1, <2>2
<1>14. Vis!R!Grades(n, g)
  <2>1. /\ [j \in DOMAIN c |-> [key |-> roll[c[j]], grade |-> mark[c[j]]]] = l
        /\ [j \in DOMAIN c |-> [key |-> roll'[c[j]], grade |-> mark'[c[j]]]] = [l EXCEPT ![i] = [l[i] EXCEPT !.grade = g]]
    <3>1. /\ [j \in DOMAIN c |-> [key |-> roll[c[j]], grade |-> mark[c[j]]]] = Map(c, r)
          /\ [j \in DOMAIN c |-> [key |-> roll'[c[j]], grade |-> mark'[c[j]]]] = Map(c, r2)
      <4>1. c \in Seq(Record)
        BY <1>5
      <4>2. [j \in DOMAIN c |-> [key |-> roll[c[j]], grade |-> mark[c[j]]]] = Map(c, r)
        <5>1. \A j \in DOMAIN c : c[j] \in Record
          BY <4>1
        <5>2. QED
          BY <1>7, <5>1 DEF Map, Rec
      <4>3. [j \in DOMAIN c |-> [key |-> roll'[c[j]], grade |-> mark'[c[j]]]] = Map(c, r2)
        <5>1. \A j \in DOMAIN c : c[j] \in Record
          BY <4>1
        <5>2. QED
          BY <1>7, <5>1 DEF Map, Rec
      <4>4. QED
        BY <4>2, <4>3
    <3>2. Map(c, r2) = [l EXCEPT ![i] = [l[i] EXCEPT !.grade = g]]
      BY <1>12, <1>13
    <3>3. QED
      BY <1>10, <3>1, <3>2
  <2>2. /\ [j \in DOMAIN Vis!Chain |-> [key |-> roll[Vis!Chain[j]], grade |-> mark[Vis!Chain[j]]]] = l
        /\ [j \in DOMAIN Vis!Chain' |-> [key |-> roll'[Vis!Chain'[j]], grade |-> mark'[Vis!Chain'[j]]]]
             = [l EXCEPT ![i] = [l[i] EXCEPT !.grade = g]]
    BY <1>3, <1>4, <2>1
  <2>3. QED
    BY <1>11, <2>2 DEF Vis!R!Grades, Vis!R!IsFirst
<1>15. QED
  BY <1>3, <1>14

\* So vision keeps its list and changes the roster as a roster is changed.
LEMMA VisStep ==
  ASSUME VisInv, Vis!Next
  PROVE  VisInv' /\ [Vis!R!NextLast]_(Vis!R!vars)
<1>1. Console
  BY DEF VisInv, Vis!TypeOK, Console
<1>2. CASE Vis!NoChange
  <2>1. Console' /\ UNCHANGED <<hptr, roll, mark, link>>
    BY <1>1, <1>2, VisConsole DEF Vis!NoChange, Vis!heap
  <2>2. QED
    BY <2>1, VisNoChange
<1>3. CASE Vis!FailedRound
  <2>1. Console' /\ UNCHANGED <<hptr, roll, mark, link>>
    BY <1>1, <1>3, VisConsole DEF Vis!FailedRound, Vis!heap
  <2>2. QED
    BY <2>1, VisNoChange
<1>4. ASSUME NEW n \in Roll, Vis!AddStudent(n)
      PROVE  VisInv' /\ [Vis!R!NextLast]_(Vis!R!vars)
  <2>1. PICK g \in Mark \cup {0} : VisInv' /\ Vis!R!AddLast([key |-> n, grade |-> g])
    BY <1>4, VisAdd
  <2>2. [key |-> n, grade |-> g] \in Vis!R!Entry
    BY DEF Vis!R!Entry, Vis!Unset
  <2>3. QED
    BY <2>1, <2>2 DEF Vis!R!NextLast
<1>5. ASSUME NEW n \in Roll, Vis!DeleteStudent(n)
      PROVE  VisInv' /\ [Vis!R!NextLast]_(Vis!R!vars)
  BY <1>5, VisRemove DEF Vis!R!NextLast, Vis!R!Change
<1>6. ASSUME NEW n \in Roll, Vis!Update(n)
      PROVE  VisInv' /\ [Vis!R!NextLast]_(Vis!R!vars)
  <2>1. PICK s \in Record :
          /\ Vis!FirstOf(s, n) /\ UNCHANGED <<hptr, roll, link>>
          /\ \/ \E g \in Mark : mark' = [mark EXCEPT ![s] = g] /\ Vis!Continue(FALSE)
             \/ UNCHANGED mark /\ Vis!Continue(TRUE)
    BY <1>6 DEF Vis!Update, Vis!Used
  <2>2. Console'
    BY <1>1, <2>1, VisConsole
  <2>3. ASSUME NEW g \in Mark, mark' = [mark EXCEPT ![s] = g]
        PROVE  VisInv' /\ [Vis!R!NextLast]_(Vis!R!vars)
    <3>1. VisInv' /\ Vis!R!Grades(n, g)
      BY <2>1, <2>2, <2>3, VisUpdate
    <3>2. QED
      BY <3>1 DEF Vis!R!NextLast, Vis!R!Change, Vis!Unset
  <2>4. CASE UNCHANGED mark
    BY <2>1, <2>2, <2>4, VisNoChange
  <2>5. QED
    BY <2>1, <2>3, <2>4
<1>7. QED
  BY <1>2, <1>3, <1>4, <1>5, <1>6 DEF Vis!Next

LEMMA VisStutter ==
  ASSUME VisInv, UNCHANGED vis
  PROVE  VisInv' /\ UNCHANGED Vis!R!vars
<1>1. Console' /\ UNCHANGED <<hptr, roll, mark, link>>
  BY DEF VisInv, Vis!TypeOK, Console, vis
<1>2. QED
  BY <1>1, VisNoChange

\* Once an input was not numeric nothing changes, and nobody can leave.
LEMMA VisFrozen == [Vis!Next]_vis => Vis!FrozenStep
<1>1. CASE Vis!NoChange \/ \E n \in Roll : Vis!AddStudent(n) \/ Vis!DeleteStudent(n) \/ Vis!Update(n)
  BY <1>1 DEF Vis!NoChange, Vis!AddStudent, Vis!DeleteStudent, Vis!Update, Vis!FrozenStep
<1>2. CASE Vis!FailedRound
  BY <1>2 DEF Vis!FailedRound, Vis!Continue, Vis!FrozenStep
<1>3. CASE UNCHANGED vis
  BY <1>3 DEF vis, Vis!FrozenStep, Vis!heap
<1>4. QED
  BY <1>1, <1>2, <1>3 DEF Vis!Next

\* The list is then right.
LEMMA VisRight ==
  ASSUME VisInv
  PROVE  Vis!ListIsRight
<1>1. PICK c : c = Vis!Chain
  OBVIOUS
<1>2. /\ link \in [Record -> Record \cup {0}] /\ c \in Seq(Record)
      /\ \A i, j \in 1..Len(c) : c[i] = c[j] => i = j
      /\ hptr = IF Len(c) = 0 THEN 0 ELSE c[1]
      /\ \A i \in 1..Len(c) : link[c[i]] = IF i = Len(c) THEN 0 ELSE c[i + 1]
      /\ \A s \in Record : roll[s] # 0 <=> \E i \in 1..Len(c) : c[i] = s
  BY <1>1 DEF VisInv, Linked
<1>3. Len(c) \in Nat /\ DOMAIN c = 1..Len(c) /\ \A i \in 1..Len(c) : c[i] \in Vis!Used
  BY <1>2 DEF Vis!Used, Vis!Unset
<1>4. hptr \in Vis!Used \cup {0}
  <2>1. Len(c) \in Nat
    BY <1>3
  <2>2. Len(c) # 0 => 1 \in 1..Len(c)
    BY <2>1
  <2>3. QED
    BY <1>2, <1>3, <2>2
<1>5. \A s \in Vis!Used : link[s] \in Vis!Used \cup {0}
  <2>1. TAKE s \in Vis!Used
  <2>2. PICK i \in 1..Len(c) : c[i] = s
    BY <1>2 DEF Vis!Used, Vis!Unset
  <2>3. Len(c) \in Nat
    BY <1>3
  <2>4. i # Len(c) => i + 1 \in 1..Len(c)
    BY <2>3
  <2>5. QED
    BY <1>2, <1>3, <2>2, <2>4
<1>6. Vis!Range(c) = Vis!Used
  <2>1. \A s \in Vis!Used : \E i \in 1..Len(c) : c[i] = s
    BY <1>2 DEF Vis!Used, Vis!Unset
  <2>2. QED
    BY <1>3, <2>1 DEF Vis!Range
<1>7. Vis!IsInjective(c)
  BY <1>2, <1>3 DEF Vis!IsInjective
<1>8. QED
  BY <1>1, <1>4, <1>5, <1>6, <1>7 DEF VisInv, Vis!ListIsRight, Vis!ChainIsSound, Vis!Unset

-----------------------------------------------------------------------------
(* The two programs                                                          *)

ListsInv == (KomlList => KomlInv) /\ (VisionList => VisInv)

\* The invariant holds always.
LEMMA InitInv == Init => ListsInv
BY KomlStart, VisStart DEF Init, ListsInv, KomlList, VisionList

LEMMA NextInv == ListsInv /\ [Next]_vars => ListsInv'
<1> SUFFICES ASSUME ListsInv, [Next]_vars PROVE ListsInv'
    OBVIOUS
<1>1. program' = program
  BY DEF Next, vars
<1>2. CASE KomlList
  <2>1. Koml!Next \/ UNCHANGED kml
    BY <1>2 DEF Next, vars, KomlList, VisionList
  <2>2. KomlInv'
    BY <1>2, <2>1, KomlStep, KomlStutter DEF ListsInv
  <2>3. QED
    BY <1>1, <1>2, <2>2 DEF ListsInv, KomlList, VisionList
<1>3. CASE VisionList
  <2>1. Vis!Next \/ UNCHANGED vis
    BY <1>3 DEF Next, vars, KomlList, VisionList
  <2>2. VisInv'
    BY <1>3, <2>1, VisStep, VisStutter DEF ListsInv
  <2>3. QED
    BY <1>1, <1>3, <2>2 DEF ListsInv, KomlList, VisionList
<1>4. QED
  BY <1>1, <1>2, <1>3 DEF ListsInv, KomlList, VisionList

LEMMA Invariance == Spec => []ListsInv
BY InitInv, NextInv, PTL DEF Spec

\* The students in use are at any time one list: no removal loses any of the
\* others, and none is linked after it was freed, whatever the heap.
THEOREM ListsSound == Spec => []ListsAreRight
<1>1. ListsInv => ListsAreRight
  BY KomlRight, VisRight DEF ListsInv, ListsAreRight
<1>2. QED
  BY <1>1, Invariance, PTL

\* The lists implement rosters: a removal takes the first student of the key
\* and leaves the others in their order, an update changes that one alone, a
\* new student comes first with koml and last with vision, koml fails only at
\* a removal from the empty list, and the input that freezes vision does.
THEOREM RostersImplemented == Spec => ImplementRosters
<1>1. Init => (KomlList => Koml!R!Init) /\ (VisionList => Vis!R!Init)
  BY KomlStart, VisStart DEF Init, KomlList, VisionList
<1>2. ListsInv /\ [Next]_vars => (KomlList => [Koml!R!NextFirst]_(Koml!R!vars))
  <2> SUFFICES ASSUME ListsInv, [Next]_vars, KomlList PROVE [Koml!R!NextFirst]_(Koml!R!vars)
      OBVIOUS
  <2>1. Koml!Next \/ UNCHANGED kml
    BY DEF Next, vars, KomlList, VisionList
  <2>2. QED
    BY <2>1, KomlStep, KomlStutter DEF ListsInv
<1>3. ListsInv /\ [Next]_vars
        => (VisionList => [Vis!R!NextLast]_(Vis!R!vars) /\ Vis!FrozenStep)
  <2> SUFFICES ASSUME ListsInv, [Next]_vars, VisionList
               PROVE  [Vis!R!NextLast]_(Vis!R!vars) /\ Vis!FrozenStep
      OBVIOUS
  <2>1. Vis!Next \/ UNCHANGED vis
    BY DEF Next, vars, KomlList, VisionList
  <2>2. QED
    BY <2>1, VisStep, VisStutter, VisFrozen DEF ListsInv
<1>4. QED
  BY <1>1, <1>2, <1>3, Invariance, PTL DEF Spec, ImplementRosters
=============================================================================
