---------------------------- MODULE Memory_proofs ----------------------------
(* That the list of LeeOSProject's memory manager is exact up to the first   *)
(* step that damages it, for any size of the RAM and any requests: linked    *)
(* both ways, covering the RAM, with maximal holes, so that insert() refuses *)
(* only what does not fit, and that until then it is a first-fit allocator.  *)
EXTENDS Memory, TLAPS, WellFoundedInduction

-----------------------------------------------------------------------------
(* Lists: a heap h, the root rt of the list in it and the set ch of its      *)
(* entries.                                                                  *)

Heaps == UNION {[D -> ProcessObject] : D \in SUBSET Node}

LinkedIn(h, rt, ch) ==
  /\ rt \in ch
  /\ \A n \in ch :
       /\ h[n].prev = NULL <=> n = rt
       /\ h[n].prev # NULL => h[n].prev \in ch /\ h[h[n].prev].next = n
       /\ h[n].next # NULL => h[n].next \in ch /\ h[h[n].next].prev = n

TiledIn(h, ch) ==
  /\ \A n \in ch :
       /\ h[n].size \in 1..maxVal
       /\ h[n].end = h[n].start + h[n].size - 1
       /\ h[n].end < maxVal
       /\ h[n].prev = NULL <=> h[n].start = 0
       /\ IF h[n].next = NULL
          THEN h[n].end = maxVal - 1
          ELSE h[h[n].next].start = h[n].end + 1
  /\ \A m, n \in ch :
       m # n => h[m].end < h[n].start \/ h[n].end < h[m].start

CoveredIn(h, ch) ==
  \A b \in 0..(maxVal - 1) : \E n \in ch : h[n].start <= b /\ b <= h[n].end

ListIn(h, rt, ch) ==
  /\ h \in Heaps /\ ch \subseteq DOMAIN h
  /\ LinkedIn(h, rt, ch) /\ TiledIn(h, ch) /\ CoveredIn(h, ch)

\* No two holes are neighbours, unless the first of them is c.
ApartBut(h, ch, c) ==
  \A n \in ch \ {c} : h[n].empty /\ h[n].next # NULL => ~h[h[n].next].empty

ApartIn(h, ch) ==
  \A n \in ch : h[n].empty /\ h[n].next # NULL => ~h[h[n].next].empty

-----------------------------------------------------------------------------
(* The inductive invariant.  What exact fits took out of the list, lk, are   *)
(* holes and stay allocated: deleteProcess() never finds them.               *)

SoundIn(h, rt, lk) ==
  /\ ListIn(h, rt, DOMAIN h \ lk)
  /\ ApartIn(h, DOMAIN h \ lk)
  /\ lk \subseteq DOMAIN h /\ \A n \in lk : h[n].empty

MemInv == MemTypeOK /\ (damage = {} => SoundIn(heap, root, leaked))

-----------------------------------------------------------------------------
(* Merging two neighbours.                                                   *)

\* The objects of a heap have their types.
LEMMA HeapTypes ==
  ASSUME NEW h \in Heaps
  PROVE  /\ DOMAIN h \subseteq Node
         /\ \A n \in DOMAIN h :
              /\ h[n] \in ProcessObject
              /\ h[n].start \in 0..(UINT - 1) /\ h[n].end \in 0..(UINT - 1)
              /\ h[n].size \in 0..(UINT - 1) /\ h[n].empty \in BOOLEAN
              /\ h[n].prev \in Pointer /\ h[n].next \in Pointer
<1>1. PICK D \in SUBSET Node : h \in [D -> ProcessObject]
  BY DEF Heaps
<1>2. DOMAIN h = D /\ \A n \in D : h[n] \in ProcessObject
  BY <1>1
<1>3. QED
  BY <1>2 DEF ProcessObject

\* The entries of a list are apart, and one that starts where another ends is
\* the next.
LEMMA Neighbours ==
  ASSUME NEW h, NEW rt, NEW ch, ListIn(h, rt, ch), NEW p \in ch
  PROVE  /\ h[p].prev # NULL =>
              /\ h[p].prev \in ch /\ h[p].prev # p /\ h[p].prev # h[p].next
              /\ h[h[p].prev].end + 1 = h[p].start
         /\ h[p].next # NULL => h[p].next \in ch /\ h[p].next # p
<1>1. \A n \in ch : /\ h[n].start \in Nat /\ h[n].end \in Nat /\ h[n].size \in Nat
                    /\ h[n].start <= h[n].end
  BY HeapTypes, MemoryAssumption DEF ListIn, TiledIn
<1>2. h[p].next # NULL => h[p].next \in ch /\ h[h[p].next].start = h[p].end + 1
  BY DEF ListIn, TiledIn, LinkedIn
<1>3. h[p].prev # NULL => h[p].prev \in ch /\ h[p].start = h[h[p].prev].end + 1
  <2>1. h[p].prev # NULL => h[p].prev \in ch /\ h[h[p].prev].next = p
    BY DEF ListIn, LinkedIn
  <2>2. p # NULL
    BY HeapTypes, MemoryAssumption DEF ListIn
  <2>3. QED
    BY <2>1, <2>2 DEF ListIn, TiledIn
<1>4. QED
  BY <1>1, <1>2, <1>3

\* What the two merges and the marking of deleteProcess() make of the objects
\* of a heap, field by field.
MergedPrev(h, p, g) ==
  /\ DOMAIN g = DOMAIN h \ {p} /\ g \in Heaps
  /\ \A m \in DOMAIN g :
       /\ g[m].start = h[m].start
       /\ g[m].end = IF m = h[p].prev THEN h[p].end ELSE h[m].end
       /\ g[m].size = IF m = h[p].prev THEN h[h[p].prev].size + h[p].size ELSE h[m].size
       /\ g[m].empty = h[m].empty
       /\ g[m].prev = IF m = h[p].next THEN h[p].prev ELSE h[m].prev
       /\ g[m].next = IF m = h[p].prev THEN h[p].next ELSE h[m].next

MergedNext(h, p, g) ==
  /\ DOMAIN g = DOMAIN h \ {p} /\ g \in Heaps
  /\ \A m \in DOMAIN g :
       /\ g[m].start = IF m = h[p].next THEN h[p].start ELSE h[m].start
       /\ g[m].end = h[m].end
       /\ g[m].size = IF m = h[p].next THEN h[h[p].next].size + h[p].size ELSE h[m].size
       /\ g[m].empty = h[m].empty
       /\ g[m].prev = IF m = h[p].next THEN h[p].prev ELSE h[m].prev
       /\ g[m].next = IF m = h[p].prev THEN h[p].next ELSE h[m].next

MarkedEmpty(h, p, g) ==
  /\ DOMAIN g = DOMAIN h
  /\ \A m \in DOMAIN h :
       /\ g[m].empty = IF m = p THEN TRUE ELSE h[m].empty
       /\ g[m].prev = h[m].prev /\ g[m].next = h[m].next
       /\ g[m].start = h[m].start /\ g[m].end = h[m].end
       /\ g[m].size = h[m].size

\* deleteProcess() into the hole before.
LEMMA MergePrev ==
  ASSUME NEW h, NEW rt, NEW ch, ListIn(h, rt, ch), NEW p \in ch, h[p].prev # NULL
  PROVE  MergedPrev(h, p, MergeIntoPrev(h, p))
<1> DEFINE g == MergeIntoPrev(h, p)
           l == h[p].prev
           r == h[p].next
           grown == [h EXCEPT ![l].end = h[p].end,
                              ![l].size = (@ + h[p].size) % UINT,
                              ![l].next = r]
           linked == IF r = NULL THEN grown ELSE [grown EXCEPT ![r].prev = l]
<1>1. /\ l \in ch /\ l # p /\ l # r /\ h[l].end + 1 = h[p].start
      /\ r # NULL => r \in ch /\ r # p
  BY Neighbours
<1>2. h \in Heaps /\ ch \subseteq DOMAIN h /\ l \in DOMAIN h /\ p \in DOMAIN h
  BY <1>1 DEF ListIn
<1>3. DOMAIN h \subseteq Node /\ \A n \in DOMAIN h : h[n] \in ProcessObject
  BY <1>2, HeapTypes
<1>4. (h[l].size + h[p].size) % UINT = h[l].size + h[p].size
      /\ h[l].size + h[p].size \in 0..(UINT - 1)
  <2>1. /\ h[l].size \in 1..maxVal /\ h[p].size \in 1..maxVal
        /\ h[l].end = h[l].start + h[l].size - 1 /\ h[p].end = h[p].start + h[p].size - 1
        /\ h[p].end < maxVal
    BY <1>1 DEF ListIn, TiledIn
  <2>2. h[l].start \in Nat /\ h[p].start \in Nat /\ h[p].end \in Nat
    BY <1>2, HeapTypes, MemoryAssumption
  <2>3. h[l].size + h[p].size \in 0..(UINT - 1)
    BY <1>1, <2>1, <2>2, MemoryAssumption
  <2>4. QED
    BY <2>3, MemoryAssumption
<1>5. g = [m \in DOMAIN h \ {p} |-> linked[m]]
  <2>1. DOMAIN linked = DOMAIN h
    BY <1>2
  <2>2. QED
    BY <2>1 DEF MergeIntoPrev, Deleted, Restrict
<1>6. \A m \in DOMAIN h :
        linked[m] = IF m = l
                    THEN [h[l] EXCEPT !.end = h[p].end, !.size = h[l].size + h[p].size, !.next = r]
                    ELSE IF m = r THEN [h[r] EXCEPT !.prev = l] ELSE h[m]
  <2>1. \A m \in DOMAIN h :
          grown[m] = IF m = l
                    THEN [h[l] EXCEPT !.end = h[p].end, !.size = h[l].size + h[p].size, !.next = r]
                    ELSE h[m]
    BY <1>2, <1>3, <1>4 DEF ProcessObject
  <2>2. CASE r = NULL
    <3>1. r \notin DOMAIN h
      BY <2>2, <1>3, MemoryAssumption
    <3>2. QED
      BY <2>1, <2>2, <3>1
  <2>3. CASE r # NULL
    BY <1>1, <1>2, <2>1, <2>3
  <2>4. QED
    BY <2>2, <2>3
<1> HIDE DEF linked, grown
<1>7. r \in Pointer /\ l \in Pointer /\ h[p].end \in 0..(UINT - 1)
  BY <1>1, <1>2, HeapTypes
<1>8. ASSUME NEW m \in DOMAIN h
      PROVE  /\ linked[m] \in ProcessObject
             /\ linked[m].start = h[m].start
             /\ linked[m].end = IF m = l THEN h[p].end ELSE h[m].end
             /\ linked[m].size = IF m = l THEN h[l].size + h[p].size ELSE h[m].size
             /\ linked[m].empty = h[m].empty
             /\ linked[m].prev = IF m = r THEN l ELSE h[m].prev
             /\ linked[m].next = IF m = l THEN r ELSE h[m].next
  <2>1. CASE m = l
    <3>1. linked[m] = [h[l] EXCEPT !.end = h[p].end, !.size = h[l].size + h[p].size, !.next = r]
      BY <2>1, <1>6
    <3>2. h[l] \in ProcessObject
      BY <1>2, <1>3
    <3>3. QED
      BY <1>1, <1>4, <1>7, <2>1, <3>1, <3>2 DEF ProcessObject
  <2>2. CASE m # l /\ m = r
    <3>1. linked[m] = [h[m] EXCEPT !.prev = l]
      BY <2>2, <1>6
    <3>2. h[m] \in ProcessObject
      BY <1>3
    <3>3. QED
      BY <1>7, <2>2, <3>1, <3>2 DEF ProcessObject
  <2>3. CASE m # l /\ m # r
    BY <2>3, <1>3, <1>6
  <2>4. QED
    BY <2>1, <2>2, <2>3
<1>9. g \in Heaps
  <2>1. DOMAIN h \ {p} \in SUBSET Node
    BY <1>3
  <2>2. g \in [DOMAIN h \ {p} -> ProcessObject]
    BY <1>5, <1>8
  <2>3. QED
    BY <2>1, <2>2 DEF Heaps
<1>10. DOMAIN g = DOMAIN h \ {p} /\ \A m \in DOMAIN g : g[m] = linked[m]
  BY <1>5
<1> HIDE DEF g
<1>11. QED
  BY <1>1, <1>8, <1>9, <1>10 DEF g, MergedPrev

\* What a merge into the hole before makes of a list is a list.
LEMMA MergePrevList ==
  ASSUME NEW h, NEW rt, NEW ch, ListIn(h, rt, ch), NEW p \in ch, h[p].prev # NULL
  PROVE  ListIn(MergeIntoPrev(h, p), rt, ch \ {p})
<1> DEFINE g == MergeIntoPrev(h, p)
           l == h[p].prev
           r == h[p].next
           cc == ch \ {p}
<1>1. /\ l \in ch /\ l # p /\ l # r /\ h[l].end + 1 = h[p].start
      /\ r # NULL => r \in ch /\ r # p
  BY Neighbours
<1>2. /\ DOMAIN g = DOMAIN h \ {p} /\ g \in Heaps
      /\ \A m \in DOMAIN g :
           /\ g[m].start = h[m].start
           /\ g[m].end = IF m = l THEN h[p].end ELSE h[m].end
           /\ g[m].size = IF m = l THEN h[l].size + h[p].size ELSE h[m].size
           /\ g[m].prev = IF m = r THEN l ELSE h[m].prev
           /\ g[m].next = IF m = l THEN r ELSE h[m].next
  <2>1. MergedPrev(h, p, g)
    BY MergePrev
  <2>2. QED
    BY <2>1 DEF MergedPrev
<1>3. h \in Heaps /\ ch \subseteq DOMAIN h /\ NULL \notin ch
  BY HeapTypes, MemoryAssumption DEF ListIn
<1> HIDE DEF g
<1>4. cc \subseteq DOMAIN g
  BY <1>2, <1>3
<1>5. LinkedIn(h, rt, ch) /\ TiledIn(h, ch) /\ CoveredIn(h, ch)
  BY DEF ListIn
<1>6. h[l].next = p /\ (r # NULL => h[r].prev = p)
  BY <1>5, <1>1, <1>3 DEF LinkedIn
<1>7. LinkedIn(g, rt, cc)
  <2>1. rt \in cc
    BY <1>5 DEF LinkedIn
  <2>2. ASSUME NEW n \in cc
        PROVE  g[n].prev = NULL <=> n = rt
    BY <1>1, <1>2, <1>3, <1>4, <1>5, <1>6 DEF LinkedIn
  <2>3. ASSUME NEW n \in cc, g[n].prev # NULL
        PROVE  g[n].prev \in cc /\ g[g[n].prev].next = n
    <3>1. CASE n = r
      BY <3>1, <1>1, <1>2, <1>4
    <3>2. CASE n # r
      <4>1. g[n].prev = h[n].prev
        BY <3>2, <1>2, <1>4
      <4>2. h[n].prev \in ch /\ h[h[n].prev].next = n
        BY <2>3, <4>1, <1>5 DEF LinkedIn
      <4>3. h[n].prev # p /\ h[n].prev # l
        BY <4>2, <3>2, <1>6
      <4>4. QED
        BY <4>1, <4>2, <4>3, <1>2, <1>4
    <3>3. QED
      BY <3>1, <3>2
  <2>4. ASSUME NEW n \in cc, g[n].next # NULL
        PROVE  g[n].next \in cc /\ g[g[n].next].prev = n
    <3>1. CASE n = l
      BY <3>1, <2>4, <1>1, <1>2, <1>4
    <3>2. CASE n # l
      <4>1. g[n].next = h[n].next
        BY <3>2, <1>2, <1>4
      <4>2. h[n].next \in ch /\ h[h[n].next].prev = n
        BY <2>4, <4>1, <1>5 DEF LinkedIn
      <4>3. h[n].next # p /\ h[n].next # r
        BY <4>2, <3>2, <1>6, <1>1, <1>3
      <4>4. QED
        BY <4>1, <4>2, <4>3, <1>2, <1>4
    <3>3. QED
      BY <3>1, <3>2
  <2>5. QED
    BY <2>1, <2>2, <2>3, <2>4 DEF LinkedIn
<1>8. \A n \in ch : /\ h[n].start \in Nat /\ h[n].end \in Nat /\ h[n].size \in Nat
                    /\ h[n].size \in 1..maxVal
                    /\ h[n].end = h[n].start + h[n].size - 1
                    /\ h[n].start <= h[n].end /\ h[n].end < maxVal
  BY <1>3, <1>5, HeapTypes, MemoryAssumption DEF TiledIn
<1>9. TiledIn(g, cc)
  <2>1. ASSUME NEW n \in cc
        PROVE  /\ g[n].size \in 1..maxVal
               /\ g[n].end = g[n].start + g[n].size - 1
               /\ g[n].end < maxVal
    BY <1>1, <1>2, <1>4, <1>8, MemoryAssumption
  <2>2. ASSUME NEW n \in cc
        PROVE  g[n].prev = NULL <=> g[n].start = 0
    <3>1. h[n].prev = NULL <=> h[n].start = 0
      BY <1>5 DEF TiledIn
    <3>2. n = r => h[n].prev # NULL
      BY <1>6, <1>3
    <3>3. QED
      BY <3>1, <3>2, <1>1, <1>2, <1>3, <1>4
  <2>3. ASSUME NEW n \in cc
        PROVE  IF g[n].next = NULL
               THEN g[n].end = maxVal - 1
               ELSE g[g[n].next].start = g[n].end + 1
    <3>1. n = l \/ h[n].next = NULL \/ (h[n].next \in cc /\ h[n].next = h[n].next)
      BY <1>1, <1>3, <1>5, <1>6 DEF LinkedIn
    <3>2. CASE n = l
      <4>1. g[n].next = r /\ g[n].end = h[p].end
        BY <3>2, <1>2, <1>4
      <4>2. r # NULL => g[r].start = h[r].start
        BY <1>1, <1>2, <1>4
      <4>3. IF r = NULL THEN h[p].end = maxVal - 1 ELSE h[r].start = h[p].end + 1
        BY <1>5 DEF TiledIn
      <4>4. QED
        BY <4>1, <4>2, <4>3
    <3>3. CASE n # l
      <4>1. g[n].next = h[n].next /\ g[n].end = h[n].end
        BY <3>3, <1>2, <1>4
      <4>2. h[n].next # NULL => h[n].next \in DOMAIN g
        BY <3>1, <3>3, <1>4
      <4>3. h[n].next # NULL => g[h[n].next].start = h[h[n].next].start
        BY <4>2, <1>2
      <4>4. IF h[n].next = NULL THEN h[n].end = maxVal - 1
            ELSE h[h[n].next].start = h[n].end + 1
        BY <1>5 DEF TiledIn
      <4>5. QED
        BY <4>1, <4>3, <4>4
    <3>4. QED
      BY <3>2, <3>3
  <2>4. ASSUME NEW m \in cc, NEW n \in cc, m # n
        PROVE  g[m].end < g[n].start \/ g[n].end < g[m].start
    <3>1. \A a, b \in {m, n, p} :
            a # b => h[a].end < h[b].start \/ h[b].end < h[a].start
      BY <1>5 DEF TiledIn
    <3>2. /\ g[m].start = h[m].start /\ g[n].start = h[n].start
          /\ g[m].end = IF m = l THEN h[p].end ELSE h[m].end
          /\ g[n].end = IF n = l THEN h[p].end ELSE h[n].end
      BY <1>2, <1>4
    <3>3. /\ h[l].start \in Nat /\ h[l].end \in Nat /\ h[p].start \in Nat
          /\ h[p].end \in Nat /\ h[m].start \in Nat /\ h[m].end \in Nat
          /\ h[n].start \in Nat /\ h[n].end \in Nat
          /\ h[n].start <= h[n].end /\ h[m].start <= h[m].end
      BY <1>1, <1>8
    <3>4. CASE m = l
      <4>1. h[p].end < h[n].start \/ h[n].end < h[p].start
        BY <3>1
      <4>2. h[l].end < h[n].start \/ h[n].end < h[l].start
        BY <3>1, <3>4, <2>4
      <4>3. QED
        BY <4>1, <4>2, <3>2, <3>3, <3>4, <2>4, <1>1
    <3>5. CASE n = l
      <4>1. h[p].end < h[m].start \/ h[m].end < h[p].start
        BY <3>1
      <4>2. h[l].end < h[m].start \/ h[m].end < h[l].start
        BY <3>1, <3>5, <2>4
      <4>3. QED
        BY <4>1, <4>2, <3>2, <3>3, <3>5, <2>4, <1>1
    <3>6. CASE m # l /\ n # l
      BY <3>1, <3>2, <3>6, <2>4
    <3>7. QED
      BY <3>4, <3>5, <3>6
  <2>5. QED
    BY <2>1, <2>2, <2>3, <2>4 DEF TiledIn
<1>10. CoveredIn(g, cc)
  <2>1. ASSUME NEW b \in 0..(maxVal - 1)
        PROVE  \E n \in cc : g[n].start <= b /\ b <= g[n].end
    <3>1. PICK n \in ch : h[n].start <= b /\ b <= h[n].end
      BY <1>5 DEF CoveredIn
    <3>2. CASE n = p \/ n = l
      <4>1. g[l].start <= b /\ b <= g[l].end
        BY <3>1, <3>2, <1>1, <1>2, <1>4, <1>8, MemoryAssumption
      <4>2. QED
        BY <4>1, <1>1
    <3>3. CASE n # p /\ n # l
      BY <3>1, <3>3, <1>2, <1>4
    <3>4. QED
      BY <3>2, <3>3
  <2>2. QED
    BY <2>1 DEF CoveredIn
<1>11. QED
  BY <1>2, <1>4, <1>7, <1>9, <1>10 DEF ListIn, g

\* deleteProcess() into the hole after.
LEMMA MergeNext ==
  ASSUME NEW h, NEW rt, NEW ch, ListIn(h, rt, ch), NEW p \in ch, h[p].next # NULL
  PROVE  MergedNext(h, p, MergeIntoNext(h, p))
<1> DEFINE g == MergeIntoNext(h, p)
           l == h[p].prev
           r == h[p].next
           grown == [h EXCEPT ![r].start = h[p].start,
                              ![r].size = (@ + h[p].size) % UINT,
                              ![r].prev = l]
           linked == IF l = NULL THEN grown ELSE [grown EXCEPT ![l].next = r]
<1>1. /\ r \in ch /\ r # p
      /\ l # NULL => l \in ch /\ l # p /\ l # r
  BY Neighbours
<1>2. h \in Heaps /\ ch \subseteq DOMAIN h /\ r \in DOMAIN h /\ p \in DOMAIN h
  BY <1>1 DEF ListIn
<1>3. DOMAIN h \subseteq Node /\ \A n \in DOMAIN h : h[n] \in ProcessObject
  BY <1>2, HeapTypes
<1>4. (h[r].size + h[p].size) % UINT = h[r].size + h[p].size
      /\ h[r].size + h[p].size \in 0..(UINT - 1)
  <2>1. /\ h[r].size \in 1..maxVal /\ h[p].size \in 1..maxVal
        /\ h[r].end = h[r].start + h[r].size - 1 /\ h[p].end = h[p].start + h[p].size - 1
        /\ h[r].end < maxVal /\ h[r].start = h[p].end + 1
    BY <1>1 DEF ListIn, TiledIn
  <2>2. h[r].start \in Nat /\ h[p].start \in Nat /\ h[p].end \in Nat /\ h[r].end \in Nat
    BY <1>2, HeapTypes, MemoryAssumption
  <2>3. h[r].size + h[p].size \in 0..(UINT - 1)
    BY <2>1, <2>2, MemoryAssumption
  <2>4. QED
    BY <2>3, MemoryAssumption
<1>5. g = [m \in DOMAIN h \ {p} |-> linked[m]]
  <2>1. DOMAIN linked = DOMAIN h
    BY <1>2
  <2>2. QED
    BY <2>1 DEF MergeIntoNext, Deleted, Restrict
<1>6. \A m \in DOMAIN h :
        linked[m] = IF m = r
                    THEN [h[r] EXCEPT !.start = h[p].start,
                                      !.size = h[r].size + h[p].size, !.prev = l]
                    ELSE IF m = l THEN [h[l] EXCEPT !.next = r] ELSE h[m]
  <2>1. \A m \in DOMAIN h :
          grown[m] = IF m = r
                    THEN [h[r] EXCEPT !.start = h[p].start,
                                      !.size = h[r].size + h[p].size, !.prev = l]
                    ELSE h[m]
    BY <1>2, <1>3, <1>4 DEF ProcessObject
  <2>2. CASE l = NULL
    <3>1. l \notin DOMAIN h
      BY <2>2, <1>3, MemoryAssumption
    <3>2. QED
      BY <2>1, <2>2, <3>1
  <2>3. CASE l # NULL
    BY <1>1, <1>2, <2>1, <2>3
  <2>4. QED
    BY <2>2, <2>3
<1> HIDE DEF linked, grown
<1>7. r \in Pointer /\ l \in Pointer /\ h[p].start \in 0..(UINT - 1)
  BY <1>1, <1>2, HeapTypes
<1>8. ASSUME NEW m \in DOMAIN h
      PROVE  /\ linked[m] \in ProcessObject
             /\ linked[m].start = IF m = r THEN h[p].start ELSE h[m].start
             /\ linked[m].end = h[m].end
             /\ linked[m].size = IF m = r THEN h[r].size + h[p].size ELSE h[m].size
             /\ linked[m].empty = h[m].empty
             /\ linked[m].prev = IF m = r THEN l ELSE h[m].prev
             /\ linked[m].next = IF m = l THEN r ELSE h[m].next
  <2>1. CASE m = r
    <3>1. linked[m] = [h[r] EXCEPT !.start = h[p].start,
                                   !.size = h[r].size + h[p].size, !.prev = l]
      BY <2>1, <1>6
    <3>2. h[r] \in ProcessObject
      BY <1>2, <1>3
    <3>3. m # l
      BY <2>1, <1>1, <1>2, <1>3, MemoryAssumption
    <3>4. QED
      BY <1>4, <1>7, <2>1, <3>1, <3>2, <3>3 DEF ProcessObject
  <2>2. CASE m # r /\ m = l
    <3>1. linked[m] = [h[m] EXCEPT !.next = r]
      BY <2>2, <1>6
    <3>2. h[m] \in ProcessObject
      BY <1>3
    <3>3. QED
      BY <1>7, <2>2, <3>1, <3>2 DEF ProcessObject
  <2>3. CASE m # l /\ m # r
    BY <2>3, <1>3, <1>6
  <2>4. QED
    BY <2>1, <2>2, <2>3
<1>9. g \in Heaps
  <2>1. DOMAIN h \ {p} \in SUBSET Node
    BY <1>3
  <2>2. g \in [DOMAIN h \ {p} -> ProcessObject]
    BY <1>5, <1>8
  <2>3. QED
    BY <2>1, <2>2 DEF Heaps
<1>10. DOMAIN g = DOMAIN h \ {p} /\ \A m \in DOMAIN g : g[m] = linked[m]
  BY <1>5
<1> HIDE DEF g
<1>11. QED
  BY <1>1, <1>8, <1>9, <1>10 DEF g, MergedNext

\* What a merge into the hole after makes of a list is a list, which starts at
\* that hole if it started at the node that is gone.
LEMMA MergeNextList ==
  ASSUME NEW h, NEW rt, NEW ch, ListIn(h, rt, ch), NEW p \in ch, h[p].next # NULL
  PROVE  ListIn(MergeIntoNext(h, p), IF p = rt THEN h[p].next ELSE rt, ch \ {p})
<1> DEFINE g == MergeIntoNext(h, p)
           l == h[p].prev
           r == h[p].next
           cc == ch \ {p}
           top == IF p = rt THEN r ELSE rt
<1>1. /\ r \in ch /\ r # p /\ h[r].start = h[p].end + 1
      /\ l # NULL => l \in ch /\ l # p /\ l # r
  BY Neighbours DEF ListIn, TiledIn
<1>2. /\ DOMAIN g = DOMAIN h \ {p} /\ g \in Heaps
      /\ \A m \in DOMAIN g :
           /\ g[m].start = IF m = r THEN h[p].start ELSE h[m].start
           /\ g[m].end = h[m].end
           /\ g[m].size = IF m = r THEN h[r].size + h[p].size ELSE h[m].size
           /\ g[m].prev = IF m = r THEN l ELSE h[m].prev
           /\ g[m].next = IF m = l THEN r ELSE h[m].next
  <2>1. MergedNext(h, p, g)
    BY MergeNext
  <2>2. QED
    BY <2>1 DEF MergedNext
<1>3. h \in Heaps /\ ch \subseteq DOMAIN h /\ NULL \notin ch
  BY HeapTypes, MemoryAssumption DEF ListIn
<1> HIDE DEF g
<1>4. cc \subseteq DOMAIN g
  BY <1>2, <1>3
<1>5. LinkedIn(h, rt, ch) /\ TiledIn(h, ch) /\ CoveredIn(h, ch)
  BY DEF ListIn
<1>6. h[r].prev = p /\ (l # NULL => h[l].next = p) /\ (l = NULL <=> p = rt)
  BY <1>5, <1>1, <1>3 DEF LinkedIn
<1>7. LinkedIn(g, top, cc)
  <2>1. top \in cc
    BY <1>1, <1>5 DEF LinkedIn
  <2>2. ASSUME NEW n \in cc
        PROVE  g[n].prev = NULL <=> n = top
    <3>1. h[n].prev = NULL <=> n = rt
      BY <1>5 DEF LinkedIn
    <3>2. g[n].prev = IF n = r THEN l ELSE h[n].prev
      BY <1>2, <1>4
    <3>3. r # rt
      BY <1>5, <1>6, <1>1, <1>3 DEF LinkedIn
    <3>4. QED
      BY <3>1, <3>2, <3>3, <1>6
  <2>3. ASSUME NEW n \in cc, g[n].prev # NULL
        PROVE  g[n].prev \in cc /\ g[g[n].prev].next = n
    <3>1. CASE n = r
      BY <3>1, <2>3, <1>1, <1>2, <1>4
    <3>2. CASE n # r
      <4>1. g[n].prev = h[n].prev
        BY <3>2, <1>2, <1>4
      <4>2. h[n].prev \in ch /\ h[h[n].prev].next = n
        BY <2>3, <4>1, <1>5 DEF LinkedIn
      <4>3. h[n].prev # p /\ h[n].prev # l
        BY <4>2, <3>2, <1>6, <1>3
      <4>4. QED
        BY <4>1, <4>2, <4>3, <1>2, <1>4
    <3>3. QED
      BY <3>1, <3>2
  <2>4. ASSUME NEW n \in cc, g[n].next # NULL
        PROVE  g[n].next \in cc /\ g[g[n].next].prev = n
    <3>1. CASE n = l
      BY <3>1, <2>4, <1>1, <1>2, <1>4
    <3>2. CASE n # l
      <4>1. g[n].next = h[n].next
        BY <3>2, <1>2, <1>4
      <4>2. h[n].next \in ch /\ h[h[n].next].prev = n
        BY <2>4, <4>1, <1>5 DEF LinkedIn
      <4>3. h[n].next # p /\ h[n].next # r
        BY <4>2, <3>2, <1>6, <1>1, <1>3
      <4>4. QED
        BY <4>1, <4>2, <4>3, <1>2, <1>4
    <3>3. QED
      BY <3>1, <3>2
  <2>5. QED
    BY <2>1, <2>2, <2>3, <2>4 DEF LinkedIn
<1>8. \A n \in ch : /\ h[n].start \in Nat /\ h[n].end \in Nat /\ h[n].size \in Nat
                    /\ h[n].size \in 1..maxVal
                    /\ h[n].end = h[n].start + h[n].size - 1
                    /\ h[n].start <= h[n].end /\ h[n].end < maxVal
  BY <1>3, <1>5, HeapTypes, MemoryAssumption DEF TiledIn
<1>9. TiledIn(g, cc)
  <2>1. ASSUME NEW n \in cc
        PROVE  /\ g[n].size \in 1..maxVal
               /\ g[n].end = g[n].start + g[n].size - 1
               /\ g[n].end < maxVal
    <3>1. CASE n = r
      <4>1. /\ g[n].start = h[p].start /\ g[n].end = h[r].end
            /\ g[n].size = h[r].size + h[p].size
        BY <3>1, <1>2, <1>4
      <4>2. /\ h[r].start \in Nat /\ h[r].end \in Nat /\ h[p].start \in Nat
            /\ h[p].end \in Nat /\ h[r].size \in 1..maxVal /\ h[p].size \in 1..maxVal
            /\ h[p].end = h[p].start + h[p].size - 1
            /\ h[r].end = h[r].start + h[r].size - 1 /\ h[r].end < maxVal
        BY <1>1, <1>8
      <4>3. QED
        BY <4>1, <4>2, <1>1, MemoryAssumption
    <3>2. CASE n # r
      BY <3>2, <1>2, <1>4, <1>8
    <3>3. QED
      BY <3>1, <3>2
  <2>2. ASSUME NEW n \in cc
        PROVE  g[n].prev = NULL <=> g[n].start = 0
    <3>1. \A m \in ch : h[m].prev = NULL <=> h[m].start = 0
      BY <1>5 DEF TiledIn
    <3>2. QED
      BY <3>1, <1>1, <1>2, <1>3, <1>4
  <2>3. ASSUME NEW n \in cc
        PROVE  IF g[n].next = NULL
               THEN g[n].end = maxVal - 1
               ELSE g[g[n].next].start = g[n].end + 1
    <3>1. CASE n = l
      <4>1. g[n].next = r /\ g[n].end = h[l].end
        BY <3>1, <1>2, <1>4
      <4>2. g[r].start = h[p].start
        BY <1>1, <1>2, <1>4
      <4>3. r # NULL /\ h[l].next = p /\ p # NULL
        BY <3>1, <1>1, <1>3, <1>6
      <4>4. h[p].start = h[l].end + 1
        BY <4>3, <3>1, <1>5 DEF TiledIn
      <4>5. QED
        BY <4>1, <4>2, <4>3, <4>4
    <3>2. CASE n # l
      <4>1. g[n].next = h[n].next /\ g[n].end = h[n].end
        BY <3>2, <1>2, <1>4
      <4>2. h[n].next # NULL => h[n].next \in cc /\ h[n].next # r
        <5>1. h[n].next # NULL => h[n].next \in ch /\ h[h[n].next].prev = n
          BY <1>5 DEF LinkedIn
        <5>2. QED
          BY <5>1, <3>2, <1>6
      <4>3. h[n].next # NULL => g[h[n].next].start = h[h[n].next].start
        BY <4>2, <1>2, <1>4
      <4>4. IF h[n].next = NULL THEN h[n].end = maxVal - 1
            ELSE h[h[n].next].start = h[n].end + 1
        BY <1>5 DEF TiledIn
      <4>5. QED
        BY <4>1, <4>3, <4>4
    <3>3. QED
      BY <3>1, <3>2
  <2>4. ASSUME NEW m \in cc, NEW n \in cc, m # n
        PROVE  g[m].end < g[n].start \/ g[n].end < g[m].start
    <3>1. \A a, b \in {m, n, p} :
            a # b => h[a].end < h[b].start \/ h[b].end < h[a].start
      BY <1>5 DEF TiledIn
    <3>2. /\ g[m].end = h[m].end /\ g[n].end = h[n].end
          /\ g[m].start = IF m = r THEN h[p].start ELSE h[m].start
          /\ g[n].start = IF n = r THEN h[p].start ELSE h[n].start
      BY <1>2, <1>4
    <3>3. /\ h[r].start \in Nat /\ h[r].end \in Nat /\ h[p].start \in Nat
          /\ h[p].end \in Nat /\ h[m].start \in Nat /\ h[m].end \in Nat
          /\ h[n].start \in Nat /\ h[n].end \in Nat /\ h[p].start <= h[p].end
          /\ h[n].start <= h[n].end /\ h[m].start <= h[m].end
      BY <1>1, <1>8
    <3>4. CASE m = r
      <4>1. h[p].end < h[n].start \/ h[n].end < h[p].start
        BY <3>1
      <4>2. h[r].end < h[n].start \/ h[n].end < h[r].start
        BY <3>1, <3>4, <2>4
      <4>3. QED
        BY <4>1, <4>2, <3>2, <3>3, <3>4, <2>4, <1>1
    <3>5. CASE n = r
      <4>1. h[p].end < h[m].start \/ h[m].end < h[p].start
        BY <3>1
      <4>2. h[r].end < h[m].start \/ h[m].end < h[r].start
        BY <3>1, <3>5, <2>4
      <4>3. QED
        BY <4>1, <4>2, <3>2, <3>3, <3>5, <2>4, <1>1
    <3>6. CASE m # r /\ n # r
      BY <3>1, <3>2, <3>6, <2>4
    <3>7. QED
      BY <3>4, <3>5, <3>6
  <2>5. QED
    BY <2>1, <2>2, <2>3, <2>4 DEF TiledIn
<1>10. CoveredIn(g, cc)
  <2>1. ASSUME NEW b \in 0..(maxVal - 1)
        PROVE  \E n \in cc : g[n].start <= b /\ b <= g[n].end
    <3>1. PICK n \in ch : h[n].start <= b /\ b <= h[n].end
      BY <1>5 DEF CoveredIn
    <3>2. CASE n = p \/ n = r
      <4>1. g[r].start <= b /\ b <= g[r].end
        BY <3>1, <3>2, <1>1, <1>2, <1>4, <1>8, MemoryAssumption
      <4>2. QED
        BY <4>1, <1>1
    <3>3. CASE n # p /\ n # r
      BY <3>1, <3>3, <1>2, <1>4
    <3>4. QED
      BY <3>2, <3>3
  <2>2. QED
    BY <2>1 DEF CoveredIn
<1>11. ListIn(g, top, cc)
  <2>1. g \in Heaps /\ cc \subseteq DOMAIN g
    BY <1>2, <1>4
  <2> HIDE DEF cc, top
  <2>2. QED
    BY <2>1, <1>7, <1>9, <1>10 DEF ListIn
<1>12. QED
  BY <1>11 DEF g

-----------------------------------------------------------------------------
(* deleteProcess().                                                          *)

\* Marking an entry as a hole leaves the list as it is.
LEMMA MarkedList ==
  ASSUME NEW h, NEW rt, NEW ch, ListIn(h, rt, ch), NEW p \in ch
  PROVE  LET g == [h EXCEPT ![p].empty = TRUE]
         IN  ListIn(g, rt, ch) /\ MarkedEmpty(h, p, g)
<1> DEFINE g == [h EXCEPT ![p].empty = TRUE]
<1>1. h \in Heaps /\ ch \subseteq DOMAIN h
  BY DEF ListIn
<1>2. DOMAIN h \subseteq Node /\ \A n \in DOMAIN h : h[n] \in ProcessObject
  BY <1>1, HeapTypes
<1>3. DOMAIN g = DOMAIN h
  BY <1>1
<1>4. ASSUME NEW m \in DOMAIN h
      PROVE  /\ g[m] \in ProcessObject
             /\ g[m].empty = IF m = p THEN TRUE ELSE h[m].empty
             /\ g[m].prev = h[m].prev /\ g[m].next = h[m].next
             /\ g[m].start = h[m].start /\ g[m].end = h[m].end
             /\ g[m].size = h[m].size
  <2>1. h[m] \in ProcessObject
    BY <1>2
  <2>2. g[m] = IF m = p THEN [h[m] EXCEPT !.empty = TRUE] ELSE h[m]
    BY <1>1
  <2>3. QED
    BY <2>1, <2>2 DEF ProcessObject
<1>5. g \in Heaps
  <2>1. g \in [DOMAIN h -> ProcessObject]
    BY <1>4
  <2>2. QED
    BY <2>1, <1>2 DEF Heaps
<1> HIDE DEF g
<1>6. \A m \in ch : /\ g[m].prev = h[m].prev /\ g[m].next = h[m].next
                    /\ g[m].start = h[m].start /\ g[m].end = h[m].end
                    /\ g[m].size = h[m].size
  BY <1>1, <1>4
<1>7. LinkedIn(h, rt, ch) /\ TiledIn(h, ch) /\ CoveredIn(h, ch)
  BY DEF ListIn
<1>8. LinkedIn(g, rt, ch)
  <2>1. ASSUME NEW n \in ch
        PROVE  /\ g[n].prev = NULL <=> n = rt
               /\ g[n].prev # NULL => g[n].prev \in ch /\ g[g[n].prev].next = n
               /\ g[n].next # NULL => g[n].next \in ch /\ g[g[n].next].prev = n
    <3>1. /\ h[n].prev = NULL <=> n = rt
          /\ h[n].prev # NULL => h[n].prev \in ch /\ h[h[n].prev].next = n
          /\ h[n].next # NULL => h[n].next \in ch /\ h[h[n].next].prev = n
      BY <1>7 DEF LinkedIn
    <3>2. QED
      BY <3>1, <1>6
  <2>2. QED
    BY <2>1, <1>7 DEF LinkedIn
<1>9. TiledIn(g, ch)
  <2>1. ASSUME NEW n \in ch
        PROVE  IF g[n].next = NULL
               THEN g[n].end = maxVal - 1
               ELSE g[g[n].next].start = g[n].end + 1
    <3>1. IF h[n].next = NULL THEN h[n].end = maxVal - 1
          ELSE h[h[n].next].start = h[n].end + 1
      BY DEF ListIn, TiledIn
    <3>2. h[n].next # NULL => h[n].next \in ch
      BY <1>7 DEF LinkedIn
    <3>3. QED
      BY <3>1, <3>2, <1>6
  <2>2. ASSUME NEW n \in ch
        PROVE  /\ g[n].size \in 1..maxVal
               /\ g[n].end = g[n].start + g[n].size - 1
               /\ g[n].end < maxVal
               /\ g[n].prev = NULL <=> g[n].start = 0
    BY <1>6, <1>7 DEF TiledIn
  <2>3. ASSUME NEW m \in ch, NEW n \in ch, m # n
        PROVE  g[m].end < g[n].start \/ g[n].end < g[m].start
    BY <2>3, <1>6, <1>7 DEF TiledIn
  <2>4. QED
    BY <2>1, <2>2, <2>3 DEF TiledIn
<1>10. CoveredIn(g, ch)
  BY <1>1, <1>4 DEF ListIn, CoveredIn
<1>11. ListIn(g, rt, ch)
  BY <1>1, <1>3, <1>5, <1>8, <1>9, <1>10 DEF ListIn
<1>12. QED
  BY <1>3, <1>4, <1>11 DEF g, MarkedEmpty

\* The second half of deleteProcess() makes the holes maximal again, and leaves
\* root at the start of the list unless it damages it.
LEMMA MergeRightSound ==
  ASSUME NEW h, NEW c \in DOMAIN h \ leaked,
         ListIn(h, root, DOMAIN h \ leaked), h[c].empty,
         ApartBut(h, DOMAIN h \ leaked, c),
         leaked \subseteq DOMAIN h, \A n \in leaked : h[n].empty,
         MergeRight(h, c), damage' = {}
  PROVE  SoundIn(heap', root', leaked) /\ UNCHANGED wild
<1> DEFINE ch == DOMAIN h \ leaked
           l == h[c].prev
           r == h[c].next
           g == MergeIntoNext(h, c)
<1>1. h \in Heaps /\ NULL \notin DOMAIN h /\ DOMAIN h \subseteq Node
  BY HeapTypes, MemoryAssumption DEF ListIn
<1>2. /\ l = NULL \/ l \in ch
      /\ r = NULL \/ r \in ch
  BY DEF ListIn, LinkedIn
<1>3. c \in DOMAIN h /\ Valid(h, l) /\ Valid(h, r)
  BY <1>2 DEF Valid
<1>4. CASE ~HoleAfter(h, c)
  <2>1. heap' = h /\ UNCHANGED <<root, wild>>
    BY <1>3, <1>4 DEF MergeRight
  <2>2. ApartIn(h, ch)
    BY <1>4 DEF ApartBut, ApartIn, HoleAfter
  <2>3. QED
    BY <2>1, <2>2 DEF SoundIn
<1>5. CASE HoleAfter(h, c)
  <2>1. r # NULL /\ h[r].empty /\ r \in ch
    BY <1>5, <1>2 DEF HoleAfter
  <2>2. PICK whole : whole = (r \in DOMAIN g /\ WholeMemory(g, r))
    OBVIOUS
  <2>3. /\ heap' = g /\ root' = (IF whole THEN r ELSE root) /\ UNCHANGED wild
        /\ damage' = IF l = NULL /\ ~whole THEN damage \cup {"head"} ELSE damage
    BY <1>3, <1>5, <2>2 DEF MergeRight
  <2>4. l # NULL \/ whole
    BY <2>3
  <2>5. ListIn(g, IF c = root THEN r ELSE root, ch \ {c})
    BY <2>1, MergeNextList
  <2>6. /\ DOMAIN g = DOMAIN h \ {c} /\ r # c
        /\ \A m \in DOMAIN g :
             /\ g[m].empty = h[m].empty
             /\ g[m].prev = IF m = r THEN l ELSE h[m].prev
             /\ g[m].next = IF m = l THEN r ELSE h[m].next
    <3>1. MergedNext(h, c, g) /\ r # c
      BY <2>1, MergeNext, Neighbours
    <3>2. QED
      BY <3>1 DEF MergedNext
  <2>7. DOMAIN g \ leaked = ch \ {c}
    BY <2>6
  <2> HIDE DEF g
  <2>8. root' = IF c = root THEN r ELSE root
    <3>1. CASE whole
      <4>1. r \in DOMAIN g /\ g[r].size >= maxVal /\ r \in ch \ {c}
        BY <3>1, <2>1, <2>2, <2>6 DEF WholeMemory
      <4>2. /\ g[r].size \in 1..maxVal /\ g[r].end = g[r].start + g[r].size - 1
            /\ g[r].end < maxVal /\ (g[r].prev = NULL <=> g[r].start = 0)
        BY <2>5, <4>1 DEF ListIn, TiledIn
      <4>3. g[r].start \in Nat
        <5>1. g \in Heaps
          BY <2>5 DEF ListIn
        <5>2. QED
          BY <4>1, <5>1, HeapTypes, MemoryAssumption
      <4>4. g[r].start = 0
        BY <4>1, <4>2, <4>3, MemoryAssumption
      <4>5. r = IF c = root THEN r ELSE root
        BY <2>5, <4>1, <4>2, <4>4 DEF ListIn, LinkedIn
      <4>6. QED
        BY <2>3, <3>1, <4>5
    <3>2. CASE ~whole
      <4>1. c # root
        BY <2>4, <3>2 DEF ListIn, LinkedIn
      <4>2. QED
        BY <2>3, <3>2, <4>1
    <3>3. QED
      BY <3>1, <3>2, <2>2
  <2>9. ApartIn(g, ch \ {c})
    <3>1. ASSUME NEW n \in ch \ {c}, g[n].empty, g[n].next # NULL
          PROVE  ~g[g[n].next].empty
      <4>1. h[n].empty /\ n \in DOMAIN g
        BY <3>1, <2>6, <2>7
      <4>2. l # NULL => h[l].next = c
        BY DEF ListIn, LinkedIn
      <4>3. n # l
        BY <4>1, <4>2, <1>1 DEF ApartBut
      <4>4. g[n].next = h[n].next
        BY <4>1, <4>3, <2>6
      <4>5. ~h[h[n].next].empty /\ h[n].next \in ch
        BY <3>1, <4>1, <4>4 DEF ApartBut, ListIn, LinkedIn
      <4>6. h[n].next \in DOMAIN g
        BY <4>5, <2>6
      <4>7. QED
        BY <4>4, <4>5, <4>6, <2>6
    <3>2. QED
      BY <3>1 DEF ApartIn
  <2>10. leaked \subseteq DOMAIN g /\ \A n \in leaked : g[n].empty
    BY <2>6
  <2>11. SoundIn(g, IF c = root THEN r ELSE root, leaked)
    <3>1. ch \ {c} = DOMAIN g \ leaked
      BY <2>7
    <3>2. ListIn(g, IF c = root THEN r ELSE root, DOMAIN g \ leaked)
      BY <2>5, <3>1
    <3>3. ApartIn(g, DOMAIN g \ leaked)
      BY <2>9, <3>1
    <3>4. QED
      BY <2>10, <3>2, <3>3 DEF SoundIn
  <2>12. QED
    BY <2>3, <2>8, <2>11
<1>6. QED
  BY <1>4, <1>5

\* deleteProcess() keeps the list exact, follows no dangling pointer, and never
\* finds what an exact fit took out of the list.
LEMMA DeleteSound ==
  ASSUME SoundIn(heap, root, leaked), NEW p, DeleteProcess(p), damage' = {}
  PROVE  SoundIn(heap', root', leaked') /\ UNCHANGED wild
<1> DEFINE ch == Live \ leaked
           l == heap[p].prev
<1>1. /\ p \in Live /\ ~heap[p].empty /\ leaked' = leaked
      /\ IF ~Valid(heap, heap[p].prev)
         THEN wild' = TRUE /\ UNCHANGED <<heap, root, damage>>
         ELSE IF ~HoleBefore(Marked(p), p)
         THEN MergeRight(Marked(p), p)
         ELSE IF ~Valid(heap, heap[p].next)
         THEN wild' = TRUE /\ UNCHANGED <<heap, root, damage>>
         ELSE MergeRight(MergeIntoPrev(Marked(p), p), heap[p].prev)
  BY DEF DeleteProcess
<1>2. /\ ListIn(heap, root, ch) /\ ApartIn(heap, ch)
      /\ leaked \subseteq Live /\ \A n \in leaked : heap[n].empty
  BY DEF SoundIn, Live
<1>3. p \in ch
  BY <1>1, <1>2
<1>4. /\ l = NULL \/ l \in ch
      /\ heap[p].next = NULL \/ heap[p].next \in ch
      /\ \A n \in ch : heap[n].next # NULL =>
           heap[n].next \in ch /\ heap[heap[n].next].prev = n
      /\ l # NULL => heap[l].next = p
  BY <1>2, <1>3 DEF ListIn, LinkedIn
<1>5. Valid(heap, l) /\ Valid(heap, heap[p].next)
  BY <1>4 DEF Valid, Live
<1>6. PICK h : h = Marked(p)
  OBVIOUS
<1>7. /\ ListIn(h, root, ch) /\ DOMAIN h = Live
      /\ \A m \in Live : /\ h[m].empty = IF m = p THEN TRUE ELSE heap[m].empty
                         /\ h[m].prev = heap[m].prev /\ h[m].next = heap[m].next
  <2>1. h = [heap EXCEPT ![p].empty = TRUE] /\ DOMAIN heap = Live
    BY <1>6 DEF Marked, Live
  <2>2. ListIn(h, root, ch) /\ MarkedEmpty(heap, p, h)
    BY <2>1, <1>2, <1>3, MarkedList
  <2>3. QED
    BY <2>1, <2>2 DEF MarkedEmpty
<1>8. NULL \notin Live
  BY <1>2, HeapTypes, MemoryAssumption DEF ListIn, Live
<1>9. CASE ~HoleBefore(h, p)
  <2>1. MergeRight(h, p)
    BY <1>1, <1>5, <1>6, <1>9
  <2>2. ASSUME NEW n \in ch \ {p}, h[n].empty, h[n].next # NULL
        PROVE  ~h[h[n].next].empty
    <3>1. heap[n].empty /\ heap[n].next # NULL /\ h[n].next = heap[n].next
      BY <2>2, <1>7
    <3>2. ~heap[heap[n].next].empty /\ heap[n].next \in ch /\ heap[heap[n].next].prev = n
      BY <3>1, <1>2, <1>4 DEF ApartIn
    <3>3. ASSUME heap[n].next = p
          PROVE  FALSE
      <4>1. h[p].prev = n /\ n # NULL
        BY <3>2, <3>3, <1>1, <1>7, <1>8
      <4>2. h[h[p].prev].empty
        BY <4>1, <2>2
      <4>3. QED
        BY <4>1, <4>2, <1>9 DEF HoleBefore
    <3>4. QED
      BY <3>1, <3>2, <3>3, <1>7
  <2>3. ApartBut(h, ch, p)
    BY <2>2 DEF ApartBut
  <2>4. /\ p \in DOMAIN h \ leaked /\ ListIn(h, root, DOMAIN h \ leaked) /\ h[p].empty
        /\ ApartBut(h, DOMAIN h \ leaked, p) /\ leaked \subseteq DOMAIN h
        /\ \A n \in leaked : h[n].empty
    BY <2>3, <1>1, <1>2, <1>3, <1>7
  <2>5. QED
    BY <2>1, <2>4, <1>1, MergeRightSound
<1>10. CASE HoleBefore(h, p)
  <2>1. PICK g : g = MergeIntoPrev(h, p)
    OBVIOUS
  <2>2. MergeRight(g, l)
    BY <1>1, <1>5, <1>6, <1>10, <2>1
  <2>3. h[p].prev = l /\ l # NULL /\ h[l].empty /\ h[p].next = heap[p].next
    BY <1>1, <1>7, <1>10 DEF HoleBefore
  <2>4. ListIn(g, root, ch \ {p})
    BY <2>1, <2>3, <1>3, <1>7, MergePrevList
  <2>5. /\ DOMAIN g = DOMAIN h \ {p} /\ l \in ch /\ l # p
        /\ \A m \in DOMAIN g :
             /\ g[m].empty = h[m].empty
             /\ g[m].next = IF m = l THEN h[p].next ELSE h[m].next
    <3>1. MergedPrev(h, p, g) /\ l \in ch /\ l # p
      BY <2>1, <2>3, <1>3, <1>7, MergePrev, Neighbours
    <3>2. QED
      BY <2>3, <3>1 DEF MergedPrev
  <2>6. DOMAIN g \ leaked = ch \ {p}
    BY <2>5, <1>7
  <2>7. ASSUME NEW n \in (ch \ {p}) \ {l}, g[n].empty, g[n].next # NULL
        PROVE  ~g[g[n].next].empty
    <3>1. heap[n].empty /\ g[n].next = heap[n].next
      <4>1. n \in DOMAIN g /\ n \in Live /\ n # l /\ n # p
        BY <2>6, <2>7
      <4>2. h[n].empty /\ g[n].next = h[n].next
        BY <2>5, <2>7, <4>1
      <4>3. QED
        BY <1>7, <4>1, <4>2
    <3>2. ~heap[heap[n].next].empty /\ heap[n].next \in ch /\ heap[heap[n].next].prev = n
      BY <2>7, <3>1, <1>2, <1>4 DEF ApartIn
    <3>3. heap[n].next # p
      BY <3>2
    <3>4. heap[n].next \in DOMAIN g /\ heap[n].next \in Live
      BY <3>2, <3>3, <2>6
    <3>5. g[heap[n].next].empty = heap[heap[n].next].empty
      BY <3>3, <3>4, <2>5, <1>7
    <3>6. QED
      BY <3>1, <3>2, <3>5
  <2>8. ApartBut(g, ch \ {p}, l)
    BY <2>7 DEF ApartBut
  <2>9. g[l].empty /\ leaked \subseteq DOMAIN g /\ \A n \in leaked : g[n].empty
    BY <2>3, <2>5, <1>1, <1>2, <1>7
  <2>10. /\ l \in DOMAIN g \ leaked /\ ListIn(g, root, DOMAIN g \ leaked)
         /\ ApartBut(g, DOMAIN g \ leaked, l)
    BY <2>4, <2>5, <2>6, <2>8
  <2>11. QED
    BY <2>2, <2>9, <2>10, <1>1, MergeRightSound
<1>11. QED
  BY <1>9, <1>10

-----------------------------------------------------------------------------
(* insert().                                                                 *)

\* The numbers of an entry.
LEMMA EntryNumbers ==
  ASSUME NEW h, NEW rt, NEW ch, ListIn(h, rt, ch), NEW n \in ch
  PROVE  /\ h[n].start \in Nat /\ h[n].end \in Nat /\ h[n].size \in Nat
         /\ h[n].size >= 1 /\ h[n].end = h[n].start + h[n].size - 1
         /\ h[n].end < maxVal
  BY HeapTypes, MemoryAssumption DEF ListIn, TiledIn

\* The walk of insert() stays in the list.
LEMMA WalkInList ==
  ASSUME SoundIn(heap, root, leaked), NEW s, NEW c, Reached(c, s)
  PROVE  c \in Chain
<1>1. ListIn(heap, root, Chain)
  BY DEF SoundIn, Chain, Live
<1>2. Chain \in SUBSET Node
  BY <1>1, HeapTypes DEF ListIn
<1>3. ClosedUnderWalk(Chain, s)
  BY <1>1 DEF ClosedUnderWalk, ListIn, LinkedIn
<1>4. QED
  BY <1>2, <1>3 DEF Reached

\* What insert() makes of the nodes, field by field.
LEMMA Inserted ==
  ASSUME SoundIn(heap, root, leaked), NEW s \in RequestSize, s # 0,
         NEW t \in Node, t \notin Live, NEW c \in Chain, Fits(c, s),
         LinkPredecessor(Placed(c, s, t), c, t),
         NEW h, heap' = h
  PROVE  LET l == heap[c].prev
             split == heap[c].size > s
         IN  /\ UNCHANGED wild /\ root' = IF c = root THEN t ELSE root
             /\ h \in Heaps /\ DOMAIN h = Live \cup {t}
             /\ h[t].start = heap[c].start /\ h[t].end = heap[c].start + s - 1
             /\ h[t].size = s /\ ~h[t].empty /\ h[t].prev = l
             /\ h[t].next = IF split THEN c ELSE heap[c].next
             /\ \A m \in Live :
                  /\ h[m].start = IF m = c /\ split THEN heap[c].start + s ELSE heap[m].start
                  /\ h[m].size = IF m = c /\ split THEN heap[c].size - s ELSE heap[m].size
                  /\ h[m].prev = IF m = c /\ split THEN t ELSE heap[m].prev
                  /\ h[m].next = IF m = l THEN t ELSE heap[m].next
                  /\ h[m].end = heap[m].end /\ h[m].empty = heap[m].empty
<1> DEFINE l == heap[c].prev
           split == heap[c].size > s
           q == Placed(c, s, t)
<1>1. /\ ListIn(heap, root, Chain) /\ heap \in Heaps /\ Live \subseteq Node
      /\ Chain \subseteq Live /\ NULL \notin Live /\ c \in Live /\ c # t
  BY HeapTypes, MemoryAssumption DEF SoundIn, ListIn, Chain, Live
<1>2. \A n \in Live : /\ heap[n] \in ProcessObject
                      /\ heap[n].start \in 0..(UINT - 1) /\ heap[n].end \in 0..(UINT - 1)
                      /\ heap[n].size \in 0..(UINT - 1) /\ heap[n].empty \in BOOLEAN
                      /\ heap[n].prev \in Pointer /\ heap[n].next \in Pointer
  BY <1>1, HeapTypes DEF Live
<1>3. /\ heap[c].start \in Nat /\ heap[c].end \in Nat /\ heap[c].size \in Nat
      /\ heap[c].size >= 1 /\ heap[c].end = heap[c].start + heap[c].size - 1
      /\ heap[c].end < maxVal
  BY <1>1, EntryNumbers
<1>4. /\ s \in 1..(UINT - 1) /\ heap[c].size >= s
      /\ UINT \in Nat /\ maxVal \in 1..(UINT - 1)
  BY MemoryAssumption DEF Fits
<1>5. /\ heap[c].start + s - 1 \in 0..(UINT - 1)
      /\ (heap[c].start + s - 1) % UINT = heap[c].start + s - 1
  <2>1. heap[c].start + s - 1 \in 0..(UINT - 1)
    BY <1>3, <1>4
  <2>2. QED
    BY <2>1, <1>4
<1>6. ASSUME split
      PROVE  /\ heap[c].start + s \in 0..(UINT - 1) /\ heap[c].size - s \in 0..(UINT - 1)
             /\ (heap[c].start + s) % UINT = heap[c].start + s
  <2>1. heap[c].start + s \in 0..(UINT - 1) /\ heap[c].size - s \in 0..(UINT - 1)
    BY <1>3, <1>4, <1>6
  <2>2. QED
    BY <2>1, <1>4
<1>7. l = NULL \/ l \in Chain
  BY <1>1 DEF ListIn, LinkedIn
<1>8. l # c /\ l # t /\ (l = NULL <=> c = root) /\ (l = NULL <=> heap[c].start = 0)
  <2>1. l = NULL <=> c = root
    BY <1>1 DEF ListIn, LinkedIn
  <2>2. l = NULL <=> heap[c].start = 0
    BY <1>1 DEF ListIn, TiledIn
  <2>3. l # NULL => l # c
    BY <1>1, Neighbours
  <2>4. l # c /\ l # t
    BY <2>3, <1>1, <1>7, MemoryAssumption
  <2>5. QED
    BY <2>1, <2>2, <2>4
<1>9. /\ DOMAIN q = Live \cup {t} /\ q[t] = NewProcess(c, s)
      /\ q[c] = Remainder(c, s, t)
      /\ \A m \in Live \ {c} : q[m] = heap[m]
  BY <1>1 DEF Placed
<1>10. /\ q[t] \in ProcessObject
       /\ q[t].start = heap[c].start /\ q[t].end = heap[c].start + s - 1
       /\ q[t].size = s /\ ~q[t].empty /\ q[t].prev = l
       /\ q[t].next = IF split THEN c ELSE heap[c].next
  <2>1. Exact(c, s) <=> ~split
    BY DEF Exact
  <2>2. c \in Pointer /\ l \in Pointer /\ heap[c].next \in Pointer
    BY <1>1, <1>2 DEF Pointer
  <2>3. q[t] = [start |-> heap[c].start, end |-> heap[c].start + s - 1, size |-> s,
                prev |-> l, next |-> IF split THEN c ELSE heap[c].next, empty |-> FALSE]
    BY <1>5, <1>9, <2>1 DEF NewProcess
  <2>4. QED
    BY <1>1, <1>2, <1>4, <1>5, <2>2, <2>3 DEF ProcessObject
<1>11. /\ q[c] \in ProcessObject
       /\ q[c].start = IF split THEN heap[c].start + s ELSE heap[c].start
       /\ q[c].size = IF split THEN heap[c].size - s ELSE heap[c].size
       /\ q[c].prev = IF split THEN t ELSE l
       /\ q[c].next = heap[c].next
       /\ q[c].end = heap[c].end /\ q[c].empty = heap[c].empty
  <2>1. CASE split
    <3>1. q[c] = [heap[c] EXCEPT !.start = heap[c].start + s, !.size = heap[c].size - s, !.prev = t]
      <4>1. heap[c] \in ProcessObject
        BY <1>1, <1>2
      <4>2. q[c] = [heap[c] EXCEPT !.start = (@ + s) % UINT, !.size = @ - s, !.prev = t]
        BY <1>9, <2>1 DEF Remainder, Exact
      <4>3. QED
        BY <4>1, <4>2, <2>1, <1>6 DEF ProcessObject
    <3>2. heap[c] \in ProcessObject /\ t \in Pointer
      BY <1>1, <1>2 DEF Pointer
    <3>3. QED
      BY <2>1, <3>1, <3>2, <1>6 DEF ProcessObject
  <2>2. CASE ~split
    <3>1. q[c] = heap[c]
      BY <1>9, <2>2 DEF Remainder, Exact
    <3>2. QED
      BY <2>2, <3>1, <1>1, <1>2
  <2>3. QED
    BY <2>1, <2>2
<1> HIDE DEF q
<1>12. /\ UNCHANGED wild /\ root' = IF c = root THEN t ELSE root
       /\ h = IF l = NULL THEN q ELSE [q EXCEPT ![l].next = t]
  <2>1. l # NULL => l \in DOMAIN q
    BY <1>1, <1>7, <1>9
  <2>2. QED
    BY <2>1, <1>8 DEF LinkPredecessor, q
<1>13. /\ DOMAIN h = Live \cup {t} /\ h[t] = q[t]
       /\ \A m \in Live : h[m] = IF m = l THEN [q[m] EXCEPT !.next = t] ELSE q[m]
  <2>1. CASE l = NULL
    BY <2>1, <1>1, <1>9, <1>12
  <2>2. CASE l # NULL
    <3>1. l \in DOMAIN q /\ h = [q EXCEPT ![l].next = t]
      BY <2>2, <1>1, <1>7, <1>9, <1>12
    <3>2. QED
      BY <3>1, <1>8, <1>9
  <2>3. QED
    BY <2>1, <2>2
<1>14. ASSUME NEW m \in Live
       PROVE  /\ h[m] \in ProcessObject
              /\ h[m].start = IF m = c /\ split THEN heap[c].start + s ELSE heap[m].start
              /\ h[m].size = IF m = c /\ split THEN heap[c].size - s ELSE heap[m].size
              /\ h[m].prev = IF m = c /\ split THEN t ELSE heap[m].prev
              /\ h[m].next = IF m = l THEN t ELSE heap[m].next
              /\ h[m].end = heap[m].end /\ h[m].empty = heap[m].empty
  <2>1. CASE m = c
    <3>1. h[m] = q[c]
      BY <2>1, <1>8, <1>13
    <3>2. QED
      BY <2>1, <3>1, <1>8, <1>11
  <2>2. CASE m = l
    <3>1. h[m] = [heap[m] EXCEPT !.next = t] /\ m # c
      BY <2>2, <1>8, <1>9, <1>13
    <3>2. heap[m] \in ProcessObject /\ t \in Pointer
      BY <1>2 DEF Pointer
    <3>3. QED
      BY <2>2, <3>1, <3>2 DEF ProcessObject
  <2>3. CASE m # c /\ m # l
    BY <2>3, <1>2, <1>9, <1>13
  <2>4. QED
    BY <2>1, <2>2, <2>3
<1>15. h \in Heaps
  <2>1. h = [m \in Live \cup {t} |-> h[m]]
    <3>1. CASE l = NULL
      BY <3>1, <1>9, <1>12 DEF q, Placed
    <3>2. CASE l # NULL
      BY <3>2, <1>9, <1>12
    <3>3. QED
      BY <3>1, <3>2
  <2>2. \A m \in Live \cup {t} : h[m] \in ProcessObject
    BY <1>10, <1>13, <1>14
  <2>3. h \in [Live \cup {t} -> ProcessObject] /\ Live \cup {t} \in SUBSET Node
    BY <2>1, <2>2, <1>1
  <2>4. QED
    BY <2>3 DEF Heaps
<1>16. QED
  BY <1>10, <1>12, <1>13, <1>14, <1>15

\* A hole that is larger than the request is split.
LEMMA SplitSound ==
  ASSUME SoundIn(heap, root, leaked), NEW s \in RequestSize, s # 0,
         NEW t \in Node, t \notin Live, NEW c \in Chain, Fits(c, s),
         LinkPredecessor(Placed(c, s, t), c, t), heap[c].size > s
  PROVE  SoundIn(heap', root', leaked)
<1> DEFINE ch == Chain
           l == heap[c].prev
           cc == Chain \cup {t}
           top == IF c = root THEN t ELSE root
<1>1. /\ ListIn(heap, root, Chain) /\ heap \in Heaps /\ Live \subseteq Node
      /\ Chain \subseteq Live /\ NULL \notin Live /\ c \in Live /\ c # t /\ t # NULL
  BY HeapTypes, MemoryAssumption DEF SoundIn, ListIn, Chain, Live
<1>2. LinkedIn(heap, root, Chain) /\ TiledIn(heap, Chain) /\ CoveredIn(heap, Chain)
  BY <1>1 DEF ListIn
<1>3. PICK h : h = heap'
  OBVIOUS
<1>4. /\ root' = top /\ h \in Heaps /\ DOMAIN h = Live \cup {t}
      /\ h[t].start = heap[c].start /\ h[t].end = heap[c].start + s - 1
      /\ h[t].size = s /\ ~h[t].empty /\ h[t].prev = l /\ h[t].next = c
      /\ \A m \in Live :
           /\ h[m].start = IF m = c THEN heap[c].start + s ELSE heap[m].start
           /\ h[m].size = IF m = c THEN heap[c].size - s ELSE heap[m].size
           /\ h[m].prev = IF m = c THEN t ELSE heap[m].prev
           /\ h[m].next = IF m = l THEN t ELSE heap[m].next
           /\ h[m].end = heap[m].end /\ h[m].empty = heap[m].empty
  BY <1>3, Inserted
<1>5. \A n \in ch : /\ heap[n].start \in Nat /\ heap[n].end \in Nat /\ heap[n].size \in Nat
                    /\ heap[n].size >= 1 /\ heap[n].end = heap[n].start + heap[n].size - 1
                    /\ heap[n].end < maxVal
  BY <1>1, EntryNumbers
<1>6. s \in Nat /\ s >= 1 /\ heap[c].size > s /\ heap[c].empty /\ maxVal \in Nat
  BY MemoryAssumption DEF Fits
<1>7. /\ l = NULL \/ l \in ch
      /\ l # c /\ l # t /\ (l = NULL <=> c = root) /\ (l = NULL <=> heap[c].start = 0)
      /\ l # NULL => heap[l].next = c
      /\ heap[c].next # NULL => heap[c].next \in ch /\ heap[c].next # c
  <2>1. l = NULL \/ l \in ch
    BY <1>2 DEF LinkedIn
  <2>2. l = NULL <=> heap[c].start = 0
    BY <1>2 DEF TiledIn
  <2>3. (l = NULL <=> c = root) /\ (l # NULL => heap[l].next = c)
    BY <1>2 DEF LinkedIn
  <2>4. l # NULL => l # c
    BY <1>1, Neighbours
  <2>5. heap[c].next # NULL => heap[c].next \in ch /\ heap[c].next # c
    BY <1>1, Neighbours
  <2>6. QED
    BY <2>1, <2>2, <2>3, <2>4, <2>5, <1>1
<1>8. \A m \in ch : m \in Live /\ m # t
  BY <1>1
<1>9. LinkedIn(h, top, cc)
  <2>1. top \in cc
    BY <1>2 DEF LinkedIn
  <2>2. ASSUME NEW n \in cc
        PROVE  /\ h[n].prev = NULL <=> n = top
               /\ h[n].prev # NULL => h[n].prev \in cc /\ h[h[n].prev].next = n
               /\ h[n].next # NULL => h[n].next \in cc /\ h[h[n].next].prev = n
    <3>1. CASE n = t
      <4>1. root # t
        BY <1>2, <1>8 DEF LinkedIn
      <4>2. QED
        BY <3>1, <4>1, <1>1, <1>4, <1>7, <1>8
    <3>2. CASE n = c
      <4>1. h[n].prev = t /\ h[t].next = c /\ n # top /\ h[n].next = heap[c].next
        BY <3>2, <1>1, <1>4, <1>7
      <4>2. heap[c].next # NULL => h[heap[c].next].prev = c
        <5>1. heap[c].next # NULL => heap[heap[c].next].prev = c
          BY <1>2 DEF LinkedIn
        <5>2. QED
          BY <5>1, <1>4, <1>7, <1>8
      <4>3. QED
        BY <3>2, <4>1, <4>2, <1>1, <1>7
    <3>3. CASE n # t /\ n # c
      <4>1. n \in ch /\ n \in Live
        BY <3>3, <1>8
      <4>2. /\ heap[n].prev = NULL <=> n = root
            /\ heap[n].prev # NULL => heap[n].prev \in ch /\ heap[heap[n].prev].next = n
            /\ heap[n].next # NULL => heap[n].next \in ch /\ heap[heap[n].next].prev = n
        BY <4>1, <1>2 DEF LinkedIn
      <4>3. h[n].prev = heap[n].prev /\ h[n].next = IF n = l THEN t ELSE heap[n].next
        BY <3>3, <4>1, <1>4
      <4>4. heap[n].prev # NULL => h[heap[n].prev].next = n
        BY <3>3, <4>2, <1>4, <1>7, <1>8
      <4>5. n # l /\ heap[n].next # NULL => h[heap[n].next].prev = n
        BY <3>3, <4>2, <1>4, <1>7, <1>8
      <4>6. QED
        BY <3>3, <4>2, <4>3, <4>4, <4>5, <1>4
    <3>4. QED
      BY <3>1, <3>2, <3>3
  <2>3. QED
    BY <2>1, <2>2 DEF LinkedIn
<1>10. \A n \in ch \ {c} : /\ h[n].start = heap[n].start /\ h[n].end = heap[n].end
                           /\ h[n].size = heap[n].size /\ h[n].prev = heap[n].prev
  BY <1>4, <1>8
<1>11. /\ h[c].start = heap[c].start + s /\ h[c].size = heap[c].size - s
       /\ h[c].prev = t /\ h[c].next = heap[c].next /\ h[c].end = heap[c].end
  BY <1>1, <1>4, <1>7
<1>12. TiledIn(h, cc)
  <2>1. ASSUME NEW n \in cc
        PROVE  /\ h[n].size \in 1..maxVal
               /\ h[n].end = h[n].start + h[n].size - 1
               /\ h[n].end < maxVal
               /\ h[n].prev = NULL <=> h[n].start = 0
    <3>1. CASE n = t
      BY <3>1, <1>4, <1>5, <1>6, <1>7
    <3>2. CASE n = c
      BY <3>2, <1>1, <1>5, <1>6, <1>11
    <3>3. CASE n # t /\ n # c
      BY <3>3, <1>2, <1>10 DEF TiledIn
    <3>4. QED
      BY <3>1, <3>2, <3>3
  <2>2. ASSUME NEW n \in cc
        PROVE  IF h[n].next = NULL
               THEN h[n].end = maxVal - 1
               ELSE h[h[n].next].start = h[n].end + 1
    <3>1. CASE n = t
      BY <3>1, <1>1, <1>4, <1>5, <1>6, <1>11
    <3>2. CASE n # t
      <4>1. IF heap[n].next = NULL THEN heap[n].end = maxVal - 1
            ELSE heap[heap[n].next].start = heap[n].end + 1
        BY <3>2, <1>2 DEF TiledIn
      <4>2. heap[n].next # NULL => heap[n].next \in ch /\ heap[heap[n].next].prev = n
        BY <3>2, <1>2 DEF LinkedIn
      <4>3. h[n].next = (IF n = l THEN t ELSE heap[n].next) /\ h[n].end = heap[n].end
        BY <3>2, <1>4, <1>8
      <4>4. CASE n = l
        <5>1. heap[l].next = c /\ l # NULL
          BY <4>4, <3>2, <1>1, <1>7, <1>8
        <5>2. heap[c].start = heap[n].end + 1
          BY <5>1, <4>1, <4>4, <1>1
        <5>3. h[n].next = t /\ t # NULL
          BY <4>3, <4>4, <1>1
        <5>4. QED
          BY <5>2, <5>3, <4>3, <1>4
      <4>5. CASE n # l
        <5>1. heap[n].next # NULL => heap[n].next \in ch \ {c}
          BY <4>2, <4>5
        <5>2. heap[n].next # NULL => h[heap[n].next].start = heap[heap[n].next].start
          BY <5>1, <1>10
        <5>3. QED
          BY <4>1, <4>3, <4>5, <5>2
      <4>6. QED
        BY <4>4, <4>5
    <3>3. QED
      BY <3>1, <3>2
  <2>3. \A n \in cc : h[n].start \in Nat /\ h[n].end \in Nat /\ h[n].start <= h[n].end
    <3>1. ASSUME NEW n \in cc
          PROVE  h[n].start \in Nat /\ h[n].end \in Nat /\ h[n].start <= h[n].end
      <4>1. CASE n = t
        BY <4>1, <1>4, <1>5, <1>6
      <4>2. CASE n = c
        BY <4>2, <1>5, <1>6, <1>11
      <4>3. CASE n # t /\ n # c
        BY <4>3, <1>5, <1>10
      <4>4. QED
        BY <4>1, <4>2, <4>3
    <3>2. QED
      BY <3>1
  <2>4. \A n \in ch \ {c} : heap[c].end < heap[n].start \/ heap[n].end < heap[c].start
    BY <1>2 DEF TiledIn
  <2>5. h[t].end < h[c].start
    BY <1>4, <1>5, <1>6, <1>11
  <2>6. \A n \in ch \ {c} : /\ h[c].end < h[n].start \/ h[n].end < h[c].start
                            /\ h[t].end < h[n].start \/ h[n].end < h[t].start
    BY <2>4, <1>4, <1>5, <1>6, <1>10, <1>11
  <2>7. \A m, n \in ch \ {c} : m # n => h[m].end < h[n].start \/ h[n].end < h[m].start
    BY <1>2, <1>10 DEF TiledIn
  <2>8. \A m, n \in cc : m # n => h[m].end < h[n].start \/ h[n].end < h[m].start
    BY <2>5, <2>6, <2>7
  <2>9. QED
    BY <2>1, <2>2, <2>8 DEF TiledIn
<1>13. CoveredIn(h, cc)
  <2>1. ASSUME NEW b \in 0..(maxVal - 1)
        PROVE  \E n \in cc : h[n].start <= b /\ b <= h[n].end
    <3>1. PICK n \in ch : heap[n].start <= b /\ b <= heap[n].end
      BY <1>2 DEF CoveredIn
    <3>2. CASE n # c
      BY <3>1, <3>2, <1>10
    <3>3. CASE n = c /\ b < heap[c].start + s
      <4>1. h[t].start <= b /\ b <= h[t].end
        BY <3>1, <3>3, <1>4, <1>5, <1>6
      <4>2. QED
        BY <4>1
    <3>4. CASE n = c /\ ~(b < heap[c].start + s)
      <4>1. h[c].start <= b /\ b <= h[c].end
        BY <3>1, <3>4, <1>11, <1>5, <1>6
      <4>2. QED
        BY <4>1
    <3>5. QED
      BY <3>2, <3>3, <3>4
  <2>2. QED
    BY <2>1 DEF CoveredIn
<1>14. ApartIn(h, cc)
  <2>1. ASSUME NEW n \in cc, h[n].empty, h[n].next # NULL
        PROVE  ~h[h[n].next].empty
    <3>1. n \in ch /\ heap[n].empty /\ h[n].next = IF n = l THEN t ELSE heap[n].next
      BY <2>1, <1>4, <1>8
    <3>2. CASE n = l
      BY <3>1, <3>2, <1>4
    <3>3. CASE n # l
      <4>1. ~heap[heap[n].next].empty /\ heap[n].next \in ch
        BY <2>1, <3>1, <3>3, <1>2 DEF SoundIn, ApartIn, LinkedIn, Chain, Live
      <4>2. QED
        BY <4>1, <3>1, <3>3, <1>4, <1>8
    <3>4. QED
      BY <3>2, <3>3
  <2>2. QED
    BY <2>1 DEF ApartIn
<1>15. leaked \subseteq DOMAIN h /\ \A n \in leaked : h[n].empty
  BY <1>4 DEF SoundIn, Live
<1>16. cc = DOMAIN h \ leaked
  <2>1. leaked \subseteq Live
    BY DEF SoundIn, Live
  <2>2. QED
    BY <2>1, <1>4 DEF Chain
<1>17. cc \subseteq DOMAIN h
  BY <1>4, <1>8
<1> HIDE DEF cc, top
<1>18. SoundIn(h, top, leaked)
  BY <1>4, <1>9, <1>12, <1>13, <1>14, <1>15, <1>16, <1>17 DEF SoundIn, ListIn
<1>19. QED
  BY <1>3, <1>4, <1>18

\* A hole of exactly the requested size at the end of the RAM is replaced, and
\* leaks.
LEMMA ExactSound ==
  ASSUME SoundIn(heap, root, leaked), NEW s \in RequestSize, s # 0,
         NEW t \in Node, t \notin Live, NEW c \in Chain, Fits(c, s),
         LinkPredecessor(Placed(c, s, t), c, t),
         ~(heap[c].size > s), heap[c].next = NULL
  PROVE  SoundIn(heap', root', leaked \cup {c})
<1> DEFINE ch == Chain
           l == heap[c].prev
           cc == (Chain \ {c}) \cup {t}
           top == IF c = root THEN t ELSE root
<1>1. /\ ListIn(heap, root, Chain) /\ heap \in Heaps /\ Live \subseteq Node
      /\ Chain \subseteq Live /\ NULL \notin Live /\ c \in Live /\ c # t /\ t # NULL
  BY HeapTypes, MemoryAssumption DEF SoundIn, ListIn, Chain, Live
<1>2. LinkedIn(heap, root, Chain) /\ TiledIn(heap, Chain) /\ CoveredIn(heap, Chain)
  BY <1>1 DEF ListIn
<1>3. PICK h : h = heap'
  OBVIOUS
<1>4. /\ root' = top /\ h \in Heaps /\ DOMAIN h = Live \cup {t}
      /\ h[t].start = heap[c].start /\ h[t].end = heap[c].start + s - 1
      /\ h[t].size = s /\ ~h[t].empty /\ h[t].prev = l /\ h[t].next = NULL
      /\ \A m \in Live :
           /\ h[m].start = heap[m].start /\ h[m].size = heap[m].size
           /\ h[m].prev = heap[m].prev
           /\ h[m].next = IF m = l THEN t ELSE heap[m].next
           /\ h[m].end = heap[m].end /\ h[m].empty = heap[m].empty
  BY <1>3, Inserted
<1>5. \A n \in ch : /\ heap[n].start \in Nat /\ heap[n].end \in Nat /\ heap[n].size \in Nat
                    /\ heap[n].size >= 1 /\ heap[n].end = heap[n].start + heap[n].size - 1
                    /\ heap[n].end < maxVal
  BY <1>1, EntryNumbers
<1>6. /\ s \in Nat /\ s >= 1 /\ heap[c].size = s /\ heap[c].empty /\ maxVal \in Nat
      /\ h[t].end = heap[c].end
  <2>1. s \in Nat /\ s >= 1 /\ maxVal \in Nat
    BY MemoryAssumption
  <2>2. heap[c].empty /\ heap[c].size >= s
    BY DEF Fits
  <2>3. heap[c].size = s
    BY <1>5, <2>1, <2>2
  <2>4. QED
    BY <2>1, <2>2, <2>3, <1>4, <1>5
<1>7. /\ l = NULL \/ l \in ch
      /\ l # c /\ l # t /\ (l = NULL <=> c = root) /\ (l = NULL <=> heap[c].start = 0)
      /\ l # NULL => heap[l].next = c
      /\ heap[c].end = maxVal - 1
  <2>1. l = NULL \/ l \in ch
    BY <1>2 DEF LinkedIn
  <2>2. (l = NULL <=> heap[c].start = 0) /\ heap[c].end = maxVal - 1
    BY <1>2 DEF TiledIn
  <2>3. (l = NULL <=> c = root) /\ (l # NULL => heap[l].next = c)
    BY <1>2 DEF LinkedIn
  <2>4. l # NULL => l # c
    BY <1>1, Neighbours
  <2>5. QED
    BY <2>1, <2>2, <2>3, <2>4, <1>1
<1>8. \A m \in ch : m \in Live /\ m # t
  BY <1>1
<1>9. LinkedIn(h, top, cc)
  <2>1. top \in cc
    BY <1>2 DEF LinkedIn
  <2>2. ASSUME NEW n \in cc
        PROVE  /\ h[n].prev = NULL <=> n = top
               /\ h[n].prev # NULL => h[n].prev \in cc /\ h[h[n].prev].next = n
               /\ h[n].next # NULL => h[n].next \in cc /\ h[h[n].next].prev = n
    <3>1. CASE n = t
      <4>1. root # t
        BY <1>2, <1>8 DEF LinkedIn
      <4>2. QED
        BY <3>1, <4>1, <1>1, <1>4, <1>7, <1>8
    <3>2. CASE n # t
      <4>1. n \in ch /\ n \in Live /\ n # c
        BY <3>2, <1>8
      <4>2. /\ heap[n].prev = NULL <=> n = root
            /\ heap[n].prev # NULL => heap[n].prev \in ch /\ heap[heap[n].prev].next = n
            /\ heap[n].next # NULL => heap[n].next \in ch /\ heap[heap[n].next].prev = n
        BY <4>1, <1>2 DEF LinkedIn
      <4>3. h[n].prev = heap[n].prev /\ h[n].next = IF n = l THEN t ELSE heap[n].next
        BY <4>1, <1>4
      <4>4. heap[n].prev # NULL => heap[n].prev \in cc /\ h[heap[n].prev].next = n
        BY <4>1, <4>2, <1>1, <1>4, <1>7, <1>8
      <4>5. n # l /\ heap[n].next # NULL =>
              heap[n].next \in cc /\ h[heap[n].next].prev = n
        BY <4>1, <4>2, <1>4, <1>7, <1>8
      <4>6. QED
        BY <4>1, <4>2, <4>3, <4>4, <4>5, <1>4, <3>2
    <3>3. QED
      BY <3>1, <3>2
  <2>3. QED
    BY <2>1, <2>2 DEF LinkedIn
<1>10. \A n \in ch : /\ h[n].start = heap[n].start /\ h[n].end = heap[n].end
                     /\ h[n].size = heap[n].size /\ h[n].prev = heap[n].prev
  BY <1>4, <1>8
<1>12. TiledIn(h, cc)
  <2>1. ASSUME NEW n \in cc
        PROVE  /\ h[n].size \in 1..maxVal
               /\ h[n].end = h[n].start + h[n].size - 1
               /\ h[n].end < maxVal
               /\ h[n].prev = NULL <=> h[n].start = 0
    <3>1. CASE n = t
      BY <3>1, <1>4, <1>5, <1>6, <1>7
    <3>2. CASE n # t
      BY <3>2, <1>2, <1>10 DEF TiledIn
    <3>3. QED
      BY <3>1, <3>2
  <2>2. ASSUME NEW n \in cc
        PROVE  IF h[n].next = NULL
               THEN h[n].end = maxVal - 1
               ELSE h[h[n].next].start = h[n].end + 1
    <3>1. CASE n = t
      BY <3>1, <1>4, <1>6, <1>7
    <3>2. CASE n # t
      <4>1. IF heap[n].next = NULL THEN heap[n].end = maxVal - 1
            ELSE heap[heap[n].next].start = heap[n].end + 1
        BY <3>2, <1>2 DEF TiledIn
      <4>2. heap[n].next # NULL => heap[n].next \in ch /\ heap[heap[n].next].prev = n
        BY <3>2, <1>2 DEF LinkedIn
      <4>3. h[n].next = (IF n = l THEN t ELSE heap[n].next) /\ h[n].end = heap[n].end
        BY <3>2, <1>4, <1>8
      <4>4. CASE n = l
        <5>1. heap[l].next = c /\ l # NULL
          BY <4>4, <3>2, <1>1, <1>7, <1>8
        <5>2. heap[c].start = heap[n].end + 1
          BY <5>1, <4>1, <4>4, <1>1
        <5>3. h[n].next = t /\ t # NULL
          BY <4>3, <4>4, <1>1
        <5>4. QED
          BY <5>2, <5>3, <4>3, <1>4
      <4>5. CASE n # l
        <5>1. heap[n].next # NULL => h[heap[n].next].start = heap[heap[n].next].start
          BY <4>2, <1>10
        <5>2. QED
          BY <4>1, <4>3, <4>5, <5>1
      <4>6. QED
        BY <4>4, <4>5
    <3>3. QED
      BY <3>1, <3>2
  <2>3. \A m, n \in ch : m # n => h[m].end < h[n].start \/ h[n].end < h[m].start
    BY <1>2, <1>10 DEF TiledIn
  <2>4. h[t].start = h[c].start /\ h[t].end = h[c].end
    BY <1>4, <1>6, <1>10
  <2>5. \A m, n \in cc : m # n => h[m].end < h[n].start \/ h[n].end < h[m].start
    BY <2>3, <2>4
  <2>6. QED
    BY <2>1, <2>2, <2>5 DEF TiledIn
<1>13. CoveredIn(h, cc)
  <2>1. ASSUME NEW b \in 0..(maxVal - 1)
        PROVE  \E n \in cc : h[n].start <= b /\ b <= h[n].end
    <3>1. PICK n \in ch : heap[n].start <= b /\ b <= heap[n].end
      BY <1>2 DEF CoveredIn
    <3>2. CASE n # c
      BY <3>1, <3>2, <1>10
    <3>3. CASE n = c
      <4>1. h[t].start <= b /\ b <= h[t].end
        BY <3>1, <3>3, <1>4, <1>6
      <4>2. QED
        BY <4>1
    <3>4. QED
      BY <3>2, <3>3
  <2>2. QED
    BY <2>1 DEF CoveredIn
<1>14. ApartIn(h, cc)
  <2>1. ASSUME NEW n \in cc, h[n].empty, h[n].next # NULL
        PROVE  ~h[h[n].next].empty
    <3>1. n \in ch /\ heap[n].empty /\ h[n].next = IF n = l THEN t ELSE heap[n].next
      BY <2>1, <1>4, <1>8
    <3>2. CASE n = l
      BY <3>1, <3>2, <1>4
    <3>3. CASE n # l
      <4>1. ~heap[heap[n].next].empty /\ heap[n].next \in ch
        BY <2>1, <3>1, <3>3, <1>2 DEF SoundIn, ApartIn, LinkedIn, Chain, Live
      <4>2. QED
        BY <4>1, <3>1, <3>3, <1>4, <1>8
    <3>4. QED
      BY <3>2, <3>3
  <2>2. QED
    BY <2>1 DEF ApartIn
<1>15. leaked \cup {c} \subseteq DOMAIN h /\ \A n \in leaked \cup {c} : h[n].empty
  BY <1>1, <1>4, <1>6 DEF SoundIn, Live
<1>16. cc = DOMAIN h \ (leaked \cup {c})
  <2>1. leaked \subseteq Live
    BY DEF SoundIn, Live
  <2>2. QED
    BY <2>1, <1>1, <1>4 DEF Chain
<1>17. cc \subseteq DOMAIN h
  BY <1>4, <1>8
<1> HIDE DEF cc, top
<1>18. SoundIn(h, top, leaked \cup {c})
  BY <1>4, <1>9, <1>12, <1>13, <1>14, <1>15, <1>16, <1>17 DEF SoundIn, ListIn
<1>19. QED
  BY <1>3, <1>4, <1>18

\* insert() keeps the list exact unless it damages it.
LEMMA InsertSound ==
  ASSUME SoundIn(heap, root, leaked), NEW s \in RequestSize, NEW t \in Node,
         Insert(s, t), damage' = {}
  PROVE  SoundIn(heap', root', leaked')
<1>1. t \notin Live
  BY DEF Insert
<1>2. PICK c \in Live : /\ Spot(c, s) /\ LinkPredecessor(Placed(c, s, t), c, t)
                        /\ InsertHistory(c, s)
  BY DEF Insert
<1>3. c \in Chain /\ Fits(c, s)
  BY <1>2, WalkInList DEF Spot
<1>4. /\ leaked' = (IF Exact(c, s) THEN leaked \cup {c} ELSE leaked)
      /\ s # 0 /\ ~(Exact(c, s) /\ heap[c].next # NULL)
  BY <1>2 DEF InsertHistory
<1>5. CASE heap[c].size > s
  BY <1>1, <1>2, <1>3, <1>4, <1>5, SplitSound DEF Exact
<1>6. CASE ~(heap[c].size > s)
  BY <1>1, <1>2, <1>3, <1>4, <1>6, ExactSound DEF Exact
<1>7. QED
  BY <1>5, <1>6

-----------------------------------------------------------------------------
(* Types, which also hold of a damaged list.                                 *)

\* The arithmetic of unsigned int stays within it.
LEMMA Wraps ==
  ASSUME NEW x \in Int
  PROVE  x % UINT \in 0..(UINT - 1)
  BY MemoryAssumption

\* A heap with one of its objects changed is a heap.
LEMMA ObjectChanged ==
  ASSUME NEW h \in Heaps, NEW n, NEW o \in ProcessObject
  PROVE  [h EXCEPT ![n] = o] \in Heaps
<1>1. h \in [DOMAIN h -> ProcessObject] /\ DOMAIN h \in SUBSET Node
  BY DEF Heaps
<1>2. [h EXCEPT ![n] = o] \in [DOMAIN h -> ProcessObject]
  BY <1>1
<1>3. QED
  BY <1>1, <1>2 DEF Heaps

\* The processes among the objects of a heap.
ProcessesIn(h) == {n \in DOMAIN h : ~h[n].empty}

\* They do not depend on the other fields of the objects.
LEMMA ObjectKept ==
  ASSUME NEW h \in Heaps, NEW n, NEW o, n \in DOMAIN h => (o.empty <=> h[n].empty)
  PROVE  ProcessesIn([h EXCEPT ![n] = o]) = ProcessesIn(h)
<1>1. h = [m \in DOMAIN h |-> h[m]]
  BY DEF Heaps
<1>2. QED
  BY <1>1 DEF ProcessesIn

\* The heap without one of its holes has the same processes.
LEMMA HoleDeleted ==
  ASSUME NEW h, NEW n, n \notin ProcessesIn(h)
  PROVE  ProcessesIn(Deleted(h, n)) = ProcessesIn(h)
  BY DEF ProcessesIn, Deleted, Restrict

\* The heap without one of its objects is a heap.
LEMMA ObjectDeleted ==
  ASSUME NEW h \in Heaps, NEW n
  PROVE  Deleted(h, n) \in Heaps
<1>1. h \in [DOMAIN h -> ProcessObject] /\ DOMAIN h \in SUBSET Node
  BY DEF Heaps
<1>2. Deleted(h, n) \in [DOMAIN h \ {n} -> ProcessObject]
  BY <1>1 DEF Deleted, Restrict
<1>3. DOMAIN h \ {n} \in SUBSET Node
  BY <1>1
<1>4. QED
  BY <1>2, <1>3 DEF Heaps

\* Both merges of deleteProcess(), and the objects that insert() writes, keep
\* the types as long as the pointers they follow are valid.
LEMMA MergePrevTyped ==
  ASSUME NEW h \in Heaps, NEW p \in DOMAIN h, h[p].prev \in DOMAIN h, Valid(h, h[p].next)
  PROVE  /\ MergeIntoPrev(h, p) \in Heaps
         /\ h[p].empty => ProcessesIn(MergeIntoPrev(h, p)) = ProcessesIn(h)
<1> DEFINE l == h[p].prev
           r == h[p].next
           o == [h[l] EXCEPT !.end = h[p].end, !.size = (h[l].size + h[p].size) % UINT,
                             !.next = r]
           grown == [h EXCEPT ![l].end = h[p].end,
                              ![l].size = (@ + h[p].size) % UINT,
                              ![l].next = r]
           linked == IF r = NULL THEN grown ELSE [grown EXCEPT ![r].prev = l]
<1>1. h[l] \in ProcessObject /\ h[p] \in ProcessObject /\ l \in Pointer
  BY HeapTypes
<1>2. (h[l].size + h[p].size) % UINT \in 0..(UINT - 1)
  BY <1>1, Wraps DEF ProcessObject
<1>3. o \in ProcessObject /\ o.empty = h[l].empty
  BY <1>1, <1>2 DEF ProcessObject
<1>4. grown = [h EXCEPT ![l] = o]
  BY <1>1 DEF ProcessObject
<1> HIDE DEF o
<1>5. grown \in Heaps /\ ProcessesIn(grown) = ProcessesIn(h)
  <2>1. [h EXCEPT ![l] = o] \in Heaps
    BY <1>3, ObjectChanged
  <2>2. ProcessesIn([h EXCEPT ![l] = o]) = ProcessesIn(h)
    BY <1>3, ObjectKept
  <2>3. QED
    BY <2>1, <2>2, <1>4
<1> HIDE DEF grown
<1>6. /\ [grown EXCEPT ![r].prev = l] \in Heaps
      /\ ProcessesIn([grown EXCEPT ![r].prev = l]) = ProcessesIn(h)
  <2>1. CASE r \in DOMAIN grown
    <3>1. PICK v : v = [grown[r] EXCEPT !.prev = l]
      OBVIOUS
    <3>2. v \in ProcessObject /\ v.empty = grown[r].empty
      <4>1. grown[r] \in ProcessObject
        BY <1>5, <2>1, HeapTypes
      <4>2. QED
        BY <1>1, <3>1, <4>1 DEF ProcessObject
    <3>3. [grown EXCEPT ![r] = v] \in Heaps
      BY <1>5, <3>2, ObjectChanged
    <3>4. ProcessesIn([grown EXCEPT ![r] = v]) = ProcessesIn(h)
      BY <1>5, <3>2, ObjectKept
    <3>5. [grown EXCEPT ![r].prev = l] = [grown EXCEPT ![r] = v]
      BY <3>1
    <3>6. QED
      BY <3>3, <3>4, <3>5
  <2>2. CASE r \notin DOMAIN grown
    <3>1. [grown EXCEPT ![r].prev = l] = grown
      BY <2>2, <1>5 DEF Heaps
    <3>2. QED
      BY <3>1, <1>5
  <2>3. QED
    BY <2>1, <2>2
<1>7. linked \in Heaps /\ ProcessesIn(linked) = ProcessesIn(h)
  BY <1>5, <1>6
<1> HIDE DEF linked
<1>8. MergeIntoPrev(h, p) = Deleted(linked, p)
  BY DEF MergeIntoPrev, linked, grown
<1>9. MergeIntoPrev(h, p) \in Heaps
  BY <1>7, <1>8, ObjectDeleted
<1>10. ASSUME h[p].empty
       PROVE  ProcessesIn(MergeIntoPrev(h, p)) = ProcessesIn(h)
  <2>1. p \notin ProcessesIn(linked)
    BY <1>7, <1>10 DEF ProcessesIn
  <2>2. QED
    BY <1>7, <1>8, <2>1, HoleDeleted
<1>11. QED
  BY <1>9, <1>10

\* See MergePrevTyped.
LEMMA MergeNextTyped ==
  ASSUME NEW h \in Heaps, NEW p \in DOMAIN h, h[p].next \in DOMAIN h, Valid(h, h[p].prev)
  PROVE  /\ MergeIntoNext(h, p) \in Heaps
         /\ h[p].empty => ProcessesIn(MergeIntoNext(h, p)) = ProcessesIn(h)
<1> DEFINE l == h[p].prev
           r == h[p].next
           o == [h[r] EXCEPT !.start = h[p].start, !.size = (h[r].size + h[p].size) % UINT,
                             !.prev = l]
           grown == [h EXCEPT ![r].start = h[p].start,
                              ![r].size = (@ + h[p].size) % UINT,
                              ![r].prev = l]
           linked == IF l = NULL THEN grown ELSE [grown EXCEPT ![l].next = r]
<1>1. h[r] \in ProcessObject /\ h[p] \in ProcessObject /\ r \in Pointer
  BY HeapTypes
<1>2. (h[r].size + h[p].size) % UINT \in 0..(UINT - 1)
  BY <1>1, Wraps DEF ProcessObject
<1>3. o \in ProcessObject /\ o.empty = h[r].empty
  BY <1>1, <1>2 DEF ProcessObject
<1>4. grown = [h EXCEPT ![r] = o]
  BY <1>1 DEF ProcessObject
<1> HIDE DEF o
<1>5. grown \in Heaps /\ ProcessesIn(grown) = ProcessesIn(h)
  <2>1. [h EXCEPT ![r] = o] \in Heaps
    BY <1>3, ObjectChanged
  <2>2. ProcessesIn([h EXCEPT ![r] = o]) = ProcessesIn(h)
    BY <1>3, ObjectKept
  <2>3. QED
    BY <2>1, <2>2, <1>4
<1> HIDE DEF grown
<1>6. /\ [grown EXCEPT ![l].next = r] \in Heaps
      /\ ProcessesIn([grown EXCEPT ![l].next = r]) = ProcessesIn(h)
  <2>1. CASE l \in DOMAIN grown
    <3>1. PICK v : v = [grown[l] EXCEPT !.next = r]
      OBVIOUS
    <3>2. v \in ProcessObject /\ v.empty = grown[l].empty
      <4>1. grown[l] \in ProcessObject
        BY <1>5, <2>1, HeapTypes
      <4>2. QED
        BY <1>1, <3>1, <4>1 DEF ProcessObject
    <3>3. [grown EXCEPT ![l] = v] \in Heaps
      BY <1>5, <3>2, ObjectChanged
    <3>4. ProcessesIn([grown EXCEPT ![l] = v]) = ProcessesIn(h)
      BY <1>5, <3>2, ObjectKept
    <3>5. [grown EXCEPT ![l].next = r] = [grown EXCEPT ![l] = v]
      BY <3>1
    <3>6. QED
      BY <3>3, <3>4, <3>5
  <2>2. CASE l \notin DOMAIN grown
    <3>1. [grown EXCEPT ![l].next = r] = grown
      BY <2>2, <1>5 DEF Heaps
    <3>2. QED
      BY <3>1, <1>5
  <2>3. QED
    BY <2>1, <2>2
<1>7. linked \in Heaps /\ ProcessesIn(linked) = ProcessesIn(h)
  BY <1>5, <1>6
<1> HIDE DEF linked
<1>8. MergeIntoNext(h, p) = Deleted(linked, p)
  BY DEF MergeIntoNext, linked, grown
<1>9. MergeIntoNext(h, p) \in Heaps
  BY <1>7, <1>8, ObjectDeleted
<1>10. ASSUME h[p].empty
       PROVE  ProcessesIn(MergeIntoNext(h, p)) = ProcessesIn(h)
  <2>1. p \notin ProcessesIn(linked)
    BY <1>7, <1>10 DEF ProcessesIn
  <2>2. QED
    BY <1>7, <1>8, <2>1, HoleDeleted
<1>11. QED
  BY <1>9, <1>10

\* See MergePrevTyped.
LEMMA PlacedTyped ==
  ASSUME heap \in Heaps, NEW s \in RequestSize, NEW t \in Node, NEW c \in Live, Fits(c, s)
  PROVE  Placed(c, s, t) \in Heaps
<1>1. Live \subseteq Node /\ c \in Pointer /\ t \in Pointer
  BY HeapTypes DEF Pointer, Live
<1>2. /\ heap[c] \in ProcessObject
      /\ heap[c].start \in 0..(UINT - 1) /\ heap[c].size \in 0..(UINT - 1)
      /\ heap[c].prev \in Pointer /\ heap[c].next \in Pointer
  BY HeapTypes DEF Live
<1>3. s \in 0..(UINT - 1) /\ UINT \in Nat
  BY MemoryAssumption
<1>4. NewProcess(c, s) \in ProcessObject
  <2>1. (heap[c].start + s - 1) % UINT \in 0..(UINT - 1)
    <3>1. heap[c].start + s - 1 \in Int
      BY <1>2, <1>3
    <3>2. QED
      BY <3>1, Wraps
  <2>2. QED
    BY <2>1, <1>1, <1>2, <1>3 DEF NewProcess, ProcessObject
<1>5. Remainder(c, s, t) \in ProcessObject
  <2>1. CASE Exact(c, s)
    BY <2>1, <1>2 DEF Remainder
  <2>2. CASE ~Exact(c, s)
    <3>1. (heap[c].start + s) % UINT \in 0..(UINT - 1)
      <4>1. heap[c].start + s \in Int
        BY <1>2, <1>3
      <4>2. QED
        BY <4>1, Wraps
    <3>2. heap[c].size - s \in 0..(UINT - 1)
      BY <1>2, <1>3, <2>2 DEF Exact
    <3>3. QED
      BY <2>2, <3>1, <3>2, <1>1, <1>2 DEF Remainder, ProcessObject
  <2>3. QED
    BY <2>1, <2>2
<1>6. \A n \in Live : heap[n] \in ProcessObject
  BY HeapTypes DEF Live
<1>7. Placed(c, s, t) \in [Live \cup {t} -> ProcessObject]
  BY <1>4, <1>5, <1>6 DEF Placed
<1>8. Live \cup {t} \in SUBSET Node
  BY <1>1
<1>9. QED
  BY <1>7, <1>8 DEF Heaps

Kinds == {"exact", "head", "zero"}

Typed(h, rt, w, lk, dm) ==
  h \in Heaps /\ rt \in Node /\ w \in BOOLEAN /\ lk \subseteq Node /\ dm \subseteq Kinds

\* MemTypeOK, with the heap as one value.
LEMMA TypedIsTypeOK ==
  MemTypeOK <=> Typed(heap, root, wild, leaked, damage)
<1>1. heap \in Heaps <=> Live \subseteq Node /\ heap \in [Live -> ProcessObject]
  BY DEF Heaps, Live
<1>2. QED
  BY <1>1 DEF MemTypeOK, Typed, Kinds

\* The second half of deleteProcess() keeps the types.
LEMMA MergeRightTyped ==
  ASSUME Typed(heap, root, wild, leaked, damage), NEW h \in Heaps, NEW c, MergeRight(h, c)
  PROVE  heap' \in Heaps /\ root' \in Node /\ wild' \in BOOLEAN /\ damage' \subseteq Kinds
<1> DEFINE r == h[c].next
           g == MergeIntoNext(h, c)
<1>1. CASE ~(c \in DOMAIN h /\ Valid(h, r))
  BY <1>1 DEF MergeRight, Typed
<1>2. CASE c \in DOMAIN h /\ Valid(h, r) /\ ~HoleAfter(h, c)
  BY <1>2 DEF MergeRight, Typed
<1>3. CASE c \in DOMAIN h /\ Valid(h, r) /\ HoleAfter(h, c) /\ ~Valid(h, h[c].prev)
  BY <1>3 DEF MergeRight, Typed
<1>4. CASE c \in DOMAIN h /\ Valid(h, r) /\ HoleAfter(h, c) /\ Valid(h, h[c].prev)
  <2>1. r \in DOMAIN h
    BY <1>4 DEF HoleAfter, Valid
  <2>2. g \in Heaps /\ r \in Node
    BY <2>1, <1>4, MergeNextTyped, HeapTypes
  <2>3. /\ heap' = g /\ root' \in {r, root} /\ wild' = wild
        /\ damage' \in {damage, damage \cup {"head"}}
    BY <1>4 DEF MergeRight
  <2>4. QED
    BY <2>2, <2>3 DEF Typed, Kinds
<1>5. QED
  BY <1>1, <1>2, <1>3, <1>4

\* deleteProcess() keeps the types, on any list.
LEMMA DeleteTyped ==
  ASSUME MemTypeOK, NEW p \in Node, DeleteProcess(p)
  PROVE  MemTypeOK'
<1>1. Typed(heap, root, wild, leaked, damage) /\ p \in DOMAIN heap /\ leaked' = leaked
  BY TypedIsTypeOK DEF DeleteProcess, Live
<1>2. PICK h : h = Marked(p)
  OBVIOUS
<1>3. h \in Heaps
  <2>1. heap \in Heaps
    BY <1>1 DEF Typed
  <2>2. [heap[p] EXCEPT !.empty = TRUE] \in ProcessObject
    BY <1>1, <2>1, HeapTypes DEF ProcessObject
  <2>3. [heap EXCEPT ![p] = [heap[p] EXCEPT !.empty = TRUE]] \in Heaps
    BY <2>1, <2>2, ObjectChanged
  <2>4. QED
    BY <2>3, <1>2 DEF Marked
<1>4. heap' \in Heaps /\ root' \in Node /\ wild' \in BOOLEAN /\ damage' \subseteq Kinds
  <2>1. CASE wild' = TRUE /\ UNCHANGED <<heap, root, damage>>
    BY <2>1, <1>1 DEF Typed
  <2>2. CASE MergeRight(h, p)
    BY <2>2, <1>1, <1>3, MergeRightTyped
  <2>3. CASE /\ HoleBefore(h, p) /\ Valid(heap, heap[p].prev) /\ Valid(heap, heap[p].next)
             /\ MergeRight(MergeIntoPrev(h, p), heap[p].prev)
    <3>1. heap \in Heaps /\ heap[p] \in ProcessObject
      BY <1>1, HeapTypes DEF Typed
    <3>2. /\ DOMAIN h = DOMAIN heap
          /\ h[p].prev = heap[p].prev /\ h[p].next = heap[p].next
      BY <3>1, <1>1, <1>2 DEF Marked, ProcessObject
    <3>3. h[p].prev \in DOMAIN h /\ Valid(h, h[p].next) /\ p \in DOMAIN h
      BY <2>3, <3>2, <1>1 DEF Valid, HoleBefore
    <3>4. PICK g : g = MergeIntoPrev(h, p)
      OBVIOUS
    <3>5. g \in Heaps
      BY <3>3, <3>4, <1>3, MergePrevTyped
    <3>6. QED
      BY <2>3, <3>4, <3>5, <1>1, MergeRightTyped
  <2>4. QED
    BY <2>1, <2>2, <2>3, <1>2 DEF DeleteProcess
<1>5. Typed(heap', root', wild', leaked', damage')
  BY <1>1, <1>4 DEF Typed
<1>6. QED
  <2>1. heap' \in Heaps <=> DOMAIN heap' \subseteq Node /\ heap' \in [DOMAIN heap' -> ProcessObject]
    BY DEF Heaps
  <2>2. QED
    BY <1>5, <2>1 DEF MemTypeOK, Typed, Kinds, Live

\* insert() keeps the types, on any list.
LEMMA InsertTyped ==
  ASSUME MemTypeOK, NEW s \in RequestSize, NEW t \in Node, Insert(s, t)
  PROVE  MemTypeOK'
<1>1. Typed(heap, root, wild, leaked, damage)
  BY TypedIsTypeOK
<1>2. PICK c \in Live : /\ Spot(c, s) /\ LinkPredecessor(Placed(c, s, t), c, t)
                        /\ InsertHistory(c, s)
  BY DEF Insert
<1>3. PICK q : q = Placed(c, s, t)
  OBVIOUS
<1>4. q \in Heaps /\ c \in Node
  BY <1>1, <1>2, <1>3, PlacedTyped, HeapTypes DEF Spot, Typed, Live
<1>5. leaked' \subseteq Node /\ damage' \subseteq Kinds
  BY <1>1, <1>2, <1>4 DEF InsertHistory, Typed, Kinds
<1>6. heap' \in Heaps /\ root' \in Node /\ wild' \in BOOLEAN
  <2>1. CASE heap[c].start = 0
    BY <2>1, <1>1, <1>2, <1>3, <1>4 DEF LinkPredecessor, Typed
  <2>2. CASE heap[c].start # 0 /\ heap[c].prev \in DOMAIN q
    <3>1. PICK l : l = heap[c].prev
      OBVIOUS
    <3>2. heap' = [q EXCEPT ![l].next = t] /\ UNCHANGED <<root, wild>>
      BY <2>2, <3>1, <1>2, <1>3 DEF LinkPredecessor
    <3>3. q[l] \in ProcessObject /\ t \in Pointer
      BY <2>2, <3>1, <1>4, HeapTypes DEF Pointer
    <3>4. [q[l] EXCEPT !.next = t] \in ProcessObject
      BY <3>3 DEF ProcessObject
    <3>5. [q EXCEPT ![l] = [q[l] EXCEPT !.next = t]] \in Heaps
      BY <3>4, <1>4, ObjectChanged
    <3>6. QED
      BY <3>2, <3>5, <1>1 DEF Typed
  <2>3. CASE heap[c].start # 0 /\ heap[c].prev \notin DOMAIN q
    BY <2>3, <1>1, <1>2, <1>3 DEF LinkPredecessor, Typed
  <2>4. QED
    BY <2>1, <2>2, <2>3
<1>7. Typed(heap', root', wild', leaked', damage')
  BY <1>5, <1>6 DEF Typed
<1>8. QED
  <2>1. heap' \in Heaps <=> DOMAIN heap' \subseteq Node /\ heap' \in [DOMAIN heap' -> ProcessObject]
    BY DEF Heaps
  <2>2. QED
    BY <1>7, <2>1 DEF MemTypeOK, Typed, Kinds, Live

\* The second half of deleteProcess() deletes no process, from whatever hole.
LEMMA MergeRightKeeps ==
  ASSUME NEW h \in Heaps, NEW c, c \in DOMAIN h => h[c].empty,
         ~wild, MergeRight(h, c), ~wild'
  PROVE  ProcessesIn(heap') = ProcessesIn(h)
<1>1. c \in DOMAIN h /\ Valid(h, h[c].next)
  BY DEF MergeRight
<1>2. CASE ~HoleAfter(h, c)
  BY <1>1, <1>2 DEF MergeRight
<1>3. CASE HoleAfter(h, c)
  <2>1. Valid(h, h[c].prev) /\ h[c].next \in DOMAIN h
    BY <1>1, <1>3 DEF MergeRight, HoleAfter, Valid
  <2>2. heap' = MergeIntoNext(h, c)
    BY <1>1, <1>3, <2>1 DEF MergeRight
  <2>3. QED
    BY <1>1, <2>1, <2>2, MergeNextTyped
<1>4. QED
  BY <1>2, <1>3

\* deleteProcess() takes away its process and no other, on any list.
LEMMA DeleteTakesOne ==
  ASSUME MemTypeOK, NEW p \in Node, DeleteProcess(p), ~wild'
  PROVE  /\ p \in ProcessesIn(heap)
         /\ ProcessesIn(heap') = ProcessesIn(heap) \ {p}
<1>1. heap \in Heaps /\ p \in DOMAIN heap /\ ~heap[p].empty /\ ~wild
  BY TypedIsTypeOK DEF Typed, DeleteProcess, Live
<1>2. PICK h : h = Marked(p)
  OBVIOUS
<1>3. /\ h \in Heaps /\ DOMAIN h = DOMAIN heap /\ h[p].empty
      /\ h[p].prev = heap[p].prev /\ h[p].next = heap[p].next
      /\ ProcessesIn(h) = ProcessesIn(heap) \ {p}
  <2>1. heap[p] \in ProcessObject
    BY <1>1, HeapTypes
  <2>2. [heap[p] EXCEPT !.empty = TRUE] \in ProcessObject
    BY <2>1 DEF ProcessObject
  <2>3. [heap EXCEPT ![p] = [heap[p] EXCEPT !.empty = TRUE]] \in Heaps
    BY <1>1, <2>2, ObjectChanged
  <2>4. h = [heap EXCEPT ![p] = [heap[p] EXCEPT !.empty = TRUE]]
    BY <1>2 DEF Marked
  <2>5. DOMAIN h = DOMAIN heap /\ \A m \in DOMAIN heap \ {p} : h[m] = heap[m]
    BY <2>4
  <2>6. h[p] = [heap[p] EXCEPT !.empty = TRUE]
    BY <1>1, <2>4
  <2>7. h[p].empty /\ h[p].prev = heap[p].prev /\ h[p].next = heap[p].next
    BY <2>1, <2>6 DEF ProcessObject
  <2>8. QED
    BY <2>3, <2>4, <2>5, <2>7 DEF ProcessesIn
<1>4. CASE ~HoleBefore(h, p)
  <2>1. MergeRight(h, p)
    BY <1>1, <1>2, <1>4 DEF DeleteProcess
  <2>2. QED
    BY <1>1, <1>3, <2>1, MergeRightKeeps DEF ProcessesIn
<1>5. CASE HoleBefore(h, p)
  <2>1. /\ Valid(heap, heap[p].prev) /\ Valid(heap, heap[p].next)
        /\ MergeRight(MergeIntoPrev(h, p), heap[p].prev)
    BY <1>1, <1>2, <1>5 DEF DeleteProcess
  <2>2. h[p].prev \in DOMAIN h /\ Valid(h, h[p].next) /\ p \in DOMAIN h /\ h[h[p].prev].empty
    BY <1>1, <1>3, <1>5, <2>1 DEF HoleBefore, Valid
  <2>3. PICK g : g = MergeIntoPrev(h, p)
    OBVIOUS
  <2>4. g \in Heaps /\ ProcessesIn(g) = ProcessesIn(h)
    BY <1>3, <2>2, <2>3, MergePrevTyped
  <2>5. heap[p].prev \in DOMAIN g => g[heap[p].prev].empty
    BY <1>3, <2>2, <2>4 DEF ProcessesIn
  <2>6. ProcessesIn(heap') = ProcessesIn(g)
    BY <1>1, <2>1, <2>3, <2>4, <2>5, MergeRightKeeps
  <2>7. QED
    BY <1>1, <1>3, <2>4, <2>6 DEF ProcessesIn
<1>6. QED
  BY <1>4, <1>5

\* insert() adds its process and no other, on any list.
LEMMA InsertAddsOne ==
  ASSUME MemTypeOK, NEW s \in RequestSize, NEW t \in Node, Insert(s, t), ~wild'
  PROVE  /\ t \notin ProcessesIn(heap)
         /\ ProcessesIn(heap') = ProcessesIn(heap) \cup {t}
<1>1. heap \in Heaps /\ t \notin DOMAIN heap
  BY TypedIsTypeOK DEF Typed, Insert, Live
<1>2. PICK c \in Live : Spot(c, s) /\ LinkPredecessor(Placed(c, s, t), c, t)
  BY DEF Insert
<1>3. PICK q : q = Placed(c, s, t)
  OBVIOUS
<1>4. q \in Heaps
  BY <1>1, <1>2, <1>3, PlacedTyped DEF Spot
<1>5. ProcessesIn(q) = ProcessesIn(heap) \cup {t}
  <2>1. c \in DOMAIN heap /\ c # t /\ heap[c] \in ProcessObject
    BY <1>1, HeapTypes DEF Live
  <2>2. ~NewProcess(c, s).empty
    BY DEF NewProcess
  <2>3. Remainder(c, s, t).empty = heap[c].empty
    BY <2>1 DEF Remainder, ProcessObject
  <2>4. /\ DOMAIN q = DOMAIN heap \cup {t} /\ q[t] = NewProcess(c, s)
        /\ q[c] = Remainder(c, s, t)
        /\ \A n \in DOMAIN heap : n # t /\ n # c => q[n] = heap[n]
    BY <1>3, <2>1 DEF Placed, Live
  <2>5. QED
    BY <1>1, <2>1, <2>2, <2>3, <2>4 DEF ProcessesIn
<1>6. ProcessesIn(heap') = ProcessesIn(q)
  <2>1. CASE heap[c].start = 0
    BY <1>2, <1>3, <2>1 DEF LinkPredecessor
  <2>2. CASE heap[c].start # 0
    <3> DEFINE l == heap[c].prev
               o == [q[l] EXCEPT !.next = t]
    <3>1. l \in DOMAIN q /\ heap' = [q EXCEPT ![l].next = t]
      BY <1>2, <1>3, <2>2 DEF LinkPredecessor
    <3>2. o.empty = q[l].empty
      BY <1>4, <3>1, HeapTypes DEF ProcessObject
    <3>3. heap' = [q EXCEPT ![l] = o]
      BY <3>1
    <3> HIDE DEF o, l
    <3>4. QED
      BY <1>4, <3>2, <3>3, ObjectKept
  <2>3. QED
    BY <2>1, <2>2
<1>7. QED
  BY <1>1, <1>5, <1>6 DEF ProcessesIn

-----------------------------------------------------------------------------
(* The invariant.                                                            *)

\* The one hole of the constructor is a sound list.
LEMMA InitSound == MemInit => MemInv
<1> SUFFICES ASSUME MemInit
             PROVE  MemInv
  OBVIOUS
<1>1. PICK n \in Node :
        /\ root = n
        /\ heap = [m \in {n} |->
                     [start |-> 0, end |-> maxVal - 1, size |-> maxVal,
                      prev |-> NULL, next |-> NULL, empty |-> TRUE]]
        /\ wild = FALSE
        /\ leaked = {}
        /\ damage = {}
  BY DEF MemInit
<1>2. DOMAIN heap = {n} /\ n # NULL /\ maxVal \in 1..(UINT - 1) /\ UINT \in Nat
  BY <1>1, MemoryAssumption
<1>3. /\ heap[n].start = 0 /\ heap[n].end = maxVal - 1 /\ heap[n].size = maxVal
      /\ heap[n].prev = NULL /\ heap[n].next = NULL /\ heap[n].empty
      /\ heap[n] \in ProcessObject
  BY <1>1, <1>2 DEF ProcessObject, Pointer
<1>4. heap \in Heaps
  <2>1. heap \in [{n} -> ProcessObject] /\ {n} \in SUBSET Node
    BY <1>1, <1>3
  <2>2. QED
    BY <2>1 DEF Heaps
<1>5. MemTypeOK
  BY <1>1, <1>4, TypedIsTypeOK DEF Typed
<1>6. DOMAIN heap \ leaked = {n}
  BY <1>1, <1>2
<1>7. LinkedIn(heap, root, {n})
  BY <1>1, <1>2, <1>3 DEF LinkedIn
<1>8. TiledIn(heap, {n}) /\ CoveredIn(heap, {n})
  BY <1>2, <1>3 DEF TiledIn, CoveredIn
<1>9. ApartIn(heap, {n})
  BY <1>3 DEF ApartIn
<1>10. SoundIn(heap, root, leaked)
  BY <1>1, <1>2, <1>4, <1>6, <1>7, <1>8, <1>9 DEF SoundIn, ListIn
<1>11. QED
  BY <1>5, <1>10 DEF MemInv

\* What a step has damaged stays damaged.
LEMMA DamageStays ==
  ASSUME [MemNext]_memVars, damage' = {}
  PROVE  damage = {}
<1>1. CASE \E s \in RequestSize, t \in Node : Insert(s, t)
  BY <1>1 DEF Insert, InsertHistory
<1>2. CASE \E s \in RequestSize : InsertAstray(s)
  BY <1>2 DEF InsertAstray
<1>3. CASE \E p \in Node : DeleteProcess(p)
  <2>1. \A h, c : MergeRight(h, c) => damage' = damage \/ damage' = damage \cup {"head"}
    BY DEF MergeRight
  <2>2. damage' = damage \/ damage' = damage \cup {"head"}
    BY <1>3, <2>1 DEF DeleteProcess
  <2>3. QED
    BY <2>2
<1>4. CASE UNCHANGED memVars
  BY <1>4 DEF memVars
<1>5. QED
  BY <1>1, <1>2, <1>3, <1>4 DEF MemNext

\* The invariant is inductive.
LEMMA StepSound == MemInv /\ [MemNext]_memVars => MemInv'
<1> SUFFICES ASSUME MemInv, [MemNext]_memVars
             PROVE  MemInv'
  OBVIOUS
<1> DEFINE Kept == MemTypeOK' /\ (damage' = {} => SoundIn(heap', root', leaked'))
<1>1. MemTypeOK
  BY DEF MemInv
<1>2. damage' = {} => SoundIn(heap, root, leaked)
  BY DamageStays DEF MemInv
<1>3. ASSUME NEW s \in RequestSize, NEW t \in Node, Insert(s, t)
      PROVE  Kept
  BY <1>1, <1>2, <1>3, InsertTyped, InsertSound
<1>4. ASSUME NEW s \in RequestSize, InsertAstray(s)
      PROVE  Kept
  BY <1>1, <1>2, <1>4 DEF InsertAstray, MemTypeOK, Live
<1>5. ASSUME NEW p \in Node, DeleteProcess(p)
      PROVE  Kept
  BY <1>1, <1>2, <1>5, DeleteTyped, DeleteSound
<1>6. ASSUME UNCHANGED memVars
      PROVE  Kept
  BY <1>1, <1>2, <1>6 DEF memVars, MemTypeOK, Live, MemInv
<1> HIDE DEF Kept
<1>7. Kept
  BY <1>3, <1>4, <1>5, <1>6 DEF MemNext
<1>8. SoundIn(heap', root', leaked') <=> SoundIn(heap, root, leaked)'
  BY DEF SoundIn, ListIn, LinkedIn, TiledIn, CoveredIn, ApartIn
<1>9. QED
  BY <1>7, <1>8 DEF MemInv, Kept

\* Hence it is an invariant.
LEMMA MemInvariant == MemSpec => []MemInv
  BY InitSound, StepSound, PTL DEF MemSpec

\* The fields of the nodes keep their types, whatever the list has become.
THEOREM MemoryTyping == MemSpec => []MemTypeOK
<1>1. MemInv => MemTypeOK
  BY DEF MemInv
<1>2. QED
  BY <1>1, MemInvariant, PTL

\* The list is exact until one of the three steps damages it: linked both ways,
\* covering the RAM without overlap, with maximal holes.
THEOREM ListStaysSound == MemSpec => []ListIsSound
<1>1. MemInv => ListIsSound
  BY DEF MemInv, ListIsSound, SoundIn, ListIn, LinkedIn, TiledIn, ApartIn,
         Linked, Tiled, Coalesced, Chain, Live
<1>2. QED
  BY <1>1, MemInvariant, PTL

-----------------------------------------------------------------------------
(* Where the walk of insert() ends.                                          *)

\* The least number principle, from the well-foundedness of < on Nat.
LEMMA Least ==
  ASSUME NEW T, T \subseteq Nat, T # {}
  PROVE  \E x \in T : \A y \in T : x <= y
<1>1. PICK x \in T : \A y \in T : ~(<<y, x>> \in OpToRel(<, Nat))
  BY WFMin, NatLessThanWellFounded, Zenon
<1>2. ASSUME NEW y \in T
      PROVE  ~(y < x)
  <2>1. <<y, x>> \notin OpToRel(<, Nat)
    BY <1>1
  <2>2. <<y, x>> \in Nat \X Nat
    OBVIOUS
  <2>3. OpToRel(<, Nat) = {ss \in Nat \X Nat : ss[1] < ss[2]}
    BY Zenon DEF OpToRel
  <2>4. QED
    BY <2>1, <2>2, <2>3
<1>3. QED
  BY <1>2

\* What is known of the entries of a sound list.
LEMMA Entries ==
  ASSUME SoundIn(heap, root, leaked)
  PROVE  /\ root \in Chain /\ Chain \subseteq Live /\ Chain \subseteq Node
         /\ NULL \notin Chain /\ maxVal \in Nat /\ maxVal >= 1
         /\ \A n \in Chain :
              /\ heap[n].start \in Nat /\ heap[n].end \in Nat /\ heap[n].size \in Nat
              /\ heap[n].size >= 1 /\ heap[n].end = heap[n].start + heap[n].size - 1
              /\ heap[n].end < maxVal /\ heap[n].start <= heap[n].end
              /\ n = root <=> heap[n].start = 0
              /\ heap[n].next = NULL => heap[n].end = maxVal - 1
              /\ heap[n].next # NULL =>
                   /\ heap[n].next \in Chain
                   /\ heap[heap[n].next].start = heap[n].end + 1
                   /\ heap[n].empty => ~heap[heap[n].next].empty
              /\ n # root =>
                   /\ heap[n].prev \in Chain
                   /\ heap[heap[n].prev].next = n
                   /\ heap[heap[n].prev].end + 1 = heap[n].start
         /\ \A m, n \in Chain :
              m # n => heap[m].end < heap[n].start \/ heap[n].end < heap[m].start
         /\ \A b \in 0..(maxVal - 1) : \E n \in Chain : heap[n].start <= b /\ b <= heap[n].end
<1>1. /\ ListIn(heap, root, Chain) /\ ApartIn(heap, Chain)
      /\ Chain \subseteq Live /\ Live \subseteq Node /\ NULL \notin Live
  BY HeapTypes, MemoryAssumption DEF SoundIn, ListIn, Chain, Live
<1>2. LinkedIn(heap, root, Chain) /\ TiledIn(heap, Chain) /\ CoveredIn(heap, Chain)
  BY <1>1 DEF ListIn
<1>3. ASSUME NEW n \in Chain
      PROVE  /\ heap[n].start \in Nat /\ heap[n].end \in Nat /\ heap[n].size \in Nat
             /\ heap[n].size >= 1 /\ heap[n].end = heap[n].start + heap[n].size - 1
             /\ heap[n].end < maxVal /\ heap[n].start <= heap[n].end
  <2>1. /\ heap[n].start \in Nat /\ heap[n].end \in Nat /\ heap[n].size \in Nat
        /\ heap[n].size >= 1 /\ heap[n].end = heap[n].start + heap[n].size - 1
        /\ heap[n].end < maxVal
    BY <1>1, EntryNumbers
  <2>2. QED
    BY <2>1
<1>4. ASSUME NEW n \in Chain
      PROVE  /\ n = root <=> heap[n].start = 0
             /\ heap[n].next = NULL => heap[n].end = maxVal - 1
             /\ heap[n].next # NULL => /\ heap[n].next \in Chain
                                       /\ heap[heap[n].next].start = heap[n].end + 1
                                       /\ heap[n].empty => ~heap[heap[n].next].empty
  <2>1. /\ heap[n].prev = NULL <=> n = root
        /\ heap[n].next # NULL => heap[n].next \in Chain
    BY <1>2 DEF LinkedIn
  <2>2. /\ heap[n].prev = NULL <=> heap[n].start = 0
        /\ IF heap[n].next = NULL THEN heap[n].end = maxVal - 1
           ELSE heap[heap[n].next].start = heap[n].end + 1
    BY <1>2 DEF TiledIn
  <2>3. heap[n].empty /\ heap[n].next # NULL => ~heap[heap[n].next].empty
    BY <1>1 DEF ApartIn
  <2>4. QED
    BY <2>1, <2>2, <2>3
<1>5. ASSUME NEW n \in Chain, n # root
      PROVE  /\ heap[n].prev \in Chain /\ heap[heap[n].prev].next = n
             /\ heap[heap[n].prev].end + 1 = heap[n].start
  <2>1. heap[n].prev \in Chain /\ heap[heap[n].prev].next = n
    BY <1>2, <1>5 DEF LinkedIn
  <2>2. n # NULL
    BY <1>1
  <2>3. QED
    BY <2>1, <2>2, <1>4
<1>6. root \in Chain /\ maxVal \in Nat /\ maxVal >= 1
  BY <1>2, MemoryAssumption DEF LinkedIn
<1>7. \A m, n \in Chain :
        m # n => heap[m].end < heap[n].start \/ heap[n].end < heap[m].start
  BY <1>2 DEF TiledIn
<1>8. \A b \in 0..(maxVal - 1) : \E n \in Chain : heap[n].start <= b /\ b <= heap[n].end
  BY <1>2 DEF CoveredIn
<1>9. Chain \subseteq Live /\ Chain \subseteq Node /\ NULL \notin Chain
  BY <1>1
<1>10. QED
  BY <1>3, <1>4, <1>5, <1>6, <1>7, <1>8, <1>9

\* Of some entries one comes first.
LEMMA LeastStart ==
  ASSUME SoundIn(heap, root, leaked), NEW U, U \subseteq Chain, U # {}
  PROVE  \E m \in U : \A k \in U : heap[m].start <= heap[k].start
<1> DEFINE T == {heap[m].start : m \in U}
<1>1. T \subseteq Nat /\ T # {}
  BY Entries
<1> HIDE DEF T
<1>2. PICK x \in T : \A y \in T : x <= y
  BY <1>1, Least
<1>3. QED
  BY <1>2 DEF T

\* The walk reaches every entry before which no hole fits.
LEMMA WalkReaches ==
  ASSUME SoundIn(heap, root, leaked), NEW s, NEW n \in Chain,
         \A m \in Chain : heap[m].start < heap[n].start => ~Fits(m, s)
  PROVE  Reached(n, s)
<1> SUFFICES ASSUME NEW S \in SUBSET Node, ClosedUnderWalk(S, s), n \notin S
             PROVE  FALSE
  BY DEF Reached
<1> DEFINE U == {m \in Chain \ S : heap[m].start <= heap[n].start}
<1>1. \A m \in Chain : heap[m].start \in Nat /\ heap[m].end \in Nat
                       /\ heap[m].start <= heap[m].end
  BY Entries
<1>2. U \subseteq Chain /\ U # {}
  BY <1>1
<1>3. PICK m \in U : \A k \in U : heap[m].start <= heap[k].start
  <2> HIDE DEF U
  <2>1. QED
    BY <1>2, LeastStart
<1>4. root \in S /\ \A k \in S \cap Live : ~Fits(k, s) /\ heap[k].next # NULL => heap[k].next \in S
  BY DEF ClosedUnderWalk
<1>5. PICK l : l = heap[m].prev
  OBVIOUS
<1>6. /\ l \in Chain /\ l \in Live /\ heap[l].next = m /\ heap[l].end + 1 = heap[m].start
      /\ m # NULL
  BY <1>3, <1>4, <1>5, Entries
<1>7. heap[l].start < heap[m].start /\ heap[l].start < heap[n].start
  BY <1>1, <1>3, <1>6
<1>8. l \in S
  <2>1. l \notin U
    BY <1>1, <1>3, <1>6, <1>7
  <2>2. QED
    BY <2>1, <1>1, <1>6, <1>7
<1>9. m \in S
  BY <1>4, <1>6, <1>7, <1>8
<1>10. QED
  BY <1>3, <1>9

\* It does not pass a hole that fits.
LEMMA WalkStops ==
  ASSUME SoundIn(heap, root, leaked), NEW s, NEW c \in Chain, Fits(c, s),
         NEW n, Reached(n, s)
  PROVE  n \in Chain /\ heap[n].start <= heap[c].start
<1> DEFINE S == {m \in Chain : heap[m].start <= heap[c].start}
<1>1. S \in SUBSET Node
  BY Entries
<1>2. root \in S
  BY Entries
<1>3. ASSUME NEW m \in S, ~Fits(m, s), heap[m].next # NULL
      PROVE  heap[m].next \in S
  <2>1. heap[m].next \in Chain /\ heap[heap[m].next].start = heap[m].end + 1
    BY <1>3, Entries
  <2>2. heap[m].end < heap[c].start \/ heap[c].end < heap[m].start
    BY <1>3, Entries
  <2>3. /\ heap[m].start \in Nat /\ heap[m].end \in Nat
        /\ heap[c].start \in Nat /\ heap[c].end \in Nat /\ heap[c].start <= heap[c].end
    BY Entries
  <2>4. QED
    BY <2>1, <2>2, <2>3
<1>4. ClosedUnderWalk(S, s)
  BY <1>2, <1>3 DEF ClosedUnderWalk
<1>5. n \in S
  BY <1>1, <1>4 DEF Reached
<1>6. QED
  BY <1>5

\* The list has a last entry.
LEMMA LastEntry ==
  ASSUME SoundIn(heap, root, leaked)
  PROVE  \E n \in Chain : heap[n].next = NULL
<1>1. maxVal - 1 \in 0..(maxVal - 1)
  BY Entries
<1>2. PICK n \in Chain : heap[n].start <= maxVal - 1 /\ maxVal - 1 <= heap[n].end
  BY <1>1, Entries
<1>3. heap[n].end \in Nat /\ heap[n].end < maxVal /\ maxVal \in Nat
  BY Entries
<1>4. heap[n].end = maxVal - 1
  BY <1>2, <1>3
<1>5. SUFFICES ASSUME heap[n].next # NULL
               PROVE  FALSE
  BY <1>2
<1>6. heap[n].next \in Chain /\ heap[heap[n].next].start = maxVal
  BY <1>3, <1>4, <1>5, Entries
<1>7. \A m \in Chain : heap[m].start \in Nat /\ heap[m].end \in Nat
                       /\ heap[m].start <= heap[m].end /\ heap[m].end < maxVal
  BY Entries
<1>8. QED
  BY <1>3, <1>6, <1>7

\* On a sound list the walk always ends, at a hole or at the end of the list.
LEMMA WalkEnds ==
  ASSUME SoundIn(heap, root, leaked), NEW s
  PROVE  NoSpot(s) \/ \E c \in Chain : Spot(c, s)
<1>1. CASE \E c \in Chain : Fits(c, s)
  <2> DEFINE U == {c \in Chain : Fits(c, s)}
  <2>1. U \subseteq Chain /\ U # {}
    BY <1>1
  <2>2. PICK c \in U : \A k \in U : heap[c].start <= heap[k].start
    <3> HIDE DEF U
    <3>1. QED
      BY <2>1, LeastStart
  <2>3. \A m \in Chain : heap[m].start \in Nat
    BY Entries
  <2>4. \A m \in Chain : heap[m].start < heap[c].start => ~Fits(m, s)
    BY <2>2, <2>3
  <2>5. Reached(c, s)
    BY <2>2, <2>4, WalkReaches
  <2>6. QED
    BY <2>2, <2>5 DEF Spot
<1>2. CASE \A c \in Chain : ~Fits(c, s)
  <2>1. PICK n \in Chain : heap[n].next = NULL
    BY LastEntry
  <2>2. Reached(n, s)
    BY <1>2, WalkReaches
  <2>3. n \in Live
    BY Entries
  <2>4. QED
    BY <1>2, <2>1, <2>2, <2>3 DEF NoSpot
<1>3. QED
  BY <1>1, <1>2

-----------------------------------------------------------------------------
(* Free bytes.                                                               *)

\* Free bytes in a row lie in one hole.
LEMMA RunInHole ==
  ASSUME SoundIn(heap, root, leaked), NEW s \in Nat, s # 0, NEW a \in Nat, FreeRun(a, s)
  PROVE  \E c \in Chain : /\ heap[c].empty
                          /\ heap[c].start <= a /\ a + s - 1 <= heap[c].end
<1>1. a + s <= maxVal /\ \A b \in a..(a + s - 1) : Free(b)
  BY DEF FreeRun
<1>2. a \in 0..(maxVal - 1) /\ a \in a..(a + s - 1)
  BY <1>1, Entries
<1>3. PICK c \in Chain : heap[c].start <= a /\ a <= heap[c].end
  BY <1>2, Entries
<1>4. heap[c].start \in Nat /\ heap[c].end \in Nat /\ maxVal \in Nat
  BY Entries
<1>5. heap[c].empty
  BY <1>1, <1>2, <1>3, <1>4 DEF Free
<1>6. SUFFICES ASSUME heap[c].end < a + s - 1
               PROVE  FALSE
  BY <1>3, <1>4, <1>5
<1>7. heap[c].next # NULL
  BY <1>1, <1>4, <1>6, Entries
<1>8. PICK n \in Chain : n = heap[c].next
  BY <1>7, Entries
<1>9. /\ ~heap[n].empty /\ heap[n].start = heap[c].end + 1
      /\ heap[n].start \in Nat /\ heap[n].end \in Nat /\ heap[n].start <= heap[n].end
  BY <1>5, <1>7, <1>8, Entries
<1>10. heap[n].start \in a..(a + s - 1) /\ heap[n].start \in heap[n].start..heap[n].end
  BY <1>3, <1>4, <1>6, <1>9
<1>11. QED
  BY <1>1, <1>9, <1>10 DEF Free

\* The bytes of a hole are free.
LEMMA HoleIsFree ==
  ASSUME SoundIn(heap, root, leaked), NEW c \in Chain, heap[c].empty,
         NEW b \in Int, heap[c].start <= b, b <= heap[c].end
  PROVE  Free(b)
<1> SUFFICES ASSUME NEW n \in Chain, ~heap[n].empty, b \in heap[n].start..heap[n].end
             PROVE  FALSE
  BY DEF Free
<1>1. heap[c].end < heap[n].start \/ heap[n].end < heap[c].start
  BY Entries
<1>2. /\ heap[c].start \in Nat /\ heap[c].end \in Nat
      /\ heap[n].start \in Nat /\ heap[n].end \in Nat
  BY Entries
<1>3. QED
  BY <1>1, <1>2

\* The walk of insert() finds no spot exactly when no run of bytes is free.
LEMMA RefusalIsTrue ==
  ASSUME SoundIn(heap, root, leaked), NEW s \in RequestSize \ {0}
  PROVE  NoSpot(s) <=> \A a \in 0..(maxVal - 1) : ~FreeRun(a, s)
<1>1. s \in Nat /\ s # 0 /\ s >= 1
  BY MemoryAssumption
<1>2. ASSUME NoSpot(s), NEW a \in 0..(maxVal - 1), FreeRun(a, s)
      PROVE  FALSE
  <2>1. PICK n \in Live : heap[n].next = NULL /\ ~Fits(n, s) /\ Reached(n, s)
    BY <1>2 DEF NoSpot
  <2>2. PICK c \in Chain : /\ heap[c].empty
                           /\ heap[c].start <= a /\ a + s - 1 <= heap[c].end
    BY <1>1, <1>2, RunInHole
  <2>3. /\ heap[c].start \in Nat /\ heap[c].end \in Nat /\ heap[c].size \in Nat
        /\ heap[c].end = heap[c].start + heap[c].size - 1
        /\ heap[c].end < maxVal /\ heap[c].start <= heap[c].end /\ maxVal \in Nat
    BY Entries
  <2>4. Fits(c, s)
    BY <1>1, <2>2, <2>3 DEF Fits
  <2>5. n \in Chain /\ heap[n].start <= heap[c].start
    BY <2>1, <2>4, WalkStops
  <2>6. /\ heap[n].end = maxVal - 1 /\ heap[n].start \in Nat
        /\ heap[n].end < heap[c].start \/ heap[c].end < heap[n].start
    BY <2>1, <2>4, <2>5, Entries
  <2>7. QED
    BY <2>3, <2>5, <2>6
<1>3. ASSUME \A a \in 0..(maxVal - 1) : ~FreeRun(a, s)
      PROVE  NoSpot(s)
  <2>1. ASSUME NEW c \in Chain, Fits(c, s)
        PROVE  FALSE
    <3>1. /\ heap[c].start \in Nat /\ heap[c].end \in Nat /\ heap[c].size \in Nat
          /\ heap[c].end = heap[c].start + heap[c].size - 1
          /\ heap[c].end < maxVal /\ heap[c].start <= heap[c].end /\ maxVal \in Nat
      BY Entries
    <3>2. heap[c].empty /\ heap[c].size >= s
      BY <2>1 DEF Fits
    <3>3. /\ heap[c].start \in 0..(maxVal - 1)
          /\ heap[c].start + s <= maxVal
          /\ \A b \in heap[c].start..(heap[c].start + s - 1) :
               b \in Int /\ heap[c].start <= b /\ b <= heap[c].end
      BY <1>1, <3>1, <3>2
    <3>4. FreeRun(heap[c].start, s)
      BY <3>2, <3>3, HoleIsFree DEF FreeRun
    <3>5. QED
      BY <1>3, <3>3, <3>4
  <2>2. QED
    BY <2>1, WalkEnds DEF Spot
<1>4. QED
  BY <1>2, <1>3

\* An insertion that does not damage the list follows no dangling pointer.
LEMMA InsertSafe ==
  ASSUME SoundIn(heap, root, leaked), NEW s \in RequestSize, NEW t \in Node,
         Insert(s, t), damage' = {}
  PROVE  UNCHANGED wild
<1>1. PICK c \in Live : /\ Spot(c, s) /\ LinkPredecessor(Placed(c, s, t), c, t)
                        /\ InsertHistory(c, s)
  BY DEF Insert
<1>2. c \in Chain /\ Fits(c, s) /\ t \notin Live /\ s # 0
  BY <1>1, WalkInList DEF Spot, Insert, InsertHistory
<1>3. QED
  BY <1>1, <1>2, Inserted

-----------------------------------------------------------------------------
(* The bytes of a process, in any heap.                                      *)

FreeIn(h, ch, b) == \A n \in ch : ~h[n].empty => ~(b \in h[n].start..h[n].end)

OwnerIn(h, ch, b) ==
  IF FreeIn(h, ch, b) THEN NULL
  ELSE CHOOSE n \in ch : ~h[n].empty /\ b \in h[n].start..h[n].end

OwnersIn(h, ch) == [b \in 0..(maxVal - 1) |-> OwnerIn(h, ch, b)]

\* A byte belongs to the entry that covers it, if that is a process.
LEMMA OwnerOf ==
  ASSUME NEW h, NEW rt, NEW ch, ListIn(h, rt, ch), NEW n \in ch,
         NEW b \in Int, h[n].start <= b, b <= h[n].end
  PROVE  OwnerIn(h, ch, b) = IF h[n].empty THEN NULL ELSE n
<1>1. \A m \in ch : h[m].start \in Nat /\ h[m].end \in Nat
  BY EntryNumbers
<1>2. \A m \in ch : m # n => h[m].end < h[n].start \/ h[n].end < h[m].start
  BY DEF ListIn, TiledIn
<1>3. \A m \in ch : b \in h[m].start..h[m].end <=> m = n
  BY <1>1, <1>2
<1>4. CASE h[n].empty
  BY <1>3, <1>4 DEF OwnerIn, FreeIn
<1>5. CASE ~h[n].empty
  <2>1. ~FreeIn(h, ch, b)
    BY <1>3, <1>5 DEF FreeIn
  <2>2. \A m : (m \in ch /\ ~h[m].empty /\ b \in h[m].start..h[m].end) <=> m = n
    BY <1>3, <1>5
  <2>3. (CHOOSE m \in ch : ~h[m].empty /\ b \in h[m].start..h[m].end) = n
    BY <2>2
  <2>4. QED
    BY <1>5, <2>1, <2>3 DEF OwnerIn
<1>6. QED
  BY <1>4, <1>5

\* Merging two holes gives and takes no byte.
LEMMA MergePrevOwners ==
  ASSUME NEW h, NEW rt, NEW ch, ListIn(h, rt, ch), NEW p \in ch, h[p].prev # NULL,
         h[p].empty, h[h[p].prev].empty
  PROVE  OwnersIn(MergeIntoPrev(h, p), ch \ {p}) = OwnersIn(h, ch)
<1> DEFINE l == h[p].prev
<1>1. PICK g : g = MergeIntoPrev(h, p)
  OBVIOUS
<1>2. /\ ListIn(g, rt, ch \ {p}) /\ DOMAIN g = DOMAIN h \ {p} /\ l \in ch /\ l # p
      /\ \A m \in DOMAIN g :
           /\ g[m].start = h[m].start
           /\ g[m].end = IF m = l THEN h[p].end ELSE h[m].end
           /\ g[m].empty = h[m].empty
  <2>1. MergedPrev(h, p, g) /\ ListIn(g, rt, ch \ {p}) /\ l \in ch /\ l # p
    BY <1>1, MergePrev, MergePrevList, Neighbours
  <2>2. QED
    BY <2>1 DEF MergedPrev
<1>3. ch \subseteq DOMAIN h /\ h[l].end + 1 = h[p].start
  BY Neighbours DEF ListIn
<1>4. ASSUME NEW b \in 0..(maxVal - 1)
      PROVE  OwnerIn(g, ch \ {p}, b) = OwnerIn(h, ch, b)
  <2>1. PICK n \in ch : h[n].start <= b /\ b <= h[n].end
    BY DEF ListIn, CoveredIn
  <2>2. OwnerIn(h, ch, b) = IF h[n].empty THEN NULL ELSE n
    BY <2>1, OwnerOf
  <2>3. CASE n = p \/ n = l
    <3>1. /\ h[l].start \in Nat /\ h[l].end \in Nat /\ h[p].start \in Nat /\ h[p].end \in Nat
          /\ h[l].size \in Nat /\ h[l].size >= 1 /\ h[p].size \in Nat /\ h[p].size >= 1
          /\ h[l].end = h[l].start + h[l].size - 1
          /\ h[p].end = h[p].start + h[p].size - 1
      BY <1>2, EntryNumbers
    <3>2. /\ l \in ch \ {p} /\ g[l].empty
          /\ g[l].start = h[l].start /\ g[l].end = h[p].end
      BY <1>2, <1>3
    <3>3. g[l].start <= b /\ b <= g[l].end
      BY <2>1, <2>3, <3>1, <3>2, <1>3
    <3>4. OwnerIn(g, ch \ {p}, b) = NULL
      BY <1>2, <3>2, <3>3, OwnerOf
    <3>5. QED
      BY <2>2, <2>3, <3>4
  <2>4. CASE n # p /\ n # l
    <3>1. /\ n \in ch \ {p} /\ g[n].start = h[n].start /\ g[n].end = h[n].end
          /\ g[n].empty = h[n].empty
      BY <2>4, <1>2, <1>3
    <3>2. OwnerIn(g, ch \ {p}, b) = IF g[n].empty THEN NULL ELSE n
      BY <2>1, <3>1, <1>2, OwnerOf
    <3>3. QED
      BY <2>2, <3>1, <3>2
  <2>5. QED
    BY <2>3, <2>4
<1>5. QED
  BY <1>1, <1>4 DEF OwnersIn

\* See MergePrevOwners.
LEMMA MergeNextOwners ==
  ASSUME NEW h, NEW rt, NEW ch, ListIn(h, rt, ch), NEW p \in ch, h[p].next # NULL,
         h[p].empty, h[h[p].next].empty
  PROVE  OwnersIn(MergeIntoNext(h, p), ch \ {p}) = OwnersIn(h, ch)
<1> DEFINE r == h[p].next
<1>1. PICK g : g = MergeIntoNext(h, p)
  OBVIOUS
<1>2. PICK top : ListIn(g, top, ch \ {p})
  BY <1>1, MergeNextList
<1>3. /\ DOMAIN g = DOMAIN h \ {p} /\ r \in ch /\ r # p
      /\ \A m \in DOMAIN g :
           /\ g[m].start = IF m = r THEN h[p].start ELSE h[m].start
           /\ g[m].end = h[m].end
           /\ g[m].empty = h[m].empty
  <2>1. MergedNext(h, p, g) /\ r \in ch /\ r # p
    BY <1>1, MergeNext, Neighbours
  <2>2. QED
    BY <2>1 DEF MergedNext
<1>4. ch \subseteq DOMAIN h /\ h[r].start = h[p].end + 1
  BY DEF ListIn, TiledIn
<1>5. ASSUME NEW b \in 0..(maxVal - 1)
      PROVE  OwnerIn(g, ch \ {p}, b) = OwnerIn(h, ch, b)
  <2>1. PICK n \in ch : h[n].start <= b /\ b <= h[n].end
    BY DEF ListIn, CoveredIn
  <2>2. OwnerIn(h, ch, b) = IF h[n].empty THEN NULL ELSE n
    BY <2>1, OwnerOf
  <2>3. CASE n = p \/ n = r
    <3>1. /\ h[r].start \in Nat /\ h[r].end \in Nat /\ h[p].start \in Nat /\ h[p].end \in Nat
          /\ h[r].size \in Nat /\ h[r].size >= 1 /\ h[p].size \in Nat /\ h[p].size >= 1
          /\ h[r].end = h[r].start + h[r].size - 1
          /\ h[p].end = h[p].start + h[p].size - 1
      BY <1>3, EntryNumbers
    <3>2. /\ r \in ch \ {p} /\ g[r].empty
          /\ g[r].start = h[p].start /\ g[r].end = h[r].end
      BY <1>3, <1>4
    <3>3. g[r].start <= b /\ b <= g[r].end
      BY <2>1, <2>3, <3>1, <3>2, <1>4
    <3>4. OwnerIn(g, ch \ {p}, b) = NULL
      BY <1>2, <3>2, <3>3, OwnerOf
    <3>5. QED
      BY <2>2, <2>3, <3>4
  <2>4. CASE n # p /\ n # r
    <3>1. /\ n \in ch \ {p} /\ g[n].start = h[n].start /\ g[n].end = h[n].end
          /\ g[n].empty = h[n].empty
      BY <2>4, <1>3, <1>4
    <3>2. OwnerIn(g, ch \ {p}, b) = IF g[n].empty THEN NULL ELSE n
      BY <2>1, <3>1, <1>2, OwnerOf
    <3>3. QED
      BY <2>2, <3>1, <3>2
  <2>5. QED
    BY <2>3, <2>4
<1>6. QED
  BY <1>1, <1>5 DEF OwnersIn

\* The second half of deleteProcess() gives and takes no byte.
LEMMA MergeRightOwners ==
  ASSUME NEW h, NEW c \in DOMAIN h \ leaked,
         ListIn(h, root, DOMAIN h \ leaked), h[c].empty,
         MergeRight(h, c)
  PROVE  OwnersIn(heap', DOMAIN heap' \ leaked) = OwnersIn(h, DOMAIN h \ leaked)
<1> DEFINE ch == DOMAIN h \ leaked
           r == h[c].next
<1>1. h[c].prev = NULL \/ h[c].prev \in ch
  BY DEF ListIn, LinkedIn
<1>2. r = NULL \/ r \in ch
  BY DEF ListIn, LinkedIn
<1>3. c \in DOMAIN h /\ Valid(h, h[c].prev) /\ Valid(h, r)
  BY <1>1, <1>2 DEF Valid
<1>4. CASE ~HoleAfter(h, c)
  <2>1. heap' = h
    BY <1>3, <1>4 DEF MergeRight
  <2>2. QED
    BY <2>1
<1>5. CASE HoleAfter(h, c)
  <2>1. heap' = MergeIntoNext(h, c)
    BY <1>3, <1>5 DEF MergeRight
  <2>2. r # NULL /\ h[r].empty
    BY <1>5 DEF HoleAfter
  <2>3. DOMAIN heap' = DOMAIN h \ {c}
    <3>1. MergedNext(h, c, MergeIntoNext(h, c))
      BY <2>2, MergeNext
    <3>2. QED
      BY <2>1, <3>1 DEF MergedNext
  <2>4. DOMAIN heap' \ leaked = ch \ {c}
    BY <2>3
  <2>5. OwnersIn(MergeIntoNext(h, c), ch \ {c}) = OwnersIn(h, ch)
    BY <2>2, MergeNextOwners
  <2>6. QED
    BY <2>1, <2>4, <2>5
<1>6. QED
  BY <1>4, <1>5

\* The owners of the bytes in this state and in the next.
LEMMA OwnersAre ==
  /\ Owners = OwnersIn(heap, DOMAIN heap \ leaked)
  /\ Owners' = OwnersIn(heap', DOMAIN heap' \ leaked')
  BY DEF Owners, Owner, Free, Chain, Live, OwnersIn, OwnerIn, FreeIn

-----------------------------------------------------------------------------
(* The refinement: every step of a sound list is one of a first-fit memory.  *)

\* deleteProcess() gives back the bytes of its process and no other.
LEMMA DeleteReleases ==
  ASSUME SoundIn(heap, root, leaked), NEW p, DeleteProcess(p), damage' = {}
  PROVE  F!Release(p)
<1> DEFINE ch == Live \ leaked
           l == heap[p].prev
<1>1. /\ p \in Live /\ ~heap[p].empty /\ leaked' = leaked
      /\ IF ~Valid(heap, heap[p].prev)
         THEN wild' = TRUE /\ UNCHANGED <<heap, root, damage>>
         ELSE IF ~HoleBefore(Marked(p), p)
         THEN MergeRight(Marked(p), p)
         ELSE IF ~Valid(heap, heap[p].next)
         THEN wild' = TRUE /\ UNCHANGED <<heap, root, damage>>
         ELSE MergeRight(MergeIntoPrev(Marked(p), p), heap[p].prev)
  BY DEF DeleteProcess
<1>2. ListIn(heap, root, ch) /\ \A n \in leaked : heap[n].empty
  BY DEF SoundIn, Live
<1>3. p \in ch
  BY <1>1, <1>2
<1>4. /\ l = NULL \/ l \in ch
      /\ heap[p].next = NULL \/ heap[p].next \in ch
  BY <1>2, <1>3 DEF ListIn, LinkedIn
<1>5. Valid(heap, l) /\ Valid(heap, heap[p].next)
  BY <1>4 DEF Valid, Live
<1>6. PICK h : h = Marked(p)
  OBVIOUS
<1>7. /\ ListIn(h, root, ch) /\ DOMAIN h = Live
      /\ \A m \in Live : /\ h[m].empty = IF m = p THEN TRUE ELSE heap[m].empty
                         /\ h[m].prev = heap[m].prev /\ h[m].next = heap[m].next
                         /\ h[m].start = heap[m].start /\ h[m].end = heap[m].end
  <2>1. h = [heap EXCEPT ![p].empty = TRUE] /\ DOMAIN heap = Live
    BY <1>6 DEF Marked, Live
  <2>2. ListIn(h, root, ch) /\ MarkedEmpty(heap, p, h)
    BY <2>1, <1>2, <1>3, MarkedList
  <2>3. QED
    BY <2>1, <2>2 DEF MarkedEmpty
<1>8. DOMAIN h \ leaked = ch /\ p \in DOMAIN h \ leaked /\ h[p].empty
  <2>1. DOMAIN h = Live /\ \A m \in Live : m = p => h[m].empty
    BY <1>7
  <2>2. QED
    BY <2>1, <1>1, <1>3
<1>9. OwnersIn(heap', DOMAIN heap' \ leaked) = OwnersIn(h, ch)
  <2>1. CASE ~HoleBefore(h, p)
    <3>1. MergeRight(h, p)
      BY <1>1, <1>5, <1>6, <2>1
    <3>2. OwnersIn(heap', DOMAIN heap' \ leaked) = OwnersIn(h, DOMAIN h \ leaked)
      BY <3>1, <1>7, <1>8, MergeRightOwners
    <3>3. QED
      BY <3>2, <1>8
  <2>2. CASE HoleBefore(h, p)
    <3>1. PICK g : g = MergeIntoPrev(h, p)
      OBVIOUS
    <3>2. MergeRight(g, l)
      BY <1>1, <1>5, <1>6, <2>2, <3>1
    <3>3. h[p].prev = l /\ l # NULL /\ h[l].empty
      BY <1>1, <1>7, <2>2 DEF HoleBefore
    <3>4. ListIn(g, root, ch \ {p})
      BY <3>1, <3>3, <1>3, <1>7, MergePrevList
    <3>5. DOMAIN g = DOMAIN h \ {p} /\ l \in ch /\ l # p /\ g[l].empty
      <4>1. MergedPrev(h, p, g) /\ l \in ch /\ l # p
        BY <3>1, <3>3, <1>3, <1>7, MergePrev, Neighbours
      <4>2. QED
        BY <3>3, <4>1, <1>7 DEF MergedPrev
    <3>6. DOMAIN g \ leaked = ch \ {p} /\ l \in DOMAIN g \ leaked
      BY <3>5, <1>7
    <3>7. OwnersIn(heap', DOMAIN heap' \ leaked) = OwnersIn(g, DOMAIN g \ leaked)
      BY <3>2, <3>4, <3>5, <3>6, MergeRightOwners
    <3>8. OwnersIn(g, ch \ {p}) = OwnersIn(h, ch)
      BY <3>1, <3>3, <1>3, <1>7, <1>8, MergePrevOwners
    <3>9. QED
      BY <3>6, <3>7, <3>8
  <2>3. QED
    BY <2>1, <2>2
<1>10. p # NULL
  BY <1>1, <1>2, HeapTypes, MemoryAssumption DEF ListIn, Live
<1>11. ASSUME NEW b \in 0..(maxVal - 1)
       PROVE  OwnerIn(h, ch, b) = IF OwnerIn(heap, ch, b) = p THEN NULL ELSE OwnerIn(heap, ch, b)
  <2>1. PICK n \in ch : heap[n].start <= b /\ b <= heap[n].end
    BY <1>2 DEF ListIn, CoveredIn
  <2>2. OwnerIn(heap, ch, b) = IF heap[n].empty THEN NULL ELSE n
    BY <2>1, <1>2, OwnerOf
  <2>3. /\ h[n].start <= b /\ b <= h[n].end
        /\ h[n].empty = IF n = p THEN TRUE ELSE heap[n].empty
    BY <2>1, <1>7
  <2>4. OwnerIn(h, ch, b) = IF h[n].empty THEN NULL ELSE n
    <3>1. ListIn(h, root, ch) /\ b \in Int
      BY <1>7
    <3>2. h[n].start <= b /\ b <= h[n].end
      BY <2>3
    <3> HIDE DEF ch
    <3>3. QED
      BY <3>1, <3>2, OwnerOf
  <2>5. CASE n = p
    BY <2>2, <2>3, <2>4, <2>5, <1>1
  <2>6. CASE n # p
    BY <2>2, <2>3, <2>4, <2>6, <1>10
  <2>7. QED
    BY <2>5, <2>6
<1>12. Owners = OwnersIn(heap, ch) /\ Owners' = OwnersIn(h, ch)
  BY <1>1, <1>9, OwnersAre DEF Live
<1>13. Owners' = [b \in 0..(maxVal - 1) |-> IF Owners[b] = p THEN NULL ELSE Owners[b]]
  BY <1>11, <1>12 DEF OwnersIn
<1>14. \E b \in 0..(maxVal - 1) : Owners[b] = p
  <2>1. /\ heap[p].start \in Nat /\ heap[p].end \in Nat /\ heap[p].size \in Nat
        /\ heap[p].size >= 1 /\ heap[p].end = heap[p].start + heap[p].size - 1
        /\ heap[p].end < maxVal
    BY <1>2, <1>3, EntryNumbers
  <2>2. /\ heap[p].start \in 0..(maxVal - 1)
        /\ heap[p].start <= heap[p].start /\ heap[p].start <= heap[p].end
    BY <2>1, MemoryAssumption
  <2>3. OwnerIn(heap, ch, heap[p].start) = p
    BY <2>2, <1>1, <1>2, <1>3, OwnerOf
  <2>4. Owners[heap[p].start] = p
    BY <2>2, <2>3, <1>12 DEF OwnersIn
  <2>5. QED
    BY <2>2, <2>4
<1>15. QED
  BY <1>13, <1>14 DEF F!Release, F!Byte

\* The owner of a byte of a sound list.
LEMMA OwnersOf ==
  ASSUME SoundIn(heap, root, leaked), NEW n \in Chain, NEW b \in 0..(maxVal - 1),
         heap[n].start <= b, b <= heap[n].end
  PROVE  Owners[b] = IF heap[n].empty THEN NULL ELSE n
<1>1. ListIn(heap, root, Chain) /\ Chain = DOMAIN heap \ leaked
  BY DEF SoundIn, Chain, Live
<1>2. OwnerIn(heap, Chain, b) = IF heap[n].empty THEN NULL ELSE n
  BY <1>1, OwnerOf
<1>3. QED
  BY <1>1, <1>2, OwnersAre DEF OwnersIn

\* A byte without owner is free.
LEMMA UnownedIsFree ==
  ASSUME SoundIn(heap, root, leaked), NEW b \in 0..(maxVal - 1), Owners[b] = NULL
  PROVE  Free(b)
<1>1. PICK n \in Chain : heap[n].start <= b /\ b <= heap[n].end
  BY Entries
<1>2. heap[n].empty
  BY <1>1, OwnersOf, Entries
<1>3. QED
  BY <1>1, <1>2, HoleIsFree

\* insert() gives the process the first bytes of the lowest sufficient hole.
LEMMA InsertAllocates ==
  ASSUME SoundIn(heap, root, leaked), NEW s \in RequestSize, NEW t \in Node,
         Insert(s, t), damage' = {}
  PROVE  s # 0 /\ F!Allocate(t, s)
<1>1. PICK c \in Live : /\ Spot(c, s) /\ LinkPredecessor(Placed(c, s, t), c, t)
                        /\ InsertHistory(c, s)
  BY DEF Insert
<1>2. c \in Chain /\ Fits(c, s) /\ t \notin Live /\ s # 0 /\ Reached(c, s)
  BY <1>1, WalkInList DEF Spot, Insert, InsertHistory
<1>3. s \in Nat /\ s >= 1
  BY <1>2, MemoryAssumption
<1>4. PICK a : a = heap[c].start
  OBVIOUS
<1>5. /\ a \in Nat /\ heap[c].end \in Nat /\ heap[c].size \in Nat
      /\ heap[c].end = a + heap[c].size - 1 /\ heap[c].end < maxVal /\ maxVal \in Nat
      /\ heap[c].empty /\ heap[c].size >= s
  BY <1>2, <1>4, Entries DEF Fits
<1>6. a \in 0..(maxVal - 1) /\ a + s <= maxVal
  BY <1>3, <1>5
<1>7. \A b \in a..(a + s - 1) :
        b \in 0..(maxVal - 1) /\ heap[c].start <= b /\ b <= heap[c].end
  BY <1>3, <1>4, <1>5
<1>8. \A b \in a..(a + s - 1) : Owners[b] = NULL
  BY <1>2, <1>5, <1>7, OwnersOf
<1>9. ASSUME NEW lower \in 0..(maxVal - 1), lower < a, lower + s <= maxVal,
             \A b \in lower..(lower + s - 1) : Owners[b] = NULL
      PROVE  FALSE
  <2>1. \A b \in lower..(lower + s - 1) : b \in 0..(maxVal - 1)
    BY <1>3, <1>5, <1>9
  <2>2. FreeRun(lower, s)
    BY <1>9, <2>1, UnownedIsFree DEF FreeRun
  <2>3. PICK k \in Chain : /\ heap[k].empty
                           /\ heap[k].start <= lower /\ lower + s - 1 <= heap[k].end
    BY <2>2, <1>2, <1>3, RunInHole
  <2>4. /\ heap[k].start \in Nat /\ heap[k].end \in Nat /\ heap[k].size \in Nat
        /\ heap[k].end = heap[k].start + heap[k].size - 1
    BY Entries
  <2>5. Fits(k, s)
    BY <1>3, <2>3, <2>4 DEF Fits
  <2>6. heap[c].start <= heap[k].start
    BY <2>5, <1>2, WalkStops
  <2>7. QED
    BY <2>3, <2>4, <2>6, <1>4, <1>5, <1>9
<1>10. PICK h : h = heap'
  OBVIOUS
<1>11. /\ DOMAIN h = Live \cup {t}
       /\ h[t].start = a /\ h[t].end = a + s - 1 /\ ~h[t].empty
       /\ \A m \in Live :
            /\ h[m].start = IF m = c /\ heap[c].size > s THEN a + s ELSE heap[m].start
            /\ h[m].end = heap[m].end /\ h[m].empty = heap[m].empty
  BY <1>1, <1>2, <1>4, <1>10, Inserted
<1>12. /\ SoundIn(h, root', leaked')
       /\ leaked' = (IF Exact(c, s) THEN leaked \cup {c} ELSE leaked)
  BY <1>1, <1>10, InsertSound DEF InsertHistory
<1>13. PICK ch : ch = DOMAIN h \ leaked'
  OBVIOUS
<1>14. ListIn(h, root', ch) /\ t \in ch /\ t \notin Chain /\ t # NULL
  <2>1. leaked \subseteq Live
    BY DEF SoundIn, Live
  <2>2. QED
    BY <2>1, <1>2, <1>11, <1>12, <1>13, MemoryAssumption DEF SoundIn, Chain
<1>15. Chain \ {c} \subseteq ch /\ (heap[c].size > s => c \in ch)
  BY <1>2, <1>11, <1>12, <1>13 DEF Chain, Exact
<1>16. ASSUME NEW b \in 0..(maxVal - 1)
       PROVE  OwnerIn(h, ch, b) = IF b \in a..(a + s - 1) THEN t ELSE Owners[b]
  <2>1. PICK n \in Chain : heap[n].start <= b /\ b <= heap[n].end
    BY Entries
  <2>2. Owners[b] = IF heap[n].empty THEN NULL ELSE n
    BY <2>1, OwnersOf
  <2>3. CASE b \in a..(a + s - 1)
    <3>1. h[t].start <= b /\ b <= h[t].end
      BY <2>3, <1>5, <1>3, <1>11
    <3>2. OwnerIn(h, ch, b) = t
      BY <3>1, <1>11, <1>14, OwnerOf
    <3>3. QED
      BY <2>3, <3>2
  <2>4. CASE b \notin a..(a + s - 1) /\ n # c
    <3>1. /\ n \in ch /\ h[n].start = heap[n].start /\ h[n].end = heap[n].end
          /\ h[n].empty = heap[n].empty
      BY <2>4, <1>11, <1>15, Entries
    <3>2. OwnerIn(h, ch, b) = IF h[n].empty THEN NULL ELSE n
      BY <2>1, <3>1, <1>14, OwnerOf
    <3>3. QED
      BY <2>2, <2>4, <3>1, <3>2
  <2>5. CASE b \notin a..(a + s - 1) /\ n = c
    <3>1. b >= a + s
      BY <2>1, <2>5, <1>3, <1>4, <1>5
    <3>2. heap[c].size > s
      BY <2>1, <2>5, <3>1, <1>3, <1>5
    <3>3. /\ c \in ch /\ h[c].start = a + s /\ h[c].end = heap[c].end /\ h[c].empty
      BY <3>2, <1>5, <1>11, <1>15
    <3>4. OwnerIn(h, ch, b) = NULL
      BY <2>1, <2>5, <3>1, <3>3, <1>14, OwnerOf
    <3>5. QED
      BY <2>2, <2>5, <3>4, <1>5
  <2>6. QED
    BY <2>3, <2>4, <2>5
<1>17. Owners' = OwnersIn(h, ch)
  BY <1>10, <1>13, OwnersAre
<1>18. Owners' = [b \in 0..(maxVal - 1) |-> IF b \in a..(a + s - 1) THEN t ELSE Owners[b]]
  BY <1>16, <1>17 DEF OwnersIn
<1>19. \A b \in 0..(maxVal - 1) : Owners[b] # t
  <2>1. ASSUME NEW b \in 0..(maxVal - 1)
        PROVE  Owners[b] # t
    <3>1. PICK n \in Chain : heap[n].start <= b /\ b <= heap[n].end
      BY Entries
    <3>2. Owners[b] = IF heap[n].empty THEN NULL ELSE n
      BY <3>1, OwnersOf
    <3>3. QED
      BY <3>2, <1>14
  <2>2. QED
    BY <2>1
<1>20. F!Run(a, s) /\ \A lower \in F!Byte : lower < a => ~F!Run(lower, s)
  BY <1>6, <1>8, <1>9 DEF F!Run, F!Byte
<1>21. QED
  BY <1>2, <1>6, <1>18, <1>19, <1>20 DEF F!Allocate, F!Byte

\* Every step maps to a step of the first-fit memory, or to none.
LEMMA StepFits ==
  ASSUME MemInv, [MemNext]_memVars
  PROVE  [damage' = {} => [F!FitNext]_Owners]_memVars
<1> SUFFICES ASSUME damage' = {}, ~(UNCHANGED memVars)
             PROVE  [F!FitNext]_Owners
  OBVIOUS
<1>1. SoundIn(heap, root, leaked)
  BY DamageStays DEF MemInv
<1>2. ASSUME NEW s \in RequestSize, NEW t \in Node, Insert(s, t)
      PROVE  F!FitNext
  BY <1>1, <1>2, InsertAllocates DEF F!FitNext
<1>3. ASSUME NEW s \in RequestSize, InsertAstray(s)
      PROVE  FALSE
  <2>1. NoSpot(s) \/ \E c \in Chain : Spot(c, s)
    BY <1>1, WalkEnds
  <2>2. QED
    BY <1>1, <1>3, <2>1, Entries DEF InsertAstray
<1>4. ASSUME NEW p \in Node, DeleteProcess(p)
      PROVE  F!FitNext
  BY <1>1, <1>4, DeleteReleases DEF F!FitNext
<1>5. QED
  BY <1>2, <1>3, <1>4 DEF MemNext

\* "No spot could be found" is the truth: on a sound list the walk of insert()
\* ends without a spot exactly when no free run of the requested size exists.
THEOREM RefusalsAreTrue == MemSpec => []RefusesOnlyWhenFull
<1>1. MemInv => RefusesOnlyWhenFull
  BY RefusalIsTrue DEF MemInv, RefusesOnlyWhenFull
<1>2. QED
  BY <1>1, MemInvariant, PTL

Tame == damage = {} => ~wild

\* A step that does not damage the list follows no dangling pointer, and no walk
\* of insert() is endless.
LEMMA StepTame == MemInv /\ Tame /\ [MemNext]_memVars => Tame'
<1> SUFFICES ASSUME MemInv, Tame, [MemNext]_memVars, damage' = {}
             PROVE  ~wild'
  BY DEF Tame
<1>1. SoundIn(heap, root, leaked) /\ ~wild
  BY DamageStays DEF MemInv, Tame
<1>2. ASSUME NEW s \in RequestSize, NEW t \in Node, Insert(s, t)
      PROVE  ~wild'
  BY <1>1, <1>2, InsertSafe
<1>3. ASSUME NEW s \in RequestSize, InsertAstray(s)
      PROVE  FALSE
  <2>1. NoSpot(s) \/ \E c \in Chain : Spot(c, s)
    BY <1>1, WalkEnds
  <2>2. QED
    BY <1>1, <1>3, <2>1, Entries DEF InsertAstray
<1>4. ASSUME NEW p \in Node, DeleteProcess(p)
      PROVE  ~wild'
  BY <1>1, <1>4, DeleteSound
<1>5. CASE UNCHANGED memVars
  BY <1>1, <1>5 DEF memVars
<1>6. QED
  BY <1>2, <1>3, <1>4, <1>5 DEF MemNext

\* Until a step has damaged the list no dangling pointer is followed, and no
\* walk of insert() is endless.
THEOREM NothingWildBefore == MemSpec => [](damage = {} => ~wild)
<1>1. MemInit => Tame
  BY DEF MemInit, Tame
<1>2. MemSpec => []Tame
  BY <1>1, StepTame, MemInvariant, PTL DEF MemSpec
<1>3. Tame => (damage = {} => ~wild)
  BY DEF Tame
<1>4. QED
  BY <1>2, <1>3, PTL

\* Until a step has damaged the list, the memory manager is a first-fit
\* allocator: insert() takes the lowest sufficient run of free bytes, and
\* deleteProcess() gives back the bytes of its process and no other.
THEOREM FirstFitUntilDamaged == MemSpec => ImplementsFirstFit
<1>1. MemInit => F!FitInit
  <2> SUFFICES ASSUME MemInit
               PROVE  F!FitInit
    OBVIOUS
  <2>1. \A n \in Chain : heap[n].empty
    BY DEF MemInit, Chain, Live
  <2>2. \A b \in 0..(maxVal - 1) : Owner(b) = NULL
    BY <2>1 DEF Owner, Free
  <2>3. QED
    BY <2>2 DEF F!FitInit, F!Byte, Owners
<1>2. MemInv /\ [MemNext]_memVars => [damage' = {} => [F!FitNext]_Owners]_memVars
  BY StepFits
<1>3. QED
  BY <1>1, <1>2, MemInvariant, PTL DEF MemSpec, ImplementsFirstFit

============================================================================
