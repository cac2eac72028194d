------------------------- MODULE RecordingProofs -------------------------
(***************************************************************************)
(* What requests leave behind, for any number of pods, threads and         *)
(* failures.  The access-log buffer, with any sizes, bounds and batches:   *)
(* its memory stays within the bounds, what it loses is counted until a    *)
(* batch is put back, and no request is inserted twice but for a commit it *)
(* never learnt of.  The metric counters: they keep their types, and what  *)
(* overlapping retention runs delete is tallied exactly.                   *)
(***************************************************************************)
EXTENDS WriteBuffer, MetricsCounters, FiniteSetTheorems, SequenceTheorems,
        WellFoundedInduction, TLAPS

-----------------------------------------------------------------------------
(* What the operators of the model return.                                  *)

(* A set of numbers that is not empty has a least one. *)
LEMMA LeastExists ==
  ASSUME NEW S \in SUBSET Nat, S # {}
  PROVE  \E m \in S : \A n \in S : m <= n
<1> DEFINE R == {ss \in Nat \X Nat : ss[1] < ss[2]}
<1>1. IsWellFoundedOn(R, Nat)
  BY NatLessThanWellFounded, Zenon DEF OpToRel
<1> HIDE DEF R
<1>2. PICK m \in S : \A n \in S : ~(<<n, m>> \in R)
  BY <1>1, WFMin
<1>3. \A n \in S : ~(n < m)
  BY <1>2 DEF R
<1> QED
  BY <1>3

(* The first n entries, and the others. *)
LEMMA FirstAndRest ==
  ASSUME NEW s \in Seq(Entries), NEW n \in 0 .. Len(s)
  PROVE  /\ First(s, n) \in Seq(Entries) /\ Len(First(s, n)) = n
         /\ \A i \in 1 .. n : First(s, n)[i] = s[i]
         /\ Rest(s, n) \in Seq(Entries) /\ Len(Rest(s, n)) = Len(s) - n
         /\ \A i \in 1 .. Len(s) - n : Rest(s, n)[i] = s[n + i]
<1>1. Len(s) \in Nat /\ n \in Int /\ n + 1 \in Int /\ n <= Len(s) /\ 0 <= n
  BY LenProperties
<1>2. \A i \in 1 .. n : s[i] \in Entries
  BY <1>1, ElementOfSeq
<1>3. \A i \in n + 1 .. Len(s) : s[i] \in Entries
  BY <1>1, ElementOfSeq
<1>4. /\ SubSeq(s, 1, n) \in Seq(Entries)
      /\ Len(SubSeq(s, 1, n)) = IF 1 <= n THEN n - 1 + 1 ELSE 0
      /\ \A i \in 1 .. n - 1 + 1 : SubSeq(s, 1, n)[i] = s[1 + i - 1]
  BY <1>1, <1>2, SubSeqProperties
<1>5. /\ SubSeq(s, n + 1, Len(s)) \in Seq(Entries)
      /\ Len(SubSeq(s, n + 1, Len(s))) = IF n + 1 <= Len(s) THEN Len(s) - (n + 1) + 1 ELSE 0
      /\ \A i \in 1 .. Len(s) - (n + 1) + 1 : SubSeq(s, n + 1, Len(s))[i] = s[n + 1 + i - 1]
  BY <1>1, <1>3, SubSeqProperties
<1>6. \A i \in 1 .. n : First(s, n)[i] = s[i]
  BY <1>1, <1>4 DEF First
<1>7. \A i \in 1 .. Len(s) - n : Rest(s, n)[i] = s[n + i]
  <2> TAKE i \in 1 .. Len(s) - n
  <2>1. i \in 1 .. Len(s) - (n + 1) + 1 /\ n + 1 + i - 1 = n + i
    BY <1>1
  <2> QED
    BY <1>5, <2>1 DEF Rest
<1> QED
  BY <1>1, <1>4, <1>5, <1>6, <1>7 DEF First, Rest

LEMMA EntryType ==
  ASSUME NEW e \in Entries
  PROVE  e.id \in 1 .. Requests /\ e.size \in Nat
<1>1. e.id \in 1 .. Requests /\ e.size \in Sizes
  BY DEF Entries
<1> QED
  BY <1>1, BufferAssumption DEF BufferAssumption

LEMMA UnitsFinite ==
  ASSUME NEW s \in Seq(Entries)
  PROVE  IsFiniteSet(Units(s)) /\ Held(s) \in Nat
<1> DEFINE Of(i) == {i} \X (1 .. s[i].size)
           parts == {Of(i) : i \in DOMAIN s}
<1>1. DOMAIN s = 1 .. Len(s) /\ Len(s) \in Nat
  BY LenProperties
<1>2. ASSUME NEW i \in DOMAIN s PROVE IsFiniteSet(Of(i))
  <2>1. s[i] \in Entries
    BY <1>1, ElementOfSeq
  <2>3. s[i].size \in Nat
    BY <2>1, EntryType
  <2>4. IsFiniteSet(1 .. s[i].size)
    BY <2>3, FS_Interval
  <2>5. IsFiniteSet({i})
    BY FS_Singleton
  <2> QED
    BY <2>4, <2>5, FS_Product
<1>3. IsFiniteSet(parts)
  <2> DEFINE f == [i \in DOMAIN s |-> Of(i)]
  <2>1. IsFiniteSet(DOMAIN s)
    BY <1>1, FS_Interval
  <2>2. f \in Surjection(DOMAIN s, parts)
    BY DEF Surjection
  <2> QED
    BY <2>1, <2>2, FS_Surjection
<1>4. \A T \in parts : IsFiniteSet(T)
  BY <1>2
<1>5. IsFiniteSet(UNION parts)
  BY <1>3, <1>4, FS_UNION
<1>6. Units(s) = UNION parts
  BY DEF Units
<1> QED
  BY <1>5, <1>6, FS_CardinalityType DEF Held

(* A sequence that goes on as s and then t do holds what both hold. *)
LEMMA HeldAdds ==
  ASSUME NEW s \in Seq(Entries), NEW t \in Seq(Entries), NEW w \in Seq(Entries),
         Len(w) = Len(s) + Len(t),
         \A i \in 1 .. Len(s) : w[i].size = s[i].size,
         \A i \in 1 .. Len(t) : w[Len(s) + i].size = t[i].size
  PROVE  Held(w) = Held(s) + Held(t)
<1> DEFINE C == {x \in Units(w) : x[1] > Len(s)}
           shift == [x \in Units(t) |-> <<Len(s) + x[1], x[2]>>]
<1>1. /\ DOMAIN s = 1 .. Len(s) /\ Len(s) \in Nat
      /\ DOMAIN t = 1 .. Len(t) /\ Len(t) \in Nat
      /\ DOMAIN w = 1 .. Len(w) /\ Len(w) \in Nat
  BY LenProperties
<1>2. \A x : x \in Units(s) <=> \E i \in 1 .. Len(s) : \E u \in 1 .. s[i].size : x = <<i, u>>
  BY <1>1 DEF Units
<1>3. \A x : x \in Units(t) <=> \E i \in 1 .. Len(t) : \E u \in 1 .. t[i].size : x = <<i, u>>
  BY <1>1 DEF Units
<1>4. \A x : x \in Units(w) <=> \E i \in 1 .. Len(w) : \E u \in 1 .. w[i].size : x = <<i, u>>
  BY <1>1 DEF Units
<1>5. Units(w) = Units(s) \cup C
  <2>1. ASSUME NEW x \in Units(w), x \notin C PROVE x \in Units(s)
    <3>1. PICK i \in 1 .. Len(w) : \E u \in 1 .. w[i].size : x = <<i, u>>
      BY <1>4
    <3> PICK u \in 1 .. w[i].size : x = <<i, u>>
      BY <3>1
    <3>2. i \in 1 .. Len(s)
      BY <1>1, <2>1, <3>1
    <3> QED
      BY <1>2, <3>1, <3>2
  <2>2. ASSUME NEW x \in Units(s) PROVE x \in Units(w)
    <3>1. PICK i \in 1 .. Len(s) : \E u \in 1 .. s[i].size : x = <<i, u>>
      BY <1>2
    <3> PICK u \in 1 .. s[i].size : x = <<i, u>>
      BY <3>1
    <3>2. i \in 1 .. Len(w) /\ w[i].size = s[i].size
      BY <1>1
    <3> QED
      BY <1>4, <3>1, <3>2
  <2> QED
    BY <2>1, <2>2
<1>6. Units(s) \cap C = {}
  BY <1>1, <1>2
<1>7. shift \in Bijection(Units(t), C)
  <2>1. ASSUME NEW x \in Units(t) PROVE shift[x] \in C
    <3>1. PICK i \in 1 .. Len(t) : \E u \in 1 .. t[i].size : x = <<i, u>>
      BY <1>3
    <3> PICK u \in 1 .. t[i].size : x = <<i, u>>
      BY <3>1
    <3>2. Len(s) + i \in 1 .. Len(w) /\ w[Len(s) + i].size = t[i].size /\ Len(s) + i > Len(s)
      BY <1>1
    <3>3. shift[x] = <<Len(s) + i, u>>
      BY <3>1
    <3> QED
      BY <1>4, <3>2, <3>3
  <2>2. ASSUME NEW x \in Units(t), NEW y \in Units(t), shift[x] = shift[y] PROVE x = y
    <3>1. PICK i \in 1 .. Len(t) : \E u \in 1 .. t[i].size : x = <<i, u>>
      BY <1>3
    <3> PICK u \in 1 .. t[i].size : x = <<i, u>>
      BY <3>1
    <3>2. PICK j \in 1 .. Len(t) : \E v \in 1 .. t[j].size : y = <<j, v>>
      BY <1>3
    <3> PICK v \in 1 .. t[j].size : y = <<j, v>>
      BY <3>2
    <3>3. Len(s) + i = Len(s) + j /\ u = v
      BY <2>2, <3>1, <3>2
    <3> QED
      BY <1>1, <3>1, <3>2, <3>3
  <2>3. ASSUME NEW y \in C PROVE \E x \in Units(t) : shift[x] = y
    <3>1. PICK i \in 1 .. Len(w) : \E u \in 1 .. w[i].size : y = <<i, u>>
      BY <1>4
    <3> PICK u \in 1 .. w[i].size : y = <<i, u>>
      BY <3>1
    <3>2. i - Len(s) \in 1 .. Len(t) /\ i = Len(s) + (i - Len(s))
      BY <1>1, <3>1
    <3>3. u \in 1 .. t[i - Len(s)].size
      BY <3>2
    <3>4. <<i - Len(s), u>> \in Units(t)
      BY <1>3, <3>2, <3>3
    <3> QED
      BY <3>1, <3>2, <3>4
  <2>4. shift \in [Units(t) -> C]
    BY <2>1
  <2> HIDE DEF shift, C
  <2> QED
    BY <2>2, <2>3, <2>4, Zenon DEF Bijection, Injection, Surjection, IsInjective
<1>8. Cardinality(C) = Held(t) /\ IsFiniteSet(C)
  <2>1. ExistsBijection(Units(t), C)
    BY <1>7 DEF ExistsBijection
  <2>2. IsFiniteSet(Units(t))
    BY UnitsFinite
  <2> HIDE DEF C
  <2> QED
    BY <2>1, <2>2, FS_Bijection DEF Held
<1>9. Cardinality(Units(s) \cup C) = Held(s) + Held(t) - Cardinality({})
  <2>1. IsFiniteSet(Units(s))
    BY UnitsFinite
  <2> HIDE DEF C
  <2> QED
    BY <1>6, <1>8, <2>1, FS_Union DEF Held
<1>10. Cardinality({}) = 0 /\ Held(s) \in Nat /\ Held(t) \in Nat
  BY UnitsFinite, FS_EmptySet
<1> HIDE DEF C
<1> QED
  BY <1>5, <1>9, <1>10 DEF Held

LEMMA HeldSplits ==
  ASSUME NEW s \in Seq(Entries), NEW n \in 0 .. Len(s)
  PROVE  Held(s) = Held(First(s, n)) + Held(Rest(s, n))
<1>1. Len(s) \in Nat /\ n \in Nat /\ n <= Len(s)
  BY LenProperties
<1>2. /\ First(s, n) \in Seq(Entries) /\ Len(First(s, n)) = n
      /\ \A i \in 1 .. n : First(s, n)[i] = s[i]
      /\ Rest(s, n) \in Seq(Entries) /\ Len(Rest(s, n)) = Len(s) - n
      /\ \A i \in 1 .. Len(s) - n : Rest(s, n)[i] = s[n + i]
  BY FirstAndRest
<1>3. Len(s) = Len(First(s, n)) + Len(Rest(s, n))
  BY <1>1, <1>2
<1>4. \A i \in 1 .. Len(First(s, n)) : s[i].size = First(s, n)[i].size
  BY <1>2
<1>5. \A i \in 1 .. Len(Rest(s, n)) : s[Len(First(s, n)) + i].size = Rest(s, n)[i].size
  BY <1>2
<1> QED
  BY <1>2, <1>3, <1>4, <1>5, HeldAdds

LEMMA HeldOne ==
  ASSUME NEW e \in Entries
  PROVE  <<e>> \in Seq(Entries) /\ Len(<<e>>) = 1 /\ Held(<<e>>) = e.size
<1>1. e.size \in Nat
  BY EntryType
<1>2. DOMAIN <<e>> = {1} /\ <<e>>[1] = e
  OBVIOUS
<1>3. Units(<<e>>) = {1} \X (1 .. e.size)
  BY <1>2 DEF Units
<1>4. IsFiniteSet({1}) /\ Cardinality({1}) = 1
  BY FS_Singleton
<1>5. IsFiniteSet(1 .. e.size) /\ Cardinality(1 .. e.size) = e.size
  <2>1. /\ IsFiniteSet(1 .. e.size)
        /\ Cardinality(1 .. e.size) = IF 1 > e.size THEN 0 ELSE e.size - 1 + 1
    BY <1>1, FS_Interval
  <2> QED
    BY <1>1, <2>1
<1>6. Cardinality({1} \X (1 .. e.size)) = e.size
  <2> DEFINE T == 1 .. e.size
             one == {1}
  <2>1. IsFiniteSet(T) /\ Cardinality(T) = e.size /\ IsFiniteSet(one) /\ Cardinality(one) = 1
    BY <1>4, <1>5
  <2> HIDE DEF T, one
  <2>2. Cardinality(one \X T) = Cardinality(one) * Cardinality(T)
    BY <2>1, FS_Product
  <2>3. Cardinality(one \X T) = e.size
    BY <1>1, <2>1, <2>2
  <2> QED
    BY <2>3 DEF T, one
<1>7. <<e>> \in Seq(Entries) /\ Len(<<e>>) = 1
  OBVIOUS
<1> QED
  BY <1>3, <1>6, <1>7 DEF Held

LEMMA HeldAppend ==
  ASSUME NEW s \in Seq(Entries), NEW e \in Entries
  PROVE  Held(Append(s, e)) = Held(s) + e.size
<1>1. /\ Append(s, e) \in Seq(Entries) /\ Len(Append(s, e)) = Len(s) + 1
      /\ \A i \in 1 .. Len(s) : Append(s, e)[i] = s[i]
      /\ Append(s, e)[Len(s) + 1] = e
  BY AppendProperties
<1>2. <<e>> \in Seq(Entries) /\ Len(<<e>>) = 1 /\ Held(<<e>>) = e.size /\ <<e>>[1] = e
  BY HeldOne
<1>3. \A i \in 1 .. Len(<<e>>) : Append(s, e)[Len(s) + i].size = <<e>>[i].size
  BY <1>1, <1>2
<1>4. Held(Append(s, e)) = Held(s) + Held(<<e>>)
  BY <1>1, <1>2, <1>3, HeldAdds
<1> QED
  BY <1>2, <1>4

LEMMA HeldTail ==
  ASSUME NEW s \in Seq(Entries), s # <<>>
  PROVE  /\ Head(s) \in Entries /\ Tail(s) \in Seq(Entries) /\ Len(Tail(s)) = Len(s) - 1
         /\ Tail(s) = Rest(s, 1)
         /\ Held(s) = Head(s).size + Held(Tail(s))
<1>1. Len(s) \in Nat /\ Len(s) >= 1
  BY EmptySeq
<1>2. /\ Head(s) \in Entries /\ Tail(s) \in Seq(Entries) /\ Len(Tail(s)) = Len(s) - 1
      /\ \A i \in 1 .. Len(Tail(s)) : Tail(s)[i] = s[i + 1]
  BY HeadTailProperties
<1>3. Head(s) = s[1] /\ <<Head(s)>>[1] = Head(s)
  OBVIOUS
<1>4. <<Head(s)>> \in Seq(Entries) /\ Len(<<Head(s)>>) = 1 /\ Held(<<Head(s)>>) = Head(s).size
  BY <1>2, HeldOne
<1>5. Held(s) = Held(<<Head(s)>>) + Held(Tail(s))
  <2>1. \A i \in 1 .. Len(<<Head(s)>>) : s[i].size = <<Head(s)>>[i].size
    BY <1>3, <1>4
  <2>2. \A i \in 1 .. Len(Tail(s)) : s[Len(<<Head(s)>>) + i].size = Tail(s)[i].size
    <3> TAKE i \in 1 .. Len(Tail(s))
    <3>1. 1 + i = i + 1
      BY <1>1, <1>2
    <3> QED
      BY <1>2, <1>4, <3>1
  <2>3. Len(s) = Len(<<Head(s)>>) + Len(Tail(s))
    BY <1>1, <1>2, <1>4
  <2> QED
    BY <1>2, <1>4, <2>1, <2>2, <2>3, HeldAdds
<1>6. Tail(s) = Rest(s, 1)
  BY TailIsSubSeq DEF Rest
<1> QED
  BY <1>2, <1>4, <1>5, <1>6

LEMMA RestOfRest ==
  ASSUME NEW s \in Seq(Entries), NEW m \in 0 .. Len(s), NEW n \in 0 .. Len(s) - m
  PROVE  Rest(Rest(s, m), n) = Rest(s, m + n)
<1>1. Len(s) \in Nat /\ m \in Nat /\ n \in Nat /\ m + n <= Len(s) /\ m + n \in 0 .. Len(s)
  BY LenProperties
<1>2. /\ Rest(s, m) \in Seq(Entries) /\ Len(Rest(s, m)) = Len(s) - m
      /\ \A i \in 1 .. Len(s) - m : Rest(s, m)[i] = s[m + i]
  BY FirstAndRest
<1>3. /\ Rest(Rest(s, m), n) \in Seq(Entries) /\ Len(Rest(Rest(s, m), n)) = Len(s) - m - n
      /\ \A i \in 1 .. Len(s) - m - n : Rest(Rest(s, m), n)[i] = Rest(s, m)[n + i]
  <2>1. n \in 0 .. Len(Rest(s, m))
    BY <1>2
  <2> QED
    BY <1>2, <2>1, FirstAndRest
<1>4. /\ Rest(s, m + n) \in Seq(Entries) /\ Len(Rest(s, m + n)) = Len(s) - (m + n)
      /\ \A i \in 1 .. Len(s) - (m + n) : Rest(s, m + n)[i] = s[m + n + i]
  BY <1>1, FirstAndRest
<1>5. \A i \in 1 .. Len(s) - m - n : Rest(Rest(s, m), n)[i] = Rest(s, m + n)[i]
  <2> TAKE i \in 1 .. Len(s) - m - n
  <2>1. /\ n + i \in 1 .. Len(s) - m /\ i \in 1 .. Len(s) - (m + n)
        /\ m + (n + i) = m + n + i
    BY <1>1
  <2> QED
    BY <1>2, <1>3, <1>4, <2>1
<1>6. Len(Rest(Rest(s, m), n)) = Len(Rest(s, m + n)) /\ Len(Rest(Rest(s, m), n)) = Len(s) - m - n
  <2>1. Len(s) - (m + n) = Len(s) - m - n
    BY <1>1
  <2>2. Len(Rest(s, m + n)) = Len(s) - (m + n)
    BY <1>4
  <2>3. Len(Rest(Rest(s, m), n)) = Len(s) - m - n
    BY <1>3
  <2> QED
    BY <2>1, <2>2, <2>3
<1>7. \A i \in 1 .. Len(Rest(Rest(s, m), n)) : Rest(Rest(s, m), n)[i] = Rest(s, m + n)[i]
  BY <1>5, <1>6
<1> QED
  BY <1>3, <1>4, <1>6, <1>7, SeqEqual

(* The eviction ends: within the budget, or with the last entry alone.       *)
LEMMA EvictedEnds ==
  ASSUME NEW s \in Seq(Entries), s # <<>>, NEW count \in Int
  PROVE  /\ Evicted(s, count) \in 0 .. Len(s) - 1
         /\ \/ Evicted(s, count) = Len(s) - 1
            \/ count - Held(First(s, Evicted(s, count))) <= MaxBufferBytes
<1> DEFINE Enough(n) == n = Len(s) - 1 \/ count - Held(First(s, n)) <= MaxBufferBytes
           E == {n \in 0 .. Len(s) - 1 : Enough(n)}
<1>1. Len(s) \in Nat /\ Len(s) >= 1 /\ Len(s) - 1 \in E
  BY EmptySeq
<1>2. PICK n \in E : \A m \in E : n <= m
  <2>1. 0 .. Len(s) - 1 \subseteq Nat
    BY <1>1
  <2>2. E \subseteq 0 .. Len(s) - 1
    BY Zenon
  <2>3. E # {}
    BY <1>1, Zenon
  <2> HIDE DEF E
  <2> QED
    BY <2>1, <2>2, <2>3, LeastExists
<1>3. \A m \in 0 .. n - 1 : count - Held(First(s, m)) > MaxBufferBytes
  <2> TAKE m \in 0 .. n - 1
  <2>1. m \in 0 .. Len(s) - 1 /\ ~(n <= m)
    BY <1>1
  <2>2. m \notin E
    BY <1>2, <2>1
  <2>3. ~(count - Held(First(s, m)) <= MaxBufferBytes)
    BY <2>1, <2>2
  <2>4. Held(First(s, m)) \in Nat
    <3>1. m \in 0 .. Len(s)
      BY <1>1, <2>1
    <3> QED
      BY <3>1, FirstAndRest, UnitsFinite
  <2>5. MaxBufferBytes \in Nat
    BY BufferAssumption DEF BufferAssumption
  <2> QED
    BY <2>3, <2>4, <2>5
<1>4. \E k \in 0 .. Len(s) - 1 :
        /\ k = Len(s) - 1 \/ count - Held(First(s, k)) <= MaxBufferBytes
        /\ \A m \in 0 .. k - 1 : count - Held(First(s, m)) > MaxBufferBytes
  BY <1>3
<1> QED
  BY <1>4 DEF Evicted

(* Stripping leaves the entries in their places, with their ids and sizes.   *)
LEMMA StrippedKeeps ==
  ASSUME NEW s \in Seq(Entries), NEW doubt \in BOOLEAN
  PROVE  /\ Stripped(s, doubt) \in Seq(Entries) /\ Len(Stripped(s, doubt)) = Len(s)
         /\ \A i \in 1 .. Len(s) : /\ Stripped(s, doubt)[i].id = s[i].id
                                   /\ Stripped(s, doubt)[i].size = s[i].size
                                   /\ s[i].doubtful => Stripped(s, doubt)[i].doubtful
                                   /\ doubt => Stripped(s, doubt)[i].doubtful
<1> DEFINE t == Stripped(s, doubt)
<1>1. DOMAIN s = 1 .. Len(s) /\ Len(s) \in Nat
  BY LenProperties
<1>2. ASSUME NEW i \in 1 .. Len(s)
      PROVE  /\ t[i] \in Entries /\ t[i].id = s[i].id /\ t[i].size = s[i].size
             /\ s[i].doubtful => t[i].doubtful
             /\ doubt => t[i].doubtful
  <2>1. s[i] \in Entries
    BY ElementOfSeq
  <2>2. t[i] = [s[i] EXCEPT !.whole = FALSE, !.doubtful = @ \/ doubt]
    BY <1>1 DEF Stripped
  <2>3. t[i] = [id |-> s[i].id, size |-> s[i].size, whole |-> FALSE,
                doubtful |-> s[i].doubtful \/ doubt]
    BY <2>1, <2>2 DEF Entries
  <2>4. s[i].id \in 1 .. Requests /\ s[i].size \in Sizes
    BY <2>1 DEF Entries
  <2>5. (s[i].doubtful \/ doubt) \in BOOLEAN
    OBVIOUS
  <2>6. t[i] \in Entries
    BY <2>3, <2>4, <2>5 DEF Entries
  <2>7. t[i].doubtful = (s[i].doubtful \/ doubt)
    BY <2>3
  <2>8. t[i].id = s[i].id /\ t[i].size = s[i].size
    BY <2>3
  <2>9. (s[i].doubtful => t[i].doubtful) /\ (doubt => t[i].doubtful)
    BY <2>7, Zenon
  <2> QED
    BY <2>6, <2>8, <2>9
<1>3. t \in [1 .. Len(s) -> Entries]
  BY <1>1, <1>2 DEF Stripped
<1>4. t \in Seq(Entries) /\ Len(t) = Len(s)
  <2> HIDE DEF t
  <2> QED
    BY <1>1, <1>3, SeqDef, LenProperties
<1> QED
  BY <1>2, <1>4

-----------------------------------------------------------------------------
(* The steps that change the buffer.                                         *)

NewEntry(size) == [id |-> asked + 1, size |-> size, whole |-> TRUE, doubtful |-> FALSE]

(* A request joins at the end and drops what it counts from the front.       *)
LEMMA BufferStep ==
  ASSUME TypeOK, BytesCoverBuffer, NEW size \in Sizes, Buffer(size)
  PROVE  /\ NewEntry(size) \in Entries
         /\ \E k \in 0 .. Len(buffer) :
              /\ dropped' = dropped + k
              /\ Len(buffer') = Len(buffer) - k + 1
              /\ \A i \in 1 .. Len(buffer) - k : buffer'[i] = buffer[k + i]
              /\ buffer'[Len(buffer) - k + 1] = NewEntry(size)
         /\ buffer' \in Seq(Entries) /\ Len(buffer') <= MaxBufferRows
         /\ bytes' \in Nat /\ bytes' >= Held(buffer')
         /\ Len(buffer') = 1 \/ bytes' <= MaxBufferBytes
<1> DEFINE e == NewEntry(size)
           all == Append(buffer, e)
           full == Len(buffer) = MaxBufferRows
           appended == Append(IF full THEN Tail(buffer) ELSE buffer, e)
           count == bytes + size - (IF full THEN Head(buffer).size ELSE 0)
           n == Evicted(appended, count)
           d == IF full THEN 1 ELSE 0
<1>1. /\ asked < Requests
      /\ buffer' = Rest(appended, n)
      /\ bytes' = count - Held(First(appended, n))
      /\ dropped' = dropped + n + d
  BY DEF Buffer, NewEntry
<1>2. e \in Entries /\ e.size = size /\ size \in Nat
  <2>1. asked + 1 \in 1 .. Requests
    BY <1>1, BufferAssumption DEF BufferAssumption, TypeOK
  <2>2. e \in Entries
    BY <2>1 DEF NewEntry, Entries
  <2> QED
    BY <2>2, BufferAssumption DEF BufferAssumption, NewEntry
<1>3. /\ buffer \in Seq(Entries) /\ Len(buffer) \in Nat /\ Len(buffer) <= MaxBufferRows
      /\ MaxBufferRows \in Nat /\ MaxBufferRows >= 1 /\ MaxBufferBytes \in Nat
      /\ bytes \in Nat /\ dropped \in Nat /\ Held(buffer) \in Nat /\ bytes >= Held(buffer)
  BY BufferAssumption, LenProperties, UnitsFinite DEF BufferAssumption, TypeOK, BytesCoverBuffer
<1>4. /\ all \in Seq(Entries) /\ Len(all) = Len(buffer) + 1
  BY <1>2, <1>3, AppendProperties
<1> HIDE DEF e
<1>5. /\ appended \in Seq(Entries) /\ appended # <<>>
      /\ appended = Rest(all, d)
      /\ Len(appended) = Len(buffer) + 1 - d
      /\ count \in Int /\ count >= Held(appended)
  <2>1. CASE ~full
    <3>1. appended = all /\ d = 0 /\ count = bytes + size - 0
      BY <2>1
    <3>2. Rest(all, 0) = all
      BY <1>4, SubSeqFull DEF Rest
    <3>3. Held(all) = Held(buffer) + size /\ all # <<>>
      BY <1>2, <1>3, HeldAppend, AppendProperties
    <3> HIDE DEF appended, all, count, d
    <3> QED
      BY <1>2, <1>3, <1>4, <3>1, <3>2, <3>3
  <2>2. CASE full
    <3>1. appended = Append(Tail(buffer), e) /\ d = 1 /\ count = bytes + size - Head(buffer).size
      BY <2>2
    <3>2. buffer # <<>>
      BY <1>3, <2>2, EmptySeq
    <3>3. /\ Head(buffer) \in Entries /\ Tail(buffer) \in Seq(Entries)
          /\ Len(Tail(buffer)) = Len(buffer) - 1
          /\ Held(buffer) = Head(buffer).size + Held(Tail(buffer))
      BY <1>3, <3>2, HeldTail
    <3>4. Head(buffer).size \in Nat /\ Held(Tail(buffer)) \in Nat
      BY <3>3, EntryType, UnitsFinite
    <3>5. /\ Held(appended) = Held(Tail(buffer)) + size
          /\ appended \in Seq(Entries) /\ appended # <<>> /\ Len(appended) = Len(Tail(buffer)) + 1
      <4> HIDE DEF appended
      <4>1. Held(Append(Tail(buffer), e)) = Held(Tail(buffer)) + e.size
        BY <1>2, <3>3, HeldAppend
      <4>2. /\ Append(Tail(buffer), e) \in Seq(Entries) /\ Append(Tail(buffer), e) # <<>>
            /\ Len(Append(Tail(buffer), e)) = Len(Tail(buffer)) + 1
        BY <1>2, <3>3, AppendProperties
      <4> QED
        BY <1>2, <3>1, <4>1, <4>2
    <3>6. Tail(all) = appended
      BY <1>3, <3>1, <3>2, HeadTailAppend
    <3>7. Rest(all, 1) = appended
      BY <1>2, <1>3, <1>4, <3>6, HeldTail, AppendProperties
    <3> HIDE DEF appended, all, count, d
    <3>8. count \in Int /\ count >= Held(appended)
      BY <1>2, <1>3, <3>1, <3>3, <3>4, <3>5
    <3>9. Len(appended) = Len(buffer) + 1 - d
      BY <1>3, <3>1, <3>3, <3>5
    <3> QED
      BY <3>1, <3>5, <3>7, <3>8, <3>9
  <2> QED
    BY <2>1, <2>2
<1>6. d \in 0 .. 1 /\ (full => d = 1)
  OBVIOUS
<1> HIDE DEF all, appended, count, n, d
<1>7. n \in 0 .. Len(appended) - 1 /\ (n = Len(appended) - 1 \/ count - Held(First(appended, n)) <= MaxBufferBytes)
  BY <1>5, EvictedEnds DEF n
<1>8. n \in Nat /\ n \in 0 .. Len(appended) /\ d + n \in 0 .. Len(buffer)
  BY <1>3, <1>5, <1>6, <1>7
<1>9. /\ First(appended, n) \in Seq(Entries) /\ buffer' \in Seq(Entries)
      /\ Len(buffer') = Len(appended) - n
  BY <1>1, <1>5, <1>8, FirstAndRest
<1>10. Held(appended) = Held(First(appended, n)) + Held(buffer')
  BY <1>1, <1>5, <1>8, HeldSplits
<1>11. Held(First(appended, n)) \in Nat /\ Held(buffer') \in Nat
  BY <1>9, UnitsFinite
<1>12. bytes' \in Nat /\ bytes' >= Held(buffer')
  BY <1>1, <1>5, <1>10, <1>11
<1>13. Len(buffer') = 1 \/ bytes' <= MaxBufferBytes
  <2>1. CASE n = Len(appended) - 1
    <3>1. Len(buffer') = 1
      BY <1>3, <1>5, <1>6, <1>9, <2>1
    <3> QED
      BY <3>1
  <2>2. CASE count - Held(First(appended, n)) <= MaxBufferBytes
    BY <1>1, <2>2
  <2> QED
    BY <1>7, <2>1, <2>2
<1>14. Len(buffer') <= MaxBufferRows
  <2>1. Len(buffer) + 1 - d <= MaxBufferRows
    BY <1>3, <1>6
  <2> QED
    BY <1>3, <1>5, <1>6, <1>8, <1>9, <2>1
<1>15. buffer' = Rest(all, d + n) /\ dropped' = dropped + (d + n)
  <2>1. d \in 0 .. Len(all) /\ n \in 0 .. Len(all) - d
    BY <1>3, <1>4, <1>5, <1>6, <1>8
  <2>2. Rest(Rest(all, d), n) = Rest(all, d + n)
    BY <1>4, <2>1, RestOfRest
  <2>3. dropped + n + d = dropped + (d + n)
    BY <1>3, <1>6, <1>8
  <2> QED
    BY <1>1, <1>5, <2>2, <2>3
<1>16. /\ \A i \in 1 .. Len(buffer) : all[i] = buffer[i]
       /\ all[Len(buffer) + 1] = e
  BY <1>2, <1>3, AppendProperties DEF all
<1> DEFINE k == d + n
<1>17. /\ k \in 0 .. Len(buffer) /\ k \in 0 .. Len(all)
       /\ buffer' = Rest(all, k) /\ dropped' = dropped + k
  BY <1>3, <1>4, <1>8, <1>15
<1> HIDE DEF k
<1>18. /\ Len(buffer') = Len(all) - k
       /\ \A i \in 1 .. Len(all) - k : buffer'[i] = all[k + i]
  BY <1>4, <1>17, FirstAndRest
<1>19. Len(buffer') = Len(buffer) - k + 1
  BY <1>3, <1>4, <1>17, <1>18
<1>20. ASSUME NEW i \in 1 .. Len(buffer) - k PROVE buffer'[i] = buffer[k + i]
  <2>1. i \in 1 .. Len(all) - k /\ k + i \in 1 .. Len(buffer)
    BY <1>3, <1>4, <1>17
  <2> QED
    BY <1>16, <1>18, <2>1
<1>21. buffer'[Len(buffer) - k + 1] = e
  <2>1. /\ Len(buffer) - k + 1 \in 1 .. Len(all) - k
        /\ k + (Len(buffer) - k + 1) = Len(buffer) + 1
    BY <1>3, <1>4, <1>17
  <2> QED
    BY <1>16, <1>18, <2>1
<1> QED
  BY <1>2, <1>9, <1>12, <1>13, <1>14, <1>17, <1>19, <1>20, <1>21 DEF e

(* A flush takes its batch from the front.                                   *)
LEMMA PopStep ==
  ASSUME TypeOK, BytesCoverBuffer, NEW f \in Flushers, PopBatch(f)
  PROVE  \E n \in 1 .. Len(buffer) :
           /\ n <= FlushBatchSize
           /\ First(buffer, n) \in Seq(Entries) /\ Len(First(buffer, n)) = n
           /\ batch' = [batch EXCEPT ![f] = First(buffer, n)]
           /\ buffer' = Rest(buffer, n)
           /\ \A i \in 1 .. n : First(buffer, n)[i] = buffer[i]
           /\ buffer' \in Seq(Entries) /\ Len(buffer') <= MaxBufferRows
           /\ Len(buffer') = Len(buffer) - n
           /\ \A i \in 1 .. Len(buffer) - n : buffer'[i] = buffer[n + i]
           /\ bytes' \in Nat /\ bytes' >= Held(buffer')
<1> DEFINE n == IF Len(buffer) < FlushBatchSize THEN Len(buffer) ELSE FlushBatchSize
<1>1. /\ n > 0 /\ batch' = [batch EXCEPT ![f] = First(buffer, n)]
      /\ buffer' = Rest(buffer, n) /\ bytes' = bytes - Held(First(buffer, n))
  BY DEF PopBatch
<1>2. /\ buffer \in Seq(Entries) /\ Len(buffer) \in Nat /\ Len(buffer) <= MaxBufferRows
      /\ FlushBatchSize \in Nat /\ MaxBufferRows \in Nat
      /\ bytes \in Nat /\ bytes >= Held(buffer)
  BY BufferAssumption, LenProperties DEF BufferAssumption, TypeOK, BytesCoverBuffer
<1>3. n \in 1 .. Len(buffer) /\ n \in 0 .. Len(buffer) /\ n <= FlushBatchSize
  BY <1>1, <1>2
<1> HIDE DEF n
<1>4. /\ First(buffer, n) \in Seq(Entries) /\ Len(First(buffer, n)) = n
      /\ \A i \in 1 .. n : First(buffer, n)[i] = buffer[i]
      /\ buffer' \in Seq(Entries) /\ Len(buffer') = Len(buffer) - n
      /\ \A i \in 1 .. Len(buffer) - n : buffer'[i] = buffer[n + i]
  BY <1>1, <1>2, <1>3, FirstAndRest
<1>5. Held(buffer) = Held(First(buffer, n)) + Held(buffer')
  BY <1>1, <1>2, <1>3, HeldSplits
<1>6. Held(First(buffer, n)) \in Nat /\ Held(buffer') \in Nat
  BY <1>4, UnitsFinite
<1>7. bytes' \in Nat /\ bytes' >= Held(buffer') /\ Len(buffer') <= MaxBufferRows
  BY <1>1, <1>2, <1>3, <1>4, <1>5, <1>6
<1> QED
  BY <1>1, <1>3, <1>4, <1>7

(* A batch that is put back stands in front of the others, and what the      *)
(* bound cuts off is at the end.                                             *)
Back(f, doubt) == Stripped(batch[f], doubt) \o buffer

LEMMA BackIsBoth ==
  ASSUME TypeOK, NEW f \in Flushers, NEW doubt \in BOOLEAN
  PROVE  /\ Back(f, doubt) \in Seq(Entries)
         /\ Len(Back(f, doubt)) = Len(batch[f]) + Len(buffer)
         /\ \A i \in 1 .. Len(batch[f]) : Back(f, doubt)[i] = Stripped(batch[f], doubt)[i]
         /\ \A i \in 1 .. Len(buffer) : Back(f, doubt)[Len(batch[f]) + i] = buffer[i]
<1> DEFINE t == Stripped(batch[f], doubt)
<1>1. /\ batch[f] \in Seq(Entries) /\ Len(batch[f]) \in Nat
      /\ buffer \in Seq(Entries) /\ Len(buffer) \in Nat
  BY LenProperties DEF TypeOK
<1>2. t \in Seq(Entries) /\ Len(t) = Len(batch[f])
  BY <1>1, StrippedKeeps
<1> HIDE DEF t
<1>3. /\ t \o buffer \in Seq(Entries) /\ Len(t \o buffer) = Len(t) + Len(buffer)
      /\ \A i \in 1 .. Len(t) + Len(buffer) :
           (t \o buffer)[i] = IF i <= Len(t) THEN t[i] ELSE buffer[i - Len(t)]
  BY <1>1, <1>2, ConcatProperties
<1>4. \A i \in 1 .. Len(batch[f]) : (t \o buffer)[i] = t[i]
  BY <1>1, <1>2, <1>3
<1>5. \A i \in 1 .. Len(buffer) : (t \o buffer)[Len(batch[f]) + i] = buffer[i]
  <2> TAKE i \in 1 .. Len(buffer)
  <2>1. /\ Len(t) + i \in 1 .. Len(t) + Len(buffer)
        /\ ~(Len(t) + i <= Len(t)) /\ Len(t) + i - Len(t) = i
    BY <1>1, <1>2
  <2> QED
    BY <1>2, <1>3, <2>1
<1> QED
  BY <1>2, <1>3, <1>4, <1>5 DEF t, Back

LEMMA RequeueStep ==
  ASSUME TypeOK, BytesCoverBuffer, NEW f \in Flushers, NEW doubt \in BOOLEAN, Requeue(f, doubt)
  PROVE  /\ Len(buffer') <= Len(batch[f]) + Len(buffer)
         /\ \A i \in 1 .. Len(buffer') : buffer'[i] = Back(f, doubt)[i]
         /\ buffer' \in Seq(Entries) /\ Len(buffer') <= MaxBufferRows
         /\ bytes' \in Nat /\ bytes' >= Held(buffer')
<1> DEFINE back == Back(f, doubt)
           n == IF Len(back) > MaxBufferRows THEN MaxBufferRows ELSE Len(back)
<1>1. buffer' = First(back, n) /\ bytes' = bytes + Held(batch[f])
  BY DEF Requeue, Back
<1>2. /\ buffer \in Seq(Entries) /\ batch[f] \in Seq(Entries)
      /\ Len(buffer) \in Nat /\ Len(batch[f]) \in Nat
      /\ bytes \in Nat /\ bytes >= Held(buffer) /\ MaxBufferRows \in Nat
  BY BufferAssumption, LenProperties DEF BufferAssumption, TypeOK, BytesCoverBuffer
<1>3. /\ back \in Seq(Entries) /\ Len(back) = Len(batch[f]) + Len(buffer)
      /\ \A i \in 1 .. Len(batch[f]) : back[i] = Stripped(batch[f], doubt)[i]
      /\ \A i \in 1 .. Len(buffer) : back[Len(batch[f]) + i] = buffer[i]
  BY BackIsBoth
<1> HIDE DEF back
<1>4. Held(back) = Held(batch[f]) + Held(buffer)
  <2>1. \A i \in 1 .. Len(batch[f]) : back[i].size = batch[f][i].size
    BY <1>2, <1>3, StrippedKeeps
  <2>2. \A i \in 1 .. Len(buffer) : back[Len(batch[f]) + i].size = buffer[i].size
    BY <1>3
  <2> QED
    BY <1>2, <1>3, <2>1, <2>2, HeldAdds
<1>5. n \in 0 .. Len(back) /\ n <= MaxBufferRows
  BY <1>2, <1>3
<1> HIDE DEF n
<1>6. /\ First(back, n) \in Seq(Entries) /\ Len(First(back, n)) = n /\ Rest(back, n) \in Seq(Entries)
      /\ \A i \in 1 .. n : First(back, n)[i] = back[i]
  BY <1>3, <1>5, FirstAndRest
<1>7. Held(back) = Held(First(back, n)) + Held(Rest(back, n))
  BY <1>3, <1>5, HeldSplits
<1>8. /\ Held(batch[f]) \in Nat /\ Held(buffer) \in Nat
      /\ Held(First(back, n)) \in Nat /\ Held(Rest(back, n)) \in Nat
  BY <1>2, <1>6, UnitsFinite
<1>9. bytes' \in Nat /\ bytes' >= Held(First(back, n))
  BY <1>1, <1>2, <1>4, <1>7, <1>8
<1>10. n <= Len(batch[f]) + Len(buffer)
  BY <1>2, <1>3, <1>5
<1> QED
  BY <1>1, <1>5, <1>6, <1>9, <1>10 DEF back

-----------------------------------------------------------------------------
(* Types and the byte count.                                                 *)

(* The byte count keeps its type because it covers what is held, and a run's *)
(* counter because a run with a batch in hand has room for it.  What is in   *)
(* memory is of this process.                                                *)
MemoryInv ==
  /\ TypeOK
  /\ BytesCoverBuffer
  /\ \A f \in Flushers : batch[f] # <<>> => total[f] \in 0 .. MaxFlushRows - 1
  /\ Ids(buffer) \subseteq mine
  /\ \A f \in Flushers : Ids(batch[f]) \subseteq mine

LEMMA BufferKeepsMemory ==
  ASSUME MemoryInv, NEW size \in Sizes, Buffer(size)
  PROVE  MemoryInv'
<1>1. PICK k \in 0 .. Len(buffer) :
        /\ dropped' = dropped + k
        /\ Len(buffer') = Len(buffer) - k + 1
        /\ \A i \in 1 .. Len(buffer) - k : buffer'[i] = buffer[k + i]
        /\ buffer'[Len(buffer) - k + 1] = NewEntry(size)
  BY BufferStep DEF MemoryInv
<1>2. /\ buffer' \in Seq(Entries) /\ Len(buffer') <= MaxBufferRows
      /\ bytes' \in Nat /\ bytes' >= Held(buffer')
  BY BufferStep DEF MemoryInv
<1>3. /\ UNCHANGED <<batch, total, stored, failed, again>>
      /\ asked < Requests /\ asked' = asked + 1 /\ mine' = mine \cup {asked + 1}
  BY DEF Buffer
<1>4. /\ asked \in 0 .. Requests /\ Requests \in Nat /\ dropped \in Nat
      /\ Len(buffer) \in Nat /\ DOMAIN buffer = 1 .. Len(buffer)
      /\ Len(buffer') \in Nat /\ DOMAIN buffer' = 1 .. Len(buffer')
  BY <1>2, BufferAssumption, LenProperties DEF BufferAssumption, MemoryInv, TypeOK
<1>5. /\ asked' \in 0 .. Requests /\ dropped' \in Nat /\ 1 .. asked \subseteq 1 .. asked'
      /\ asked + 1 \in 1 .. asked'
  BY <1>1, <1>3, <1>4
<1>6. TypeOK'
  BY <1>2, <1>3, <1>5 DEF MemoryInv, TypeOK
<1>7. Ids(buffer') \subseteq mine'
  <2> SUFFICES ASSUME NEW i \in 1 .. Len(buffer') PROVE buffer'[i].id \in mine'
    BY <1>4 DEF Ids
  <2>1. CASE i = Len(buffer) - k + 1
    BY <1>1, <1>3, <2>1 DEF NewEntry
  <2>2. CASE i # Len(buffer) - k + 1
    <3>1. k \in Int /\ 0 <= k /\ k <= Len(buffer) /\ Len(buffer) \in Int
      BY <1>4
    <3>2. i \in 1 .. Len(buffer) - k + 1
      BY <1>1
    <3>3. i \in 1 .. Len(buffer) - k
      BY <2>2, <3>1, <3>2
    <3>4. k + i \in 1 .. Len(buffer)
      BY <3>1, <3>3
    <3>5. i \in 1 .. Len(buffer) - k /\ k + i \in DOMAIN buffer
      BY <1>4, <3>3, <3>4
    <3> QED
      BY <1>1, <1>3, <3>5 DEF MemoryInv, Ids
  <2> QED
    BY <2>1, <2>2
<1> QED
  BY <1>2, <1>3, <1>6, <1>7 DEF MemoryInv, BytesCoverBuffer

LEMMA PopKeepsMemory ==
  ASSUME MemoryInv, NEW f \in Flushers, PopBatch(f)
  PROVE  MemoryInv'
<1>1. PICK n \in 1 .. Len(buffer) :
           /\ n <= FlushBatchSize
           /\ First(buffer, n) \in Seq(Entries) /\ Len(First(buffer, n)) = n
           /\ batch' = [batch EXCEPT ![f] = First(buffer, n)]
           /\ \A i \in 1 .. n : First(buffer, n)[i] = buffer[i]
           /\ buffer' \in Seq(Entries) /\ Len(buffer') <= MaxBufferRows
           /\ Len(buffer') = Len(buffer) - n
           /\ \A i \in 1 .. Len(buffer) - n : buffer'[i] = buffer[n + i]
           /\ bytes' \in Nat /\ bytes' >= Held(buffer')
  BY PopStep DEF MemoryInv
<1>2. /\ total[f] \in 0 .. MaxFlushRows - 1
      /\ UNCHANGED <<dropped, total, stored, asked, mine, failed, again>>
  BY DEF PopBatch
<1>3. /\ Len(buffer) \in Nat /\ DOMAIN buffer = 1 .. Len(buffer)
      /\ DOMAIN buffer' = 1 .. Len(buffer') /\ DOMAIN First(buffer, n) = 1 .. n
  BY <1>1, LenProperties DEF MemoryInv, TypeOK
<1>4. TypeOK'
  <2>1. batch' \in [Flushers -> Seq(Entries)]
    BY <1>1 DEF MemoryInv, TypeOK
  <2>2. \A g \in Flushers : Len(batch'[g]) <= FlushBatchSize
    BY <1>1 DEF MemoryInv, TypeOK
  <2> QED
    BY <1>1, <1>2, <2>1, <2>2 DEF MemoryInv, TypeOK
<1>5. Ids(buffer') \subseteq mine'
  <2> SUFFICES ASSUME NEW i \in 1 .. Len(buffer') PROVE buffer'[i].id \in mine
    BY <1>2, <1>3 DEF Ids
  <2>1. i \in 1 .. Len(buffer) - n /\ n + i \in DOMAIN buffer
    BY <1>1, <1>3
  <2> QED
    BY <1>1, <2>1 DEF MemoryInv, Ids
<1>6. ASSUME NEW g \in Flushers PROVE Ids(batch'[g]) \subseteq mine'
  <2>1. CASE g = f
    <3> SUFFICES ASSUME NEW i \in 1 .. n PROVE First(buffer, n)[i].id \in mine
      BY <1>1, <1>2, <1>3, <2>1 DEF Ids, MemoryInv, TypeOK
    <3>1. i \in DOMAIN buffer
      BY <1>1, <1>3
    <3> QED
      BY <1>1, <3>1 DEF MemoryInv, Ids
  <2>2. CASE g # f
    BY <1>1, <1>2, <2>2 DEF MemoryInv, TypeOK
  <2> QED
    BY <2>1, <2>2
<1>7. \A g \in Flushers : batch'[g] # <<>> => total'[g] \in 0 .. MaxFlushRows - 1
  BY <1>1, <1>2 DEF MemoryInv, TypeOK
<1> QED
  BY <1>1, <1>4, <1>5, <1>6, <1>7 DEF MemoryInv, BytesCoverBuffer

(* What an insert stores. *)
LEMMA StoreStep ==
  ASSUME MemoryInv, NEW f \in Flushers, Store(batch[f])
  PROVE  /\ stored' \subseteq [id : 1 .. Requests, whole : BOOLEAN]
         /\ again' \subseteq 1 .. asked
         /\ StoredIds' = StoredIds \cup Ids(batch[f])
<1>1. \A i \in DOMAIN batch[f] : batch[f][i] \in Entries
  BY LenProperties, ElementOfSeq DEF MemoryInv, TypeOK
<1>2. \A i \in DOMAIN batch[f] : [id |-> batch[f][i].id, whole |-> batch[f][i].whole]
                                   \in [id : 1 .. Requests, whole : BOOLEAN]
  BY <1>1 DEF Entries
<1>3. stored' = stored \cup {[id |-> batch[f][i].id, whole |-> batch[f][i].whole] : i \in DOMAIN batch[f]}
  BY DEF Store
<1>4. again' \subseteq 1 .. asked
  <2>1. \A i \in DOMAIN batch[f] : batch[f][i].id \in 1 .. asked
    BY DEF MemoryInv, TypeOK, Ids
  <2> QED
    BY <2>1 DEF Store, MemoryInv, TypeOK
<1>5. StoredIds' = StoredIds \cup Ids(batch[f])
  <2> DEFINE Row(i) == [id |-> batch[f][i].id, whole |-> batch[f][i].whole]
  <2>1. \A i : Row(i).id = batch[f][i].id
    OBVIOUS
  <2>2. stored' = stored \cup {Row(i) : i \in DOMAIN batch[f]}
    BY <1>3
  <2> HIDE DEF Row
  <2>3. {row.id : row \in stored'} = {row.id : row \in stored} \cup {Row(i).id : i \in DOMAIN batch[f]}
    BY <2>2
  <2>4. {Row(i).id : i \in DOMAIN batch[f]} = Ids(batch[f])
    BY <2>1 DEF Ids
  <2> QED
    BY <2>3, <2>4 DEF StoredIds
<1> QED
  BY <1>2, <1>3, <1>4, <1>5 DEF MemoryInv, TypeOK

LEMMA NoEntries == <<>> \in Seq(Entries) /\ Len(<<>>) = 0 /\ Ids(<<>>) = {} /\ Held(<<>>) = 0
<1>1. DOMAIN <<>> = {}
  OBVIOUS
<1>2. Units(<<>>) = {}
  BY <1>1 DEF Units
<1> QED
  BY <1>1, <1>2, EmptySeq, FS_EmptySet DEF Ids, Held

LEMMA InsertKeepsMemory ==
  ASSUME MemoryInv, NEW f \in Flushers, InsertBatch(f)
  PROVE  MemoryInv'
<1>1. /\ batch[f] # <<>> /\ Store(batch[f])
      /\ total' = [total EXCEPT ![f] = @ + Len(batch[f])]
      /\ batch' = [batch EXCEPT ![f] = <<>>]
      /\ UNCHANGED <<buffer, bytes, dropped, asked, mine, failed>>
  BY DEF InsertBatch
<1>2. stored' \subseteq [id : 1 .. Requests, whole : BOOLEAN] /\ again' \subseteq 1 .. asked
  BY <1>1, StoreStep
<1>3. /\ total[f] \in 0 .. MaxFlushRows - 1 /\ Len(batch[f]) \in Nat /\ Len(batch[f]) <= FlushBatchSize
      /\ MaxFlushRows \in Nat /\ FlushBatchSize \in Nat
  BY <1>1, BufferAssumption, LenProperties DEF BufferAssumption, MemoryInv, TypeOK
<1>4. total[f] + Len(batch[f]) \in NotFlushing .. MaxFlushRows + FlushBatchSize
  BY <1>3 DEF NotFlushing
<1>5. /\ total' \in [Flushers -> NotFlushing .. MaxFlushRows + FlushBatchSize]
      /\ \A g \in Flushers : g # f => total'[g] = total[g] /\ batch'[g] = batch[g]
      /\ batch'[f] = <<>>
  BY <1>1, <1>4 DEF MemoryInv, TypeOK
<1>6. batch' \in [Flushers -> Seq(Entries)] /\ \A g \in Flushers : Len(batch'[g]) <= FlushBatchSize
  BY <1>1, <1>3, <1>5, NoEntries DEF MemoryInv, TypeOK
<1>7. TypeOK'
  BY <1>1, <1>2, <1>5, <1>6 DEF MemoryInv, TypeOK
<1>8. \A g \in Flushers : Ids(batch'[g]) \subseteq mine'
  BY <1>1, <1>5, NoEntries DEF MemoryInv
<1> QED
  BY <1>1, <1>5, <1>7, <1>8 DEF MemoryInv, BytesCoverBuffer

LEMMA RequeueKeepsMemory ==
  ASSUME MemoryInv, NEW f \in Flushers, InsertFails(f) \/ CommitUnacknowledged(f)
  PROVE  MemoryInv'
<1>1. PICK doubt \in BOOLEAN : Requeue(f, doubt)
  BY DEF InsertFails, CommitUnacknowledged
<1>2. stored' \subseteq [id : 1 .. Requests, whole : BOOLEAN] /\ again' \subseteq 1 .. asked
  <2>1. CASE InsertFails(f)
    BY <2>1 DEF InsertFails, MemoryInv, TypeOK
  <2>2. CASE CommitUnacknowledged(f)
    BY <2>2, StoreStep DEF CommitUnacknowledged
  <2> QED
    BY <2>1, <2>2
<1>3. /\ batch' = [batch EXCEPT ![f] = <<>>]
      /\ total' = [total EXCEPT ![f] = NotFlushing]
      /\ failed' = TRUE
      /\ UNCHANGED <<dropped, asked, mine>>
  BY <1>1 DEF Requeue
<1>4. /\ Len(buffer') <= Len(batch[f]) + Len(buffer)
      /\ \A i \in 1 .. Len(buffer') : buffer'[i] = Back(f, doubt)[i]
      /\ buffer' \in Seq(Entries) /\ Len(buffer') <= MaxBufferRows
      /\ bytes' \in Nat /\ bytes' >= Held(buffer')
  BY <1>1, RequeueStep DEF MemoryInv
<1>5. /\ batch' \in [Flushers -> Seq(Entries)]
      /\ \A g \in Flushers : g # f => total'[g] = total[g] /\ batch'[g] = batch[g]
      /\ batch'[f] = <<>>
  BY <1>3, NoEntries DEF MemoryInv, TypeOK
<1>6. \A g \in Flushers : Len(batch'[g]) <= FlushBatchSize
  <2>1. 0 <= FlushBatchSize
    BY BufferAssumption DEF BufferAssumption
  <2>2. Len(batch'[f]) = 0
    BY <1>5, NoEntries
  <2> QED
    BY <1>5, <2>1, <2>2 DEF MemoryInv, TypeOK
<1>7. total' \in [Flushers -> NotFlushing .. MaxFlushRows + FlushBatchSize]
  <2>1. NotFlushing \in NotFlushing .. MaxFlushRows + FlushBatchSize
    BY BufferAssumption DEF BufferAssumption, NotFlushing
  <2> QED
    BY <1>3, <2>1 DEF MemoryInv, TypeOK
<1>8. TypeOK'
  BY <1>2, <1>3, <1>4, <1>5, <1>6, <1>7 DEF MemoryInv, TypeOK
<1>9. Ids(buffer') \subseteq mine'
  <2>1. /\ Len(buffer) \in Nat /\ DOMAIN buffer = 1 .. Len(buffer)
        /\ Len(batch[f]) \in Nat /\ DOMAIN batch[f] = 1 .. Len(batch[f])
        /\ Len(buffer') \in Nat /\ DOMAIN buffer' = 1 .. Len(buffer')
        /\ batch[f] \in Seq(Entries)
    BY <1>4, LenProperties DEF MemoryInv, TypeOK
  <2> SUFFICES ASSUME NEW i \in 1 .. Len(buffer') PROVE buffer'[i].id \in mine
    BY <1>3, <2>1 DEF Ids
  <2>2. /\ \A j \in 1 .. Len(batch[f]) : Back(f, doubt)[j] = Stripped(batch[f], doubt)[j]
        /\ \A j \in 1 .. Len(buffer) : Back(f, doubt)[Len(batch[f]) + j] = buffer[j]
    BY BackIsBoth DEF MemoryInv
  <2>3. CASE i <= Len(batch[f])
    <3>1. i \in 1 .. Len(batch[f])
      BY <2>1, <2>3
    <3>2. buffer'[i].id = batch[f][i].id
      BY <1>4, <2>1, <2>2, <3>1, StrippedKeeps
    <3> QED
      BY <2>1, <3>1, <3>2 DEF MemoryInv, Ids
  <2>4. CASE ~(i <= Len(batch[f]))
    <3>1. i - Len(batch[f]) \in 1 .. Len(buffer) /\ i = Len(batch[f]) + (i - Len(batch[f]))
      BY <1>4, <2>1, <2>4
    <3>2. buffer'[i] = buffer[i - Len(batch[f])]
      BY <1>4, <2>2, <3>1
    <3> QED
      BY <2>1, <3>1, <3>2 DEF MemoryInv, Ids
  <2> QED
    BY <2>3, <2>4
<1>10. \A g \in Flushers : Ids(batch'[g]) \subseteq mine'
  BY <1>3, <1>5, NoEntries DEF MemoryInv
<1> QED
  BY <1>4, <1>5, <1>8, <1>9, <1>10 DEF MemoryInv, BytesCoverBuffer

LEMMA MemoryPreserved == MemoryInv /\ [Next]_vars => MemoryInv'
<1> SUFFICES ASSUME MemoryInv, [Next]_vars PROVE MemoryInv'
  OBVIOUS
<1>1. ASSUME NEW f \in Flushers, StartFlush(f) \/ EndFlush(f) PROVE MemoryInv'
  <2>1. /\ UNCHANGED <<buffer, bytes, dropped, batch, stored, asked, mine, failed, again>>
        /\ batch[f] = <<>> \/ total[f] = NotFlushing
        /\ total' = [total EXCEPT ![f] = 0] \/ total' = [total EXCEPT ![f] = NotFlushing]
    BY <1>1 DEF StartFlush, EndFlush
  <2>2. batch[f] = <<>>
    <3>1. NotFlushing \notin 0 .. MaxFlushRows - 1
      BY DEF NotFlushing
    <3> QED
      BY <2>1, <3>1 DEF MemoryInv
  <2>3. {0, NotFlushing} \subseteq NotFlushing .. MaxFlushRows + FlushBatchSize
    BY BufferAssumption DEF BufferAssumption, NotFlushing
  <2>4. /\ total' \in [Flushers -> NotFlushing .. MaxFlushRows + FlushBatchSize]
        /\ \A g \in Flushers : g # f => total'[g] = total[g]
    BY <2>1, <2>3 DEF MemoryInv, TypeOK
  <2>5. TypeOK'
    BY <2>1, <2>4 DEF MemoryInv, TypeOK
  <2> QED
    BY <2>1, <2>2, <2>4, <2>5 DEF MemoryInv, BytesCoverBuffer
<1>2. CASE Crash
  <2>1. /\ buffer' = <<>> /\ bytes' = 0 /\ dropped' = 0
        /\ batch' = [f \in Flushers |-> <<>>]
        /\ total' = [f \in Flushers |-> NotFlushing]
        /\ mine' = {} /\ failed' = FALSE
        /\ UNCHANGED <<stored, asked, again>>
    BY <1>2 DEF Crash
  <2>2. /\ NotFlushing \in NotFlushing .. MaxFlushRows + FlushBatchSize
        /\ 0 <= MaxBufferRows /\ 0 <= FlushBatchSize
    BY BufferAssumption DEF BufferAssumption, NotFlushing
  <2>3. TypeOK'
    BY <2>1, <2>2, NoEntries DEF MemoryInv, TypeOK
  <2> QED
    BY <2>1, <2>3, NoEntries DEF MemoryInv, BytesCoverBuffer
<1>3. CASE UNCHANGED vars
  BY <1>3 DEF vars, MemoryInv, TypeOK, BytesCoverBuffer
<1> QED
  BY <1>1, <1>2, <1>3, BufferKeepsMemory, PopKeepsMemory, InsertKeepsMemory, RequeueKeepsMemory
     DEF Next, Flush, Continue

LEMMA MemoryInitially == Init => MemoryInv
<1> SUFFICES ASSUME Init PROVE MemoryInv
  OBVIOUS
<1>1. /\ NotFlushing \in NotFlushing .. MaxFlushRows + FlushBatchSize
      /\ 0 <= MaxBufferRows /\ 0 <= FlushBatchSize /\ 0 \in 0 .. Requests
  BY BufferAssumption DEF BufferAssumption, NotFlushing
<1>2. TypeOK
  BY <1>1, NoEntries DEF Init, TypeOK
<1> QED
  BY <1>2, NoEntries DEF Init, MemoryInv, BytesCoverBuffer

(* The buffer never has more rows than its bound, a batch no more than its    *)
(* size, and the counters stay numbers, whatever fails and is put back.       *)
THEOREM TypeCorrect == Spec => []TypeOK
<1>1. MemoryInv => TypeOK
  BY DEF MemoryInv
<1> QED
  BY <1>1, MemoryInitially, MemoryPreserved, PTL DEF Spec

(* The byte count that evicts never falls below what the buffer holds,        *)
(* through evictions, flushes, failed inserts and crashes: it errs on the     *)
(* side that keeps memory down.                                               *)
THEOREM BytesCover == Spec => []BytesCoverBuffer
<1>1. MemoryInv => BytesCoverBuffer
  BY DEF MemoryInv
<1> QED
  BY <1>1, MemoryInitially, MemoryPreserved, PTL DEF Spec

(* A request that is buffered leaves the buffer within the byte budget, or    *)
(* alone in it, also when batches were put back over the budget before.       *)
THEOREM Budget == Spec => BudgetEnforced
<1>1. MemoryInv /\ [Next]_vars =>
        [asked' # asked => Held(buffer') <= MaxBufferBytes \/ Len(buffer') = 1]_vars
  <2> SUFFICES ASSUME MemoryInv, Next, asked' # asked
               PROVE  Held(buffer') <= MaxBufferBytes \/ Len(buffer') = 1
    OBVIOUS
  <2>1. PICK size \in Sizes : Buffer(size)
    BY DEF Next, Flush, Continue, StartFlush, PopBatch, EndFlush, InsertBatch, InsertFails,
           CommitUnacknowledged, Requeue, Crash
  <2>2. /\ buffer' \in Seq(Entries) /\ bytes' \in Nat /\ bytes' >= Held(buffer')
        /\ Len(buffer') = 1 \/ bytes' <= MaxBufferBytes
    BY <2>1, BufferStep DEF MemoryInv
  <2>3. Held(buffer') \in Nat /\ MaxBufferBytes \in Nat
    BY <2>2, UnitsFinite, BufferAssumption DEF BufferAssumption
  <2> QED
    BY <2>2, <2>3
<1> QED
  BY <1>1, MemoryInitially, MemoryPreserved, PTL DEF Spec, BudgetEnforced

-----------------------------------------------------------------------------
(* Nothing twice.                                                            *)

Distinct(s) == \A i, j \in DOMAIN s : s[i].id = s[j].id => i = j

(* What is known of an entry in memory: it is not stored, unless a commit    *)
(* went unacknowledged, and then a batch of this process was put back.       *)
Known(e) == (e.id \in StoredIds => e.doubtful) /\ (e.doubtful => failed)

(* StoredOnce is not inductive: an insert is safe because every request is   *)
(* in memory at most once, in the buffer or in one batch.                    *)
OnceInv ==
  /\ Distinct(buffer) /\ \A f \in Flushers : Distinct(batch[f])
  /\ \A f \in Flushers : Ids(batch[f]) \cap Ids(buffer) = {}
  /\ \A f, g \in Flushers : f # g => Ids(batch[f]) \cap Ids(batch[g]) = {}
  /\ StoredIds \subseteq 1 .. asked
  /\ \A i \in DOMAIN buffer : Known(buffer[i])
  /\ \A f \in Flushers : \A i \in DOMAIN batch[f] : Known(batch[f][i])
  /\ StoredOnce

(* A stretch of a sequence has no id twice, and none of its own. *)
LEMMA StretchIsDistinct ==
  ASSUME NEW s, NEW t, NEW k \in Nat, Distinct(s), DOMAIN t \subseteq Nat,
         \A i \in DOMAIN t : k + i \in DOMAIN s /\ t[i] = s[k + i]
  PROVE  Distinct(t) /\ Ids(t) \subseteq Ids(s)
<1>1. ASSUME NEW i \in DOMAIN t, NEW j \in DOMAIN t, t[i].id = t[j].id PROVE i = j
  <2>1. s[k + i].id = s[k + j].id /\ k + i \in DOMAIN s /\ k + j \in DOMAIN s
    BY <1>1
  <2>2. k + i = k + j
    BY <2>1 DEF Distinct
  <2> QED
    BY <2>2
<1> QED
  BY <1>1 DEF Distinct, Ids

LEMMA BufferKeepsOnce ==
  ASSUME MemoryInv, OnceInv, MemoryInv', NEW size \in Sizes, Buffer(size)
  PROVE  OnceInv'
<1>1. PICK k \in 0 .. Len(buffer) :
        /\ Len(buffer') = Len(buffer) - k + 1
        /\ \A i \in 1 .. Len(buffer) - k : buffer'[i] = buffer[k + i]
        /\ buffer'[Len(buffer) - k + 1] = NewEntry(size)
  BY BufferStep DEF MemoryInv
<1>2. /\ UNCHANGED <<batch, total, stored, failed, again>>
      /\ asked' = asked + 1
  BY DEF Buffer
<1>3. /\ Len(buffer) \in Nat /\ DOMAIN buffer = 1 .. Len(buffer)
      /\ Len(buffer') \in Nat /\ DOMAIN buffer' = 1 .. Len(buffer')
      /\ asked \in Nat /\ mine \subseteq 1 .. asked
  BY LenProperties DEF MemoryInv, TypeOK
<1>4. /\ asked + 1 \notin Ids(buffer) /\ asked + 1 \notin StoredIds
      /\ \A f \in Flushers : asked + 1 \notin Ids(batch[f])
  BY <1>3 DEF MemoryInv, OnceInv
<1>5. ASSUME NEW i \in DOMAIN buffer'
      PROVE  \/ i = Len(buffer') /\ buffer'[i] = NewEntry(size)
             \/ i # Len(buffer') /\ k + i \in DOMAIN buffer /\ buffer'[i] = buffer[k + i]
  <2>1. CASE i = Len(buffer')
    BY <1>1, <2>1
  <2>2. CASE i # Len(buffer')
    <3>1. i \in 1 .. Len(buffer) - k /\ k + i \in 1 .. Len(buffer)
      BY <1>1, <1>3, <2>2
    <3> QED
      BY <1>1, <1>3, <2>2, <3>1
  <2> QED
    BY <2>1, <2>2
<1>6. NewEntry(size).id = asked + 1 /\ NewEntry(size).doubtful = FALSE
  BY DEF NewEntry
<1>7. \A i \in DOMAIN buffer' : i # Len(buffer') => buffer'[i].id # asked + 1
  BY <1>4, <1>5 DEF Ids
<1>8. Distinct(buffer')
  <2> SUFFICES ASSUME NEW i \in DOMAIN buffer', NEW j \in DOMAIN buffer',
                      buffer'[i].id = buffer'[j].id
               PROVE  i = j
    BY DEF Distinct
  <2>1. CASE i = Len(buffer') \/ j = Len(buffer')
    BY <1>5, <1>6, <1>7, <2>1
  <2>2. CASE i # Len(buffer') /\ j # Len(buffer')
    <3>1. /\ k + i \in DOMAIN buffer /\ k + j \in DOMAIN buffer
          /\ buffer[k + i].id = buffer[k + j].id
      BY <1>5, <2>2
    <3>2. k + i = k + j
      BY <3>1 DEF OnceInv, Distinct
    <3> QED
      BY <1>3, <3>2
  <2> QED
    BY <2>1, <2>2
<1>9. Ids(buffer') \subseteq Ids(buffer) \cup {asked + 1}
  BY <1>5, <1>6 DEF Ids
<1>10. StoredIds' = StoredIds /\ StoredIds \subseteq 1 .. asked'
  BY <1>2, <1>3 DEF StoredIds, OnceInv
<1>11. \A i \in DOMAIN buffer' : Known(buffer[i])'
  <2> TAKE i \in DOMAIN buffer'
  <2>1. CASE buffer'[i] = NewEntry(size)
    BY <1>4, <1>6, <1>10, <2>1 DEF Known
  <2>2. CASE k + i \in DOMAIN buffer /\ buffer'[i] = buffer[k + i]
    BY <1>2, <1>10, <2>2 DEF Known, OnceInv
  <2> QED
    BY <1>5, <2>1, <2>2
<1>12. \A f \in Flushers : Ids(batch'[f]) \cap Ids(buffer') = {}
  BY <1>2, <1>4, <1>9 DEF OnceInv
<1> QED
  BY <1>2, <1>8, <1>10, <1>11, <1>12 DEF OnceInv, Known, StoredOnce

LEMMA PopKeepsOnce ==
  ASSUME MemoryInv, OnceInv, MemoryInv', NEW f \in Flushers, PopBatch(f)
  PROVE  OnceInv' /\ Ids(buffer) = Ids(buffer') \cup Ids(batch'[f])
<1>1. PICK n \in 1 .. Len(buffer) :
           /\ Len(First(buffer, n)) = n /\ First(buffer, n) \in Seq(Entries)
           /\ batch' = [batch EXCEPT ![f] = First(buffer, n)]
           /\ \A i \in 1 .. n : First(buffer, n)[i] = buffer[i]
           /\ Len(buffer') = Len(buffer) - n
           /\ \A i \in 1 .. Len(buffer) - n : buffer'[i] = buffer[n + i]
  BY PopStep DEF MemoryInv
<1>2. UNCHANGED <<dropped, total, stored, asked, mine, failed, again>>
  BY DEF PopBatch
<1>3. /\ Len(buffer) \in Nat /\ DOMAIN buffer = 1 .. Len(buffer)
      /\ Len(buffer') \in Nat /\ DOMAIN buffer' = 1 .. Len(buffer')
      /\ DOMAIN First(buffer, n) = 1 .. n
  BY <1>1, LenProperties DEF MemoryInv, TypeOK
<1>4. /\ batch'[f] = First(buffer, n)
      /\ \A g \in Flushers : g # f => batch'[g] = batch[g]
  BY <1>1 DEF MemoryInv, TypeOK
<1>5. \A i \in 1 .. n : i \in DOMAIN buffer /\ batch'[f][i] = buffer[i]
  BY <1>1, <1>3, <1>4
<1>6. \A i \in DOMAIN buffer' : n + i \in DOMAIN buffer /\ buffer'[i] = buffer[n + i]
  BY <1>1, <1>3
<1>7. Distinct(batch'[f]) /\ Ids(batch'[f]) \subseteq Ids(buffer)
  <2>1. \A i \in DOMAIN batch'[f] : 0 + i \in DOMAIN buffer /\ batch'[f][i] = buffer[0 + i]
    BY <1>3, <1>4, <1>5
  <2>2. DOMAIN batch'[f] \subseteq Nat
    BY <1>3, <1>4
  <2> QED
    BY <2>1, <2>2, StretchIsDistinct DEF OnceInv
<1>8. Distinct(buffer') /\ Ids(buffer') \subseteq Ids(buffer)
  <2>1. n \in Nat /\ DOMAIN buffer' \subseteq Nat /\ Distinct(buffer)
    BY <1>3 DEF OnceInv
  <2> QED
    BY <1>6, <2>1, StretchIsDistinct
<1>9. Ids(batch'[f]) \cap Ids(buffer') = {}
  <2> SUFFICES ASSUME NEW i \in 1 .. n, NEW j \in DOMAIN buffer', batch'[f][i].id = buffer'[j].id
               PROVE  FALSE
    BY <1>3, <1>4 DEF Ids
  <2>1. i = n + j
    BY <1>5, <1>6 DEF OnceInv, Distinct
  <2> QED
    BY <1>3, <2>1
<1>10. Ids(buffer) \subseteq Ids(buffer') \cup Ids(batch'[f])
  <2> SUFFICES ASSUME NEW i \in 1 .. Len(buffer)
               PROVE  buffer[i].id \in Ids(buffer') \cup Ids(batch'[f])
    BY <1>3 DEF Ids
  <2>1. CASE i <= n
    <3>1. i \in DOMAIN batch'[f] /\ batch'[f][i] = buffer[i]
      BY <1>3, <1>4, <1>5, <2>1
    <3> QED
      BY <3>1 DEF Ids
  <2>2. CASE ~(i <= n)
    <3>1. i - n \in DOMAIN buffer' /\ n + (i - n) = i
      BY <1>1, <1>3, <2>2
    <3> QED
      BY <1>6, <3>1 DEF Ids
  <2> QED
    BY <2>1, <2>2
<1>11. StoredIds' = StoredIds
  BY <1>2 DEF StoredIds
<1>12. \A i \in DOMAIN buffer' : Known(buffer[i])'
  BY <1>2, <1>6, <1>11 DEF Known, OnceInv
<1>13. ASSUME NEW g \in Flushers PROVE \A i \in DOMAIN batch'[g] : Known(batch[g][i])'
  <2>1. CASE g = f
    BY <1>2, <1>3, <1>4, <1>5, <1>11, <2>1 DEF Known, OnceInv
  <2>2. CASE g # f
    BY <1>2, <1>4, <1>11, <2>2 DEF Known, OnceInv
  <2> QED
    BY <2>1, <2>2
<1>14. \A g \in Flushers : Distinct(batch'[g]) /\ Ids(batch'[g]) \cap Ids(buffer') = {}
  BY <1>4, <1>7, <1>8, <1>9 DEF OnceInv
<1>15. \A g, h \in Flushers : g # h => Ids(batch'[g]) \cap Ids(batch'[h]) = {}
  BY <1>4, <1>7 DEF OnceInv
<1>16. OnceInv'
  BY <1>2, <1>8, <1>11, <1>12, <1>13, <1>14, <1>15 DEF OnceInv, StoredOnce
<1> QED
  BY <1>7, <1>8, <1>10, <1>16

(* What is stored was not: only the doubtful ones may have been. *)
LEMMA StoreKeepsOnce ==
  ASSUME MemoryInv, OnceInv, NEW f \in Flushers, Store(batch[f])
  PROVE  /\ StoredIds' = StoredIds \cup Ids(batch[f])
         /\ StoredIds' \subseteq 1 .. asked
         /\ StoredOnce'
<1>1. StoredIds' = StoredIds \cup Ids(batch[f])
  BY StoreStep
<1>2. Ids(batch[f]) \subseteq 1 .. asked
  BY DEF MemoryInv, TypeOK
<1>3. ASSUME NEW i \in DOMAIN batch[f], ~batch[f][i].doubtful PROVE batch[f][i].id \notin StoredIds
  BY <1>3 DEF OnceInv, Known
<1>4. {batch[f][i].id : i \in {k \in DOMAIN batch[f] : ~batch[f][k].doubtful}} \cap StoredIds = {}
  BY <1>3
<1>5. again' = again
  BY <1>4 DEF Store
<1> QED
  BY <1>1, <1>2, <1>5 DEF OnceInv, StoredOnce

LEMMA InsertKeepsOnce ==
  ASSUME MemoryInv, OnceInv, MemoryInv', NEW f \in Flushers, InsertBatch(f)
  PROVE  OnceInv'
<1>1. /\ Store(batch[f])
      /\ batch' = [batch EXCEPT ![f] = <<>>]
      /\ UNCHANGED <<buffer, bytes, dropped, asked, mine, failed>>
  BY DEF InsertBatch
<1>2. /\ batch'[f] = <<>>
      /\ \A g \in Flushers : g # f => batch'[g] = batch[g]
  BY <1>1 DEF MemoryInv, TypeOK
<1>3. StoredIds' = StoredIds \cup Ids(batch[f]) /\ StoredIds' \subseteq 1 .. asked /\ StoredOnce'
  BY <1>1, StoreKeepsOnce
<1>4. DOMAIN <<>> = {} /\ Distinct(<<>>)
  BY DEF Distinct
<1>5. ASSUME NEW i \in DOMAIN buffer PROVE Known(buffer[i])'
  <2>1. buffer[i].id \in Ids(buffer) /\ buffer[i].id \notin Ids(batch[f])
    BY DEF OnceInv, Ids
  <2> QED
    BY <1>1, <1>3, <2>1 DEF Known, OnceInv
<1>6. ASSUME NEW g \in Flushers, NEW i \in DOMAIN batch'[g] PROVE Known(batch[g][i])'
  <2>1. g # f
    BY <1>2, <1>4
  <2>2. batch[g][i].id \in Ids(batch[g]) /\ batch'[g] = batch[g]
    BY <1>2, <2>1 DEF Ids
  <2>3. batch[g][i].id \notin Ids(batch[f])
    BY <2>1, <2>2 DEF OnceInv
  <2> QED
    BY <1>1, <1>3, <2>2, <2>3 DEF Known, OnceInv
<1>7. \A g \in Flushers : Distinct(batch'[g]) /\ Ids(batch'[g]) \subseteq Ids(batch[g])
  BY <1>2, <1>4, NoEntries DEF OnceInv
<1>8. /\ \A g \in Flushers : Ids(batch'[g]) \cap Ids(buffer') = {}
      /\ \A g, h \in Flushers : g # h => Ids(batch'[g]) \cap Ids(batch'[h]) = {}
  BY <1>1, <1>7 DEF OnceInv
<1> QED
  BY <1>1, <1>3, <1>5, <1>6, <1>7, <1>8 DEF OnceInv

LEMMA RequeueKeepsOnce ==
  ASSUME MemoryInv, OnceInv, MemoryInv', NEW f \in Flushers,
         InsertFails(f) \/ CommitUnacknowledged(f)
  PROVE  OnceInv'
<1>1. PICK doubt \in BOOLEAN :
        /\ Requeue(f, doubt)
        /\ \/ ~doubt /\ UNCHANGED <<stored, again>>
           \/ doubt /\ Store(batch[f])
  BY DEF InsertFails, CommitUnacknowledged
<1>2. /\ batch' = [batch EXCEPT ![f] = <<>>] /\ failed' = TRUE /\ UNCHANGED <<asked, mine>>
  BY <1>1 DEF Requeue
<1>3. /\ batch'[f] = <<>>
      /\ \A g \in Flushers : g # f => batch'[g] = batch[g]
  BY <1>2 DEF MemoryInv, TypeOK
<1>4. /\ Len(buffer') <= Len(batch[f]) + Len(buffer)
      /\ \A i \in 1 .. Len(buffer') : buffer'[i] = Back(f, doubt)[i]
      /\ buffer' \in Seq(Entries)
  BY <1>1, RequeueStep DEF MemoryInv
<1> DEFINE m == Len(batch[f])
<1>5. /\ Len(buffer) \in Nat /\ DOMAIN buffer = 1 .. Len(buffer)
      /\ m \in Nat /\ DOMAIN batch[f] = 1 .. m
      /\ Len(buffer') \in Nat /\ DOMAIN buffer' = 1 .. Len(buffer')
      /\ batch[f] \in Seq(Entries)
  BY <1>4, LenProperties DEF MemoryInv, TypeOK
<1>6. /\ \A j \in 1 .. m : Back(f, doubt)[j] = Stripped(batch[f], doubt)[j]
      /\ \A j \in 1 .. Len(buffer) : Back(f, doubt)[m + j] = buffer[j]
  BY BackIsBoth DEF MemoryInv
<1>7. \A j \in 1 .. m : /\ Stripped(batch[f], doubt)[j].id = batch[f][j].id
                        /\ batch[f][j].doubtful => Stripped(batch[f], doubt)[j].doubtful
                        /\ doubt => Stripped(batch[f], doubt)[j].doubtful
  BY <1>5, StrippedKeeps
<1>8. ASSUME NEW i \in DOMAIN buffer'
      PROVE  \/ /\ i <= m /\ i \in DOMAIN batch[f]
                /\ buffer'[i].id = batch[f][i].id
                /\ batch[f][i].doubtful \/ doubt => buffer'[i].doubtful
             \/ /\ ~(i <= m) /\ i - m \in DOMAIN buffer
                /\ buffer'[i] = buffer[i - m]
  <2>1. CASE i <= m
    <3>1. i \in 1 .. m /\ i \in 1 .. Len(buffer')
      BY <1>5, <2>1
    <3>2. buffer'[i] = Stripped(batch[f], doubt)[i]
      BY <1>4, <1>6, <3>1
    <3> QED
      BY <1>5, <1>7, <2>1, <3>1, <3>2
  <2>2. CASE ~(i <= m)
    <3>1. i - m \in 1 .. Len(buffer) /\ i = m + (i - m)
      BY <1>4, <1>5, <2>2
    <3>2. buffer'[i] = buffer[i - m]
      BY <1>4, <1>5, <1>6, <3>1
    <3> QED
      BY <1>5, <2>2, <3>1, <3>2
  <2> QED
    BY <2>1, <2>2
<1> HIDE DEF m
<1>9. Distinct(buffer')
  <2> SUFFICES ASSUME NEW i \in DOMAIN buffer', NEW j \in DOMAIN buffer',
                      buffer'[i].id = buffer'[j].id
               PROVE  i = j
    BY DEF Distinct
  <2>1. CASE i <= m /\ j <= m
    <3>1. i \in DOMAIN batch[f] /\ j \in DOMAIN batch[f] /\ batch[f][i].id = batch[f][j].id
      BY <1>8, <2>1
    <3> QED
      BY <3>1 DEF OnceInv, Distinct
  <2>2. CASE ~(i <= m) /\ ~(j <= m)
    <3>1. i - m \in DOMAIN buffer /\ j - m \in DOMAIN buffer /\ buffer[i - m].id = buffer[j - m].id
      BY <1>8, <2>2
    <3>2. i - m = j - m
      BY <3>1 DEF OnceInv, Distinct
    <3> QED
      BY <1>5, <3>2
  <2>3. ASSUME NEW a \in DOMAIN buffer', NEW b \in DOMAIN buffer', a <= m, ~(b <= m)
        PROVE  buffer'[a].id # buffer'[b].id
    <3>1. buffer'[a].id \in Ids(batch[f]) /\ buffer'[b].id \in Ids(buffer)
      BY <1>8, <2>3 DEF Ids
    <3> QED
      BY <3>1 DEF OnceInv
  <2> QED
    BY <2>1, <2>2, <2>3
<1>10. Ids(buffer') \subseteq Ids(buffer) \cup Ids(batch[f])
  BY <1>8 DEF Ids
<1>11. /\ StoredIds' = IF doubt THEN StoredIds \cup Ids(batch[f]) ELSE StoredIds
       /\ StoredIds' \subseteq 1 .. asked /\ StoredOnce'
  <2>1. CASE ~doubt
    BY <1>1, <2>1 DEF StoredIds, StoredOnce, OnceInv
  <2>2. CASE doubt
    BY <1>1, <2>2, StoreKeepsOnce
  <2> QED
    BY <2>1, <2>2
<1>12. ASSUME NEW i \in DOMAIN buffer' PROVE Known(buffer[i])'
  <2>1. CASE /\ i \in DOMAIN batch[f]
             /\ buffer'[i].id = batch[f][i].id
             /\ batch[f][i].doubtful \/ doubt => buffer'[i].doubtful
    <3>1. Known(batch[f][i])
      BY <2>1 DEF OnceInv
    <3> QED
      BY <1>2, <1>11, <2>1, <3>1 DEF Known
  <2>2. CASE /\ i - m \in DOMAIN buffer
             /\ buffer'[i] = buffer[i - m]
    <3>1. Known(buffer[i - m]) /\ buffer[i - m].id \notin Ids(batch[f])
      BY <2>2 DEF OnceInv, Ids
    <3> QED
      BY <1>2, <1>11, <2>2, <3>1 DEF Known
  <2> QED
    BY <1>8, <2>1, <2>2
<1>13. DOMAIN <<>> = {} /\ Distinct(<<>>)
  BY DEF Distinct
<1>14. ASSUME NEW g \in Flushers, NEW i \in DOMAIN batch'[g] PROVE Known(batch[g][i])'
  <2>1. g # f
    BY <1>3, <1>13
  <2>2. batch[g][i].id \in Ids(batch[g]) /\ batch'[g] = batch[g]
    BY <1>3, <2>1 DEF Ids
  <2>3. batch[g][i].id \notin Ids(batch[f]) /\ Known(batch[g][i])
    BY <2>1, <2>2 DEF OnceInv
  <2> QED
    BY <1>2, <1>11, <2>2, <2>3 DEF Known
<1>15. \A g \in Flushers : Distinct(batch'[g])
  BY <1>3, <1>13 DEF OnceInv
<1>16. \A g \in Flushers : Ids(batch'[g]) \cap Ids(buffer') = {}
  BY <1>3, <1>10, NoEntries DEF OnceInv
<1>17. \A g, h \in Flushers : g # h => Ids(batch'[g]) \cap Ids(batch'[h]) = {}
  BY <1>3, NoEntries DEF OnceInv
<1> QED
  BY <1>2, <1>9, <1>11, <1>12, <1>14, <1>15, <1>16, <1>17 DEF OnceInv

LEMMA OncePreserved == MemoryInv /\ MemoryInv' /\ OnceInv /\ [Next]_vars => OnceInv'
<1> SUFFICES ASSUME MemoryInv, MemoryInv', OnceInv, [Next]_vars PROVE OnceInv'
  OBVIOUS
<1>1. ASSUME UNCHANGED <<buffer, batch, stored, asked, failed, again>> PROVE OnceInv'
  BY <1>1 DEF OnceInv, Known, StoredIds, StoredOnce
<1>2. ASSUME NEW f \in Flushers, StartFlush(f) \/ EndFlush(f) PROVE OnceInv'
  BY <1>1, <1>2 DEF StartFlush, EndFlush
<1>3. CASE Crash
  <2>1. /\ buffer' = <<>> /\ \A f \in Flushers : batch'[f] = <<>>
        /\ UNCHANGED <<stored, asked, again>>
    BY <1>3 DEF Crash
  <2>2. DOMAIN <<>> = {} /\ Distinct(<<>>)
    BY DEF Distinct
  <2>3. StoredIds' = StoredIds
    BY <2>1 DEF StoredIds
  <2> QED
    BY <2>1, <2>2, <2>3, NoEntries DEF OnceInv, StoredOnce
<1>4. CASE UNCHANGED vars
  BY <1>1, <1>4 DEF vars
<1> QED
  BY <1>2, <1>3, <1>4, BufferKeepsOnce, PopKeepsOnce, InsertKeepsOnce, RequeueKeepsOnce
     DEF Next, Flush, Continue

LEMMA OnceInitially == Init => OnceInv
<1> SUFFICES ASSUME Init PROVE OnceInv
  OBVIOUS
<1>1. DOMAIN <<>> = {} /\ Distinct(<<>>)
  BY DEF Distinct
<1>2. StoredIds = {}
  BY DEF Init, StoredIds
<1> QED
  BY <1>1, <1>2, NoEntries DEF Init, OnceInv, StoredOnce

(* No overlap of flushes, failures, evictions and crashes inserts a request   *)
(* twice, for any batches and any number of flushers, unless a commit with it *)
(* was not acknowledged.                                                      *)
THEOREM InsertedOnce == Spec => []StoredOnce
<1>1. OnceInv => StoredOnce
  BY DEF OnceInv
<1> QED
  BY <1>1, MemoryInitially, MemoryPreserved, OnceInitially, OncePreserved, PTL DEF Spec

-----------------------------------------------------------------------------
(* Losses.                                                                   *)

(* A request that is buffered misses as many as it counts: those it evicts,  *)
(* each a request of its own, nowhere else in memory and not stored.         *)
LEMMA BufferCountsLosses ==
  ASSUME MemoryInv, OnceInv, MemoryInv', LossesCountedUntilFailure, NEW size \in Sizes, Buffer(size)
  PROVE  LossesCountedUntilFailure'
<1> SUFFICES ASSUME ~failed' PROVE Cardinality(Missing') = dropped'
  BY DEF LossesCountedUntilFailure
<1>1. PICK k \in 0 .. Len(buffer) :
        /\ dropped' = dropped + k
        /\ Len(buffer') = Len(buffer) - k + 1
        /\ \A i \in 1 .. Len(buffer) - k : buffer'[i] = buffer[k + i]
        /\ buffer'[Len(buffer) - k + 1] = NewEntry(size)
  BY BufferStep DEF MemoryInv
<1>2. /\ UNCHANGED <<batch, total, stored, failed, again>>
      /\ mine' = mine \cup {asked + 1}
  BY DEF Buffer
<1>3. /\ Len(buffer) \in Nat /\ DOMAIN buffer = 1 .. Len(buffer)
      /\ Len(buffer') \in Nat /\ DOMAIN buffer' = 1 .. Len(buffer')
      /\ asked \in Nat /\ mine \subseteq 1 .. asked /\ k \in Nat
  BY LenProperties DEF MemoryInv, TypeOK
<1> DEFINE evicted == {buffer[i].id : i \in 1 .. k}
           kept == {buffer[i].id : i \in k + 1 .. Len(buffer)}
<1>4. Ids(buffer) = evicted \cup kept
  <2>1. 1 .. Len(buffer) = (1 .. k) \cup (k + 1 .. Len(buffer))
    BY <1>3
  <2> QED
    BY <1>3, <2>1 DEF Ids
<1>5. Ids(buffer') = kept \cup {asked + 1}
  <2>1. ASSUME NEW i \in 1 .. Len(buffer') PROVE buffer'[i].id \in kept \cup {asked + 1}
    <3>1. CASE i = Len(buffer) - k + 1
      BY <1>1, <3>1 DEF NewEntry
    <3>2. CASE i # Len(buffer) - k + 1
      <4>1. i \in 1 .. Len(buffer) - k /\ k + i \in k + 1 .. Len(buffer)
        BY <1>1, <1>3, <3>2
      <4> QED
        BY <1>1, <4>1
    <3> QED
      BY <3>1, <3>2
  <2>2. ASSUME NEW i \in k + 1 .. Len(buffer) PROVE buffer[i].id \in Ids(buffer')
    <3>1. /\ i - k \in 1 .. Len(buffer) - k /\ i - k \in DOMAIN buffer' /\ k + (i - k) = i
      BY <1>1, <1>3
    <3> QED
      BY <1>1, <3>1 DEF Ids
  <2>3. asked + 1 \in Ids(buffer')
    <3>1. Len(buffer) - k + 1 \in DOMAIN buffer'
      BY <1>1, <1>3
    <3> QED
      BY <1>1, <3>1 DEF NewEntry, Ids
  <2> QED
    BY <1>3, <2>1, <2>2, <2>3 DEF Ids
<1>6. evicted \cap kept = {}
  <2> SUFFICES ASSUME NEW i \in 1 .. k, NEW j \in k + 1 .. Len(buffer), buffer[i].id = buffer[j].id
               PROVE  FALSE
    OBVIOUS
  <2>1. i \in DOMAIN buffer /\ j \in DOMAIN buffer /\ i # j
    BY <1>3
  <2> QED
    BY <2>1 DEF OnceInv, Distinct
<1>7. evicted \cap StoredIds = {} /\ evicted \subseteq mine
  <2> SUFFICES ASSUME NEW i \in 1 .. k PROVE buffer[i].id \notin StoredIds /\ buffer[i].id \in mine
    OBVIOUS
  <2>1. i \in DOMAIN buffer
    BY <1>3
  <2>2. Known(buffer[i]) /\ ~failed
    BY <1>2, <2>1 DEF OnceInv
  <2> QED
    BY <2>1, <2>2 DEF Known, MemoryInv, Ids
<1>8. evicted \cap InFlight = {} /\ asked + 1 \notin evicted
  <2> HIDE DEF evicted, kept
  <2>1. \A f \in Flushers : Ids(batch[f]) \cap Ids(buffer) = {}
    BY DEF OnceInv
  <2>2. InFlight \cap Ids(buffer) = {}
    BY <2>1 DEF InFlight
  <2>3. asked + 1 \notin mine
    BY <1>3
  <2> QED
    BY <1>4, <1>7, <2>2, <2>3
<1>9. InFlight' = InFlight /\ StoredIds' = StoredIds
  BY <1>2 DEF InFlight, StoredIds
<1> HIDE DEF evicted, kept
<1>10. Missing' = Missing \cup evicted /\ Missing \cap evicted = {}
  <2>1. asked + 1 \notin mine
    BY <1>3
  <2>2. Missing' = (mine \cup {asked + 1}) \ (StoredIds \cup kept \cup {asked + 1} \cup InFlight)
    BY <1>2, <1>5, <1>9 DEF Missing
  <2>3. Missing = mine \ (StoredIds \cup evicted \cup kept \cup InFlight)
    BY <1>4 DEF Missing
  <2> QED
    BY <1>6, <1>7, <1>8, <2>1, <2>2, <2>3
<1>11. IsFiniteSet(Missing)
  <2>1. 1 \in Int /\ asked \in Int
    BY <1>3
  <2>2. IsFiniteSet(1 .. asked)
    BY <2>1, FS_Interval
  <2>3. Missing \in SUBSET (1 .. asked)
    BY <1>3 DEF Missing
  <2> QED
    BY <2>2, <2>3, FS_Subset
<1>12. IsFiniteSet(evicted) /\ Cardinality(evicted) = k
  <2> DEFINE g == [i \in 1 .. k |-> buffer[i].id]
  <2>1. IsFiniteSet(1 .. k) /\ Cardinality(1 .. k) = k
    <3>1. IsFiniteSet(1 .. k) /\ Cardinality(1 .. k) = IF 1 > k THEN 0 ELSE k - 1 + 1
      BY <1>3, FS_Interval
    <3> QED
      BY <1>3, <3>1
  <2>2. g \in [1 .. k -> evicted] /\ \A y \in evicted : \E i \in 1 .. k : g[i] = y
    BY DEF evicted
  <2>3. \A i, j \in 1 .. k : g[i] = g[j] => i = j
    <3>1. 1 .. k \subseteq DOMAIN buffer
      BY <1>3
    <3> QED
      BY <3>1 DEF OnceInv, Distinct
  <2> HIDE DEF g
  <2>4. g \in Bijection(1 .. k, evicted)
    BY <2>2, <2>3, Zenon DEF Bijection, Injection, Surjection, IsInjective
  <2>5. ExistsBijection(1 .. k, evicted)
    BY <2>4 DEF ExistsBijection
  <2> QED
    BY <2>1, <2>5, FS_Bijection
<1>13. Cardinality(Missing) = dropped /\ dropped \in Nat
  BY <1>2 DEF LossesCountedUntilFailure, MemoryInv, TypeOK
<1>14. Cardinality(Missing \cup evicted) = Cardinality(Missing) + Cardinality(evicted) - Cardinality({})
  BY <1>10, <1>11, <1>12, FS_Union
<1>15. Cardinality({}) = 0
  BY FS_EmptySet
<1> QED
  BY <1>1, <1>3, <1>10, <1>12, <1>13, <1>14, <1>15

(* A flush that succeeds misses nothing: what it takes is in its batch, and  *)
(* then stored.                                                              *)
LEMMA FlushCountsLosses ==
  ASSUME MemoryInv, OnceInv, MemoryInv', NEW f \in Flushers, PopBatch(f) \/ InsertBatch(f)
  PROVE  Missing' = Missing /\ dropped' = dropped /\ failed' = failed
<1>1. UNCHANGED <<dropped, failed, mine>>
  BY DEF PopBatch, InsertBatch
<1>2. InFlight = Ids(batch[f]) \cup UNION {Ids(batch[g]) : g \in Flushers \ {f}}
  BY DEF InFlight
<1>3. InFlight' = Ids(batch'[f]) \cup UNION {Ids(batch'[g]) : g \in Flushers \ {f}}
  BY DEF InFlight
<1>4. \A g \in Flushers \ {f} : batch'[g] = batch[g]
  BY DEF PopBatch, InsertBatch, MemoryInv, TypeOK
<1>5. InFlight' = Ids(batch'[f]) \cup UNION {Ids(batch[g]) : g \in Flushers \ {f}}
  BY <1>3, <1>4
<1>6. StoredIds' \cup Ids(buffer') \cup Ids(batch'[f]) = StoredIds \cup Ids(buffer) \cup Ids(batch[f])
  <2>1. CASE PopBatch(f)
    <3>1. Ids(buffer) = Ids(buffer') \cup Ids(batch'[f])
      BY <2>1, PopKeepsOnce
    <3>2. stored' = stored /\ batch[f] = <<>>
      BY <2>1 DEF PopBatch
    <3> QED
      BY <3>1, <3>2, NoEntries DEF StoredIds
  <2>2. CASE InsertBatch(f)
    <3>1. Store(batch[f]) /\ buffer' = buffer /\ batch'[f] = <<>>
      BY <2>2 DEF InsertBatch, MemoryInv, TypeOK
    <3>2. StoredIds' = StoredIds \cup Ids(batch[f])
      BY <3>1, StoreStep
    <3> QED
      BY <3>1, <3>2, NoEntries
  <2> QED
    BY <2>1, <2>2
<1>7. StoredIds' \cup Ids(buffer') \cup InFlight' = StoredIds \cup Ids(buffer) \cup InFlight
  BY <1>2, <1>5, <1>6
<1> QED
  BY <1>1, <1>7 DEF Missing

LEMMA LossesPreserved ==
  MemoryInv /\ MemoryInv' /\ OnceInv /\ LossesCountedUntilFailure /\ [Next]_vars
    => LossesCountedUntilFailure'
<1> SUFFICES ASSUME MemoryInv, MemoryInv', OnceInv, LossesCountedUntilFailure, [Next]_vars
             PROVE  LossesCountedUntilFailure'
  OBVIOUS
<1>1. ASSUME UNCHANGED <<buffer, batch, stored, mine, failed, dropped>>
      PROVE  LossesCountedUntilFailure'
  BY <1>1 DEF LossesCountedUntilFailure, Missing, StoredIds, InFlight
<1>2. ASSUME NEW f \in Flushers, StartFlush(f) \/ EndFlush(f) PROVE LossesCountedUntilFailure'
  BY <1>1, <1>2 DEF StartFlush, EndFlush
<1>3. ASSUME NEW f \in Flushers, PopBatch(f) \/ InsertBatch(f) PROVE LossesCountedUntilFailure'
  BY <1>3, FlushCountsLosses DEF LossesCountedUntilFailure
<1>4. ASSUME NEW f \in Flushers, InsertFails(f) \/ CommitUnacknowledged(f)
      PROVE  LossesCountedUntilFailure'
  BY <1>4 DEF InsertFails, CommitUnacknowledged, Requeue, LossesCountedUntilFailure
<1>5. CASE Crash
  <2>1. mine' = {} /\ dropped' = 0
    BY <1>5 DEF Crash
  <2>2. Missing' = {}
    BY <2>1 DEF Missing
  <2> QED
    BY <2>1, <2>2, FS_EmptySet DEF LossesCountedUntilFailure
<1>6. CASE UNCHANGED vars
  BY <1>1, <1>6 DEF vars
<1> QED
  BY <1>2, <1>3, <1>4, <1>5, <1>6, BufferCountsLosses DEF Next, Flush, Continue

(* As long as no batch was put back, the drop counter tells exactly how many  *)
(* requests of the process are neither stored nor in memory, for any bounds,  *)
(* sizes, and overlap of flushes.                                             *)
THEOREM LossesCounted == Spec => []LossesCountedUntilFailure
<1>1. Init => LossesCountedUntilFailure
  <2> SUFFICES ASSUME Init PROVE Cardinality(Missing) = dropped
    BY DEF LossesCountedUntilFailure
  <2>1. Missing = {} /\ dropped = 0
    BY DEF Init, Missing
  <2> QED
    BY <2>1, FS_EmptySet
<1> QED
  BY <1>1, MemoryInitially, MemoryPreserved, OnceInitially, OncePreserved, LossesPreserved,
     PTL DEF Spec

-----------------------------------------------------------------------------
(* MetricsCounters.  The constants. *)
LEMMA CountersConstants ==
  /\ MaxRequests \in Nat /\ MaxFaults \in Nat /\ Deferrable \subseteq Ips /\ Suspicious \subseteq Ips
  /\ IsFiniteSet(Ips) /\ IsFiniteSet(Paths)
  /\ PodOf \in [Workers \cup Cleaners \cup FlushThreads -> Pods]
  BY MetricsAssumption DEF MetricsAssumption

(* The requests that rows count are finitely many. *)
LEMMA CountedFinite ==
  ASSUME requests \in [Ips -> 0 .. MaxRequests], NEW S \in SUBSET Ips
  PROVE  IsFiniteSet(Counted(S))
<1>1. IsFiniteSet(1 .. MaxRequests)
  BY CountersConstants, FS_Interval
<1>2. IsFiniteSet(Ips \X (1 .. MaxRequests))
  BY <1>1, CountersConstants, FS_Product
<1>3. Counted(S) \subseteq Ips \X (1 .. MaxRequests)
  BY CountersConstants DEF Counted
<1> QED
  BY <1>2, <1>3, FS_Subset

LEMMA AmountTyped ==
  ASSUME requests \in [Ips -> 0 .. MaxRequests], NEW S \in SUBSET Ips
  PROVE  Amount(S) \in Counts
<1>1. IsFiniteSet({ip \in S : requests[ip] > 0})
  BY CountersConstants, FS_Subset
<1>2. Cardinality({ip \in S : requests[ip] > 0}) \in Nat /\ Cardinality(Counted(S)) \in Nat
  BY <1>1, CountedFinite, FS_CardinalityType
<1> QED
  BY <1>2 DEF Amount, Counts

LEMMA PlusTyped ==
  ASSUME NEW f \in Counts, NEW g \in Counts
  PROVE  Plus(f, g) \in Counts
  BY DEF Plus, Counts, Tallied

LEMMA WithPathsTyped ==
  ASSUME seen \in SUBSET Paths, NEW f, \A m \in Tallied : f[m] \in Nat
  PROVE  WithPaths(f) \in [Heavy -> Nat]
<1>1. IsFiniteSet(seen)
  BY CountersConstants, FS_Subset
<1>2. Cardinality(seen) \in Nat
  BY <1>1, FS_CardinalityType
<1> QED
  BY <1>2 DEF WithPaths, Heavy

LEMMA MaxOfTwo ==
  ASSUME NEW a \in Nat, NEW b \in Nat
  PROVE  Max({a, b}) \in Nat
<1>1. \E x \in {a, b} : \A y \in {a, b} : x >= y
  BY SMT
<1> QED
  BY <1>1 DEF Max

-----------------------------------------------------------------------------
(* A request as a thread handles it. *)
RequestStates == [step : {"idle", "commit", "count"}, ip : Ips \cup {"none"},
             path : Paths \cup {"none"}, read : 0 .. MaxRequests, new : BOOLEAN]

(* What CountersInv says of the request of w, which holds for its next state if *)
(* it stays under way with the same address and path, or ends.                *)
RequestOK(w) ==
  /\ worker[w].step # "idle" => worker[w].ip \in Ips /\ worker[w].path \in Paths
  /\ worker[w].step = "commit" => worker[w].read < made

(* A row counts no more requests than there were, and one less when a request *)
(* is under way that read it.                                                 *)
CountersInv ==
  /\ CountersTypeOK
  /\ \A ip \in Ips : requests[ip] <= made
  /\ \A w \in Workers : RequestOK(w)

LEMMA CountersInitOK == CountersInit => CountersInv
<1> SUFFICES ASSUME CountersInit PROVE CountersInv
  OBVIOUS
<1> USE CountersConstants DEF CountersInit
<1>1. Zero \in Counts
  BY DEF Zero, Counts
<1>2. Unset \in [Heavy -> Nat] /\ NoSnapshot \in [Heavy -> Nat] \cup {NoSnapshot}
  BY DEF Unset
<1>3. \A w \in Workers : worker[w] = Idle
  OBVIOUS
<1>4. NoRun \in [step : {"idle", "rows", "tally", "save", "reconcile"}, rows : SUBSET Ips, read : Counts]
  BY <1>1 DEF NoRun
<1>5. NoRecount \in [step : {"idle", "count", "tallies", "set", "save"}, counts : Counts, tallies : Counts]
  BY <1>1 DEF NoRecount
<1>6. Idle \in [step : {"idle", "commit", "count"}, ip : Ips \cup {"none"},
                path : Paths \cup {"none"}, read : 0 .. MaxRequests, new : BOOLEAN]
  BY DEF Idle
<1>7. /\ worker \in [Workers -> [step : {"idle", "commit", "count"}, ip : Ips \cup {"none"},
                             path : Paths \cup {"none"}, read : 0 .. MaxRequests, new : BOOLEAN]]
      /\ cleaner \in [Cleaners -> [step : {"idle", "rows", "tally", "save", "reconcile"},
                               rows : SUBSET Ips, read : Counts]]
      /\ recount \in [Cleaners \cup Pods -> [step : {"idle", "count", "tallies", "set", "save"},
                                         counts : Counts, tallies : Counts]]
  BY <1>4, <1>5, <1>6
<1>8. requests \in [Ips -> 0 .. MaxRequests] /\ stale \in SUBSET {ip \in Ips : requests[ip] > 0}
  OBVIOUS
<1>9. /\ flusher \in [FlushThreads -> [Heavy -> Nat] \cup {NoSnapshot}]
      /\ counter \in [Heavy -> Nat] /\ summary \in [Heavy -> Nat] \cup {NoSnapshot}
  BY <1>2
<1>10. /\ pod \in [Pods -> {"down", "seeding", "loading", "up"}]
       /\ made \in 0 .. MaxRequests /\ faults \in 0 .. MaxFaults
  OBVIOUS
<1>11. /\ tally \in Counts /\ preserved \in SUBSET Suspicious /\ visited \in SUBSET Paths
       /\ seen \in SUBSET Paths /\ seeded \in BOOLEAN /\ lease \in BOOLEAN
  BY <1>1
<1> HIDE DEF CountersInit
<1>12. CountersTypeOK
  BY <1>7, <1>8, <1>9, <1>10, <1>11 DEF CountersTypeOK
<1> QED
  BY <1>3, <1>10, <1>12 DEF CountersInv, RequestOK, Idle, CountersInit

LEMMA RequestTyped ==
  ASSUME CountersTypeOK
  PROVE  worker \in [Workers -> RequestStates] /\ Idle \in RequestStates /\ Idle.step = "idle"
  BY CountersConstants DEF CountersTypeOK, RequestStates, Idle

LEMMA RequestArrives ==
  ASSUME CountersInv, NEW w \in Workers, NEW ip \in Ips, NEW path \in Paths,
         ReadRow(w, ip, path)
  PROVE  CountersInv'
<1> USE CountersConstants
<1>0. worker \in [Workers -> RequestStates]
  BY RequestTyped DEF CountersInv
<1> DEFINE new == [step |-> "commit", ip |-> ip, path |-> path, read |-> requests[ip], new |-> FALSE]
<1>1. requests[ip] \in 0 .. MaxRequests /\ requests[ip] <= made /\ made \in 0 .. MaxRequests
  BY DEF CountersInv, CountersTypeOK
<1>2. /\ made' = made + 1 /\ made < MaxRequests /\ worker' = [worker EXCEPT ![w] = new]
      /\ visited' = visited \cup {path}
      /\ UNCHANGED <<requests, stale, preserved, tally, summary, redis, pod, cleaner, recount, flusher, faults>>
  BY DEF ReadRow
<1>3. new \in RequestStates
  BY <1>1 DEF RequestStates
<1>4. worker' \in [Workers -> RequestStates]
  BY <1>0, <1>2, <1>3
<1>5. CountersTypeOK'
  BY <1>1, <1>2, <1>4 DEF CountersInv, CountersTypeOK, RequestStates, redis
<1>6. \A i \in Ips : requests'[i] <= made'
  BY <1>1, <1>2 DEF CountersInv, CountersTypeOK
<1>7. ASSUME NEW v \in Workers PROVE RequestOK(v)'
  <2>1. CASE v = w
    BY <1>0, <1>1, <1>2, <2>1 DEF RequestOK
  <2>2. CASE v # w
    BY <1>0, <1>1, <1>2, <2>2 DEF CountersInv, RequestOK, RequestStates
  <2> QED
    BY <2>1, <2>2
<1> QED
  BY <1>5, <1>6, <1>7 DEF CountersInv

LEMMA RequestGoesOn ==
  ASSUME CountersInv, NEW w \in Workers, NEW q \in RequestStates,
         worker' = [worker EXCEPT ![w] = q], made' = made, q.step # "commit",
         q.step # "idle" => q.ip = worker[w].ip /\ q.path = worker[w].path /\ worker[w].step # "idle"
  PROVE  worker' \in [Workers -> RequestStates] /\ \A v \in Workers : RequestOK(v)'
<1>1. worker \in [Workers -> RequestStates] /\ worker[w] \in RequestStates
  BY RequestTyped DEF CountersInv
<1>2. worker' \in [Workers -> RequestStates]
  BY <1>1
<1>3. ASSUME NEW v \in Workers PROVE RequestOK(v)'
  <2>1. CASE v = w
    BY <1>1, <2>1 DEF CountersInv, RequestOK
  <2>2. CASE v # w
    BY <1>1, <2>2 DEF CountersInv, RequestOK
  <2> QED
    BY <2>1, <2>2
<1> QED
  BY <1>2, <1>3

LEMMA RequestEnds ==
  ASSUME CountersInv, NEW w \in Workers, Proceed(w) \/ CountFails(w)
  PROVE  CountersInv'
<1> USE CountersConstants
<1> DEFINE r == worker[w]
<1>1. /\ CountersTypeOK /\ worker \in [Workers -> RequestStates] /\ r \in RequestStates
      /\ Idle \in RequestStates /\ Idle.step = "idle"
  BY RequestTyped DEF CountersInv
<1>2. CASE CommitRow(w)
  <2> DEFINE q == [r EXCEPT !.step = "count", !.new = r.read = 0]
  <2>1. /\ r.step = "commit" /\ requests' = [requests EXCEPT ![r.ip] = r.read + 1]
        /\ stale' = stale \ {r.ip} /\ worker' = [worker EXCEPT ![w] = q]
        /\ UNCHANGED <<preserved, tally, visited, summary, redis, pod, cleaner, recount, flusher, made, faults>>
    BY <1>1, <1>2 DEF CommitRow
  <2>2. r.ip \in Ips /\ r.read + 1 \in 1 .. MaxRequests /\ r.read + 1 <= made
    BY <1>1, <2>1 DEF CountersInv, CountersTypeOK, RequestOK, RequestStates
  <2>3. q \in RequestStates /\ q.step = "count" /\ q.ip = r.ip /\ q.path = r.path
    BY <1>1 DEF RequestStates
  <2> HIDE DEF q
  <2>4. /\ requests' \in [Ips -> 0 .. MaxRequests] /\ \A i \in Ips : requests'[i] <= made'
        /\ stale' \in SUBSET {i \in Ips : requests'[i] > 0}
    BY <2>1, <2>2 DEF CountersInv, CountersTypeOK
  <2>5. worker' \in [Workers -> RequestStates] /\ \A v \in Workers : RequestOK(v)'
    BY <2>1, <2>3, RequestGoesOn
  <2>6. CountersTypeOK'
    BY <1>1, <2>1, <2>4, <2>5 DEF CountersTypeOK, RequestStates, redis
  <2> QED
    BY <2>4, <2>5, <2>6 DEF CountersInv
<1>3. CASE DeferRow(w)
  <2> DEFINE q == [r EXCEPT !.step = "count"]
  <2>1. r.step = "commit" /\ worker' = [worker EXCEPT ![w] = q]
        /\ UNCHANGED <<db, redis, pod, cleaner, recount, flusher, made, faults>>
    BY <1>1, <1>3 DEF DeferRow
  <2>2. q \in RequestStates /\ q.step = "count" /\ q.ip = r.ip /\ q.path = r.path
    BY <1>1 DEF RequestStates
  <2> HIDE DEF q
  <2>3. worker' \in [Workers -> RequestStates] /\ \A v \in Workers : RequestOK(v)'
    BY <2>1, <2>2, RequestGoesOn
  <2>4. CountersTypeOK'
    BY <1>1, <2>1, <2>3 DEF CountersTypeOK, RequestStates, redis, db
  <2> QED
    BY <2>1, <2>3, <2>4 DEF CountersInv, db
<1>4. CASE Rollback(w)
  <2>1. worker' = [worker EXCEPT ![w] = Idle]
        /\ UNCHANGED <<db, redis, pod, cleaner, recount, flusher, made, faults>>
    BY <1>4 DEF Rollback
  <2>2. worker' \in [Workers -> RequestStates] /\ \A v \in Workers : RequestOK(v)'
    BY <1>1, <2>1, RequestGoesOn
  <2>3. CountersTypeOK'
    BY <1>1, <2>1, <2>2 DEF CountersTypeOK, RequestStates, redis, db
  <2> QED
    BY <2>1, <2>2, <2>3 DEF CountersInv, db
<1>5. ASSUME Count(w) \/ CountFails(w) PROVE CountersInv'
  <2>1. /\ worker' = [worker EXCEPT ![w] = Idle] /\ r.step = "count"
        /\ UNCHANGED <<db, seeded, lease, pod, cleaner, recount, flusher, made>>
    BY <1>5 DEF Count, CountFails
  <2>2. worker' \in [Workers -> RequestStates] /\ \A v \in Workers : RequestOK(v)'
    BY <1>1, <2>1, RequestGoesOn
  <2>3. counter' \in [Heavy -> Nat] /\ seen' \in SUBSET Paths /\ faults' \in 0 .. MaxFaults
    <3>1. counter \in [Heavy -> Nat] /\ seen \in SUBSET Paths /\ faults \in 0 .. MaxFaults /\ r.path \in Paths
      BY <2>1 DEF CountersInv, CountersTypeOK, RequestOK
    <3>2. CASE Count(w)
      BY <3>1, <3>2 DEF Count, Heavy, Tallied
    <3>3. CASE CountFails(w)
      BY <3>1, <3>3 DEF CountFails, Fault, Heavy, Tallied
    <3> QED
      BY <1>5, <3>2, <3>3
  <2>4. CountersTypeOK'
    BY <1>1, <2>1, <2>2, <2>3 DEF CountersTypeOK, RequestStates, db
  <2> QED
    BY <2>1, <2>2, <2>4 DEF CountersInv, db
<1> QED
  BY <1>2, <1>3, <1>4, <1>5 DEF Proceed

(* The steps that are not of a request neither add to what is counted nor     *)
(* change a request under way, but for a pod that dies with it.               *)
LEMMA OtherSteps ==
  ASSUME CountersInv, CountersTypeOK', made' = made,
         \A ip \in Ips : requests'[ip] \in {0, requests[ip]},
         \A w \in Workers : worker'[w] \in {Idle, worker[w]}
  PROVE  CountersInv'
<1>1. Idle.step = "idle"
  BY DEF Idle
<1>2. \A ip \in Ips : requests'[ip] <= made'
  BY DEF CountersInv, CountersTypeOK
<1>3. ASSUME NEW w \in Workers PROVE RequestOK(w)'
  <2>1. CASE worker'[w] = worker[w]
    BY <2>1 DEF CountersInv, RequestOK
  <2>2. CASE worker'[w] = Idle
    BY <1>1, <2>2 DEF RequestOK
  <2> QED
    BY <2>1, <2>2
<1> QED
  BY <1>2, <1>3 DEF CountersInv

LEMMA DatabaseSteps ==
  ASSUME CountersInv, NEW ip \in Ips, Age(ip) \/ Preserve(ip) \/ Purge(ip)
  PROVE  CountersInv'
<1>1. CASE Age(ip)
  <2>1. CountersTypeOK'
    BY <1>1 DEF Age, CountersInv, CountersTypeOK, redis, threads
  <2> QED
    BY <1>1, <2>1, OtherSteps DEF Age, threads
<1>2. CASE Preserve(ip)
  <2>1. CountersTypeOK'
    BY <1>2 DEF Preserve, CountersInv, CountersTypeOK, redis, threads
  <2> QED
    BY <1>2, <2>1, OtherSteps DEF Preserve, threads
<1>3. CASE Purge(ip)
  <2>1. /\ requests' = [requests EXCEPT ![ip] = 0] /\ stale' = stale \ {ip}
        /\ preserved' = preserved \ {ip}
        /\ UNCHANGED <<tally, visited, summary, redis, threads, made, faults>>
    BY <1>3 DEF Purge
  <2>2. /\ requests' \in [Ips -> 0 .. MaxRequests] /\ stale' \in SUBSET {i \in Ips : requests'[i] > 0}
        /\ \A i \in Ips : requests'[i] \in {0, requests[i]}
    BY <2>1, CountersConstants DEF CountersInv, CountersTypeOK
  <2>3. CountersTypeOK'
    BY <2>1, <2>2 DEF CountersInv, CountersTypeOK, redis, threads
  <2> QED
    BY <2>1, <2>2, <2>3, OtherSteps DEF threads
<1> QED
  BY <1>1, <1>2, <1>3

-----------------------------------------------------------------------------
(* A run of retention: where it stands, the rows it has deleted and the       *)
(* tallies it read.                                                           *)
Runs == [step : {"idle", "rows", "tally", "save", "reconcile"}, rows : SUBSET Ips, read : Counts]

LEMMA RunTyped ==
  ASSUME CountersTypeOK
  PROVE  /\ cleaner \in [Cleaners -> Runs] /\ NoRun \in Runs
         /\ [NoRun EXCEPT !.step = "reconcile"] \in Runs
         /\ NoRun.step = "idle" /\ NoRun.rows = {}
<1>1. Zero \in Counts
  BY DEF Zero, Counts
<1> QED
  BY <1>1 DEF CountersTypeOK, Runs, NoRun

(* What a run that ends writes. *)
LEMMA RetentionCommits ==
  ASSUME CountersTypeOK, NEW c \in Cleaners, CommitRetention(c)
  PROVE  /\ requests' \in [Ips -> 0 .. MaxRequests] /\ stale' \in SUBSET {i \in Ips : requests'[i] > 0}
         /\ \A i \in Ips : requests'[i] \in {0, requests[i]}
         /\ tally' \in Counts /\ cleaner' \in [Cleaners -> Runs]
<1> DEFINE gone == IF TalliesInserted(c) THEN {} ELSE cleaner[c].rows
           to == IF TalliesInserted(c) THEN "idle" ELSE "reconcile"
<1>1. /\ requests' = [ip \in Ips |-> IF ip \in gone THEN 0 ELSE requests[ip]]
      /\ stale' = stale \ gone
      /\ tally' = IF gone = {} THEN tally ELSE Plus(cleaner[c].read, Amount(gone))
      /\ cleaner' = [cleaner EXCEPT ![c] = [NoRun EXCEPT !.step = to]]
  BY DEF CommitRetention
<1>2. gone \in SUBSET Ips /\ cleaner[c].read \in Counts /\ to \in {"idle", "reconcile"}
  BY DEF CountersTypeOK
<1> HIDE DEF gone, to
<1>3. Plus(cleaner[c].read, Amount(gone)) \in Counts
  BY <1>2, AmountTyped, PlusTyped DEF CountersTypeOK
<1>4. [NoRun EXCEPT !.step = to] \in Runs
  BY <1>2, RunTyped DEF Runs
<1>5. /\ requests' \in [Ips -> 0 .. MaxRequests] /\ stale' \in SUBSET {i \in Ips : requests'[i] > 0}
      /\ \A i \in Ips : requests'[i] \in {0, requests[i]}
  BY <1>1, CountersConstants DEF CountersTypeOK
<1> QED
  BY <1>1, <1>3, <1>4, <1>5, RunTyped DEF CountersTypeOK

(* A recompute: where it stands, the counts and the tallies it read. *)
Recounts == [step : {"idle", "count", "tallies", "set", "save"}, counts : Counts, tallies : Counts]

LEMMA RecountTyped ==
  ASSUME CountersTypeOK
  PROVE  /\ recount \in [Cleaners \cup Pods -> Recounts] /\ NoRecount \in Recounts
         /\ [NoRecount EXCEPT !.step = "save"] \in Recounts
<1>1. Zero \in Counts
  BY DEF Zero, Counts
<1> QED
  BY <1>1 DEF CountersTypeOK, Recounts, NoRecount

LEMMA RetentionSteps ==
  ASSUME CountersInv, NEW c \in Cleaners, DeleteLogs(c) \/ Retain(c) \/ RetentionFails(c)
  PROVE  CountersInv'
<1> USE CountersConstants
<1>0. CountersTypeOK /\ cleaner \in [Cleaners -> Runs] /\ NoRun \in Runs
  BY RunTyped DEF CountersInv
<1>1. ASSUME NEW run \in Runs, cleaner' = [cleaner EXCEPT ![c] = run]
      PROVE  cleaner' \in [Cleaners -> Runs]
  BY <1>0, <1>1
<1>2. CASE DeleteLogs(c)
  <2>1. [cleaner[c] EXCEPT !.step = "rows"] \in Runs
    BY <1>0 DEF Runs
  <2>2. cleaner' = [cleaner EXCEPT ![c] = [cleaner[c] EXCEPT !.step = "rows"]]
    BY <1>0, <1>2 DEF DeleteLogs
  <2>3. CountersTypeOK'
    BY <1>0, <1>1, <1>2, <2>1, <2>2 DEF DeleteLogs, CountersTypeOK, Runs, redis, db
  <2> QED
    BY <1>2, <2>3, OtherSteps DEF DeleteLogs, db
<1>3. CASE DeleteRows(c)
  <2> DEFINE run == [cleaner[c] EXCEPT !.step = "tally", !.rows = stale \ preserved]
  <2>1. run \in Runs
    BY <1>0 DEF Runs, CountersTypeOK
  <2>2. cleaner' = [cleaner EXCEPT ![c] = run]
    BY <1>0, <1>3 DEF DeleteRows
  <2>3. CountersTypeOK'
    BY <1>0, <1>1, <1>3, <2>1, <2>2 DEF DeleteRows, CountersTypeOK, Runs, redis, db
  <2> QED
    BY <1>3, <2>3, OtherSteps DEF DeleteRows, db
<1>4. CASE ReadTallies(c)
  <2> DEFINE run == [cleaner[c] EXCEPT !.step = "save", !.read = tally]
  <2>1. run \in Runs
    BY <1>0 DEF Runs, CountersTypeOK
  <2>2. cleaner' = [cleaner EXCEPT ![c] = run]
    BY <1>0, <1>4 DEF ReadTallies
  <2>3. CountersTypeOK'
    BY <1>0, <1>1, <1>4, <2>1, <2>2 DEF ReadTallies, CountersTypeOK, Runs, redis, db
  <2> QED
    BY <1>4, <2>3, OtherSteps DEF ReadTallies, db
<1>5. CASE CommitRetention(c)
  <2>1. /\ requests' \in [Ips -> 0 .. MaxRequests] /\ stale' \in SUBSET {i \in Ips : requests'[i] > 0}
        /\ \A i \in Ips : requests'[i] \in {0, requests[i]}
        /\ tally' \in Counts /\ cleaner' \in [Cleaners -> Runs]
    BY <1>0, <1>5, RetentionCommits
  <2>2. UNCHANGED <<preserved, visited, summary, redis, pod, worker, recount, flusher, made, faults>>
    BY <1>5 DEF CommitRetention
  <2>3. CountersTypeOK'
    BY <1>0, <2>1, <2>2 DEF CountersTypeOK, Runs, redis
  <2> QED
    BY <2>1, <2>2, <2>3, OtherSteps
<1>6. CASE RetentionFails(c)
  <2>1. CountersTypeOK'
    BY <1>0, <1>1, <1>6 DEF RetentionFails, Fault, CountersTypeOK, Runs, redis, db
  <2> QED
    BY <1>6, <2>1, OtherSteps DEF RetentionFails, db
<1>7. CASE Reconcile(c)
  <2>1. CountersTypeOK'
    <3> DEFINE to == IF lease THEN "idle" ELSE "count"
               q == [recount[c] EXCEPT !.step = to]
    <3>0. recount' = [recount EXCEPT ![c].step = to]
      BY <1>7 DEF Reconcile
    <3>1. recount' \in [Cleaners \cup Pods -> Recounts]
      <4>1. recount \in [Cleaners \cup Pods -> Recounts] /\ recount[c] \in Recounts
        BY <1>0, RecountTyped
      <4>2. to \in {"idle", "count"}
        OBVIOUS
      <4> HIDE DEF to
      <4>3. q \in Recounts
        BY <4>1, <4>2 DEF Recounts
      <4>4. recount' = [recount EXCEPT ![c] = q]
        BY <3>0, <4>1
      <4> QED
        BY <4>1, <4>3, <4>4
    <3>2. cleaner' \in [Cleaners -> Runs] /\ lease' \in BOOLEAN
      BY <1>0, <1>1, <1>7 DEF Reconcile
    <3> QED
      BY <1>0, <1>7, <3>1, <3>2 DEF Reconcile, CountersTypeOK, Runs, Recounts, db
  <2> QED
    BY <1>7, <2>1, OtherSteps DEF Reconcile, db
<1> QED
  BY <1>2, <1>3, <1>4, <1>5, <1>6, <1>7 DEF Retain

LEMMA RecountSteps ==
  ASSUME CountersInv, NEW t \in Cleaners \cup Pods, Recount(t) \/ TalliesUnread(t) \/ RecountFails(t)
  PROVE  CountersInv'
<1> USE CountersConstants
<1>0. /\ CountersTypeOK /\ recount \in [Cleaners \cup Pods -> Recounts] /\ recount[t] \in Recounts
      /\ NoRecount \in Recounts /\ [NoRecount EXCEPT !.step = "save"] \in Recounts
  BY RecountTyped DEF CountersInv
<1>1. ASSUME NEW q \in Recounts, recount' = [recount EXCEPT ![t] = q]
      PROVE  recount' \in [Cleaners \cup Pods -> Recounts]
  BY <1>0, <1>1
<1>2. CASE ReadCounts(t)
  <2> DEFINE q == [recount[t] EXCEPT !.step = "tallies", !.counts = Amount(Ips)]
  <2>1. Amount(Ips) \in Counts
    BY <1>0, AmountTyped DEF CountersTypeOK
  <2>2. q \in Recounts /\ recount' = [recount EXCEPT ![t] = q]
    BY <1>0, <1>2, <2>1 DEF ReadCounts, Recounts
  <2> HIDE DEF q
  <2>3. CountersTypeOK'
    BY <1>0, <1>1, <1>2, <2>2 DEF ReadCounts, CountersTypeOK, Recounts, redis, db
  <2> QED
    BY <1>2, <2>3, OtherSteps DEF ReadCounts, db
<1>3. CASE ReadDeleted(t)
  <2> DEFINE q == [recount[t] EXCEPT !.step = "set", !.tallies = tally]
  <2>1. q \in Recounts /\ recount' = [recount EXCEPT ![t] = q]
    BY <1>0, <1>3 DEF ReadDeleted, CountersTypeOK, Recounts
  <2> HIDE DEF q
  <2>2. CountersTypeOK'
    BY <1>0, <1>1, <1>3, <2>1 DEF ReadDeleted, CountersTypeOK, Recounts, redis, db
  <2> QED
    BY <1>3, <2>2, OtherSteps DEF ReadDeleted, db
<1>4. CASE TalliesUnread(t)
  <2> DEFINE q == [recount[t] EXCEPT !.step = "set"]
  <2>1. q \in Recounts /\ recount' = [recount EXCEPT ![t] = q]
    BY <1>0, <1>4 DEF TalliesUnread, Recounts
  <2> HIDE DEF q
  <2>2. CountersTypeOK'
    <3>1. recount' \in [Cleaners \cup Pods -> Recounts]
      BY <1>1, <2>1
    <3>2. faults' \in 0 .. MaxFaults
      BY <1>0, <1>4 DEF TalliesUnread, Fault, CountersTypeOK
    <3> QED
      BY <1>0, <1>4, <3>1, <3>2 DEF TalliesUnread, CountersTypeOK, Recounts, redis, db
  <2> QED
    BY <1>4, <2>2, OtherSteps DEF TalliesUnread, db
<1>5. CASE SetCounters(t)
  <2>1. counter' \in [Heavy -> Nat]
    <3>1. Plus(recount[t].counts, recount[t].tallies) \in Counts
      BY <1>0, PlusTyped DEF Recounts
    <3> QED
      BY <1>0, <1>5, <3>1, WithPathsTyped DEF SetCounters, CountersTypeOK, Counts
  <2>2. CountersTypeOK'
    BY <1>0, <1>1, <1>5, <2>1 DEF SetCounters, CountersTypeOK, Recounts, db
  <2> QED
    BY <1>5, <2>2, OtherSteps DEF SetCounters, db
<1>6. ASSUME Done(t) PROVE recount' \in [Cleaners \cup Pods -> Recounts] /\ pod' \in [Pods -> {"down", "seeding", "loading", "up"}]
  BY <1>0, <1>1, <1>6 DEF Done, CountersTypeOK
<1>7. CASE SaveSummary(t)
  <2>1. CountersTypeOK'
    BY <1>0, <1>6, <1>7 DEF SaveSummary, CountersTypeOK, Recounts, redis
  <2> QED
    BY <1>7, <2>1, OtherSteps DEF SaveSummary
<1>8. CASE RecountFails(t)
  <2>1. CountersTypeOK'
    BY <1>0, <1>6, <1>8 DEF RecountFails, Fault, CountersTypeOK, Recounts, redis, db
  <2> QED
    BY <1>8, <2>1, OtherSteps DEF RecountFails, db
<1> QED
  BY <1>2, <1>3, <1>4, <1>5, <1>7, <1>8 DEF Recount

(* Flushes. *)
LEMMA FlushSteps ==
  ASSUME CountersInv, NEW f \in FlushThreads,
         ReadCounters(f) \/ StoreSnapshot(f) \/ FlushFails(f)
  PROVE  CountersInv'
<1>0. CountersTypeOK
  BY DEF CountersInv
<1>1. CASE ReadCounters(f)
  <2>1. WithPaths(counter) \in [Heavy -> Nat]
    BY <1>0, WithPathsTyped DEF CountersTypeOK, Heavy
  <2>2. CountersTypeOK'
    BY <1>0, <1>1, <2>1 DEF ReadCounters, CountersTypeOK, db
  <2> QED
    BY <1>1, <2>2, OtherSteps DEF ReadCounters, db
<1>2. CASE StoreSnapshot(f)
  <2>1. CountersTypeOK'
    BY <1>0, <1>2 DEF StoreSnapshot, CountersTypeOK, redis
  <2> QED
    BY <1>2, <2>1, OtherSteps DEF StoreSnapshot
<1>3. CASE FlushFails(f)
  <2>1. faults' \in 0 .. MaxFaults
    BY <1>0, <1>3, CountersConstants DEF FlushFails, Fault, CountersTypeOK
  <2>2. CountersTypeOK'
    BY <1>0, <1>3, <2>1 DEF FlushFails, CountersTypeOK, redis, db
  <2> QED
    BY <1>3, <2>2, OtherSteps DEF FlushFails, db
<1> QED
  BY <1>1, <1>2, <1>3

(* Pods that start, seed and die. *)
LEMMA PodSteps ==
  ASSUME CountersInv, NEW p \in Pods,
         Boot(p) \/ SnapshotUnread(p) \/ SeedFails(p) \/ PodCrash(p)
  PROVE  CountersInv'
<1> USE CountersConstants
<1>0. /\ CountersTypeOK /\ recount \in [Cleaners \cup Pods -> Recounts] /\ NoRecount \in Recounts
      /\ cleaner \in [Cleaners -> Runs] /\ NoRun \in Runs
  BY RecountTyped, RunTyped DEF CountersInv
<1>1. CASE Start(p)
  <2>1. CountersTypeOK'
    BY <1>0, <1>1 DEF Start, CountersTypeOK, db
  <2> QED
    BY <1>1, <2>1, OtherSteps DEF Start, db
<1>2. CASE SeedPaths(p)
  <2>1. PICK logged \in SUBSET visited : seen' = IF seen = {} THEN logged ELSE seen
    BY <1>2 DEF SeedPaths
  <2>2. CountersTypeOK'
    BY <1>0, <1>2, <2>1 DEF SeedPaths, CountersTypeOK, db
  <2> QED
    BY <1>2, <2>2, OtherSteps DEF SeedPaths, db
<1>3. CASE LoadSnapshot(p)
  <2>1. summary \in [Heavy -> Nat] /\ seen \in SUBSET Paths
    BY <1>0, <1>3 DEF LoadSnapshot, CountersTypeOK
  <2>2. Cardinality(seen) \in Nat
    BY <2>1, FS_Subset, FS_CardinalityType
  <2>3. Max({summary["unique_paths"], Cardinality(seen)}) \in Nat
    BY <2>1, <2>2, MaxOfTwo DEF Heavy
  <2>4. counter' \in [Heavy -> Nat]
    BY <1>3, <2>1, <2>3 DEF LoadSnapshot
  <2>5. CountersTypeOK'
    BY <1>0, <1>3, <2>4 DEF LoadSnapshot, CountersTypeOK, db
  <2> QED
    BY <1>3, <2>5, OtherSteps DEF LoadSnapshot, db
<1>4. ASSUME recount' = [recount EXCEPT ![p].step = "count"]
      PROVE  recount' \in [Cleaners \cup Pods -> Recounts]
  <2>1. recount[p] \in Recounts /\ [recount[p] EXCEPT !.step = "count"] \in Recounts
    BY <1>0 DEF Recounts
  <2> QED
    BY <1>0, <1>4, <2>1
<1>5. CASE FirstRecount(p)
  <2>1. CountersTypeOK'
    BY <1>0, <1>4, <1>5 DEF FirstRecount, CountersTypeOK, Recounts, redis, db
  <2> QED
    BY <1>5, <2>1, OtherSteps DEF FirstRecount, db
<1>6. Fault => faults' \in 0 .. MaxFaults
  BY <1>0 DEF Fault, CountersTypeOK
<1>7. CASE SnapshotUnread(p)
  <2>1. CountersTypeOK'
    BY <1>0, <1>4, <1>6, <1>7 DEF SnapshotUnread, CountersTypeOK, Recounts, redis, db
  <2> QED
    BY <1>7, <2>1, OtherSteps DEF SnapshotUnread, db
<1>8. CASE SeedFails(p)
  <2>1. CountersTypeOK'
    BY <1>0, <1>6, <1>8 DEF SeedFails, CountersTypeOK, redis, db
  <2> QED
    BY <1>8, <2>1, OtherSteps DEF SeedFails, db
<1>9. CASE PodCrash(p)
  <2>1. \A w \in Workers : worker'[w] \in {Idle, worker[w]}
    BY <1>9 DEF PodCrash
  <2>2. worker' \in [Workers -> [step : {"idle", "commit", "count"}, ip : Ips \cup {"none"},
                               path : Paths \cup {"none"}, read : 0 .. MaxRequests, new : BOOLEAN]]
    <3>1. Idle \in [step : {"idle", "commit", "count"}, ip : Ips \cup {"none"},
                    path : Paths \cup {"none"}, read : 0 .. MaxRequests, new : BOOLEAN]
      BY DEF Idle
    <3> QED
      BY <1>0, <1>9, <3>1 DEF PodCrash, CountersTypeOK
  <2>3. cleaner' \in [Cleaners -> Runs]
    BY <1>0, <1>9 DEF PodCrash
  <2>4. recount' \in [Cleaners \cup Pods -> Recounts]
    BY <1>0, <1>9 DEF PodCrash
  <2>5. flusher' \in [FlushThreads -> [Heavy -> Nat] \cup {NoSnapshot}]
    BY <1>0, <1>9 DEF PodCrash, CountersTypeOK
  <2>6. pod' \in [Pods -> {"down", "seeding", "loading", "up"}] /\ faults' \in 0 .. MaxFaults
    BY <1>0, <1>6, <1>9 DEF PodCrash, CountersTypeOK
  <2>7. UNCHANGED <<db, redis, made>>
    BY <1>9 DEF PodCrash
  <2>8. CountersTypeOK'
    BY <1>0, <2>2, <2>3, <2>4, <2>5, <2>6, <2>7 DEF CountersTypeOK, Runs, Recounts, redis, db
  <2> QED
    BY <2>1, <2>7, <2>8, OtherSteps DEF db
<1> QED
  BY <1>1, <1>2, <1>3, <1>5, <1>7, <1>8, <1>9 DEF Boot

LEMMA CountersInductive == CountersInv /\ [CountersNext]_countersVars => CountersInv'
<1> SUFFICES ASSUME CountersInv, [CountersNext]_countersVars PROVE CountersInv'
  OBVIOUS
<1>1. CASE UNCHANGED countersVars
  BY <1>1 DEF countersVars, db, redis, threads, CountersInv, CountersTypeOK, Counts, RequestOK
<1>2. CASE LeaseExpires
  <2>1. CountersTypeOK'
    BY <1>2 DEF LeaseExpires, CountersInv, CountersTypeOK, db, threads
  <2> QED
    BY <1>2, <2>1, OtherSteps DEF LeaseExpires, db, threads
<1>3. CASE Wipe
  <2>1. Unset \in [Heavy -> Nat]
    BY DEF Unset
  <2>2. faults' \in 0 .. MaxFaults
    BY <1>3, CountersConstants DEF Wipe, Fault, CountersInv, CountersTypeOK
  <2>3. CountersTypeOK'
    BY <1>3, <2>1, <2>2 DEF Wipe, CountersInv, CountersTypeOK, db, threads
  <2> QED
    BY <1>3, <2>3, OtherSteps DEF Wipe, db, threads
<1>4. CASE \E w \in Workers, ip \in Ips, path \in Paths : ReadRow(w, ip, path)
  BY <1>4, RequestArrives
<1>5. CASE \E w \in Workers : Proceed(w) \/ CountFails(w)
  BY <1>5, RequestEnds
<1>6. CASE \E ip \in Ips : Age(ip) \/ Preserve(ip) \/ Purge(ip)
  BY <1>6, DatabaseSteps
<1>7. CASE \E c \in Cleaners : DeleteLogs(c) \/ Retain(c) \/ RetentionFails(c)
  BY <1>7, RetentionSteps
<1>8. CASE \E t \in Cleaners \cup Pods : Recount(t) \/ TalliesUnread(t) \/ RecountFails(t)
  BY <1>8, RecountSteps
<1>9. CASE \E f \in FlushThreads : ReadCounters(f) \/ StoreSnapshot(f) \/ FlushFails(f)
  BY <1>9, FlushSteps
<1>10. CASE \E p \in Pods : Boot(p) \/ SnapshotUnread(p) \/ SeedFails(p) \/ PodCrash(p)
  BY <1>10, PodSteps
<1> QED
  BY <1>1, <1>2, <1>3, <1>4, <1>5, <1>6, <1>7, <1>8, <1>9, <1>10 DEF CountersNext

(* Rows, tallies, counters, snapshots and threads keep their types            *)
(* (src/src/metrics_counters.py): no row counts more requests than were made, *)
(* and no counter leaves the natural numbers.                                 *)
THEOREM CountersTyped == CountersSpec => []CountersTypeOK
<1>1. CountersInv => CountersTypeOK
  BY DEF CountersInv
<1> QED
  BY <1>1, CountersInitOK, CountersInductive, PTL DEF CountersSpec

-----------------------------------------------------------------------------
(* The rows of IPs that are told apart count requests that are. *)
LEMMA CountedSplits ==
  ASSUME requests \in [Ips -> 0 .. MaxRequests], NEW S \in SUBSET Ips
  PROVE  /\ Counted(Ips) = Counted(S) \cup Counted(Ips \ S)
         /\ Counted(S) \cap Counted(Ips \ S) = {}
<1>1. \A T \in SUBSET Ips : \A e : e \in Counted(T) <=> \E ip \in T : e \in {ip} \X (1 .. requests[ip])
  BY DEF Counted
<1>2. \A T \in SUBSET Ips : \A e \in Counted(T) : e[1] \in T
  BY <1>1
<1>3. ASSUME NEW e PROVE e \in Counted(Ips) <=> e \in Counted(S) \/ e \in Counted(Ips \ S)
  BY <1>1
<1> QED
  BY <1>2, <1>3

(* Zeroing rows takes from the amount of all rows what they amounted to. *)
LEMMA AmountSplits ==
  ASSUME CountersTypeOK, CountersTypeOK', NEW gone \in SUBSET Ips,
         requests' = [ip \in Ips |-> IF ip \in gone THEN 0 ELSE requests[ip]],
         NEW m \in Tallied
  PROVE  /\ Amount(Ips)[m] = Amount(gone)[m] + Amount(Ips)'[m]
         /\ Amount(gone)[m] \in Nat /\ Amount(Ips)'[m] \in Nat
<1> DEFINE Seen(S) == {ip \in S : requests[ip] > 0}
           left == Ips \ gone
<1>0. requests \in [Ips -> 0 .. MaxRequests] /\ left \in SUBSET Ips
  BY DEF CountersTypeOK
<1>1. /\ Cardinality(Counted(Ips)) = Cardinality(Counted(gone)) + Cardinality(Counted(left))
      /\ Cardinality(Counted(gone)) \in Nat /\ Cardinality(Counted(left)) \in Nat
  <2>1. /\ Counted(Ips) = Counted(gone) \cup Counted(left)
        /\ Counted(gone) \cap Counted(left) = {}
    BY <1>0, CountedSplits
  <2>2. IsFiniteSet(Counted(gone)) /\ IsFiniteSet(Counted(left))
    BY <1>0, CountedFinite
  <2>3. /\ Cardinality(Counted(gone)) \in Nat /\ Cardinality(Counted(left)) \in Nat
        /\ Cardinality({}) = 0
    BY <2>2, FS_CardinalityType, FS_EmptySet
  <2>4. Cardinality(Counted(gone) \cup Counted(left))
          = Cardinality(Counted(gone)) + Cardinality(Counted(left)) - Cardinality(Counted(gone) \cap Counted(left))
    BY <2>2, FS_Union
  <2>5. Cardinality(Counted(gone) \cap Counted(left)) = 0
    BY <2>1, <2>3
  <2>6. Cardinality(Counted(gone) \cup Counted(left)) = Cardinality(Counted(gone)) + Cardinality(Counted(left))
    BY <2>3, <2>4, <2>5
  <2> QED
    BY <2>1, <2>3, <2>6
<1>2. /\ Cardinality(Seen(Ips)) = Cardinality(Seen(gone)) + Cardinality(Seen(left))
      /\ Cardinality(Seen(gone)) \in Nat /\ Cardinality(Seen(left)) \in Nat
  <2>1. Seen(Ips) = Seen(gone) \cup Seen(left) /\ Seen(gone) \cap Seen(left) = {}
    OBVIOUS
  <2>2. IsFiniteSet(Seen(gone)) /\ IsFiniteSet(Seen(left))
    BY CountersConstants, FS_Subset
  <2> HIDE DEF Seen, left
  <2>3. /\ Cardinality(Seen(gone)) \in Nat /\ Cardinality(Seen(left)) \in Nat
        /\ Cardinality({}) = 0
    BY <2>2, FS_CardinalityType, FS_EmptySet
  <2>4. Cardinality(Seen(gone) \cup Seen(left))
          = Cardinality(Seen(gone)) + Cardinality(Seen(left)) - Cardinality(Seen(gone) \cap Seen(left))
    BY <2>2, FS_Union
  <2>5. Cardinality(Seen(gone) \cap Seen(left)) = 0
    BY <2>1, <2>3
  <2>6. Cardinality(Seen(gone) \cup Seen(left)) = Cardinality(Seen(gone)) + Cardinality(Seen(left))
    BY <2>3, <2>4, <2>5
  <2> QED
    BY <2>1, <2>3, <2>6
<1>3. Counted(Ips)' = Counted(left)
  <2>1. \A ip \in Ips : {ip} \X (1 .. requests'[ip]) = IF ip \in gone THEN {} ELSE {ip} \X (1 .. requests[ip])
    BY <1>0
  <2>2. ASSUME NEW e PROVE e \in Counted(Ips)' <=> e \in Counted(left)
    BY <2>1 DEF Counted
  <2> QED
    BY <2>2
<1>4. {ip \in Ips : requests[ip] > 0}' = Seen(left)
  OBVIOUS
<1>5. /\ Amount(Ips)[m] = IF m = "unique_ips" THEN Cardinality(Seen(Ips)) ELSE Cardinality(Counted(Ips))
      /\ Amount(gone)[m] = IF m = "unique_ips" THEN Cardinality(Seen(gone)) ELSE Cardinality(Counted(gone))
  BY DEF Amount
<1>6. Amount(Ips)'[m] = IF m = "unique_ips" THEN Cardinality(Seen(left)) ELSE Cardinality(Counted(left))
  BY <1>3, <1>4 DEF Amount
<1> QED
  BY <1>1, <1>2, <1>5, <1>6

(* A run under way has rows that a second run would have to wait for. *)
StillBenign == \A c \in Cleaners : cleaner[c].rows # {} => ~(cleaner[c].rows \subseteq preserved)

(* Among runs that delete, one has rows: those are past the cutoff, it holds   *)
(* them from their deletion to its commit, and what it read of the tallies    *)
(* still is what they are.                                                    *)
OneRun ==
  /\ \A c \in Cleaners :
       /\ cleaner[c].rows \subseteq stale
       /\ cleaner[c].rows # {} => cleaner[c].step \in {"tally", "save"}
       /\ cleaner[c].rows # {} /\ cleaner[c].step = "save" => cleaner[c].read = tally
  /\ \A c, d \in Cleaners : cleaner[c].rows # {} /\ cleaner[d].rows # {} => c = d

(* Steps that neither take a row a run holds nor write the tallies, and leave  *)
(* the runs alone but for those they end.                                     *)
LEMMA OneRunStays ==
  ASSUME OneRun, tally' = tally,
         \A c \in Cleaners : \/ cleaner'[c] = cleaner[c] /\ cleaner[c].rows \cap stale \subseteq stale'
                             \/ cleaner'[c].rows = {}
  PROVE  OneRun'
<1>1. ASSUME NEW c \in Cleaners
      PROVE  /\ cleaner'[c].rows \subseteq stale'
             /\ cleaner'[c].rows # {} => cleaner'[c].step \in {"tally", "save"}
             /\ cleaner'[c].rows # {} /\ cleaner'[c].step = "save" => cleaner'[c].read = tally'
             /\ cleaner'[c].rows # {} => cleaner[c].rows # {}
  <2>1. CASE cleaner'[c].rows = {}
    BY <2>1
  <2>2. CASE cleaner'[c] = cleaner[c] /\ cleaner[c].rows \cap stale \subseteq stale'
    BY <2>2 DEF OneRun
  <2> QED
    BY <2>1, <2>2
<1> QED
  BY <1>1 DEF OneRun

LEMMA OneRunInit == CountersInit => OneRun
  BY DEF CountersInit, OneRun, NoRun

(* The steps of a run. *)
LEMMA OneRunRetention ==
  ASSUME CountersTypeOK, OneRun, StillBenign, NEW c \in Cleaners,
         DeleteLogs(c) \/ Retain(c) \/ RetentionFails(c)
  PROVE  OneRun'
<1>0. /\ cleaner \in [Cleaners -> Runs] /\ NoRun.rows = {}
      /\ \A s \in {"idle", "rows", "tally", "save", "reconcile"} : [NoRun EXCEPT !.step = s].rows = {}
  BY RunTyped DEF NoRun
<1>1. CASE DeleteLogs(c)
  <2>1. cleaner[c].rows = {}
    BY <1>1 DEF DeleteLogs, OneRun
  <2>2. cleaner'[c].rows = {} /\ \A d \in Cleaners \ {c} : cleaner'[d] = cleaner[d]
    BY <1>0, <1>1, <2>1 DEF DeleteLogs, Runs
  <2> QED
    BY <1>1, <2>2, OneRunStays DEF DeleteLogs, db
<1>2. CASE DeleteRows(c)
  <2>1. /\ cleaner'[c].rows = stale \ preserved /\ cleaner'[c].step = "tally"
        /\ \A d \in Cleaners \ {c} : cleaner'[d] = cleaner[d]
        /\ tally' = tally /\ stale' = stale
    BY <1>0, <1>2 DEF DeleteRows, Runs, db
  <2>2. \A d \in Cleaners : cleaner[d].rows = {}
    <3>1. SUFFICES ASSUME NEW d \in Cleaners, cleaner[d].rows # {} PROVE FALSE
      OBVIOUS
    <3>2. PICK ip \in cleaner[d].rows : ip \notin preserved
      BY <3>1 DEF StillBenign
    <3>3. ip \in stale
      BY <3>2 DEF OneRun
    <3> QED
      BY <1>2, <3>2, <3>3 DEF DeleteRows, Unlocked
  <2> QED
    BY <2>1, <2>2 DEF OneRun
<1>3. CASE ReadTallies(c)
  <2>1. /\ cleaner'[c].rows = cleaner[c].rows /\ cleaner'[c].step = "save" /\ cleaner'[c].read = tally
        /\ \A d \in Cleaners \ {c} : cleaner'[d] = cleaner[d]
        /\ tally' = tally /\ stale' = stale
    BY <1>0, <1>3 DEF ReadTallies, Runs, db
  <2>2. \A d \in Cleaners : cleaner'[d].rows = cleaner[d].rows
    BY <2>1
  <2>3. ASSUME NEW d \in Cleaners
        PROVE  /\ cleaner'[d].rows \subseteq stale'
               /\ cleaner'[d].rows # {} => cleaner'[d].step \in {"tally", "save"}
               /\ cleaner'[d].rows # {} /\ cleaner'[d].step = "save" => cleaner'[d].read = tally'
    BY <2>1 DEF OneRun
  <2> QED
    BY <2>2, <2>3 DEF OneRun
<1>4. CASE CommitRetention(c)
  <2> DEFINE gone == IF TalliesInserted(c) THEN {} ELSE cleaner[c].rows
  <2>1. /\ stale' = stale \ gone /\ cleaner'[c].rows = {}
        /\ \A d \in Cleaners \ {c} : cleaner'[d] = cleaner[d]
        /\ gone = {} => tally' = tally
    BY <1>0, <1>4 DEF CommitRetention
  <2>2. CASE gone = {}
    BY <2>1, <2>2, OneRunStays
  <2>3. CASE gone # {}
    <3>1. \A d \in Cleaners \ {c} : cleaner[d].rows = {}
      BY <2>3 DEF OneRun
    <3>2. \A d \in Cleaners : cleaner'[d].rows = {}
      BY <2>1, <3>1
    <3> QED
      BY <3>2 DEF OneRun
  <2> QED
    BY <2>2, <2>3
<1>5. CASE RetentionFails(c)
  BY <1>0, <1>5, OneRunStays DEF RetentionFails, db
<1>6. CASE Reconcile(c)
  BY <1>0, <1>6, OneRunStays DEF Reconcile, db
<1> QED
  BY <1>1, <1>2, <1>3, <1>4, <1>5, <1>6 DEF Retain

LEMMA OneRunInductive ==
  CountersInv /\ OneRun /\ StillBenign /\ [CountersNext]_countersVars => OneRun'
<1> SUFFICES ASSUME CountersInv, OneRun, StillBenign, [CountersNext]_countersVars PROVE OneRun'
  OBVIOUS
<1> USE DEF db, threads
<1>1. CASE UNCHANGED <<stale, tally, cleaner>>
  BY <1>1, OneRunStays
<1>2. ASSUME NEW w \in Workers, CommitRow(w) PROVE OneRun'
  BY <1>2, OneRunStays DEF CommitRow, Unlocked
<1>3. ASSUME NEW w \in Workers, DeferRow(w) \/ Rollback(w) \/ Count(w) \/ CountFails(w)
      PROVE  UNCHANGED <<stale, tally, cleaner>>
  BY <1>3 DEF DeferRow, Rollback, Count, CountFails
<1>4. ASSUME NEW w \in Workers, NEW ip \in Ips, NEW path \in Paths, ReadRow(w, ip, path)
      PROVE  UNCHANGED <<stale, tally, cleaner>>
  BY <1>4 DEF ReadRow
<1>5. ASSUME NEW ip \in Ips, Age(ip) \/ Preserve(ip) \/ Purge(ip) PROVE OneRun'
  BY <1>5, OneRunStays DEF Age, Preserve, Purge, Unlocked
<1>6. ASSUME NEW t \in Cleaners \cup Pods, Recount(t) \/ TalliesUnread(t) \/ RecountFails(t)
      PROVE  UNCHANGED <<stale, tally, cleaner>>
  BY <1>6 DEF Recount, ReadCounts, ReadDeleted, SetCounters, SaveSummary, TalliesUnread, RecountFails
<1>7. ASSUME NEW f \in FlushThreads, ReadCounters(f) \/ StoreSnapshot(f) \/ FlushFails(f)
      PROVE  UNCHANGED <<stale, tally, cleaner>>
  BY <1>7 DEF ReadCounters, StoreSnapshot, FlushFails
<1>8. ASSUME NEW p \in Pods, Boot(p) \/ SnapshotUnread(p) \/ SeedFails(p)
      PROVE  UNCHANGED <<stale, tally, cleaner>>
  BY <1>8 DEF Boot, Start, SeedPaths, LoadSnapshot, FirstRecount, SnapshotUnread, SeedFails
<1>9. ASSUME NEW p \in Pods, PodCrash(p) PROVE OneRun'
  <2>1. NoRun.rows = {}
    BY DEF NoRun
  <2> QED
    BY <1>9, <2>1, OneRunStays DEF PodCrash
<1>10. CASE UNCHANGED countersVars
  BY <1>1, <1>10 DEF countersVars
<1>11. CASE LeaseExpires \/ Wipe
  BY <1>1, <1>11 DEF LeaseExpires, Wipe
<1>12. ASSUME NEW c \in Cleaners, DeleteLogs(c) \/ Retain(c) \/ RetentionFails(c) PROVE OneRun'
  BY <1>12, OneRunRetention DEF CountersInv
<1> QED
  BY <1>1, <1>2, <1>3, <1>4, <1>5, <1>6, <1>7, <1>8, <1>9, <1>10, <1>11, <1>12 DEF CountersNext, Proceed

(* A step that moves no run past its commit, or commits exactly. *)
RunKeepsTotals ==
  \A c \in Cleaners :
    cleaner[c].step = "save" /\ cleaner'[c].step = "reconcile"
    => \A m \in Tallied : Total(m)' = Total(m)

LEMMA CommitKeepsTotals ==
  ASSUME CountersInv, CountersInv', OneRun, NEW c \in Cleaners, CommitRetention(c),
         cleaner'[c].step = "reconcile"
  PROVE  \A m \in Tallied : Total(m)' = Total(m)
<1> TAKE m \in Tallied
<1> DEFINE gone == cleaner[c].rows
<1>0. CountersTypeOK /\ CountersTypeOK' /\ gone \in SUBSET Ips /\ requests \in [Ips -> 0 .. MaxRequests]
  BY DEF CountersInv, CountersTypeOK
<1>1. ~TalliesInserted(c)
  <2>1. cleaner' = [cleaner EXCEPT ![c] =
                      [NoRun EXCEPT !.step = IF TalliesInserted(c) THEN "idle" ELSE "reconcile"]]
    BY DEF CommitRetention
  <2>2. cleaner \in [Cleaners -> Runs] /\ NoRun \in Runs
    BY <1>0, RunTyped
  <2> QED
    BY <2>1, <2>2 DEF Runs
<1>2. /\ requests' = [ip \in Ips |-> IF ip \in gone THEN 0 ELSE requests[ip]]
      /\ tally' = IF gone = {} THEN tally ELSE Plus(cleaner[c].read, Amount(gone))
      /\ cleaner[c].step = "save"
  BY <1>1 DEF CommitRetention
<1>3. tally[m] \in Nat
  BY <1>0 DEF CountersTypeOK, Counts
<1>4. /\ Amount(Ips)[m] = Amount(gone)[m] + Amount(Ips)'[m]
      /\ Amount(gone)[m] \in Nat /\ Amount(Ips)'[m] \in Nat
  BY <1>0, <1>2, AmountSplits
<1>5. CASE gone = {}
  <2>1. requests' = requests /\ tally' = tally
    BY <1>0, <1>2, <1>5
  <2> QED
    BY <2>1 DEF Total, Amount, Counted
<1>6. CASE gone # {}
  <2>1. cleaner[c].read = tally
    BY <1>2, <1>6 DEF OneRun
  <2>2. tally'[m] = tally[m] + Amount(gone)[m]
    BY <1>2, <1>6, <2>1 DEF Plus
  <2> QED
    BY <1>3, <1>4, <2>2 DEF Total
<1> QED
  BY <1>5, <1>6

LEMMA TotalsKept ==
  CountersInv /\ CountersInv' /\ OneRun /\ [CountersNext]_countersVars => RunKeepsTotals
<1> SUFFICES ASSUME CountersInv, CountersInv', OneRun, [CountersNext]_countersVars,
                    NEW c \in Cleaners, cleaner[c].step = "save", cleaner'[c].step = "reconcile"
             PROVE  \A m \in Tallied : Total(m)' = Total(m)
  BY DEF RunKeepsTotals
<1> USE DEF db, threads
<1>0. /\ cleaner \in [Cleaners -> Runs] /\ NoRun.step = "idle"
  BY RunTyped DEF CountersInv
<1>1. ~(\E p \in Pods : PodCrash(p))
  BY <1>0 DEF PodCrash
<1>2. CASE CommitRetention(c)
  BY <1>2, CommitKeepsTotals
<1>3. ASSUME NEW d \in Cleaners, DeleteLogs(d) \/ Retain(d) \/ RetentionFails(d) PROVE CommitRetention(c)
  <2>1. CASE d = c
    <3>1. ~DeleteLogs(c) /\ ~DeleteRows(c) /\ ~ReadTallies(c) /\ ~Reconcile(c)
      BY DEF DeleteLogs, DeleteRows, ReadTallies, Reconcile
    <3>2. ~RetentionFails(c)
      BY <1>0 DEF RetentionFails
    <3> QED
      BY <1>3, <2>1, <3>1, <3>2 DEF Retain
  <2>2. CASE d # c
    <3>1. cleaner'[c] = cleaner[c]
      BY <1>0, <1>3, <2>2 DEF DeleteLogs, Retain, DeleteRows, ReadTallies, CommitRetention, Reconcile, RetentionFails
    <3> QED
      BY <3>1
  <2> QED
    BY <2>1, <2>2
<1>4. cleaner' # cleaner
  OBVIOUS
<1>5. \A w \in Workers : ~Proceed(w) /\ ~CountFails(w)
  BY <1>4 DEF Proceed, CommitRow, DeferRow, Rollback, Count, CountFails
<1>6. \A w \in Workers, ip \in Ips, path \in Paths : ~ReadRow(w, ip, path)
  BY <1>4 DEF ReadRow
<1>7. \A ip \in Ips : ~Age(ip) /\ ~Preserve(ip) /\ ~Purge(ip)
  BY <1>4 DEF Age, Preserve, Purge
<1>8. \A t \in Cleaners \cup Pods : ~Recount(t) /\ ~TalliesUnread(t) /\ ~RecountFails(t)
  BY <1>4 DEF Recount, ReadCounts, ReadDeleted, SetCounters, SaveSummary, TalliesUnread, RecountFails
<1>9. \A f \in FlushThreads : ~ReadCounters(f) /\ ~StoreSnapshot(f) /\ ~FlushFails(f)
  BY <1>4 DEF ReadCounters, StoreSnapshot, FlushFails
<1>10. \A p \in Pods : ~Boot(p) /\ ~SnapshotUnread(p) /\ ~SeedFails(p)
  BY <1>4 DEF Boot, Start, SeedPaths, LoadSnapshot, FirstRecount, SnapshotUnread, SeedFails
<1>11. ~LeaseExpires /\ ~Wipe /\ ~(UNCHANGED countersVars)
  BY <1>4 DEF LeaseExpires, Wipe, countersVars
<1> QED
  BY <1>1, <1>2, <1>3, <1>5, <1>6, <1>7, <1>8, <1>9, <1>10, <1>11 DEF CountersNext

(* What a retention run deletes it tallies, exactly, with any number of pods   *)
(* whose runs overlap, as long as a run under way holds a row that no         *)
(* suspicious log takes out of the reach of the next (_bump_deleted_tally,    *)
(* src/src/database/retention.py).                                            *)
THEOREM DeletedIsTallied == CountersSpec /\ []StillBenign => RetentionKeepsTotals
<1>1. CountersInv /\ OneRun /\ StillBenign /\ [CountersNext]_countersVars => CountersInv' /\ OneRun'
  BY CountersInductive, OneRunInductive
<1>2. CountersInv /\ CountersInv' /\ OneRun /\ [CountersNext]_countersVars => [RunKeepsTotals]_countersVars
  BY TotalsKept
<1>3. RetentionKeepsTotals <=> [][RunKeepsTotals]_countersVars
  BY DEF RetentionKeepsTotals, RunKeepsTotals
<1> QED
  BY <1>1, <1>2, <1>3, CountersInitOK, OneRunInit, PTL DEF CountersSpec
=============================================================================
