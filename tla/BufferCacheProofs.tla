------------------------- MODULE BufferCacheProofs -------------------------
(***************************************************************************)
(* For any number of threads, buffers and blocks, when calls do not        *)
(* overlap: the lists agree, no head is lost, eviction takes the oldest    *)
(* and sync leaves nothing dirty.                                          *)
(***************************************************************************)
EXTENDS BufferCache, SequenceTheorems, Induction

-----------------------------------------------------------------------------
(* Sequences without repetition.                                           *)

\* The elements of a sequence after one is taken out: those before it stay, those
\* behind it move up.
LEMMA RemoveAtProps ==
  ASSUME NEW S, NEW s \in Seq(S), NEW k \in 1 .. Len(s)
  PROVE  /\ RemoveAt(s, k) \in Seq(S)
         /\ Len(RemoveAt(s, k)) = Len(s) - 1
         /\ \A i \in 1 .. Len(s) - 1 :
              RemoveAt(s, k)[i] = IF i < k THEN s[i] ELSE s[i + 1]
<1> DEFINE a == SubSeq(s, 1, k - 1)
           b == SubSeq(s, k + 1, Len(s))
<1>0. Len(s) \in Nat /\ k \in Int /\ 1 <= k /\ k <= Len(s)
  BY LenProperties
<1>1. /\ a \in Seq(S)
      /\ Len(a) = k - 1
      /\ \A i \in 1 .. k - 1 : a[i] = s[i]
  <2>1. \A i \in 1 .. k - 1 : s[i] \in S
    BY <1>0, ElementOfSeq
  <2>2. /\ a \in Seq(S)
        /\ Len(a) = IF 1 <= k - 1 THEN (k - 1) - 1 + 1 ELSE 0
        /\ \A i \in 1 .. (k - 1) - 1 + 1 : a[i] = s[1 + i - 1]
    BY <1>0, <2>1, SubSeqProperties
  <2> HIDE DEF a
  <2> QED
    BY <1>0, <2>2
<1>2. /\ b \in Seq(S)
      /\ Len(b) = Len(s) - k
      /\ \A i \in 1 .. Len(s) - k : b[i] = s[k + i]
  <2>1. \A i \in k + 1 .. Len(s) : s[i] \in S
    BY <1>0, ElementOfSeq
  <2>2. /\ b \in Seq(S)
        /\ Len(b) = IF k + 1 <= Len(s) THEN Len(s) - (k + 1) + 1 ELSE 0
        /\ \A i \in 1 .. Len(s) - (k + 1) + 1 : b[i] = s[(k + 1) + i - 1]
    BY <1>0, <2>1, SubSeqProperties
  <2> HIDE DEF b
  <2> QED
    BY <1>0, <2>2
<1> HIDE DEF a, b
<1>3. /\ a \o b \in Seq(S)
      /\ Len(a \o b) = Len(a) + Len(b)
      /\ \A i \in 1 .. Len(a) + Len(b) :
           (a \o b)[i] = IF i <= Len(a) THEN a[i] ELSE b[i - Len(a)]
  BY <1>1, <1>2, ConcatProperties
<1>4. RemoveAt(s, k) = a \o b
  BY DEF RemoveAt, a, b
<1>5. ASSUME NEW i \in 1 .. Len(s) - 1
      PROVE  (a \o b)[i] = IF i < k THEN s[i] ELSE s[i + 1]
  <2>1. CASE i < k
    BY <1>0, <1>1, <1>2, <1>3, <2>1
  <2>2. CASE ~(i < k)
    <3>1. i - Len(a) \in 1 .. Len(s) - k /\ k + (i - Len(a)) = i + 1
      BY <1>0, <1>1, <2>2
    <3>2. (a \o b)[i] = b[i - Len(a)]
      BY <1>0, <1>1, <1>2, <1>3, <2>2
    <3> QED
      BY <1>2, <2>2, <3>1, <3>2
  <2> QED
    BY <2>1, <2>2
<1> QED
  BY <1>0, <1>1, <1>2, <1>3, <1>4, <1>5

\* A sequence without repetition loses just the element that is taken out.
LEMMA RemoveAtSet ==
  ASSUME NEW S, NEW s \in Seq(S), NEW k \in 1 .. Len(s), IsInjective(s)
  PROVE  /\ IsInjective(RemoveAt(s, k))
         /\ Range(RemoveAt(s, k)) = Range(s) \ {s[k]}
<1> DEFINE r == RemoveAt(s, k)
<1>0. Len(s) \in Nat /\ DOMAIN s = 1 .. Len(s)
  BY LenProperties
<1>1. /\ r \in Seq(S)
      /\ Len(r) = Len(s) - 1
      /\ \A i \in 1 .. Len(s) - 1 : r[i] = IF i < k THEN s[i] ELSE s[i + 1]
  BY RemoveAtProps
<1>2. DOMAIN r = 1 .. Len(s) - 1
  BY <1>1, LenProperties
<1> HIDE DEF r
<1>3. IsInjective(r)
  <2> SUFFICES ASSUME NEW i \in 1 .. Len(s) - 1, NEW j \in 1 .. Len(s) - 1,
                      r[i] = r[j]
               PROVE  i = j
    BY <1>2 DEF IsInjective
  <2>1. \A x, y \in 1 .. Len(s) : s[x] = s[y] => x = y
    BY <1>0 DEF IsInjective
  <2> QED
    BY <1>0, <1>1, <2>1
<1>4. Range(s) = {s[i] : i \in 1 .. Len(s)}
  BY <1>0 DEF Range
<1>5. Range(r) = {r[i] : i \in 1 .. Len(s) - 1}
  BY <1>2 DEF Range
<1>6. ASSUME NEW i \in 1 .. Len(s) - 1 PROVE r[i] \in Range(s) \ {s[k]}
  <2>1. \A x, y \in 1 .. Len(s) : s[x] = s[y] => x = y
    BY <1>0 DEF IsInjective
  <2>2. r[i] = IF i < k THEN s[i] ELSE s[i + 1]
    BY <1>1
  <2>3. i \in 1 .. Len(s) /\ i + 1 \in 1 .. Len(s)
    BY <1>0
  <2> QED
    BY <1>0, <1>4, <2>1, <2>2, <2>3
<1>7. ASSUME NEW i \in 1 .. Len(s), i # k PROVE s[i] \in Range(r)
  <2>1. CASE i < k
    <3>1. i \in 1 .. Len(s) - 1 /\ r[i] = s[i]
      BY <1>0, <1>1, <2>1
    <3> QED
      BY <1>5, <3>1
  <2>2. CASE ~(i < k)
    <3>1. i - 1 \in 1 .. Len(s) - 1 /\ ~(i - 1 < k) /\ (i - 1) + 1 = i
      BY <1>0, <1>7, <2>2
    <3>2. r[i - 1] = s[i]
      BY <1>1, <3>1
    <3> QED
      BY <1>5, <3>1, <3>2
  <2> QED
    BY <2>1, <2>2
<1>8. Range(r) \subseteq Range(s) \ {s[k]}
  BY <1>5, <1>6
<1>9. Range(s) \ {s[k]} \subseteq Range(r)
  BY <1>4, <1>7
<1> QED
  BY <1>3, <1>8, <1>9 DEF r

\* The elements of a sequence after one is put in front.
LEMMA PushProps ==
  ASSUME NEW S, NEW s \in Seq(S), NEW b \in S
  PROVE  /\ <<b>> \o s \in Seq(S)
         /\ Len(<<b>> \o s) = Len(s) + 1
         /\ \A i \in 1 .. Len(s) + 1 :
              (<<b>> \o s)[i] = IF i = 1 THEN b ELSE s[i - 1]
         /\ Range(<<b>> \o s) = Range(s) \cup {b}
         /\ IsInjective(s) /\ b \notin Range(s) => IsInjective(<<b>> \o s)
<1> DEFINE r == <<b>> \o s
<1>0. Len(s) \in Nat /\ DOMAIN s = 1 .. Len(s)
  BY LenProperties
<1>1. <<b>> \in Seq(S) /\ Len(<<b>>) = 1 /\ <<b>>[1] = b
  OBVIOUS
<1>2. /\ r \in Seq(S)
      /\ Len(r) = 1 + Len(s)
      /\ \A i \in 1 .. 1 + Len(s) : r[i] = IF i <= 1 THEN <<b>>[i] ELSE s[i - 1]
  BY <1>1, ConcatProperties
<1> HIDE DEF r
<1>3. \A i \in 1 .. Len(s) + 1 : r[i] = IF i = 1 THEN b ELSE s[i - 1]
  BY <1>0, <1>1, <1>2
<1>4. DOMAIN r = 1 .. Len(s) + 1 /\ Len(r) = Len(s) + 1
  BY <1>0, <1>2, LenProperties
<1>5. Range(r) = Range(s) \cup {b}
  <2>1. Range(r) = {r[i] : i \in 1 .. Len(s) + 1}
    BY <1>4 DEF Range
  <2>2. Range(s) = {s[i] : i \in 1 .. Len(s)}
    BY <1>0 DEF Range
  <2>3. ASSUME NEW i \in 1 .. Len(s) + 1 PROVE r[i] \in Range(s) \cup {b}
    BY <1>0, <1>3, <2>2
  <2>4. ASSUME NEW i \in 1 .. Len(s) PROVE s[i] \in Range(r)
    <3>1. i + 1 \in 1 .. Len(s) + 1 /\ i + 1 # 1 /\ (i + 1) - 1 = i
      BY <1>0
    <3>2. r[i + 1] = s[i]
      BY <1>3, <3>1
    <3> QED
      BY <2>1, <3>1, <3>2
  <2>5. b \in Range(r)
    <3>1. 1 \in 1 .. Len(s) + 1
      BY <1>0
    <3> QED
      BY <1>3, <2>1, <3>1
  <2> QED
    BY <2>1, <2>2, <2>3, <2>4, <2>5
<1>6. ASSUME IsInjective(s), b \notin Range(s) PROVE IsInjective(r)
  <2>1. \A x \in 1 .. Len(s) : s[x] # b
    BY <1>0, <1>6 DEF Range
  <2>2. \A x, y \in 1 .. Len(s) : s[x] = s[y] => x = y
    BY <1>0, <1>6 DEF IsInjective
  <2> SUFFICES ASSUME NEW i \in 1 .. Len(s) + 1, NEW j \in 1 .. Len(s) + 1,
                      r[i] = r[j]
               PROVE  i = j
    BY <1>4 DEF IsInjective
  <2>3. CASE i = 1 \/ j = 1
    BY <1>0, <1>3, <2>1, <2>3
  <2>4. CASE i # 1 /\ j # 1
    <3>1. i - 1 \in 1 .. Len(s) /\ j - 1 \in 1 .. Len(s)
      BY <1>0, <2>4
    <3>2. s[i - 1] = s[j - 1]
      BY <1>3, <2>4
    <3>3. i - 1 = j - 1
      BY <2>2, <3>1, <3>2
    <3> QED
      BY <1>0, <3>3
  <2> QED
    BY <2>3, <2>4
<1> QED
  BY <1>2, <1>3, <1>4, <1>5, <1>6 DEF r

-----------------------------------------------------------------------------
(* The doubly linked lists.                                                *)

Ptr == Buf \cup {NULL}

\* The list routines keep a list's pointers in range.
LEMMA ListTypes ==
  ASSUME NEW l \in ListOf(Ptr), NEW b \in Buf
  PROVE  /\ PushFront(l, b) \in ListOf(Ptr)
         /\ Unlink(l, b) \in ListOf(Ptr)
         /\ Clear(l, b) \in ListOf(Ptr)
BY DEF ListOf, Ptr, PushFront, Unlink, Clear

\* A buffer that is not in the list goes to its front.
LEMMA PushChain ==
  ASSUME NEW l \in ListOf(Ptr), NEW s \in Seq(Buf), IsChain(l, s),
         NEW b \in Buf, b \notin Range(s)
  PROVE  IsChain(PushFront(l, b), <<b>> \o s)
<1> DEFINE r == <<b>> \o s
           q == PushFront(l, b)
           n == Len(s)
<1>0. n \in Nat /\ DOMAIN s = 1 .. n /\ \A i \in 1 .. n : s[i] \in Buf
  BY LenProperties, ElementOfSeq
<1>1. /\ Len(r) = n + 1
      /\ \A i \in 1 .. n + 1 : r[i] = IF i = 1 THEN b ELSE s[i - 1]
  BY PushProps
<1> HIDE DEF r
<1>2. \A i \in 1 .. n : s[i] # b
  BY <1>0 DEF Range
<1>3. /\ q.head = b
      /\ q.tail = IF l.head = NULL THEN b ELSE l.tail
      /\ \A x \in Buf : q.next[x] = IF x = b THEN l.head ELSE l.next[x]
      /\ \A x \in Buf : q.prev[x] = IF x = l.head THEN b
                                    ELSE IF x = b THEN NULL ELSE l.prev[x]
  BY DEF PushFront, ListOf
<1> HIDE DEF q
<1>4. /\ l.head = IF n = 0 THEN NULL ELSE s[1]
      /\ l.tail = IF n = 0 THEN NULL ELSE s[n]
      /\ \A k \in 1 .. n :
           /\ l.next[s[k]] = IF k = n THEN NULL ELSE s[k + 1]
           /\ l.prev[s[k]] = IF k = 1 THEN NULL ELSE s[k - 1]
  BY DEF IsChain
<1> HIDE DEF n
<1>5. r[1] = b
  BY <1>0, <1>1
<1>6. q.tail = r[n + 1]
  <2>1. CASE n = 0
    BY <1>0, <1>1, <1>3, <1>4, <2>1
  <2>2. CASE n # 0
    <3>1. l.head \in Buf
      BY <1>0, <1>4, <2>2
    <3> QED
      BY <1>0, <1>1, <1>3, <1>4, <2>2, <3>1, BufferCacheAssumption
  <2> QED
    BY <2>1, <2>2
<1>7. ASSUME NEW k \in 1 .. n + 1
      PROVE  /\ q.next[r[k]] = IF k = n + 1 THEN NULL ELSE r[k + 1]
             /\ q.prev[r[k]] = IF k = 1 THEN NULL ELSE r[k - 1]
  <2>1. CASE k = 1
    <3>1. q.next[b] = l.head
      BY <1>3
    <3>2. l.head = IF n = 0 THEN NULL ELSE r[2]
      BY <1>0, <1>1, <1>4
    <3>3. b # l.head
      BY <1>0, <1>2, <1>4, BufferCacheAssumption
    <3>4. q.prev[b] = NULL
      BY <1>3, <3>3
    <3> QED
      BY <1>0, <1>5, <2>1, <3>1, <3>2, <3>4
  <2>2. CASE k # 1
    <3> DEFINE j == k - 1
    <3>1. j \in 1 .. n /\ k = j + 1 /\ (k = n + 1 <=> j = n)
      BY <1>0, <2>2
    <3>2. r[k] = s[j] /\ s[j] \in Buf /\ s[j] # b
      BY <1>0, <1>1, <1>2, <2>2, <3>1
    <3>3. q.next[s[j]] = l.next[s[j]]
      BY <1>3, <3>2
    <3>4. j # n => r[k + 1] = s[j + 1]
      BY <1>0, <1>1, <3>1
    <3>5. q.next[r[k]] = IF k = n + 1 THEN NULL ELSE r[k + 1]
      BY <1>4, <3>1, <3>2, <3>3, <3>4
    <3>6. CASE j = 1
      <4>1. s[j] = l.head /\ r[k - 1] = b
        BY <1>0, <1>4, <1>5, <3>1, <3>6
      <4> QED
        BY <1>3, <2>2, <3>2, <3>5, <4>1
    <3>7. CASE j # 1
      <4>1. j - 1 \in 1 .. n /\ r[k - 1] = s[j - 1]
        BY <1>0, <1>1, <3>1, <3>7
      <4>2. l.prev[s[j]] = s[j - 1]
        BY <1>4, <3>1, <3>7
      <4>3. s[j] # l.head
        <5>1. s[j - 1] # NULL
          BY <1>0, <4>1, BufferCacheAssumption
        <5>2. l.prev[s[1]] = NULL
          BY <1>0, <1>4, <3>1
        <5> QED
          BY <1>0, <1>4, <3>1, <4>2, <5>1, <5>2
      <4> QED
        BY <1>3, <2>2, <3>2, <3>5, <4>1, <4>2, <4>3
    <3> QED
      BY <3>6, <3>7
  <2> QED
    BY <2>1, <2>2
<1>8. q.head = r[1] /\ n + 1 # 0
  BY <1>0, <1>3, <1>5
<1> QED
  BY <1>0, <1>1, <1>6, <1>7, <1>8 DEF IsChain, r, q, n

\* A buffer of the list is cut out.
LEMMA CutChain ==
  ASSUME NEW l \in ListOf(Ptr), NEW s \in Seq(Buf), IsChain(l, s),
         IsInjective(s), NEW k \in 1 .. Len(s)
  PROVE  IsChain(Unlink(l, s[k]), RemoveAt(s, k))
<1> DEFINE r == RemoveAt(s, k)
           q == Unlink(l, s[k])
           n == Len(s)
           pre == IF k = 1 THEN NULL ELSE s[k - 1]
           nxt == IF k = n THEN NULL ELSE s[k + 1]
<1>0. /\ n \in Nat /\ n # 0 /\ \A i \in 1 .. n : s[i] \in Buf /\ s[i] # NULL
      /\ k \in Int /\ 1 <= k /\ k <= n
  BY LenProperties, ElementOfSeq, BufferCacheAssumption
<1>1. /\ Len(r) = n - 1
      /\ \A i \in 1 .. n - 1 : r[i] = IF i < k THEN s[i] ELSE s[i + 1]
  BY RemoveAtProps
<1> HIDE DEF r
<1>2. \A x, y \in 1 .. n : s[x] = s[y] => x = y
  BY LenProperties DEF IsInjective
<1>4. /\ l.head = s[1]
      /\ l.tail = s[n]
      /\ \A i \in 1 .. n :
           /\ l.next[s[i]] = IF i = n THEN NULL ELSE s[i + 1]
           /\ l.prev[s[i]] = IF i = 1 THEN NULL ELSE s[i - 1]
  BY <1>0 DEF IsChain
<1>5. l.prev[s[k]] = pre /\ l.next[s[k]] = nxt
  BY <1>0, <1>4
<1>3. /\ q.head = IF pre = NULL THEN nxt ELSE l.head
      /\ q.tail = IF nxt = NULL THEN pre ELSE l.tail
      /\ \A x \in Buf : q.next[x] = IF x = pre THEN nxt ELSE l.next[x]
      /\ \A x \in Buf : q.prev[x] = IF x = nxt THEN pre ELSE l.prev[x]
  BY <1>5 DEF Unlink
<1>6. (pre = NULL <=> k = 1) /\ (nxt = NULL <=> k = n)
  BY <1>0
<1> HIDE DEF q
<1> HIDE DEF n
<1>7. q.head = IF n - 1 = 0 THEN NULL ELSE r[1]
  <2>1. CASE k = 1
    BY <1>0, <1>1, <1>3, <1>6, <2>1
  <2>2. CASE k # 1
    BY <1>0, <1>1, <1>3, <1>4, <1>6, <2>2
  <2> QED
    BY <2>1, <2>2
<1>8. q.tail = IF n - 1 = 0 THEN NULL ELSE r[n - 1]
  <2>1. CASE k = n
    BY <1>0, <1>1, <1>3, <1>6, <2>1
  <2>2. CASE k # n
    BY <1>0, <1>1, <1>3, <1>4, <1>6, <2>2
  <2> QED
    BY <2>1, <2>2
<1>9. ASSUME NEW i \in 1 .. n - 1
      PROVE  /\ q.next[r[i]] = IF i = n - 1 THEN NULL ELSE r[i + 1]
             /\ q.prev[r[i]] = IF i = 1 THEN NULL ELSE r[i - 1]
  <2> DEFINE j == IF i < k THEN i ELSE i + 1
  <2>1. j \in 1 .. n /\ j # k /\ r[i] = s[j] /\ s[j] \in Buf
    BY <1>0, <1>1
  <2>2. s[j] = pre <=> j = k - 1
    BY <1>0, <1>2, <2>1
  <2>3. s[j] = nxt <=> j = k + 1
    BY <1>0, <1>2, <2>1
  <2>4. q.next[s[j]] = IF j = k - 1 THEN nxt ELSE IF j = n THEN NULL ELSE s[j + 1]
    <3>1. q.next[s[j]] = IF s[j] = pre THEN nxt ELSE l.next[s[j]]
      BY <1>3, <2>1
    <3>2. l.next[s[j]] = IF j = n THEN NULL ELSE s[j + 1]
      BY <1>4, <2>1
    <3> QED
      BY <2>2, <3>1, <3>2
  <2>5. q.prev[s[j]] = IF j = k + 1 THEN pre ELSE IF j = 1 THEN NULL ELSE s[j - 1]
    <3>1. q.prev[s[j]] = IF s[j] = nxt THEN pre ELSE l.prev[s[j]]
      BY <1>3, <2>1
    <3>2. l.prev[s[j]] = IF j = 1 THEN NULL ELSE s[j - 1]
      BY <1>4, <2>1
    <3> QED
      BY <2>3, <3>1, <3>2
  <2>6. i # n - 1 => r[i + 1] = IF i + 1 < k THEN s[i + 1] ELSE s[i + 2]
    BY <1>0, <1>1
  <2>7. i # 1 => r[i - 1] = IF i - 1 < k THEN s[i - 1] ELSE s[i]
    BY <1>0, <1>1
  <2>8. q.next[s[j]] = IF i = n - 1 THEN NULL ELSE r[i + 1]
    BY <1>0, <2>4, <2>6
  <2>9. q.prev[s[j]] = IF i = 1 THEN NULL ELSE r[i - 1]
    BY <1>0, <2>5, <2>7
  <2> QED
    BY <2>1, <2>8, <2>9
<1> QED
  BY <1>1, <1>7, <1>8, <1>9 DEF IsChain, r, q, n

\* The pointers of a buffer that is not in the list do not matter.
LEMMA ClearChain ==
  ASSUME NEW l \in ListOf(Ptr), NEW s \in Seq(Buf), IsChain(l, s),
         NEW b \in Buf, b \notin Range(s)
  PROVE  IsChain(Clear(l, b), s)
<1>0. Len(s) \in Nat /\ DOMAIN s = 1 .. Len(s) /\ \A i \in 1 .. Len(s) : s[i] \in Buf
  BY LenProperties, ElementOfSeq
<1>1. \A i \in 1 .. Len(s) : s[i] # b
  BY <1>0 DEF Range
<1>2. /\ Clear(l, b).head = l.head /\ Clear(l, b).tail = l.tail
      /\ \A x \in Buf \ {b} : /\ Clear(l, b).next[x] = l.next[x]
                              /\ Clear(l, b).prev[x] = l.prev[x]
  BY DEF Clear, ListOf
<1> QED
  BY <1>0, <1>1, <1>2 DEF IsChain

\* A walk along a list that agrees meets its buffers and no others.
LEMMA ReachedChain ==
  ASSUME NEW l \in ListOf(Ptr), NEW s \in Seq(Buf), IsChain(l, s)
  PROVE  Reached(l) = Range(s)
<1> DEFINE n == Len(s)
<1>0. /\ n \in Nat /\ DOMAIN s = 1 .. n
      /\ \A i \in 1 .. n : s[i] \in Buf /\ s[i] # NULL
  BY LenProperties, ElementOfSeq, BufferCacheAssumption
<1>1. Range(s) = {s[i] : i \in 1 .. n} /\ Range(s) \subseteq Buf
  BY <1>0 DEF Range
<1>2. /\ l.head = IF n = 0 THEN NULL ELSE s[1]
      /\ \A i \in 1 .. n : l.next[s[i]] = IF i = n THEN NULL ELSE s[i + 1]
  BY DEF IsChain
<1> HIDE DEF n
<1>3. Reached(l) \subseteq Range(s)
  <2>1. l.head \in Range(s) \cup {NULL}
    BY <1>0, <1>1, <1>2
  <2>2. \A x \in Range(s) : l.next[x] \in Range(s) \cup {NULL}
    BY <1>0, <1>1, <1>2
  <2> QED
    BY <1>1, <2>1, <2>2 DEF Reached
<1>4. ASSUME NEW S \in SUBSET Buf, l.head \in S \cup {NULL},
             \A x \in S : l.next[x] \in S \cup {NULL}
      PROVE  Range(s) \subseteq S
  <2> DEFINE T == {i \in 1 .. n : s[i] \notin S}
  <2>1. SUFFICES ASSUME T # {} PROVE FALSE
    BY <1>1, <2>1
  <2>2. T \in SUBSET Nat
    BY <1>0
  <2>3. PICK m \in T : \A i \in T : m <= i
    BY <2>1, <2>2, LeastNat
  <2>4. \A i \in T : ~(i < m)
    BY <1>0, <2>3
  <2>5. m # 1
    BY <1>0, <1>2, <1>4
  <2>6. m - 1 \in 1 .. n /\ m - 1 < m /\ m - 1 # n
    BY <1>0, <2>5
  <2>7. s[m - 1] \in S
    BY <2>4, <2>6
  <2>8. l.next[s[m - 1]] = s[m]
    BY <1>0, <1>2, <2>6
  <2> QED
    BY <1>0, <1>4, <2>7, <2>8
<1>5. Range(s) \subseteq Reached(l)
  BY <1>1, <1>4 DEF Reached
<1> QED
  BY <1>3, <1>5

\* What a sequence without repetition says about a list, as the runs state it.
LEMMA LinkedChain ==
  ASSUME NEW l, NEW s \in Seq(Buf), IsInjective(s), IsChain(l, s)
  PROVE  Linked(l, Range(s))
<1> DEFINE S == Range(s)
<1>0. Len(s) \in Nat /\ s \in [1 .. Len(s) -> Buf] /\ DOMAIN s = 1 .. Len(s)
  BY LenProperties
<1>1. s \in [1 .. Len(s) -> S] /\ \A b \in S : \E i \in 1 .. Len(s) : s[i] = b
  BY <1>0 DEF Range
<1>2. s \in Bijection(1 .. Len(s), S)
  BY <1>1 DEF Bijection, Injection, Surjection
<1>3. Cardinality(S) = Len(s)
  BY <1>0, <1>2, FS_CountingElements DEF ExistsBijection
<1>4. \A i, j \in 1 .. Len(s) : i # j => s[i] # s[j]
  BY <1>0 DEF IsInjective
<1>5. s \in SetToSeqs(S)
  BY <1>1, <1>3, <1>4 DEF SetToSeqs
<1> QED
  BY <1>5 DEF Linked

-----------------------------------------------------------------------------
(* The inductive invariant.                                                *)

Cached == Range(used)

\* Calls do not overlap.
Serial == \A t, u \in Thread : pc[t] # "idle" /\ pc[u] # "idle" => t = u

\* The buffers a call works on at one of the places P.
WorkedOn(P) == {bh[t] : t \in {u \in Thread : pc[u] \in P}}

\* Between its two insertions, or removals, a buffer is in one list only.
Hashed == (Cached \ WorkedOn({"unlru"})) \cup WorkedOn({"add"})

\* Allocated heads that no list has: a call is about to insert or free them.
Private == WorkedOn({"data", "insert", "add", "free"})

Dirty == {b \in Buf : "dirty" \in flags[b]}

\* The list l has the buffers S, in the order of s.
Chain(l, s, S) ==
  s \in Seq(Buf) /\ IsInjective(s) /\ IsChain(l, s) /\ Range(s) = S

Nth(s, j) == IF j \in DOMAIN s THEN s[j] ELSE NULL

LruInv  == Chain(lru, used, Cached)
HashInv == \E s \in Seq(Buf) : Chain(hash, s, Hashed)

\* A walk of sync that is at place j of the dirty list has left no buffer of
\* its device behind.
Synced(t, s, j) ==
  \A i \in 1 .. j - 1 : ~Matches(arg[t], s[i])

SyncAt(t, s) ==
  /\ pc[t] = "sync" =>
       /\ arg[t] # NULL
       /\ \E j \in 1 .. Len(s) + 1 : Synced(t, s, j) /\ bh[t] = Nth(s, j)
  /\ pc[t] = "write" /\ arg[t] # NULL =>
       \E j \in 1 .. Len(s) :
         Synced(t, s, j) /\ bh[t] = s[j] /\ saved[t] = Nth(s, j + 1)
  /\ pc[t] = "written" /\ arg[t] # NULL =>
       \E j \in 1 .. Len(s) + 1 : Synced(t, s, j) /\ saved[t] = Nth(s, j)

DirtyInv == \E s \in Seq(Buf) :
              Chain(dirty, s, Dirty) /\ \A t \in Thread : SyncAt(t, s)

FlagsInv ==
  /\ Dirty \subseteq Cached
  /\ \A b \in Buf : "locked" \in flags[b] =>
       \E t \in Thread : \/ pc[t] \in {"write", "written"} /\ bh[t] = b
                         \/ pc[t] = "reading" /\ held[t] = b

Holders(b) == {t \in Thread : held[t] = b}

\* The reference count is the number of holders.
RefInv ==
  /\ \A t \in Thread : held[t] # NULL => held[t] \in Cached
  /\ \A b \in Cached : IsFiniteSet(Holders(b)) /\ ref[b] = Cardinality(Holders(b))

HeapInv ==
  /\ heap = Cached \cup Private \cup ({spare} \ {NULL})
  /\ Cached \cap Private = {} /\ spare \notin Cached \cup Private
  /\ spare # NULL => id[spare] = NULL

IdInv ==
  /\ \A b \in Cached : id[b] # NULL
  /\ \A b, c \in Cached : id[b] = id[c] => b = c

\* What lies behind place j of the LRU list an eviction may not take.
Spared(j) == \A k \in j + 1 .. Len(used) : ~Evictable(used[k])

Getting == {"alloc", "data", "insert", "add", "evict", "unhash", "unlru", "free"}

\* What a call knows at each place.
CallInv(t) ==
  /\ pc[t] \in {"idle", "reading"} => arg[t] = NULL
  /\ pc[t] \in Getting =>
       /\ held[t] = NULL /\ arg[t] \in Block
       /\ \A b \in Cached : id[b] # arg[t]
  /\ pc[t] \in {"data", "insert", "add"} =>
       bh[t] \in Buf /\ ref[bh[t]] = 1
  /\ pc[t] \in {"insert", "add"} => id[bh[t]] = arg[t]
  /\ pc[t] = "evict" => \E j \in 0 .. Len(used) : Spared(j) /\ bh[t] = Nth(used, j)
  /\ pc[t] \in {"unhash", "unlru"} =>
       /\ Evictable(bh[t])
       /\ \E j \in 1 .. Len(used) :
            Spared(j) /\ bh[t] = used[j] /\ saved[t] = Nth(used, j - 1)
  /\ pc[t] = "free" =>
       bh[t] \in Buf /\ \E j \in 0 .. Len(used) : Spared(j) /\ saved[t] = Nth(used, j)
  /\ pc[t] \in {"unhash", "unlru", "free"} => evicted[t] < EvictMax
  /\ pc[t] = "reading" => held[t] # NULL
  /\ pc[t] \in {"write", "written"} => bh[t] \in Cached

IInv ==
  /\ TypeOK /\ Serial
  /\ LruInv /\ HashInv /\ DirtyInv /\ FlagsInv
  /\ RefInv /\ HeapInv /\ IdInv
  /\ \A t \in Thread : CallInv(t)

-----------------------------------------------------------------------------
(* What the operations on a list do to its members.                        *)

\* A buffer of the list has a place in its sequence.
LEMMA ChainPlace ==
  ASSUME NEW l, NEW s, NEW S, Chain(l, s, S)
  PROVE  /\ Len(s) \in Nat /\ DOMAIN s = 1 .. Len(s)
         /\ \A k \in 1 .. Len(s) : s[k] \in S /\ s[k] \in Buf /\ s[k] # NULL
         /\ \A b \in S : \E k \in 1 .. Len(s) : s[k] = b
         /\ \A j, k \in 1 .. Len(s) : s[j] = s[k] => j = k
         /\ S \subseteq Buf
<1>1. Len(s) \in Nat /\ DOMAIN s = 1 .. Len(s)
  BY LenProperties DEF Chain
<1>2. \A k \in 1 .. Len(s) : s[k] \in Buf
  BY ElementOfSeq DEF Chain
<1>3. S = {s[k] : k \in 1 .. Len(s)}
  BY <1>1 DEF Chain, Range
<1>4. \A j, k \in 1 .. Len(s) : s[j] = s[k] => j = k
  BY <1>1 DEF Chain, IsInjective
<1> QED
  BY <1>1, <1>2, <1>3, <1>4, BufferCacheAssumption

\* buffer_lru_add, the insertion into the hash chain and buffer_dirty_add put a
\* buffer in front of a list.
LEMMA ChainPush ==
  ASSUME NEW l \in ListOf(Ptr), NEW s, NEW S, Chain(l, s, S),
         NEW b \in Buf, b \notin S
  PROVE  Chain(PushFront(l, b), <<b>> \o s, S \cup {b})
<1> USE DEF Chain
<1>1. IsChain(PushFront(l, b), <<b>> \o s)
  BY PushChain
<1> QED
  BY <1>1, PushProps

\* The unlinking in buffer_lru_remove, buffer_evict_lru and buffer_dirty_remove.
LEMMA ChainCut ==
  ASSUME NEW l \in ListOf(Ptr), NEW s, NEW S, Chain(l, s, S),
         NEW k \in 1 .. Len(s)
  PROVE  /\ Chain(Unlink(l, s[k]), RemoveAt(s, k), S \ {s[k]})
         /\ Chain(Delete(l, s[k]), RemoveAt(s, k), S \ {s[k]})
         /\ Delete(l, s[k]) \in ListOf(Ptr) /\ Unlink(l, s[k]) \in ListOf(Ptr)
<1> USE DEF Chain
<1>1. RemoveAt(s, k) \in Seq(Buf)
  BY RemoveAtProps
<1>2. IsInjective(RemoveAt(s, k)) /\ Range(RemoveAt(s, k)) = S \ {s[k]}
  BY RemoveAtSet
<1>3. IsChain(Unlink(l, s[k]), RemoveAt(s, k))
  BY CutChain
<1>4. s[k] \in Buf
  BY ElementOfSeq
<1>5. Unlink(l, s[k]) \in ListOf(Ptr)
  BY <1>4, ListTypes
<1>6. Delete(l, s[k]) \in ListOf(Ptr)
  BY <1>4, <1>5, ListTypes DEF Delete
<1>7. IsChain(Delete(l, s[k]), RemoveAt(s, k))
  BY <1>1, <1>2, <1>3, <1>4, <1>5, ClearChain DEF Delete
<1> QED
  BY <1>1, <1>2, <1>3, <1>5, <1>6, <1>7

\* Resetting the pointers of an unlinked buffer leaves the list as it was.
LEMMA ChainClear ==
  ASSUME NEW l \in ListOf(Ptr), NEW s, NEW S, Chain(l, s, S),
         NEW b \in Buf, b \notin S
  PROVE  Chain(Clear(l, b), s, S)
BY ClearChain DEF Chain

\* The history: what is left without one of the cached buffers.
LEMMA WithoutCached ==
  ASSUME LruInv, NEW k \in 1 .. Len(used)
  PROVE  Without(used[k]) = RemoveAt(used, k)
<1>1. DOMAIN used = 1 .. Len(used)
  BY ChainPlace DEF LruInv
<1>2. {j \in DOMAIN used : used[j] = used[k]} = {k}
  BY <1>1, ChainPlace DEF LruInv
<1>3. (CHOOSE j \in {k} : TRUE) = k
  OBVIOUS
<1> QED
  BY <1>2, <1>3 DEF Without

\* buffer_lru_touch and the order of use agree.
LEMMA TouchCached ==
  ASSUME LruInv, lru \in ListOf(Ptr), NEW b \in Cached,
         Touch(b), used' = <<b>> \o Without(b)
  PROVE  LruInv' /\ Cached' = Cached /\ lru' \in ListOf(Ptr) /\ used' \in Seq(Buf)
<1>1. PICK k \in 1 .. Len(used) : used[k] = b
  BY ChainPlace DEF LruInv
<1>2. Without(b) = RemoveAt(used, k)
  BY <1>1, WithoutCached
<1> DEFINE l == Delete(lru, b)
           r == RemoveAt(used, k)
<1>3. l \in ListOf(Ptr) /\ Chain(l, r, Cached \ {b})
  BY <1>1, ChainCut DEF LruInv
<1>4. b \in Buf
  BY ChainPlace DEF LruInv
<1> HIDE DEF l, r
<1>5. Chain(PushFront(l, b), <<b>> \o r, (Cached \ {b}) \cup {b})
  BY <1>3, <1>4, ChainPush
<1>6. (Cached \ {b}) \cup {b} = Cached
  OBVIOUS
<1>7. lru' = PushFront(l, b) /\ used' = <<b>> \o r
  BY <1>2 DEF Touch, l, r
<1>8. Chain(lru', used', Cached)
  BY <1>5, <1>6, <1>7
<1>9. Cached' = Cached
  BY <1>8 DEF Cached, Chain
<1> QED
  BY <1>3, <1>4, <1>7, <1>8, <1>9, ListTypes DEF LruInv, Chain

-----------------------------------------------------------------------------
(* One call at a time.                                                     *)

Solo(t) == \A u \in Thread \ {t} : pc[u] = "idle"

HashedOf(t) == IF pc[t] = "unlru" THEN Cached \ {bh[t]}
               ELSE IF pc[t] = "add" THEN Cached \cup {bh[t]} ELSE Cached

PrivateOf(t) == IF pc[t] \in {"data", "insert", "add", "free"} THEN {bh[t]} ELSE {}

\* The buffers being worked on are those of the one thread in a call.
LEMMA WorkedOnAlone ==
  ASSUME NEW q, NEW h, NEW t \in Thread, \A u \in Thread \ {t} : q[u] = "idle",
         NEW P, "idle" \notin P
  PROVE  {h[u] : u \in {v \in Thread : q[v] \in P}} =
           IF q[t] \in P THEN {h[t]} ELSE {}
OBVIOUS

\* Before and after a step of the one thread in a call, the buffers in a
\* half-done state are that thread's.
LEMMA Alone ==
  ASSUME NEW t \in Thread, Solo(t), Solo(t)'
  PROVE  /\ Hashed = HashedOf(t) /\ Private = PrivateOf(t)
         /\ Hashed' = HashedOf(t)' /\ Private' = PrivateOf(t)'
<1> USE DEF Solo
<1>1. ASSUME NEW P, "idle" \notin P
      PROVE  /\ WorkedOn(P) = IF pc[t] \in P THEN {bh[t]} ELSE {}
             /\ WorkedOn(P)' = IF pc'[t] \in P' THEN {bh'[t]} ELSE {}
  BY <1>1, WorkedOnAlone DEF WorkedOn
<1> QED
  BY <1>1 DEF Hashed, HashedOf, Private, PrivateOf

\* The thread that takes a step is the only one in a call.
LEMMA StepsAlone ==
  ASSUME TypeOK, Serial, ~Overlap, NEW t \in Thread, MayCall(t) \/ pc[t] # "idle",
         NEW x, pc' = pc \/ pc' = [pc EXCEPT ![t] = x]
  PROVE  Solo(t) /\ Solo(t)' /\ Serial'
BY DEF TypeOK, Serial, MayCall, Solo

-----------------------------------------------------------------------------
(* What a step leaves alone keeps its part of the invariant.               *)

\* A step that leaves the LRU list and the order of use alone.
LEMMA KeepLru ==
  ASSUME LruInv, lru' = lru, used' = used
  PROVE  LruInv' /\ Cached' = Cached
BY DEF LruInv, Cached

\* A step that leaves the hash chain and its members alone.
LEMMA KeepHash ==
  ASSUME HashInv, hash' = hash, Hashed' = Hashed
  PROVE  HashInv'
BY DEF HashInv

\* No sync is under way after the step.
LEMMA KeepDirty ==
  ASSUME DirtyInv, dirty' = dirty, Dirty' = Dirty,
         \A u \in Thread : /\ pc'[u] # "sync"
                           /\ pc'[u] \in {"write", "written"} => arg'[u] = NULL
  PROVE  DirtyInv'
<1>1. PICK s \in Seq(Buf) : Chain(dirty, s, Dirty)
  BY DEF DirtyInv
<1>2. \A u \in Thread : SyncAt(u, s)'
  BY DEF SyncAt
<1>3. Chain(dirty', s, Dirty')
  BY <1>1
<1> QED
  BY <1>2, <1>3 DEF DirtyInv

\* A step that leaves the reference counts and the holders alone.
LEMMA KeepRefs ==
  ASSUME RefInv, held' = held, ref' = ref, Cached' = Cached
  PROVE  RefInv'
BY DEF RefInv, Holders

\* A step that leaves the identities of the cached buffers alone.
LEMMA KeepIds ==
  ASSUME IdInv, Cached' = Cached, \A b \in Cached : id'[b] = id[b]
  PROVE  IdInv'
BY DEF IdInv

\* Only a read or a write under way has locked a buffer.
LEMMA Unlocked ==
  ASSUME FlagsInv, NEW t \in Thread, Solo(t),
         pc[t] \notin {"write", "written", "reading"}
  PROVE  \A b \in Buf : "locked" \notin flags[b]
BY DEF FlagsInv, Solo

\* A step of a thread that has no buffer locked: flags stay or are cleared.
LEMMA KeepFlags ==
  ASSUME FlagsInv, NEW t \in Thread, Solo(t), Dirty' \subseteq Cached',
         pc[t] \notin {"write", "written", "reading"},
         \A b \in Buf : flags'[b] = flags[b] \/ flags'[b] = {}
  PROVE  FlagsInv'
<1>1. \A b \in Buf : "locked" \notin flags[b]
  BY Unlocked
<1> QED
  BY <1>1 DEF FlagsInv

\* What a call has done so far concerns its own thread only.
LEMMA KeepCalls ==
  ASSUME NEW t \in Thread, \A u \in Thread : CallInv(u), Solo(t), Solo(t)',
         \A u \in Thread \ {t} : arg'[u] = arg[u],
         CallInv(t)'
  PROVE  \A u \in Thread : CallInv(u)'
<1> SUFFICES ASSUME NEW u \in Thread, u # t PROVE CallInv(u)'
  OBVIOUS
<1>1. pc[u] = "idle" /\ pc'[u] = "idle" /\ arg'[u] = arg[u]
  BY DEF Solo
<1>2. arg[u] = NULL
  BY <1>1 DEF CallInv
<1> QED
  BY <1>1, <1>2 DEF CallInv, Getting

\* The parts together: the heads and lists are as they were, and outside sync.
LEMMA KeepAll ==
  ASSUME IInv, NEW t \in Thread, Solo(t), Solo(t)', TypeOK', Serial',
         UNCHANGED <<heads, lists, held, used>>,
         Hashed' = Hashed, Private' = Private,
         DirtyInv', FlagsInv', CallInv(t)',
         \A u \in Thread \ {t} : arg'[u] = arg[u]
  PROVE  IInv'
<1> USE DEF IInv, heads, lists
<1>1. LruInv' /\ Cached' = Cached
  BY KeepLru
<1>2. HashInv'
  BY KeepHash
<1>3. RefInv' /\ IdInv'
  BY <1>1, KeepRefs, KeepIds
<1>4. HeapInv'
  BY <1>1 DEF HeapInv
<1>5. \A u \in Thread : CallInv(u)'
  BY KeepCalls
<1> QED
  BY <1>1, <1>2, <1>3, <1>4, <1>5

\* A search that misses has seen every cached buffer.
LEMMA FoundCached ==
  ASSUME IInv, Hashed = Cached, NEW k
  PROVE  Found(k) = {b \in Cached : id[b] = k}
<1>1. PICK s \in Seq(Buf) : Chain(hash, s, Cached)
  BY DEF IInv, HashInv
<1>2. hash \in ListOf(Ptr)
  BY DEF IInv, TypeOK, Ptr
<1>3. Reached(hash) = Cached
  BY <1>1, <1>2, ReachedChain DEF Chain
<1> QED
  BY <1>3 DEF Found

-----------------------------------------------------------------------------
(* buffer_cache_get.                                                       *)

\* buffer_cache_get finds the block and moves it to the front.
LEMMA GetHitStep ==
  ASSUME IInv, ~Overlap, NEW t \in Thread, NEW k \in Block, GetHit(t, k)
  PROVE  IInv'
<1> USE DEF IInv
<1>1. pc[t] = "idle" /\ MayCall(t) /\ held[t] = NULL /\ pc' = pc
  BY DEF GetHit, MayCall
<1>2. Solo(t) /\ Solo(t)' /\ Serial'
  BY <1>1, StepsAlone
<1>3. /\ Hashed = Cached /\ Private = {} /\ Hashed' = Cached' /\ Private' = {}
  BY <1>1, <1>2, Alone DEF HashedOf, PrivateOf
<1>4. PICK b \in Cached : /\ ref'  = [ref EXCEPT ![b] = @ + 1]
                          /\ held' = [held EXCEPT ![t] = b]
                          /\ used' = <<b>> \o Without(b)
                          /\ Touch(b)
  BY <1>3, FoundCached DEF GetHit
<1>5. lru \in ListOf(Ptr)
  BY DEF TypeOK, Ptr
<1>6. LruInv' /\ Cached' = Cached /\ lru' \in ListOf(Ptr) /\ used' \in Seq(Buf)
  BY <1>4, <1>5, TouchCached
<1>7. b \in Buf /\ Cached \subseteq Buf
  BY ChainPlace DEF LruInv
<1>8. TypeOK'
  BY <1>4, <1>6, <1>7 DEF GetHit, TypeOK, locals, Ptr
<1>9. HashInv' /\ DirtyInv' /\ FlagsInv' /\ IdInv'
  <2>1. HashInv'
    BY <1>3, <1>6, KeepHash DEF GetHit
  <2>2. DirtyInv'
    BY <1>1, <1>2, KeepDirty DEF GetHit, Dirty, Solo
  <2>3. FlagsInv'
    BY <1>1, <1>2, <1>6, KeepFlags DEF GetHit, FlagsInv, Dirty
  <2>4. IdInv'
    BY <1>6, KeepIds DEF GetHit
  <2> QED
    BY <2>1, <2>2, <2>3, <2>4
<1>10. RefInv'
  <2>1. ASSUME NEW c \in Cached, c # b
        PROVE  Holders(c)' = Holders(c) /\ ref'[c] = ref[c]
    BY <1>1, <1>4, <1>7, <2>1, BufferCacheAssumption DEF Holders, TypeOK
  <2>2. Holders(b)' = Holders(b) \cup {t} /\ t \notin Holders(b)
    BY <1>1, <1>4, <1>7, BufferCacheAssumption DEF Holders, TypeOK
  <2>3. /\ IsFiniteSet(Holders(b) \cup {t})
        /\ Cardinality(Holders(b) \cup {t}) = Cardinality(Holders(b)) + 1
    BY <2>2, FS_AddElement DEF RefInv
  <2>4. ref'[b] = ref[b] + 1
    BY <1>4, <1>7 DEF TypeOK
  <2>5. \A c \in Cached : IsFiniteSet(Holders(c)') /\ ref'[c] = Cardinality(Holders(c)')
    BY <2>1, <2>2, <2>3, <2>4 DEF RefInv
  <2>6. \A u \in Thread : held'[u] # NULL => held'[u] \in Cached
    BY <1>4 DEF RefInv, TypeOK
  <2> QED
    BY <1>6, <2>5, <2>6 DEF RefInv
<1>11. HeapInv'
  BY <1>3, <1>6 DEF HeapInv, GetHit
<1>12. \A u \in Thread : CallInv(u)'
  <2>1. CallInv(t)'
    BY <1>1 DEF CallInv, Getting, GetHit, locals
  <2> QED
    BY <1>2, <2>1, KeepCalls DEF GetHit, locals
<1> QED
  BY <1>2, <1>6, <1>8, <1>9, <1>10, <1>11, <1>12

\* buffer_cache_get does not find the block.
LEMMA GetMissStep ==
  ASSUME IInv, ~Overlap, NEW t \in Thread, NEW k \in Block, GetMiss(t, k)
  PROVE  IInv'
<1> USE DEF IInv
<1>1. /\ pc[t] = "idle" /\ MayCall(t) /\ held[t] = NULL
      /\ pc' = [pc EXCEPT ![t] = "alloc"] /\ arg' = [arg EXCEPT ![t] = k]
      /\ UNCHANGED <<heads, lists, held, used, bh, saved, evicted>>
  BY DEF GetMiss, Goto
<1>2. Solo(t) /\ Solo(t)' /\ Serial'
  BY <1>1, StepsAlone
<1>3. pc'[t] = "alloc" /\ arg'[t] = k
  BY <1>1 DEF TypeOK
<1>4. /\ Hashed = Cached /\ Private = {} /\ Hashed' = Cached' /\ Private' = {}
  BY <1>1, <1>2, <1>3, Alone DEF HashedOf, PrivateOf
<1>5. \A b \in Cached : id[b] # k
  BY <1>4, FoundCached DEF GetMiss
<1>6. TypeOK'
  BY <1>1 DEF TypeOK, heads, lists
<1>7. DirtyInv'
  BY <1>1, <1>2, <1>3, KeepDirty DEF Dirty, Solo, heads, lists
<1>8. Cached' = Cached
  BY <1>1 DEF Cached
<1>9. FlagsInv'
  BY <1>1, <1>2, <1>8, KeepFlags DEF FlagsInv, Dirty, heads
<1>10. CallInv(t)'
  BY <1>1, <1>3, <1>5, <1>8 DEF CallInv, Getting, heads
<1>11. \A u \in Thread \ {t} : arg'[u] = arg[u]
  BY <1>1 DEF TypeOK
<1> QED
  BY <1>1, <1>2, <1>4, <1>6, <1>7, <1>8, <1>9, <1>10, <1>11, KeepAll

\* The counter of an eviction starts at 0, within its range.
LEMMA EvictRange == EvictMax \in Nat \ {0} /\ 0 \in 0 .. EvictMax
BY BufferCacheAssumption

\* A call that ends without touching the heads and the lists.
LEMMA ReturnStep ==
  ASSUME IInv, NEW t \in Thread, Solo(t), pc[t] \in {"alloc", "evict", "sync"},
         Return(t), UNCHANGED <<heads, lists, held, used>>
  PROVE  IInv'
<1> USE DEF IInv
<1>1. /\ pc' = [pc EXCEPT ![t] = "idle"] /\ arg' = [arg EXCEPT ![t] = NULL]
      /\ pc'[t] = "idle" /\ arg'[t] = NULL
  BY DEF Return, TypeOK
<1>2. Solo(t)' /\ Serial'
  BY <1>1 DEF Solo, Serial, TypeOK
<1>3. /\ Hashed = Cached /\ Private = {} /\ Hashed' = Cached' /\ Private' = {}
  BY <1>1, <1>2, Alone DEF HashedOf, PrivateOf
<1>4. TypeOK'
  BY EvictRange DEF TypeOK, Return, heads, lists
<1>5. Cached' = Cached
  BY DEF Cached
<1>6. DirtyInv'
  BY <1>1, <1>2, KeepDirty DEF Dirty, Solo, heads, lists
<1>7. FlagsInv'
  BY <1>5, KeepFlags DEF FlagsInv, Dirty, heads
<1>8. CallInv(t)'
  BY <1>1 DEF CallInv, Getting
<1>9. \A u \in Thread \ {t} : arg'[u] = arg[u]
  BY <1>1 DEF TypeOK
<1> QED
  BY <1>2, <1>3, <1>4, <1>5, <1>6, <1>7, <1>8, <1>9, KeepAll

\* buffer_alloc_head takes a spare head.
LEMMA AllocHeadStep ==
  ASSUME IInv, ~Overlap, NEW t \in Thread, NEW b \in Buf, AllocHead(t, b)
  PROVE  IInv'
<1> USE DEF IInv
<1>1. /\ pc[t] = "alloc" /\ pc' = [pc EXCEPT ![t] = "data"]
      /\ bh' = [bh EXCEPT ![t] = b] /\ UNCHANGED <<saved, arg, evicted, held, used>>
      /\ heap'  = heap \cup {b}
      /\ spare' = NULL
      /\ ref'   = [ref EXCEPT ![b] = 1]
      /\ id'    = [id EXCEPT ![b] = NULL]
      /\ flags' = [flags EXCEPT ![b] = {}]
      /\ hash' = Clear(hash, b) /\ lru' = Clear(lru, b) /\ dirty' = Clear(dirty, b)
  BY DEF AllocHead, Goto
<1>2. Solo(t) /\ Solo(t)' /\ Serial'
  BY <1>1, StepsAlone
<1>3. pc'[t] = "data" /\ bh'[t] = b
  BY <1>1 DEF TypeOK
<1>4. Hashed = Cached /\ Private = {} /\ Hashed' = Cached' /\ Private' = {b}
  BY <1>1, <1>2, <1>3, Alone DEF HashedOf, PrivateOf
<1>5. Cached' = Cached /\ Cached \subseteq Buf
  BY <1>1, ChainPlace DEF Cached, LruInv
<1>6. b \notin Cached /\ (spare # NULL => b = spare)
  BY <1>4 DEF AllocHead, HeapInv
<1>7. hash \in ListOf(Ptr) /\ lru \in ListOf(Ptr) /\ dirty \in ListOf(Ptr)
  BY DEF TypeOK, Ptr
<1>8. TypeOK'
  <2>1. {hash', lru', dirty'} \subseteq ListOf(Buf \cup {NULL})
    BY <1>1, <1>7, ListTypes DEF Ptr
  <2> QED
    BY <1>1, <2>1 DEF TypeOK
<1>9. LruInv'
  BY <1>1, <1>5, <1>6, <1>7, ChainClear DEF LruInv
<1>10. HashInv'
  BY <1>1, <1>4, <1>5, <1>6, <1>7, ChainClear DEF HashInv
<1>11. Dirty' = Dirty /\ b \notin Dirty
  <2>1. b \notin Dirty
    BY <1>6 DEF FlagsInv
  <2> QED
    BY <1>1, <2>1 DEF Dirty, TypeOK
<1>12. DirtyInv'
  <2>1. PICK s \in Seq(Buf) : Chain(dirty, s, Dirty)
    BY DEF DirtyInv
  <2>2. Chain(dirty', s, Dirty')
    BY <1>1, <1>7, <1>11, <2>1, ChainClear
  <2>3. \A u \in Thread : SyncAt(u, s)'
    BY <1>2, <1>3 DEF SyncAt, Solo
  <2> QED
    BY <2>2, <2>3 DEF DirtyInv
<1>13. FlagsInv'
  <2>1. \A c \in Buf : flags'[c] = flags[c] \/ flags'[c] = {}
    BY <1>1 DEF TypeOK
  <2> QED
    BY <1>1, <1>2, <1>5, <1>11, <2>1, KeepFlags DEF FlagsInv
<1>14. RefInv'
  <2>1. \A c \in Cached : ref'[c] = ref[c] /\ Holders(c)' = Holders(c)
    BY <1>1, <1>5, <1>6 DEF Holders, TypeOK
  <2> QED
    BY <1>1, <1>5, <2>1 DEF RefInv
<1>15. IdInv'
  <2>1. \A c \in Cached : id'[c] = id[c]
    BY <1>1, <1>5, <1>6 DEF TypeOK
  <2> QED
    BY <1>5, <2>1, KeepIds
<1>16. HeapInv'
  BY <1>1, <1>4, <1>5, <1>6, BufferCacheAssumption DEF HeapInv
<1>17. CallInv(t)'
  <2>1. ref'[b] = 1 /\ \A c \in Cached : id'[c] = id[c]
    BY <1>1, <1>5, <1>6 DEF TypeOK
  <2> QED
    BY <1>1, <1>3, <1>5, <2>1 DEF CallInv, Getting
<1>18. \A u \in Thread : CallInv(u)'
  BY <1>1, <1>2, <1>17, KeepCalls
<1> QED
  BY <1>2, <1>8, <1>9, <1>10, <1>12, <1>13, <1>14, <1>15, <1>16, <1>18

\* No head is left: eviction begins at the tail of the LRU list.
LEMMA AllocFullStep ==
  ASSUME IInv, ~Overlap, NEW t \in Thread, AllocFull(t)
  PROVE  IInv'
<1> USE DEF IInv
<1>1. pc[t] = "alloc" /\ UNCHANGED <<heads, lists, held, used>>
  BY DEF AllocFull
<1>2. Solo(t)
  BY <1>1 DEF Serial, Solo
<1>3. CASE Return(t)
  BY <1>1, <1>2, <1>3, ReturnStep
<1>4. CASE ~Return(t)
  <2>1. /\ pc' = [pc EXCEPT ![t] = "evict"] /\ bh' = [bh EXCEPT ![t] = lru.tail]
        /\ UNCHANGED <<saved, arg, evicted>>
    BY <1>4 DEF AllocFull, Goto
  <2>2. Solo(t)' /\ Serial'
    BY <1>1, <2>1, StepsAlone
  <2>3. pc'[t] = "evict" /\ bh'[t] = lru.tail
    BY <2>1 DEF TypeOK
  <2>4. /\ Hashed = Cached /\ Private = {} /\ Hashed' = Cached' /\ Private' = {}
    BY <1>1, <1>2, <2>2, <2>3, Alone DEF HashedOf, PrivateOf
  <2>5. lru.tail \in Buf \cup {NULL}
    BY DEF TypeOK, ListOf
  <2>6. TypeOK'
    BY <1>1, <2>1, <2>5 DEF TypeOK, heads, lists
  <2>7. Cached' = Cached
    BY <1>1 DEF Cached
  <2>8. DirtyInv'
    BY <1>1, <2>2, <2>3, KeepDirty DEF Dirty, Solo, heads, lists
  <2>9. FlagsInv'
    BY <1>1, <1>2, <2>7, KeepFlags DEF FlagsInv, Dirty, heads
  <2>10. CallInv(t)'
    <3>1. PICK n \in Nat : n = Len(used) /\ DOMAIN used = 1 .. n
      BY ChainPlace DEF LruInv
    <3>2. lru.tail = IF n = 0 THEN NULL ELSE used[n]
      BY <3>1 DEF LruInv, Chain, IsChain
    <3>3. n = Len(used')
      BY <1>1, <3>1
    <3>4. lru.tail = Nth(used', n)
      BY <1>1, <3>1, <3>2 DEF Nth
    <3>5. n \in 0 .. n /\ n + 1 .. n = {}
      BY <3>1
    <3>6. Spared(n)'
      BY <3>3, <3>5 DEF Spared
    <3>8. \E j \in 0 .. Len(used') : Spared(j)' /\ bh'[t] = Nth(used', j)
      BY <2>3, <3>3, <3>4, <3>5, <3>6
    <3>9. held[t] = NULL /\ arg[t] \in Block /\ \A b \in Cached : id[b] # arg[t]
      BY <1>1 DEF CallInv, Getting
    <3> QED
      BY <1>1, <2>1, <2>3, <2>7, <3>8, <3>9 DEF CallInv, Getting, heads
  <2>11. \A u \in Thread \ {t} : arg'[u] = arg[u]
    BY <2>1
  <2> QED
    BY <1>1, <1>2, <2>2, <2>4, <2>6, <2>7, <2>8, <2>9, <2>10, <2>11, KeepAll
<1> QED
  BY <1>3, <1>4

\* The data of the new buffer is allocated.
LEMMA AllocDataStep ==
  ASSUME IInv, ~Overlap, NEW t \in Thread, AllocData(t)
  PROVE  IInv'
<1> USE DEF IInv
<1>1. /\ pc[t] = "data" /\ pc' = [pc EXCEPT ![t] = "insert"]
      /\ id' = [id EXCEPT ![bh[t]] = arg[t]]
      /\ UNCHANGED <<heap, spare, ref, flags, lists, locals, held, used>>
  BY DEF AllocData, Goto
<1>2. Solo(t) /\ Solo(t)' /\ Serial'
  BY <1>1, StepsAlone
<1>3. pc'[t] = "insert"
  BY <1>1 DEF TypeOK
<1>4. PICK b \in Buf : b = bh[t] /\ ref[b] = 1
  BY <1>1 DEF CallInv
<1>5. held[t] = NULL /\ arg[t] \in Block /\ \A c \in Cached : id[c] # arg[t]
  BY <1>1 DEF CallInv, Getting
<1>6. /\ Hashed = Cached /\ Private = {b} /\ Hashed' = Cached' /\ Private' = {b}
  BY <1>1, <1>2, <1>3, <1>4, Alone DEF HashedOf, PrivateOf, locals
<1>7. b \notin Cached /\ b # spare
  BY <1>6 DEF HeapInv
<1>8. LruInv' /\ Cached' = Cached
  BY <1>1, KeepLru DEF lists
<1>9. TypeOK'
  BY <1>1, <1>4, <1>5 DEF TypeOK, lists, locals
<1>10. \A c \in Buf : c # b => id'[c] = id[c]
  BY <1>1, <1>4 DEF TypeOK
<1>11. id'[b] = arg[t]
  BY <1>1, <1>4 DEF TypeOK
<1>12. Cached \subseteq Buf
  BY ChainPlace DEF LruInv
<1>13. HashInv' /\ RefInv' /\ IdInv'
  BY <1>1, <1>6, <1>7, <1>8, <1>10, <1>12, KeepHash, KeepRefs, KeepIds DEF lists
<1>14. DirtyInv'
  BY <1>1, <1>2, <1>3, KeepDirty DEF Dirty, Solo, lists
<1>15. FlagsInv'
  BY <1>1, <1>2, <1>8, KeepFlags DEF FlagsInv, Dirty
<1>16. HeapInv'
  <2>1. spare # NULL => spare \in Buf
    BY DEF TypeOK
  <2> QED
    BY <1>1, <1>6, <1>7, <1>8, <1>10, <2>1 DEF HeapInv
<1>17. CallInv(t)'
  BY <1>1, <1>3, <1>4, <1>5, <1>7, <1>8, <1>10, <1>11, <1>12
     DEF CallInv, Getting, locals
<1>18. \A u \in Thread : CallInv(u)'
  BY <1>1, <1>2, <1>17, KeepCalls DEF locals
<1> QED
  BY <1>2, <1>8, <1>9, <1>13, <1>14, <1>15, <1>16, <1>18

\* The data cannot be allocated and the head goes back.
LEMMA DataFailsStep ==
  ASSUME IInv, ~Overlap, NEW t \in Thread, DataFails(t)
  PROVE  IInv'
<1> USE DEF IInv
<1>1. /\ pc[t] = "data" /\ pc' = [pc EXCEPT ![t] = "idle"]
      /\ arg' = [arg EXCEPT ![t] = NULL]
      /\ heap' = heap \ {bh[t]}
      /\ UNCHANGED <<spare, id, ref, flags, lists, held, used>>
  BY DEF DataFails, Return
<1>2. Solo(t) /\ Solo(t)' /\ Serial'
  BY <1>1, StepsAlone
<1>3. pc'[t] = "idle" /\ arg'[t] = NULL /\ \A u \in Thread \ {t} : arg'[u] = arg[u]
  BY <1>1 DEF TypeOK
<1>4. /\ Hashed = Cached /\ Private = {bh[t]} /\ Hashed' = Cached' /\ Private' = {}
  BY <1>1, <1>2, <1>3, Alone DEF HashedOf, PrivateOf
<1>5. LruInv' /\ Cached' = Cached
  BY <1>1, KeepLru DEF lists
<1>6. HashInv' /\ RefInv' /\ IdInv'
  BY <1>1, <1>4, <1>5, KeepHash, KeepRefs, KeepIds DEF lists
<1>7. DirtyInv'
  BY <1>1, <1>2, <1>3, KeepDirty DEF Dirty, Solo, lists
<1>8. FlagsInv'
  BY <1>1, <1>2, <1>5, KeepFlags DEF FlagsInv, Dirty
<1>9. HeapInv'
  BY <1>1, <1>4, <1>5 DEF HeapInv
<1>10. TypeOK'
  <2>1. spare' \in heap' \cup {NULL}
    BY <1>1, <1>4 DEF HeapInv
  <2> QED
    BY <1>1, <2>1, EvictRange DEF TypeOK, DataFails, Return, lists
<1>11. \A u \in Thread : CallInv(u)'
  <2>1. CallInv(t)'
    BY <1>3 DEF CallInv, Getting
  <2> QED
    BY <1>2, <1>3, <2>1, KeepCalls
<1> QED
  BY <1>2, <1>5, <1>6, <1>7, <1>8, <1>9, <1>10, <1>11

\* The new buffer enters its hash chain.
LEMMA InsertHashStep ==
  ASSUME IInv, ~Overlap, NEW t \in Thread, InsertHash(t)
  PROVE  IInv'
<1> USE DEF IInv
<1>1. /\ pc[t] = "insert" /\ pc' = [pc EXCEPT ![t] = "add"]
      /\ hash' = PushFront(hash, bh[t])
      /\ UNCHANGED <<heads, lru, dirty, locals, held, used>>
  BY DEF InsertHash, Goto
<1>2. Solo(t) /\ Solo(t)' /\ Serial'
  BY <1>1, StepsAlone
<1>3. pc'[t] = "add"
  BY <1>1 DEF TypeOK
<1>4. PICK b \in Buf : b = bh[t] /\ ref[b] = 1
  BY <1>1 DEF CallInv
<1>5. /\ Hashed = Cached /\ Private = {b}
      /\ Hashed' = Cached' \cup {b} /\ Private' = {b}
  BY <1>1, <1>2, <1>3, <1>4, Alone DEF HashedOf, PrivateOf, locals
<1>6. b \notin Cached
  BY <1>5 DEF HeapInv
<1>7. LruInv' /\ Cached' = Cached
  BY <1>1, KeepLru
<1>8. hash \in ListOf(Ptr)
  BY DEF TypeOK, Ptr
<1>9. TypeOK'
  <2>1. hash' \in ListOf(Buf \cup {NULL})
    BY <1>1, <1>4, <1>8, ListTypes DEF Ptr
  <2> QED
    BY <1>1, <2>1 DEF TypeOK, heads, locals
<1>10. HashInv'
  <2>1. PICK s \in Seq(Buf) : Chain(hash, s, Cached)
    BY <1>5 DEF HashInv
  <2>2. Chain(hash', <<b>> \o s, Hashed')
    BY <1>1, <1>4, <1>5, <1>6, <1>7, <1>8, <2>1, ChainPush
  <2>3. <<b>> \o s \in Seq(Buf)
    BY PushProps
  <2> QED
    BY <2>2, <2>3 DEF HashInv
<1>11. RefInv' /\ IdInv'
  BY <1>1, <1>7, KeepRefs, KeepIds DEF heads
<1>12. DirtyInv'
  BY <1>1, <1>2, <1>3, KeepDirty DEF Dirty, Solo, heads
<1>13. FlagsInv'
  BY <1>1, <1>2, <1>7, KeepFlags DEF FlagsInv, Dirty, heads
<1>14. HeapInv'
  BY <1>1, <1>5, <1>7 DEF HeapInv, heads
<1>15. CallInv(t)'
  BY <1>1, <1>3, <1>7 DEF CallInv, Getting, locals, heads
<1>16. \A u \in Thread : CallInv(u)'
  BY <1>1, <1>2, <1>15, KeepCalls DEF locals
<1> QED
  BY <1>2, <1>7, <1>9, <1>10, <1>11, <1>12, <1>13, <1>14, <1>16

\* The new buffer enters the LRU list and the call returns it.
LEMMA AddLruStep ==
  ASSUME IInv, ~Overlap, NEW t \in Thread, AddLru(t)
  PROVE  IInv'
<1> USE DEF IInv
<1>1. /\ pc[t] = "add" /\ pc' = [pc EXCEPT ![t] = "idle"]
      /\ arg' = [arg EXCEPT ![t] = NULL]
      /\ lru'  = PushFront(lru, bh[t])
      /\ used' = <<bh[t]>> \o used
      /\ held' = [held EXCEPT ![t] = bh[t]]
      /\ UNCHANGED <<heads, hash, dirty>>
  BY DEF AddLru, Return
<1>2. Solo(t) /\ Solo(t)' /\ Serial'
  BY <1>1, StepsAlone
<1>3. pc'[t] = "idle" /\ arg'[t] = NULL /\ \A u \in Thread \ {t} : arg'[u] = arg[u]
  BY <1>1 DEF TypeOK
<1>4. PICK b \in Buf : b = bh[t] /\ ref[b] = 1 /\ id[b] = arg[t]
  BY <1>1 DEF CallInv
<1>5. held[t] = NULL /\ arg[t] \in Block /\ \A c \in Cached : id[c] # arg[t]
  BY <1>1 DEF CallInv, Getting
<1>6. /\ Hashed = Cached \cup {b} /\ Private = {b}
      /\ Hashed' = Cached' /\ Private' = {}
  BY <1>1, <1>2, <1>3, <1>4, Alone DEF HashedOf, PrivateOf
<1>7. b \notin Cached /\ b # spare
  BY <1>6 DEF HeapInv
<1>8. lru \in ListOf(Ptr)
  BY DEF TypeOK, Ptr
<1>9. Chain(lru', used', Cached \cup {b})
  BY <1>1, <1>4, <1>7, <1>8, ChainPush DEF LruInv
<1>10. Cached' = Cached \cup {b} /\ used' \in Seq(Buf) /\ LruInv'
  BY <1>9 DEF Chain, Cached, LruInv
<1>11. TypeOK'
  <2>1. lru' \in ListOf(Buf \cup {NULL})
    BY <1>1, <1>4, <1>8, ListTypes DEF Ptr
  <2> QED
    BY <1>1, <1>4, <1>10, <2>1, EvictRange DEF TypeOK, AddLru, Return, heads
<1>12. HashInv'
  BY <1>1, <1>6, <1>10, KeepHash
<1>13. DirtyInv'
  BY <1>1, <1>2, <1>3, KeepDirty DEF Dirty, Solo, heads
<1>14. FlagsInv'
  BY <1>1, <1>2, <1>10, KeepFlags DEF FlagsInv, Dirty, heads
<1>15. RefInv'
  <2>1. \A c \in Cached : c \in Buf /\ c # b /\ c # NULL
    BY <1>7, ChainPlace, BufferCacheAssumption DEF LruInv
  <2>2. b # NULL
    BY BufferCacheAssumption
  <2>3. \A c \in Cached : Holders(c)' = Holders(c) /\ ref'[c] = ref[c]
    BY <1>1, <1>4, <1>5, <2>1 DEF Holders, TypeOK, heads
  <2>4. Holders(b)' = {t}
    BY <1>1, <1>4, <1>7, <2>2 DEF Holders, TypeOK, RefInv
  <2>5. ref'[b] = 1
    BY <1>1, <1>4 DEF heads
  <2>6. \A c \in Cached' : IsFiniteSet(Holders(c)') /\ ref'[c] = Cardinality(Holders(c)')
    <3>1. \A c \in Cached :
            IsFiniteSet(Holders(c)') /\ ref'[c] = Cardinality(Holders(c)')
      BY <2>3 DEF RefInv
    <3>2. IsFiniteSet({t}) /\ Cardinality({t}) = 1
      BY FS_Singleton
    <3> QED
      BY <1>10, <2>4, <2>5, <3>1, <3>2
  <2>7. \A u \in Thread : held'[u] # NULL => held'[u] \in Cached'
    BY <1>1, <1>4, <1>10 DEF RefInv, TypeOK
  <2> QED
    BY <2>6, <2>7 DEF RefInv
<1>16. HeapInv'
  BY <1>1, <1>6, <1>7, <1>10 DEF HeapInv, heads
<1>17. IdInv'
  BY <1>1, <1>4, <1>5, <1>10, BufferCacheAssumption DEF IdInv, heads
<1>18. \A u \in Thread : CallInv(u)'
  <2>1. CallInv(t)'
    BY <1>3 DEF CallInv, Getting
  <2> QED
    BY <1>2, <1>3, <2>1, KeepCalls
<1> QED
  BY <1>2, <1>10, <1>11, <1>12, <1>13, <1>14, <1>15, <1>16, <1>17, <1>18

-----------------------------------------------------------------------------
(* buffer_evict_lru.                                                       *)

\* The neighbour towards the head is the buffer used next after this one.
LEMMA PrevUsed ==
  ASSUME LruInv, NEW j \in 1 .. Len(used)
  PROVE  lru.prev[used[j]] = Nth(used, j - 1)
<1>1. PICK n \in Nat : n = Len(used) /\ DOMAIN used = 1 .. n
  BY ChainPlace DEF LruInv
<1>2. lru.prev[used[j]] = IF j = 1 THEN NULL ELSE used[j - 1]
  BY DEF LruInv, Chain, IsChain
<1>3. j - 1 \in 1 .. n <=> j # 1
  BY <1>1
<1> QED
  BY <1>1, <1>2, <1>3 DEF Nth

\* buffer_evict_lru tests a buffer and goes on towards the head of the list.
LEMMA EvictTestStep ==
  ASSUME IInv, ~Overlap, NEW t \in Thread, EvictTest(t)
  PROVE  IInv'
<1> USE DEF IInv
<1>1. /\ pc[t] = "evict" /\ UNCHANGED <<heads, lists, arg, evicted, held, used>>
      /\ bh[t] # NULL /\ saved' = [saved EXCEPT ![t] = lru.prev[bh[t]]]
      /\ evicted[t] < EvictMax
  BY DEF EvictTest
<1>2. pc' = pc \/ pc' = [pc EXCEPT ![t] = "unhash"]
  BY DEF EvictTest, Goto
<1>3. Solo(t) /\ Solo(t)' /\ Serial'
  BY <1>1, <1>2, StepsAlone
<1>4. PICK n \in Nat : n = Len(used) /\ DOMAIN used = 1 .. n
  BY ChainPlace DEF LruInv
<1>5. PICK j \in 0 .. n : Spared(j) /\ bh[t] = Nth(used, j)
  BY <1>1, <1>4 DEF CallInv
<1>6. j \in 1 .. n /\ bh[t] = used[j]
  BY <1>1, <1>4, <1>5 DEF Nth
<1>7. bh[t] \in Buf /\ lru.prev[bh[t]] = Nth(used, j - 1)
  BY <1>4, <1>6, ChainPlace, PrevUsed DEF LruInv
<1>8. Nth(used, j - 1) \in Buf \cup {NULL}
  BY <1>7 DEF TypeOK, ListOf
<1>9. Cached' = Cached /\ Len(used') = n
  BY <1>1, <1>4 DEF Cached
<1>10. held[t] = NULL /\ arg[t] \in Block /\ \A b \in Cached : id[b] # arg[t]
  BY <1>1 DEF CallInv, Getting
<1>11. /\ \A i \in 0 .. n : Spared(i)' <=> Spared(i)
       /\ \A i \in Int : Nth(used, i)' = Nth(used, i)
       /\ \A b : Evictable(b)' <=> Evictable(b)
  BY <1>1 DEF Spared, Nth, Evictable, heads
<1>12. ASSUME pc'[t] \in {"evict", "unhash"}, TypeOK', CallInv(t)' PROVE IInv'
  <2>1. Hashed = Cached /\ Private = {} /\ Hashed' = Cached' /\ Private' = {}
    BY <1>1, <1>3, <1>12, Alone DEF HashedOf, PrivateOf
  <2>2. DirtyInv'
    BY <1>1, <1>3, <1>12, KeepDirty DEF Dirty, Solo, heads, lists
  <2>3. FlagsInv'
    BY <1>1, <1>3, <1>9, KeepFlags DEF FlagsInv, Dirty, heads
  <2> QED
    BY <1>1, <1>3, <1>9, <1>12, <2>1, <2>2, <2>3, KeepAll
<1>13. CASE Evictable(bh[t])
  <2>1. pc' = [pc EXCEPT ![t] = "unhash"] /\ bh' = bh
    BY <1>13 DEF EvictTest, Goto
  <2>2. pc'[t] = "unhash" /\ saved'[t] = Nth(used, j - 1)
    BY <1>1, <1>7, <2>1 DEF TypeOK
  <2>3. TypeOK'
    BY <1>1, <1>7, <1>8, <2>1 DEF TypeOK, heads, lists
  <2>4. \E i \in 1 .. Len(used') :
          Spared(i)' /\ bh'[t] = used'[i] /\ saved'[t] = Nth(used', i - 1)
    <3>1. Spared(j)' /\ bh'[t] = used'[j]
      BY <1>1, <1>5, <1>6, <1>11, <2>1
    <3>2. saved'[t] = Nth(used', j - 1)
      BY <1>1, <2>2
    <3> QED
      BY <1>6, <1>9, <3>1, <3>2
  <2>5. Evictable(bh[t])'
    BY <1>1, <1>13, <2>1 DEF Evictable, heads
  <2>6. CallInv(t)'
    BY <1>1, <1>9, <1>10, <2>2, <2>4, <2>5 DEF CallInv, Getting, heads
  <2> QED
    BY <1>12, <2>2, <2>3, <2>6
<1>14. CASE ~Evictable(bh[t])
  <2>1. pc' = pc /\ bh' = [bh EXCEPT ![t] = lru.prev[bh[t]]]
    BY <1>14 DEF EvictTest
  <2>2. pc'[t] = "evict" /\ bh'[t] = Nth(used, j - 1)
    BY <1>1, <1>7, <2>1 DEF TypeOK
  <2>3. TypeOK'
    BY <1>1, <1>7, <1>8, <2>1 DEF TypeOK, heads, lists
  <2>4. \E i \in 0 .. Len(used') : Spared(i)' /\ bh'[t] = Nth(used', i)
    <3>1. j - 1 \in 0 .. n
      BY <1>6
    <3>2. Spared(j - 1)
      BY <1>4, <1>5, <1>6, <1>14 DEF Spared
    <3>3. Spared(j - 1)'
      BY <1>11, <3>1, <3>2
    <3>4. bh'[t] = Nth(used', j - 1)
      BY <1>1, <2>2
    <3> QED
      BY <1>9, <3>1, <3>3, <3>4
  <2>5. CallInv(t)'
    BY <1>1, <1>9, <1>10, <2>2, <2>4 DEF CallInv, Getting, heads
  <2> QED
    BY <1>12, <2>2, <2>3, <2>5
<1> QED
  BY <1>13, <1>14

\* The victim leaves its hash chain.
LEMMA EvictUnhashStep ==
  ASSUME IInv, ~Overlap, NEW t \in Thread, EvictUnhash(t)
  PROVE  IInv'
<1> USE DEF IInv
<1>1. /\ pc[t] = "unhash" /\ pc' = [pc EXCEPT ![t] = "unlru"]
      /\ hash' = Unlink(hash, bh[t])
      /\ UNCHANGED <<heads, lru, dirty, locals, held, used>>
  BY DEF EvictUnhash, Goto
<1>2. Solo(t) /\ Solo(t)' /\ Serial'
  BY <1>1, StepsAlone
<1>3. pc'[t] = "unlru"
  BY <1>1 DEF TypeOK
<1>4. PICK b \in Cached : b = bh[t]
  <2>1. PICK j \in 1 .. Len(used) : bh[t] = used[j]
    BY <1>1 DEF CallInv
  <2> QED
    BY <2>1, ChainPlace DEF LruInv
<1>5. /\ Hashed = Cached /\ Private = {}
      /\ Hashed' = Cached' \ {b} /\ Private' = {}
  BY <1>1, <1>2, <1>3, <1>4, Alone DEF HashedOf, PrivateOf, locals
<1>6. LruInv' /\ Cached' = Cached
  BY <1>1, KeepLru
<1>7. hash \in ListOf(Ptr)
  BY DEF TypeOK, Ptr
<1>8. HashInv' /\ hash' \in ListOf(Ptr)
  <2>1. PICK s \in Seq(Buf) : Chain(hash, s, Cached)
    BY <1>5 DEF HashInv
  <2>2. PICK k \in 1 .. Len(s) : s[k] = b
    BY <2>1, ChainPlace
  <2>3. Chain(hash', RemoveAt(s, k), Hashed') /\ hash' \in ListOf(Ptr)
    BY <1>1, <1>4, <1>5, <1>6, <1>7, <2>1, <2>2, ChainCut
  <2>4. RemoveAt(s, k) \in Seq(Buf)
    BY RemoveAtProps
  <2> QED
    BY <2>3, <2>4 DEF HashInv
<1>9. TypeOK'
  BY <1>1, <1>8 DEF TypeOK, heads, locals, Ptr
<1>10. RefInv' /\ IdInv'
  BY <1>1, <1>6, KeepRefs, KeepIds DEF heads
<1>11. DirtyInv'
  BY <1>1, <1>2, <1>3, KeepDirty DEF Dirty, Solo, heads
<1>12. FlagsInv'
  BY <1>1, <1>2, <1>6, KeepFlags DEF FlagsInv, Dirty, heads
<1>13. HeapInv'
  BY <1>1, <1>5, <1>6 DEF HeapInv, heads
<1>14. CallInv(t)'
  BY <1>1, <1>3, <1>6
     DEF CallInv, Getting, locals, heads, Spared, Evictable, Nth
<1>15. \A u \in Thread : CallInv(u)'
  BY <1>1, <1>2, <1>14, KeepCalls DEF locals
<1> QED
  BY <1>2, <1>6, <1>8, <1>9, <1>10, <1>11, <1>12, <1>13, <1>15

\* The victim leaves the LRU list.
LEMMA EvictUnlruStep ==
  ASSUME IInv, ~Overlap, NEW t \in Thread, EvictUnlru(t)
  PROVE  IInv'
<1> USE DEF IInv
<1>1. /\ pc[t] = "unlru" /\ pc' = [pc EXCEPT ![t] = "free"]
      /\ lru' = Delete(lru, bh[t])
      /\ used' = Without(bh[t])
      /\ UNCHANGED <<heads, hash, dirty, locals, held>>
  BY DEF EvictUnlru, Goto
<1>2. Solo(t) /\ Solo(t)' /\ Serial'
  BY <1>1, StepsAlone
<1>3. pc'[t] = "free"
  BY <1>1 DEF TypeOK
<1>4. PICK n \in Nat : n = Len(used) /\ DOMAIN used = 1 .. n
  BY ChainPlace DEF LruInv
<1>5. PICK j \in 1 .. n :
        Spared(j) /\ bh[t] = used[j] /\ saved[t] = Nth(used, j - 1)
  BY <1>1, <1>4 DEF CallInv
<1>6. PICK b \in Cached : b = bh[t] /\ b \in Buf /\ b # NULL
  BY <1>4, <1>5, ChainPlace DEF LruInv
<1>7. ref[b] = 0 /\ "dirty" \notin flags[b]
  BY <1>1, <1>6 DEF CallInv, Evictable
<1>8. lru \in ListOf(Ptr)
  BY DEF TypeOK, Ptr
<1>9. used' = RemoveAt(used, j)
  <2>1. j \in 1 .. Len(used)
    BY <1>4
  <2>2. Without(used[j]) = RemoveAt(used, j)
    BY <2>1, WithoutCached
  <2> QED
    BY <1>1, <1>5, <2>2
<1>10. Chain(lru', used', Cached \ {b}) /\ lru' \in ListOf(Ptr)
  <2>1. j \in 1 .. Len(used) /\ used[j] = b
    BY <1>4, <1>5, <1>6
  <2>2. /\ Chain(Delete(lru, used[j]), RemoveAt(used, j), Cached \ {used[j]})
        /\ Delete(lru, used[j]) \in ListOf(Ptr)
    BY <1>8, <2>1, ChainCut DEF LruInv
  <2> QED
    BY <1>1, <1>6, <1>9, <2>1, <2>2
<1>11. LruInv' /\ Cached' = Cached \ {b} /\ used' \in Seq(Buf)
  BY <1>10 DEF LruInv, Cached, Chain
<1>12. /\ Hashed = Cached \ {b} /\ Private = {}
       /\ Hashed' = Cached' /\ Private' = {b}
  BY <1>1, <1>2, <1>3, <1>6, Alone DEF HashedOf, PrivateOf, locals
<1>13. TypeOK'
  BY <1>1, <1>10, <1>11 DEF TypeOK, heads, locals, Ptr
<1>14. HashInv'
  BY <1>1, <1>11, <1>12, KeepHash
<1>15. DirtyInv'
  BY <1>1, <1>2, <1>3, KeepDirty DEF Dirty, Solo, heads
<1>16. FlagsInv'
  <2>1. Dirty' \subseteq Cached'
    BY <1>1, <1>7, <1>11 DEF FlagsInv, Dirty, heads
  <2> QED
    BY <1>1, <1>2, <2>1, KeepFlags DEF heads
<1>17. RefInv'
  <2>1. Holders(b) = {}
    BY <1>6, <1>7, FS_EmptySet DEF RefInv
  <2>2. \A u \in Thread : held[u] # NULL => held[u] \in Cached \ {b}
    BY <2>1 DEF Holders, RefInv
  <2> QED
    BY <1>1, <1>11, <2>2 DEF RefInv, Holders, heads
<1>18. IdInv'
  BY <1>1, <1>11 DEF IdInv, heads
<1>19. HeapInv'
  BY <1>1, <1>6, <1>11, <1>12 DEF HeapInv, heads
<1>20. CallInv(t)'
  <2>1. /\ Len(used') = n - 1
        /\ \A i \in 1 .. n - 1 : used'[i] = IF i < j THEN used[i] ELSE used[i + 1]
    BY <1>4, <1>9, RemoveAtProps DEF LruInv, Chain
  <2>2. DOMAIN used' = 1 .. n - 1
    BY <1>11, <2>1, LenProperties
  <2>3. j - 1 \in 0 .. n - 1
    BY <1>4
  <2>4. Spared(j - 1)'
    <3> SUFFICES ASSUME NEW k \in (j - 1) + 1 .. n - 1
                 PROVE  ~(ref'[used'[k]] = 0 /\ "dirty" \notin flags'[used'[k]])
      BY <2>1 DEF Spared, Evictable
    <3>1. k \in 1 .. n - 1 /\ ~(k < j) /\ k + 1 \in j + 1 .. n
      BY <1>4
    <3>2. used'[k] = used[k + 1]
      BY <2>1, <3>1
    <3>3. ~Evictable(used[k + 1])
      BY <1>4, <1>5, <3>1 DEF Spared
    <3> QED
      BY <1>1, <3>2, <3>3 DEF Evictable, heads
  <2>5. saved'[t] = Nth(used', j - 1)
    <3>1. CASE j = 1
      BY <1>1, <1>4, <1>5, <2>2, <3>1 DEF Nth, locals
    <3>2. CASE j # 1
      <4>1. j - 1 \in 1 .. n /\ j - 1 \in 1 .. n - 1 /\ j - 1 < j
        BY <1>4, <3>2
      <4> QED
        BY <1>1, <1>4, <1>5, <2>1, <2>2, <4>1 DEF Nth, locals
    <3> QED
      BY <3>1, <3>2
  <2>6. \E i \in 0 .. Len(used') : Spared(i)' /\ saved'[t] = Nth(used', i)
    BY <2>1, <2>3, <2>4, <2>5
  <2>7. held[t] = NULL /\ arg[t] \in Block /\ \A c \in Cached : id[c] # arg[t]
    BY <1>1 DEF CallInv, Getting
  <2> QED
    BY <1>1, <1>3, <1>6, <1>11, <2>6, <2>7 DEF CallInv, Getting, locals, heads
<1>21. \A u \in Thread : CallInv(u)'
  BY <1>1, <1>2, <1>20, KeepCalls DEF locals
<1> QED
  BY <1>2, <1>11, <1>13, <1>14, <1>15, <1>16, <1>17, <1>18, <1>19, <1>21

\* The victim is freed.
LEMMA EvictFreeStep ==
  ASSUME IInv, ~Overlap, NEW t \in Thread, EvictFree(t)
  PROVE  IInv'
<1> USE DEF IInv
<1>1. /\ pc[t] = "free" /\ pc' = [pc EXCEPT ![t] = "evict"]
      /\ heap' = heap \ {bh[t]}
      /\ bh' = [bh EXCEPT ![t] = saved[t]]
      /\ evicted' = [evicted EXCEPT ![t] = @ + 1]
      /\ UNCHANGED <<spare, id, ref, flags, lists, saved, arg, held, used>>
  BY DEF EvictFree, Goto
<1>2. Solo(t) /\ Solo(t)' /\ Serial'
  BY <1>1, StepsAlone
<1>3. pc'[t] = "evict" /\ bh'[t] = saved[t]
  BY <1>1 DEF TypeOK
<1>4. Hashed = Cached /\ Private = {bh[t]} /\ Hashed' = Cached' /\ Private' = {}
  BY <1>1, <1>2, <1>3, Alone DEF HashedOf, PrivateOf
<1>5. LruInv' /\ Cached' = Cached
  BY <1>1, KeepLru DEF lists
<1>6. HashInv' /\ RefInv' /\ IdInv'
  BY <1>1, <1>4, <1>5, KeepHash, KeepRefs, KeepIds DEF lists
<1>7. DirtyInv'
  BY <1>1, <1>2, <1>3, KeepDirty DEF Dirty, Solo, lists
<1>8. FlagsInv'
  BY <1>1, <1>2, <1>5, KeepFlags DEF FlagsInv, Dirty
<1>9. HeapInv'
  BY <1>1, <1>4, <1>5 DEF HeapInv
<1>10. TypeOK'
  <2>1. spare' \in heap' \cup {NULL}
    BY <1>1, <1>4 DEF HeapInv
  <2>2. evicted[t] + 1 \in 0 .. EvictMax
    BY <1>1, EvictRange DEF TypeOK, CallInv
  <2>3. evicted' \in [Thread -> 0 .. EvictMax]
    BY <1>1, <2>2 DEF TypeOK
  <2> QED
    BY <1>1, <2>1, <2>3 DEF TypeOK, lists
<1>11. CallInv(t)'
  <2>1. held[t] = NULL /\ arg[t] \in Block /\ \A c \in Cached : id[c] # arg[t]
    BY <1>1 DEF CallInv, Getting
  <2>2. \E j \in 0 .. Len(used) : Spared(j) /\ saved[t] = Nth(used, j)
    BY <1>1 DEF CallInv
  <2>3. \E j \in 0 .. Len(used') : Spared(j)' /\ bh'[t] = Nth(used', j)
    BY <1>1, <1>3, <2>2 DEF Spared, Evictable
  <2> QED
    BY <1>1, <1>3, <1>5, <2>1, <2>3 DEF CallInv, Getting
<1>12. \A u \in Thread : CallInv(u)'
  BY <1>1, <1>2, <1>11, KeepCalls
<1> QED
  BY <1>2, <1>5, <1>6, <1>7, <1>8, <1>9, <1>10, <1>12

\* Eviction ends; the get tries again if it freed a buffer.
LEMMA EvictEndStep ==
  ASSUME IInv, ~Overlap, NEW t \in Thread, EvictEnd(t)
  PROVE  IInv'
<1> USE DEF IInv
<1>1. pc[t] = "evict" /\ UNCHANGED <<heads, lists, held, used>>
  BY DEF EvictEnd
<1>2. Solo(t)
  BY <1>1 DEF Serial, Solo
<1>3. CASE Return(t)
  BY <1>1, <1>2, <1>3, ReturnStep
<1>4. CASE ~Return(t)
  <2>1. /\ pc' = [pc EXCEPT ![t] = "alloc"] /\ bh' = [bh EXCEPT ![t] = NULL]
        /\ UNCHANGED <<saved, arg, evicted>>
    BY <1>4 DEF EvictEnd, Goto
  <2>2. Solo(t)' /\ Serial'
    BY <1>1, <2>1, StepsAlone
  <2>3. pc'[t] = "alloc"
    BY <2>1 DEF TypeOK
  <2>4. Hashed = Cached /\ Private = {} /\ Hashed' = Cached' /\ Private' = {}
    BY <1>1, <1>2, <2>2, <2>3, Alone DEF HashedOf, PrivateOf
  <2>5. TypeOK'
    BY <1>1, <2>1 DEF TypeOK, heads, lists
  <2>6. Cached' = Cached
    BY <1>1 DEF Cached
  <2>7. DirtyInv'
    BY <1>1, <2>2, <2>3, KeepDirty DEF Dirty, Solo, heads, lists
  <2>8. FlagsInv'
    BY <1>1, <1>2, <2>6, KeepFlags DEF FlagsInv, Dirty, heads
  <2>9. CallInv(t)'
    BY <1>1, <2>1, <2>3, <2>6 DEF CallInv, Getting, heads
  <2> QED
    BY <1>1, <1>2, <2>1, <2>2, <2>4, <2>5, <2>6, <2>7, <2>8, <2>9, KeepAll
<1> QED
  BY <1>3, <1>4

-----------------------------------------------------------------------------
(* buffer_cache_put, buffer_cache_read and buffer_cache_mark_dirty.        *)

\* buffer_cache_put drops a reference.
LEMMA PutStep ==
  ASSUME IInv, ~Overlap, NEW t \in Thread, Put(t)
  PROVE  IInv'
<1> USE DEF IInv
<1>1. /\ pc[t] = "idle" /\ MayCall(t) /\ held[t] # NULL
      /\ ref'  = [ref EXCEPT ![held[t]] = @ - 1]
      /\ held' = [held EXCEPT ![t] = NULL]
      /\ UNCHANGED <<heap, spare, id, flags, lists, pc, locals, used>>
  BY DEF Put, MayCall
<1>2. Solo(t) /\ Solo(t)' /\ Serial'
  BY <1>1, StepsAlone
<1>3. PICK b \in Cached : b = held[t] /\ b \in Buf /\ b # NULL
  BY <1>1, ChainPlace, BufferCacheAssumption DEF RefInv, LruInv
<1>4. Hashed = Cached /\ Private = {} /\ Hashed' = Cached' /\ Private' = {}
  BY <1>1, <1>2, Alone DEF HashedOf, PrivateOf
<1>5. LruInv' /\ Cached' = Cached /\ Cached \subseteq Buf
  BY <1>1, KeepLru, ChainPlace DEF lists, LruInv
<1>6. HashInv' /\ IdInv'
  BY <1>1, <1>4, <1>5, KeepHash, KeepIds DEF lists
<1>7. DirtyInv'
  BY <1>1, <1>2, KeepDirty DEF Dirty, Solo, lists
<1>8. FlagsInv'
  BY <1>1, <1>2, <1>5, KeepFlags DEF FlagsInv, Dirty
<1>9. HeapInv'
  BY <1>1, <1>4, <1>5 DEF HeapInv
<1>10. /\ Holders(b)' = Holders(b) \ {t} /\ t \in Holders(b)
       /\ \A c \in Cached : c # b => Holders(c)' = Holders(c) /\ ref'[c] = ref[c]
  <2>1. NULL \notin Cached
    BY <1>5, BufferCacheAssumption
  <2> QED
    BY <1>1, <1>3, <1>5, <2>1 DEF Holders, TypeOK
<1>11. /\ IsFiniteSet(Holders(b) \ {t})
       /\ Cardinality(Holders(b) \ {t}) = Cardinality(Holders(b)) - 1
  BY <1>10, FS_RemoveElement DEF RefInv
<1>12. ref'[b] = ref[b] - 1 /\ ref'[b] \in Nat
  <2>1. ref'[b] = ref[b] - 1 /\ ref[b] \in Nat /\ ref[b] = Cardinality(Holders(b))
    BY <1>1, <1>3 DEF TypeOK, RefInv
  <2>2. Cardinality(Holders(b) \ {t}) \in Nat
    BY <1>11, FS_CardinalityType
  <2> QED
    BY <1>11, <2>1, <2>2
<1>13. TypeOK'
  BY <1>1, <1>3, <1>12 DEF TypeOK, lists, locals
<1>14. RefInv'
  <2>1. \A c \in Cached : IsFiniteSet(Holders(c)') /\ ref'[c] = Cardinality(Holders(c)')
    BY <1>10, <1>11, <1>12 DEF RefInv
  <2>2. \A u \in Thread : held'[u] # NULL => held'[u] \in Cached
    BY <1>1 DEF RefInv, TypeOK
  <2> QED
    BY <1>5, <2>1, <2>2 DEF RefInv
<1>15. \A u \in Thread : CallInv(u)'
  <2>1. CallInv(t)'
    BY <1>1 DEF CallInv, Getting, locals
  <2> QED
    BY <1>1, <1>2, <2>1, KeepCalls DEF locals
<1> QED
  BY <1>2, <1>5, <1>6, <1>7, <1>8, <1>9, <1>13, <1>14, <1>15

\* The parts a step of read, mark dirty, write or sync cannot disturb.
LEMMA KeepCache ==
  ASSUME IInv, NEW t \in Thread, Solo(t), Solo(t)', TypeOK', Serial',
         UNCHANGED <<heap, spare, id, ref, hash, lru, held, used>>,
         {pc[t], pc'[t]} \subseteq {"idle", "reading", "write", "written", "sync"},
         DirtyInv', FlagsInv', CallInv(t)',
         \A u \in Thread \ {t} : arg'[u] = arg[u]
  PROVE  IInv'
<1> USE DEF IInv
<1>1. LruInv' /\ Cached' = Cached
  BY KeepLru
<1>2. Hashed = Cached /\ Private = {} /\ Hashed' = Cached' /\ Private' = {}
  BY Alone DEF HashedOf, PrivateOf
<1>3. HashInv' /\ RefInv' /\ IdInv'
  BY <1>1, <1>2, KeepHash, KeepRefs, KeepIds
<1>4. HeapInv'
  BY <1>1, <1>2 DEF HeapInv
<1>5. \A u \in Thread : CallInv(u)'
  BY KeepCalls
<1> QED
  BY <1>1, <1>3, <1>4, <1>5

\* buffer_cache_read locks the buffer.
LEMMA ReadStep ==
  ASSUME IInv, ~Overlap, NEW t \in Thread, Read(t)
  PROVE  IInv'
<1> USE DEF IInv
<1>1. /\ pc[t] = "idle" /\ MayCall(t) /\ held[t] # NULL
      /\ pc' = [pc EXCEPT ![t] = "reading"]
      /\ flags' = [flags EXCEPT ![held[t]] = @ \cup {"locked"}]
      /\ UNCHANGED <<heap, spare, id, ref, lists, locals, held, used>>
  BY DEF Read, Goto, Lock
<1>2. Solo(t) /\ Solo(t)' /\ Serial'
  BY <1>1, StepsAlone
<1>3. pc'[t] = "reading"
  BY <1>1 DEF TypeOK
<1>4. PICK b \in Buf : b = held[t]
  BY <1>1, ChainPlace DEF RefInv, LruInv
<1>5. TypeOK'
  BY <1>1, <1>4 DEF TypeOK, lists, locals
<1>6. Dirty' = Dirty /\ Cached' = Cached
  BY <1>1, <1>4 DEF Dirty, TypeOK, Cached
<1>7. DirtyInv'
  BY <1>1, <1>2, <1>3, <1>6, KeepDirty DEF Solo, lists
<1>8. FlagsInv'
  <2>1. \A c \in Buf : "locked" \notin flags[c]
    BY <1>1, <1>2, Unlocked
  <2>2. \A c \in Buf : "locked" \in flags'[c] => c = b
    BY <1>1, <1>4, <2>1 DEF TypeOK
  <2> QED
    BY <1>1, <1>3, <1>4, <1>6, <2>2 DEF FlagsInv
<1>9. CallInv(t)'
  BY <1>1, <1>3 DEF CallInv, Getting, locals
<1> QED
  BY <1>1, <1>2, <1>3, <1>5, <1>7, <1>8, <1>9, KeepCache DEF lists, locals

\* buffer_cache_read ends.
LEMMA ReadDoneStep ==
  ASSUME IInv, ~Overlap, NEW t \in Thread, ReadDone(t)
  PROVE  IInv'
<1> USE DEF IInv
<1>1. /\ pc[t] = "reading" /\ pc' = [pc EXCEPT ![t] = "idle"]
      /\ flags' = [flags EXCEPT ![held[t]] = @ \ {"locked"}]
      /\ UNCHANGED <<heap, spare, id, ref, lists, locals, held, used>>
  BY DEF ReadDone, Goto
<1>2. Solo(t) /\ Solo(t)' /\ Serial'
  BY <1>1, StepsAlone
<1>3. pc'[t] = "idle"
  BY <1>1 DEF TypeOK
<1>4. PICK b \in Buf : b = held[t]
  BY <1>1, ChainPlace DEF RefInv, LruInv, CallInv
<1>5. TypeOK'
  BY <1>1, <1>4 DEF TypeOK, lists, locals
<1>6. Dirty' = Dirty /\ Cached' = Cached
  BY <1>1, <1>4 DEF Dirty, TypeOK, Cached
<1>7. DirtyInv'
  BY <1>1, <1>2, <1>3, <1>6, KeepDirty DEF Solo, lists
<1>8. FlagsInv'
  <2>1. \A c \in Buf : c # b => "locked" \notin flags[c]
    BY <1>1, <1>2, <1>4 DEF Solo, FlagsInv
  <2>2. \A c \in Buf : "locked" \notin flags'[c]
    BY <1>1, <1>4, <2>1 DEF TypeOK
  <2> QED
    BY <1>6, <2>2 DEF FlagsInv
<1>9. CallInv(t)'
  <2>1. arg[t] = NULL
    BY <1>1 DEF CallInv
  <2> QED
    BY <1>1, <1>3, <2>1 DEF CallInv, Getting, locals
<1> QED
  BY <1>1, <1>2, <1>3, <1>5, <1>7, <1>8, <1>9, KeepCache DEF lists, locals

\* buffer_dirty_add.
LEMMA MarkDirtyStep ==
  ASSUME IInv, ~Overlap, NEW t \in Thread, MarkDirty(t)
  PROVE  IInv'
<1> USE DEF IInv
<1>1. /\ pc[t] = "idle" /\ MayCall(t) /\ held[t] # NULL /\ pc' = pc
      /\ "dirty" \notin flags[held[t]]
      /\ dirty' = PushFront(dirty, held[t])
      /\ flags' = [flags EXCEPT ![held[t]] = @ \cup {"dirty"}]
      /\ UNCHANGED <<heap, spare, id, ref, hash, lru, locals, held, used>>
  BY DEF MarkDirty, MayCall
<1>2. Solo(t) /\ Solo(t)' /\ Serial'
  BY <1>1, StepsAlone
<1>3. PICK b \in Cached : b = held[t] /\ b \in Buf
  BY <1>1, ChainPlace DEF RefInv, LruInv
<1>4. dirty \in ListOf(Ptr)
  BY DEF TypeOK, Ptr
<1>5. TypeOK'
  <2>1. dirty' \in ListOf(Buf \cup {NULL})
    BY <1>1, <1>3, <1>4, ListTypes DEF Ptr
  <2> QED
    BY <1>1, <1>3, <2>1 DEF TypeOK, locals
<1>6. Dirty' = Dirty \cup {b} /\ b \notin Dirty /\ Cached' = Cached
  BY <1>1, <1>3 DEF Dirty, TypeOK, Cached
<1>7. DirtyInv'
  <2>1. PICK s \in Seq(Buf) : Chain(dirty, s, Dirty)
    BY DEF DirtyInv
  <2>2. Chain(dirty', <<b>> \o s, Dirty')
    BY <1>1, <1>3, <1>4, <1>6, <2>1, ChainPush
  <2>3. <<b>> \o s \in Seq(Buf)
    BY <1>3, PushProps
  <2>4. \A u \in Thread : pc'[u] = "idle"
    BY <1>1, <1>2 DEF Solo
  <2>5. \A u \in Thread : SyncAt(u, <<b>> \o s)'
    BY <2>4 DEF SyncAt
  <2> QED
    BY <2>2, <2>3, <2>5 DEF DirtyInv
<1>8. FlagsInv'
  <2>1. \A c \in Buf : "locked" \notin flags[c]
    BY <1>1, <1>2, Unlocked
  <2>2. \A c \in Buf : "locked" \notin flags'[c]
    BY <1>1, <1>3, <2>1 DEF TypeOK
  <2> QED
    BY <1>6, <2>2 DEF FlagsInv
<1>9. CallInv(t)'
  BY <1>1 DEF CallInv, Getting, locals
<1> QED
  BY <1>1, <1>2, <1>5, <1>7, <1>8, <1>9, KeepCache DEF locals

-----------------------------------------------------------------------------
(* buffer_cache_write and buffer_cache_sync_device.                        *)

\* The pointers of the dirty list lead from each place to the next.
LEMMA NextDirty ==
  ASSUME NEW s, NEW S, Chain(dirty, s, S)
  PROVE  /\ dirty.head = Nth(s, 1)
         /\ \A j \in 1 .. Len(s) : dirty.next[s[j]] = Nth(s, j + 1)
<1>1. PICK n \in Nat : n = Len(s) /\ DOMAIN s = 1 .. n
  BY ChainPlace
<1>2. /\ dirty.head = IF n = 0 THEN NULL ELSE s[1]
      /\ \A j \in 1 .. n : dirty.next[s[j]] = IF j = n THEN NULL ELSE s[j + 1]
  BY <1>1 DEF Chain, IsChain
<1>3. dirty.head = Nth(s, 1)
  BY <1>1, <1>2 DEF Nth
<1>4. ASSUME NEW j \in 1 .. n PROVE dirty.next[s[j]] = Nth(s, j + 1)
  <2>1. j + 1 \in 1 .. n <=> j # n
    BY <1>1
  <2>2. dirty.next[s[j]] = IF j = n THEN NULL ELSE s[j + 1]
    BY <1>2
  <2> QED
    BY <1>1, <2>1, <2>2 DEF Nth
<1> QED
  BY <1>1, <1>3, <1>4

\* buffer_cache_write locks the buffer.
LEMMA WriteStep ==
  ASSUME IInv, ~Overlap, NEW t \in Thread, Write(t)
  PROVE  IInv'
<1> USE DEF IInv
<1>1. /\ pc[t] = "idle" /\ MayCall(t) /\ held[t] # NULL
      /\ pc' = [pc EXCEPT ![t] = "write"]
      /\ flags' = [flags EXCEPT ![held[t]] = @ \cup {"locked"}]
      /\ bh' = [bh EXCEPT ![t] = held[t]]
      /\ UNCHANGED <<heap, spare, id, ref, lists, saved, arg, evicted, held, used>>
  BY DEF Write, Goto, Lock
<1>2. Solo(t) /\ Solo(t)' /\ Serial'
  BY <1>1, StepsAlone
<1>3. PICK b \in Cached : b = held[t] /\ b \in Buf
  BY <1>1, ChainPlace DEF RefInv, LruInv
<1>4. pc'[t] = "write" /\ bh'[t] = b /\ arg'[t] = NULL
  BY <1>1, <1>3 DEF TypeOK, CallInv
<1>5. TypeOK'
  BY <1>1, <1>3 DEF TypeOK, lists
<1>6. Dirty' = Dirty /\ Cached' = Cached
  BY <1>1, <1>3 DEF Dirty, TypeOK, Cached
<1>7. DirtyInv'
  BY <1>1, <1>2, <1>4, <1>6, KeepDirty DEF Solo, lists
<1>8. FlagsInv'
  <2>1. \A c \in Buf : "locked" \notin flags[c]
    BY <1>1, <1>2, Unlocked
  <2>2. \A c \in Buf : "locked" \in flags'[c] => c = b
    BY <1>1, <1>3, <2>1 DEF TypeOK
  <2> QED
    BY <1>4, <1>6, <2>2 DEF FlagsInv
<1>9. CallInv(t)'
  BY <1>4, <1>6 DEF CallInv, Getting
<1> QED
  BY <1>1, <1>2, <1>4, <1>5, <1>7, <1>8, <1>9, KeepCache DEF lists

\* buffer_dirty_remove after the block is written.
LEMMA WriteOutStep ==
  ASSUME IInv, ~Overlap, NEW t \in Thread, WriteOut(t)
  PROVE  IInv'
<1> USE DEF IInv
<1>1. /\ pc[t] = "write" /\ pc' = [pc EXCEPT ![t] = "written"]
      /\ flags' = [flags EXCEPT ![bh[t]] = @ \ {"dirty"}]
      /\ dirty' = IF "dirty" \in flags[bh[t]] THEN Delete(dirty, bh[t]) ELSE dirty
      /\ UNCHANGED <<heap, spare, id, ref, hash, lru, locals, held, used>>
  BY DEF WriteOut, Goto
<1>2. Solo(t) /\ Solo(t)' /\ Serial'
  BY <1>1, StepsAlone
<1>3. PICK b \in Cached : b = bh[t] /\ b \in Buf
  BY <1>1, ChainPlace DEF CallInv, LruInv
<1>4. pc'[t] = "written" /\ bh'[t] = b /\ arg'[t] = arg[t] /\ saved'[t] = saved[t]
  BY <1>1, <1>3 DEF TypeOK, locals
<1>5. dirty \in ListOf(Ptr)
  BY DEF TypeOK, Ptr
<1>6. Dirty' = Dirty \ {b} /\ Cached' = Cached
  BY <1>1, <1>3 DEF Dirty, TypeOK, Cached
<1>7. PICK s \in Seq(Buf) : Chain(dirty, s, Dirty) /\ \A u \in Thread : SyncAt(u, s)
  BY DEF DirtyInv
<1>8. PICK n \in Nat : n = Len(s) /\ DOMAIN s = 1 .. n
  BY <1>7, ChainPlace
<1>9. \A u \in Thread \ {t} : \A r : SyncAt(u, r)'
  BY <1>2 DEF SyncAt, Solo
<1>10. DirtyInv' /\ dirty' \in ListOf(Ptr)
  <2>1. CASE b \in Dirty
    <3>1. PICK k \in 1 .. n : s[k] = b
      BY <1>7, <1>8, <2>1, ChainPlace
    <3> DEFINE r == RemoveAt(s, k)
    <3>2. /\ Chain(Delete(dirty, s[k]), r, Dirty \ {s[k]})
          /\ Delete(dirty, s[k]) \in ListOf(Ptr)
      BY <1>5, <1>7, <1>8, ChainCut
    <3>3. dirty' = Delete(dirty, b)
      BY <1>1, <1>3, <2>1 DEF Dirty
    <3>4. /\ r \in Seq(Buf) /\ Len(r) = n - 1
          /\ \A i \in 1 .. n - 1 : r[i] = IF i < k THEN s[i] ELSE s[i + 1]
      BY <1>8, RemoveAtProps
    <3>5. DOMAIN r = 1 .. n - 1
      BY <3>4, LenProperties
    <3> HIDE DEF r
    <3>6. SyncAt(t, r)'
      <4> SUFFICES ASSUME arg'[t] # NULL
                   PROVE  \E j \in 1 .. Len(r) + 1 :
                            Synced(t, r, j)' /\ saved'[t] = Nth(r, j)
        BY <1>4 DEF SyncAt, Nth
      <4>1. PICK j \in 1 .. n :
              Synced(t, s, j) /\ bh[t] = s[j] /\ saved[t] = Nth(s, j + 1)
        BY <1>1, <1>4, <1>7, <1>8 DEF SyncAt
      <4>2. j = k
        BY <1>3, <1>7, <1>8, <3>1, <4>1, ChainPlace
      <4>3. k \in 1 .. Len(r) + 1
        BY <1>8, <3>4
      <4>4. Synced(t, r, k)'
        <5> SUFFICES ASSUME NEW i \in 1 .. k - 1
                     PROVE  ~(arg'[t] = All \/ id'[r[i]][1] = arg'[t])
          BY DEF Synced, Matches
        <5>1. i \in 1 .. n - 1 /\ i < k
          BY <1>8
        <5>2. r[i] = s[i]
          BY <3>4, <5>1
        <5> QED
          BY <1>1, <1>4, <4>1, <4>2, <5>2 DEF Synced, Matches
      <4>5. saved'[t] = Nth(r, k)
        <5>1. k + 1 \in 1 .. n <=> k \in 1 .. n - 1
          BY <1>8
        <5>2. k \in 1 .. n - 1 => r[k] = s[k + 1]
          BY <3>4
        <5> QED
          BY <1>4, <1>8, <3>5, <4>1, <4>2, <5>1, <5>2 DEF Nth
      <4> QED
        BY <4>3, <4>4, <4>5
    <3>7. \A u \in Thread : SyncAt(u, r)'
      BY <1>9, <3>6
    <3>8. Chain(dirty', r, Dirty')
      BY <1>6, <3>1, <3>2, <3>3
    <3> QED
      BY <3>1, <3>2, <3>3, <3>4, <3>7, <3>8 DEF DirtyInv
  <2>2. CASE b \notin Dirty
    <3>1. dirty' = dirty /\ Dirty' = Dirty
      BY <1>1, <1>3, <1>6, <2>2 DEF Dirty
    <3>2. arg[t] = NULL
      <4> SUFFICES ASSUME arg[t] # NULL PROVE FALSE
        OBVIOUS
      <4>1. PICK j \in 1 .. n : bh[t] = s[j]
        BY <1>1, <1>7, <1>8 DEF SyncAt
      <4> QED
        BY <1>3, <1>7, <1>8, <2>2, <4>1, ChainPlace
    <3>3. SyncAt(t, s)'
      BY <1>4, <3>2 DEF SyncAt
    <3> QED
      BY <1>5, <1>7, <1>9, <3>1, <3>3 DEF DirtyInv
  <2> QED
    BY <2>1, <2>2
<1>11. TypeOK'
  BY <1>1, <1>3, <1>10 DEF TypeOK, locals, Ptr
<1>12. FlagsInv'
  <2>1. \A c \in Buf : "locked" \in flags[c] => c = b
    BY <1>1, <1>2, <1>3 DEF FlagsInv, Solo
  <2>2. \A c \in Buf : "locked" \in flags'[c] => c = b
    BY <1>1, <1>3, <2>1 DEF TypeOK
  <2> QED
    BY <1>4, <1>6, <2>2 DEF FlagsInv
<1>13. CallInv(t)'
  BY <1>4, <1>6 DEF CallInv, Getting
<1> QED
  BY <1>1, <1>2, <1>4, <1>10, <1>11, <1>12, <1>13, KeepCache DEF locals

\* buffer_cache_write ends and a sync goes on.
LEMMA WriteDoneStep ==
  ASSUME IInv, ~Overlap, NEW t \in Thread, WriteDone(t)
  PROVE  IInv'
<1> USE DEF IInv
<1>1. /\ pc[t] = "written"
      /\ flags' = [flags EXCEPT ![bh[t]] = @ \ {"locked"}]
      /\ UNCHANGED <<heap, spare, id, ref, lists, held, used>>
  BY DEF WriteDone
<1>2. PICK b \in Cached : b = bh[t] /\ b \in Buf
  BY <1>1, ChainPlace DEF CallInv, LruInv
<1>3. Dirty' = Dirty /\ Cached' = Cached
  BY <1>1, <1>2 DEF Dirty, TypeOK, Cached
<1>4. \E x : pc' = [pc EXCEPT ![t] = x]
  BY DEF WriteDone, Return, Goto
<1>5. Solo(t) /\ Solo(t)' /\ Serial'
  BY <1>1, <1>4, StepsAlone
<1>6. FlagsInv'
  <2>1. \A c \in Buf : "locked" \in flags[c] => c = b
    BY <1>1, <1>2, <1>5 DEF FlagsInv, Solo
  <2>2. \A c \in Buf : "locked" \notin flags'[c]
    BY <1>1, <1>2, <2>1 DEF TypeOK
  <2> QED
    BY <1>3, <2>2 DEF FlagsInv
<1>7. CASE arg[t] = NULL
  <2>1. pc'[t] = "idle" /\ arg'[t] = NULL /\ \A u \in Thread \ {t} : arg'[u] = arg[u]
    BY <1>7 DEF WriteDone, Return, TypeOK
  <2>2. TypeOK'
    <3>1. Return(t)
      BY <1>7 DEF WriteDone
    <3>2. flags' \in [Buf -> SUBSET {"dirty", "locked"}]
      BY <1>1, <1>2 DEF TypeOK
    <3> QED
      BY <1>1, <3>1, <3>2, EvictRange DEF TypeOK, Return, lists
  <2>3. DirtyInv'
    BY <1>1, <1>3, <1>5, <2>1, KeepDirty DEF Solo, lists
  <2>4. CallInv(t)'
    BY <2>1 DEF CallInv, Getting
  <2> QED
    BY <1>1, <1>5, <1>6, <2>1, <2>2, <2>3, <2>4, KeepCache DEF lists
<1>8. CASE arg[t] # NULL
  <2>1. /\ pc' = [pc EXCEPT ![t] = "sync"] /\ bh' = [bh EXCEPT ![t] = saved[t]]
        /\ UNCHANGED <<saved, arg, evicted>>
    BY <1>8 DEF WriteDone, Goto
  <2>2. pc'[t] = "sync" /\ bh'[t] = saved[t]
    BY <2>1 DEF TypeOK
  <2>3. TypeOK'
    BY <1>1, <1>2, <2>1 DEF TypeOK, lists
  <2>4. DirtyInv'
    <3>1. PICK s \in Seq(Buf) : Chain(dirty, s, Dirty) /\ \A u \in Thread : SyncAt(u, s)
      BY DEF DirtyInv
    <3>2. \E j \in 1 .. Len(s) + 1 : Synced(t, s, j) /\ saved[t] = Nth(s, j)
      BY <1>1, <1>8, <3>1 DEF SyncAt
    <3>3. \A j \in 1 .. Len(s) + 1 : Synced(t, s, j)' <=> Synced(t, s, j)
      BY <1>1, <2>1 DEF Synced, Matches
    <3>4. SyncAt(t, s)'
      BY <1>8, <2>1, <2>2, <3>2, <3>3 DEF SyncAt, Nth
    <3>5. \A u \in Thread : SyncAt(u, s)'
      BY <1>5, <3>4 DEF SyncAt, Solo
    <3>6. Chain(dirty', s, Dirty')
      BY <1>1, <1>3, <3>1 DEF lists
    <3> QED
      BY <3>5, <3>6 DEF DirtyInv
  <2>5. CallInv(t)'
    BY <2>2 DEF CallInv, Getting
  <2> QED
    BY <1>1, <1>5, <1>6, <2>1, <2>2, <2>3, <2>4, <2>5, KeepCache DEF lists
<1> QED
  BY <1>7, <1>8

\* buffer_cache_sync_device begins at the head of the dirty list.
LEMMA SyncStep ==
  ASSUME IInv, ~Overlap, NEW t \in Thread, NEW d \in Device \cup {All}, Sync(t, d)
  PROVE  IInv'
<1> USE DEF IInv
<1>1. /\ MayCall(t) /\ pc[t] = "idle" /\ pc' = [pc EXCEPT ![t] = "sync"]
      /\ arg' = [arg EXCEPT ![t] = d]
      /\ bh'  = [bh EXCEPT ![t] = dirty.head]
      /\ UNCHANGED <<heads, lists, saved, evicted, held, used>>
  BY DEF Sync, Goto
<1>2. Solo(t) /\ Solo(t)' /\ Serial'
  BY <1>1, StepsAlone
<1>3. /\ pc'[t] = "sync" /\ arg'[t] = d /\ bh'[t] = dirty.head
      /\ \A u \in Thread \ {t} : arg'[u] = arg[u]
  BY <1>1 DEF TypeOK
<1>4. d # NULL /\ dirty.head \in Buf \cup {NULL}
  BY BufferCacheAssumption DEF TypeOK, ListOf
<1>5. TypeOK'
  BY <1>1, <1>4 DEF TypeOK, heads, lists
<1>6. Dirty' = Dirty /\ Cached' = Cached
  BY <1>1 DEF Dirty, Cached, heads
<1>7. DirtyInv'
  <2>1. PICK s \in Seq(Buf) : Chain(dirty, s, Dirty)
    BY DEF DirtyInv
  <2>2. PICK n \in Nat : n = Len(s)
    BY <2>1, ChainPlace
  <2>3. dirty.head = Nth(s, 1)
    BY <2>1, NextDirty
  <2>4. 1 \in 1 .. n + 1 /\ 1 .. 1 - 1 = {}
    BY <2>2
  <2>5. Synced(t, s, 1)'
    BY <2>4 DEF Synced
  <2>6. \E j \in 1 .. Len(s) + 1 : Synced(t, s, j)' /\ bh'[t] = Nth(s, j)
    BY <1>3, <2>2, <2>3, <2>4, <2>5
  <2>7. SyncAt(t, s)'
    BY <1>3, <1>4, <2>6 DEF SyncAt, Nth
  <2>8. \A u \in Thread : SyncAt(u, s)'
    BY <1>2, <2>7 DEF SyncAt, Solo
  <2>9. Chain(dirty', s, Dirty')
    BY <1>1, <1>6, <2>1 DEF lists
  <2> QED
    BY <2>8, <2>9 DEF DirtyInv
<1>8. FlagsInv'
  BY <1>1, <1>2, <1>6, KeepFlags DEF FlagsInv, heads
<1>9. CallInv(t)'
  BY <1>3 DEF CallInv, Getting
<1> QED
  BY <1>1, <1>2, <1>3, <1>5, <1>7, <1>8, <1>9, KeepCache DEF heads, lists

\* A sync that is at a buffer is at a place of the dirty list.
LEMMA SyncPlace ==
  ASSUME IInv, NEW t \in Thread, pc[t] = "sync", bh[t] # NULL
  PROVE  \E s \in Seq(Buf), j \in Nat :
           /\ Chain(dirty, s, Dirty) /\ j \in 1 .. Len(s) /\ arg[t] # NULL
           /\ Synced(t, s, j) /\ bh[t] = s[j] /\ SyncNext(t) = Nth(s, j + 1)
           /\ bh[t] \in Cached /\ bh[t] \in Buf
<1>1. PICK s \in Seq(Buf) : Chain(dirty, s, Dirty) /\ \A u \in Thread : SyncAt(u, s)
  BY DEF IInv, DirtyInv
<1>2. PICK n \in Nat : n = Len(s) /\ DOMAIN s = 1 .. n
  BY <1>1, ChainPlace
<1>3. arg[t] # NULL /\ \E j \in 1 .. n + 1 : Synced(t, s, j) /\ bh[t] = Nth(s, j)
  BY <1>1, <1>2 DEF SyncAt
<1>4. PICK j \in 1 .. n + 1 : Synced(t, s, j) /\ bh[t] = Nth(s, j)
  BY <1>3
<1>5. j \in 1 .. n /\ bh[t] = s[j]
  BY <1>2, <1>4 DEF Nth
<1>6. SyncNext(t) = Nth(s, j + 1)
  BY <1>1, <1>2, <1>5, NextDirty DEF SyncNext
<1>7. bh[t] \in Dirty /\ bh[t] \in Buf
  BY <1>1, <1>2, <1>5, ChainPlace
<1>8. bh[t] \in Cached
  BY <1>7 DEF IInv, FlagsInv
<1> QED
  BY <1>1, <1>2, <1>3, <1>4, <1>5, <1>6, <1>7, <1>8

\* Sync writes a dirty buffer of its device.
LEMMA SyncWriteStep ==
  ASSUME IInv, ~Overlap, NEW t \in Thread, SyncWrite(t)
  PROVE  IInv'
<1> USE DEF IInv
<1>1. /\ pc[t] = "sync" /\ bh[t] # NULL /\ pc' = [pc EXCEPT ![t] = "write"]
      /\ flags' = [flags EXCEPT ![bh[t]] = @ \cup {"locked"}]
      /\ saved' = [saved EXCEPT ![t] = SyncNext(t)]
      /\ UNCHANGED <<heap, spare, id, ref, lists, bh, arg, evicted, held, used>>
  BY DEF SyncWrite, Goto, Lock
<1>2. Solo(t) /\ Solo(t)' /\ Serial'
  BY <1>1, StepsAlone
<1>3. PICK s \in Seq(Buf), j \in Nat :
        /\ Chain(dirty, s, Dirty) /\ j \in 1 .. Len(s) /\ arg[t] # NULL
        /\ Synced(t, s, j) /\ bh[t] = s[j] /\ SyncNext(t) = Nth(s, j + 1)
        /\ bh[t] \in Cached /\ bh[t] \in Buf
  BY <1>1, SyncPlace
<1>4. PICK b \in Buf : b = bh[t] /\ b \in Cached
  BY <1>3
<1>5. pc'[t] = "write" /\ saved'[t] = Nth(s, j + 1) /\ bh'[t] = b
  BY <1>1, <1>3, <1>4 DEF TypeOK
<1>6. SyncNext(t) \in Buf \cup {NULL}
  BY <1>3 DEF SyncNext, TypeOK, ListOf
<1>7. TypeOK'
  BY <1>1, <1>4, <1>6 DEF TypeOK, lists
<1>8. Dirty' = Dirty /\ Cached' = Cached
  BY <1>1, <1>4 DEF Dirty, TypeOK, Cached
<1>9. DirtyInv'
  <2>1. Synced(t, s, j)'
    BY <1>1, <1>3 DEF Synced, Matches
  <2>2. SyncAt(t, s)'
    BY <1>3, <1>4, <1>5, <2>1 DEF SyncAt, Nth
  <2>3. \A u \in Thread : SyncAt(u, s)'
    BY <1>2, <2>2 DEF SyncAt, Solo
  <2>4. Chain(dirty', s, Dirty')
    BY <1>1, <1>3, <1>8 DEF lists
  <2> QED
    BY <2>3, <2>4 DEF DirtyInv
<1>10. FlagsInv'
  <2>1. \A c \in Buf : "locked" \notin flags[c]
    BY <1>1, <1>2, Unlocked
  <2>2. \A c \in Buf : "locked" \in flags'[c] => c = b
    BY <1>1, <1>4, <2>1 DEF TypeOK
  <2> QED
    BY <1>5, <1>8, <2>2 DEF FlagsInv
<1>11. CallInv(t)'
  BY <1>4, <1>5, <1>8 DEF CallInv, Getting
<1> QED
  BY <1>1, <1>2, <1>5, <1>7, <1>9, <1>10, <1>11, KeepCache DEF lists

\* Sync passes a buffer it has nothing to do for.
LEMMA SyncSkipStep ==
  ASSUME IInv, ~Overlap, NEW t \in Thread, SyncSkip(t)
  PROVE  IInv'
<1> USE DEF IInv
<1>1. /\ pc[t] = "sync" /\ bh[t] # NULL /\ pc' = pc
      /\ bh' = [bh EXCEPT ![t] = SyncNext(t)]
      /\ UNCHANGED <<heads, lists, saved, arg, evicted, held, used>>
  BY DEF SyncSkip
<1>2. Solo(t) /\ Solo(t)' /\ Serial'
  BY <1>1, StepsAlone
<1>3. PICK s \in Seq(Buf), j \in Nat :
        /\ Chain(dirty, s, Dirty) /\ j \in 1 .. Len(s) /\ arg[t] # NULL
        /\ Synced(t, s, j) /\ bh[t] = s[j] /\ SyncNext(t) = Nth(s, j + 1)
        /\ bh[t] \in Cached /\ bh[t] \in Buf
  BY <1>1, SyncPlace
<1>4. ~Matches(arg[t], s[j])
  BY <1>1, <1>2, <1>3, Unlocked DEF SyncSkip
<1>5. bh'[t] = Nth(s, j + 1) /\ pc'[t] = "sync"
  BY <1>1, <1>3 DEF TypeOK
<1>6. SyncNext(t) \in Buf \cup {NULL}
  BY <1>3 DEF SyncNext, TypeOK, ListOf
<1>7. TypeOK'
  BY <1>1, <1>6 DEF TypeOK, heads, lists
<1>8. Dirty' = Dirty /\ Cached' = Cached
  BY <1>1 DEF Dirty, Cached, heads
<1>9. DirtyInv'
  <2>1. PICK n \in Nat : n = Len(s)
    BY <1>3, ChainPlace
  <2>2. j + 1 \in 1 .. n + 1
    BY <1>3, <2>1
  <2>3. Synced(t, s, j + 1)
    <3>1. \A i \in 1 .. (j + 1) - 1 : i \in 1 .. j - 1 \/ i = j
      OBVIOUS
    <3> QED
      BY <1>3, <1>4, <3>1 DEF Synced
  <2>4. Synced(t, s, j + 1)'
    BY <1>1, <2>3 DEF Synced, Matches, heads
  <2>5. \E i \in 1 .. Len(s) + 1 : Synced(t, s, i)' /\ bh'[t] = Nth(s, i)
    BY <1>5, <2>1, <2>2, <2>4
  <2>6. SyncAt(t, s)'
    BY <1>1, <1>3, <1>5, <2>5 DEF SyncAt, Nth
  <2>7. \A u \in Thread : SyncAt(u, s)'
    BY <1>2, <2>6 DEF SyncAt, Solo
  <2>8. Chain(dirty', s, Dirty')
    BY <1>1, <1>3, <1>8 DEF lists
  <2> QED
    BY <2>7, <2>8 DEF DirtyInv
<1>10. FlagsInv'
  BY <1>1, <1>2, <1>8, KeepFlags DEF FlagsInv, heads
<1>11. CallInv(t)'
  BY <1>5 DEF CallInv, Getting
<1> QED
  BY <1>1, <1>2, <1>5, <1>7, <1>9, <1>10, <1>11, KeepCache DEF heads, lists

\* Sync has reached the end of the dirty list.
LEMMA SyncEndStep ==
  ASSUME IInv, ~Overlap, NEW t \in Thread, SyncEnd(t)
  PROVE  IInv'
<1>1. pc[t] = "sync" /\ Return(t) /\ UNCHANGED <<heads, lists, held, used>>
  BY DEF SyncEnd
<1>2. Solo(t)
  BY <1>1 DEF IInv, Serial, Solo
<1> QED
  BY <1>1, <1>2, ReturnStep

-----------------------------------------------------------------------------
\* buffer_cache_init establishes the invariant.
LEMMA InitIInv == Init => IInv
<1> SUFFICES ASSUME Init PROVE IInv
  OBVIOUS
<1> USE DEF Init
<1>1. Len(used) = 0 /\ DOMAIN used = {} /\ used \in Seq(Buf) /\ Cached = {}
  BY DEF Cached, Range
<1>2. \A P : "idle" \notin P => WorkedOn(P) = {}
  BY DEF WorkedOn
<1>3. Hashed = {} /\ Private = {}
  BY <1>1, <1>2 DEF Hashed, Private
<1>4. Dirty = {}
  BY DEF Dirty
<1>5. Chain(Empty, used, {})
  BY <1>1 DEF Chain, IsChain, Empty, IsInjective, Cached
<1>6. LruInv /\ HashInv
  BY <1>1, <1>3, <1>5 DEF LruInv, HashInv
<1>7. DirtyInv
  BY <1>1, <1>4, <1>5 DEF DirtyInv, SyncAt
<1>8. FlagsInv /\ RefInv /\ IdInv /\ Serial
  BY <1>1, <1>4 DEF FlagsInv, RefInv, IdInv, Serial
<1>9. HeapInv
  <2>1. spare # NULL => spare \in Buf
    OBVIOUS
  <2> QED
    BY <1>1, <1>3, <2>1 DEF HeapInv
<1>10. TypeOK
  <2>1. Empty \in ListOf(Buf \cup {NULL})
    BY DEF Empty, ListOf
  <2> QED
    BY <1>1, <2>1, EvictRange DEF TypeOK
<1>11. \A t \in Thread : CallInv(t)
  BY DEF CallInv, Getting
<1> QED
  BY <1>6, <1>7, <1>8, <1>9, <1>10, <1>11 DEF IInv

\* Every step preserves the invariant: one case per action.
LEMMA StepIInv == ASSUME ~Overlap, IInv, [Next]_vars PROVE IInv'
<1>1. ASSUME NEW t \in Thread, Call(t) PROVE IInv'
  BY <1>1, GetHitStep, GetMissStep, PutStep, ReadStep, MarkDirtyStep, WriteStep,
     SyncStep DEF Call
<1>2. ASSUME NEW t \in Thread, Step(t) PROVE IInv'
  BY <1>2, AllocHeadStep, AllocFullStep, AllocDataStep, DataFailsStep,
     InsertHashStep, AddLruStep, EvictTestStep, EvictUnhashStep, EvictUnlruStep,
     EvictFreeStep, EvictEndStep, ReadDoneStep, WriteOutStep, WriteDoneStep,
     SyncWriteStep, SyncSkipStep, SyncEndStep DEF Step
<1>3. CASE UNCHANGED vars
  <2> USE <1>3 DEF vars, heads, lists, locals
  <2>1. TypeOK' /\ Serial' /\ LruInv' /\ Cached' = Cached
    BY KeepLru DEF IInv, TypeOK, Serial
  <2>2. Hashed' = Hashed /\ Private' = Private /\ Dirty' = Dirty
    BY <2>1 DEF Hashed, Private, WorkedOn, Dirty
  <2>3. HashInv' /\ RefInv' /\ IdInv'
    BY <2>1, <2>2, KeepHash, KeepRefs, KeepIds DEF IInv
  <2>4. FlagsInv' /\ HeapInv'
    BY <2>1, <2>2 DEF IInv, FlagsInv, HeapInv
  <2>5. \A t \in Thread, s \in Seq(Buf) : SyncAt(t, s) => SyncAt(t, s)'
    BY DEF SyncAt, Synced, Matches, Nth
  <2>6. DirtyInv'
    BY <2>2, <2>5 DEF IInv, DirtyInv
  <2>7. \A t \in Thread : CallInv(t)'
    BY <2>1 DEF IInv, CallInv, Spared, Evictable, Nth
  <2> QED
    BY <2>1, <2>3, <2>4, <2>6, <2>7 DEF IInv
<1> QED
  BY <1>1, <1>2, <1>3 DEF Next

\* The invariant holds throughout.
LEMMA InvariantHolds == ASSUME ~Overlap PROVE Spec => []IInv
<1>1. IInv /\ [Next]_vars => IInv'
  BY StepIInv
<1> QED
  BY <1>1, InitIInv, PTL DEF Spec

\* The type invariant, of which the interesting part is that no reference count
\* falls below 0, as long as calls do not overlap.
THEOREM TypesHold == ASSUME ~Overlap PROVE Spec => []TypeOK
<1>1. IInv => TypeOK
  BY DEF IInv
<1> QED
  BY <1>1, InvariantHolds, PTL

\* Between calls no place is in use.
LEMMA QuietPlaces ==
  ASSUME Quiet, NEW P, "idle" \notin P PROVE WorkedOn(P) = {}
BY DEF Quiet, WorkedOn

\* Between calls every allocated head is cached or spare: buffer_cache_get and
\* buffer_evict_lru lose none, as long as calls do not overlap.
THEOREM NoHeadLost == ASSUME ~Overlap PROVE Spec => []NoneLost
<1>1. IInv => NoneLost
  <2> SUFFICES ASSUME IInv, Quiet PROVE heap = Range(used) \cup ({spare} \ {NULL})
    BY DEF NoneLost
  <2>1. Private = {}
    BY QuietPlaces DEF Private
  <2> QED
    BY <2>1 DEF IInv, HeapInv, Cached
<1> QED
  BY <1>1, InvariantHolds, PTL

\* Between calls the three lists agree with each other and with the flags, as
\* long as calls do not overlap.
THEOREM ListsAgree == ASSUME ~Overlap PROVE Spec => []ListsSound
<1>1. IInv => ListsSound
  <2> SUFFICES ASSUME IInv, Quiet
               PROVE  /\ Linked(hash, Range(used)) /\ IsChain(lru, used)
                      /\ \A b, c \in Range(used) : id[b] = id[c] => b = c
                      /\ Linked(dirty, {b \in Range(used) : "dirty" \in flags[b]})
    BY DEF ListsSound
  <2>1. Hashed = Cached
    BY QuietPlaces DEF Hashed
  <2>2. Linked(hash, Cached)
    BY <2>1, LinkedChain DEF IInv, HashInv, Chain
  <2>3. Linked(dirty, Dirty)
    BY LinkedChain DEF IInv, DirtyInv, Chain
  <2>4. Dirty = {b \in Cached : "dirty" \in flags[b]}
    BY ChainPlace DEF IInv, Dirty, FlagsInv, LruInv
  <2> QED
    BY <2>2, <2>3, <2>4 DEF IInv, LruInv, Chain, IdInv, Cached
<1> QED
  BY <1>1, InvariantHolds, PTL

\* buffer_evict_lru frees the buffer got longest ago of those it may free, as
\* long as calls do not overlap.
THEOREM EvictionInOrder == ASSUME ~Overlap PROVE Spec => EvictsOldest
<1> DEFINE P == \A t \in Thread : pc[t] = "evict" /\ pc'[t] = "unhash" =>
                  \A j, k \in DOMAIN used :
                    bh[t] = used[j] /\ j < k => ~Evictable(used[k])
<1>1. IInv => P
  <2> SUFFICES ASSUME IInv, NEW t \in Thread, pc[t] = "evict",
                      NEW j \in DOMAIN used, NEW k \in DOMAIN used,
                      bh[t] = used[j], j < k
               PROVE  ~Evictable(used[k])
    OBVIOUS
  <2>1. PICK n \in Nat : n = Len(used) /\ DOMAIN used = 1 .. n
    BY ChainPlace DEF IInv, LruInv
  <2>2. PICK i \in 0 .. n : Spared(i) /\ bh[t] = Nth(used, i)
    BY <2>1 DEF IInv, CallInv
  <2>3. bh[t] # NULL /\ \A x, y \in 1 .. n : used[x] = used[y] => x = y
    BY <2>1, ChainPlace DEF IInv, LruInv
  <2>4. i = j
    BY <2>1, <2>2, <2>3 DEF Nth
  <2> QED
    BY <2>1, <2>2, <2>4 DEF Spared
<1>2. IInv /\ [Next]_vars => [P]_vars
  BY <1>1
<1> QED
  BY <1>2, InvariantHolds, PTL DEF Spec, EvictsOldest

\* When buffer_cache_sync_device returns, no buffer of the device is dirty, as
\* long as calls do not overlap.
THEOREM SyncIsComplete == ASSUME ~Overlap PROVE Spec => SyncWritesAll
<1> DEFINE P == \A t \in Thread : pc[t] = "sync" /\ pc'[t] = "idle" =>
                  \A b \in heap : id[b] # NULL /\ Matches(arg[t], b)
                                    => "dirty" \notin flags[b]
<1>1. IInv /\ [Next]_vars => [P]_vars
  <2> SUFFICES ASSUME IInv, Next, NEW t \in Thread, pc[t] = "sync",
                      pc'[t] = "idle", NEW b \in heap, Matches(arg[t], b),
                      "dirty" \in flags[b]
               PROVE  FALSE
    OBVIOUS
  <2>1. SyncEnd(t)
    <3>1. PICK u \in Thread : Call(u) \/ Step(u)
      BY DEF Next
    <3>2. u = t
      <4> SUFFICES ASSUME u # t PROVE FALSE
        OBVIOUS
      <4>1. pc[u] = "idle"
        BY DEF IInv, Serial
      <4>2. Call(u)
        BY <3>1, <4>1 DEF Step, AllocHead, AllocFull, AllocData, DataFails,
           InsertHash, AddLru, EvictTest, EvictUnhash, EvictUnlru, EvictFree,
           EvictEnd, ReadDone, WriteOut, WriteDone, SyncWrite, SyncSkip, SyncEnd,
           Goto
      <4>3. MayCall(u)
        BY <4>2 DEF Call, GetHit, GetMiss, Put, Read, MarkDirty, Write, Sync
      <4> QED
        BY <4>3 DEF MayCall
    <3>3. ~MayCall(t)
      BY DEF MayCall
    <3>4. Step(t)
      BY <3>1, <3>2, <3>3 DEF Call, GetHit, GetMiss, Put, Read, MarkDirty, Write, Sync
    <3> QED
      BY <3>4 DEF Step, AllocHead, AllocFull, AllocData, DataFails,
         InsertHash, AddLru, EvictTest, EvictUnhash, EvictUnlru, EvictFree,
         EvictEnd, ReadDone, WriteOut, WriteDone, SyncWrite, SyncSkip, Goto,
         IInv, TypeOK
  <2>2. bh[t] = NULL
    BY <2>1 DEF SyncEnd
  <2>3. PICK s \in Seq(Buf) : Chain(dirty, s, Dirty) /\ SyncAt(t, s)
    BY DEF IInv, DirtyInv
  <2>4. PICK n \in Nat : n = Len(s) /\ DOMAIN s = 1 .. n
    BY <2>3, ChainPlace
  <2>5. PICK j \in 1 .. n + 1 : Synced(t, s, j) /\ NULL = Nth(s, j)
    BY <2>2, <2>3, <2>4 DEF SyncAt
  <2>6. j = n + 1
    BY <2>3, <2>4, <2>5, ChainPlace DEF Nth
  <2>7. b \in Dirty
    BY DEF Dirty, IInv, TypeOK
  <2>8. PICK i \in 1 .. n : s[i] = b
    BY <2>3, <2>4, <2>7, ChainPlace
  <2>9. ~Matches(arg[t], s[i])
    BY <2>5, <2>6, <2>8 DEF Synced
  <2> QED
    BY <2>8, <2>9
<1> QED
  BY <1>1, InvariantHolds, PTL DEF Spec, SyncWritesAll
=============================================================================
