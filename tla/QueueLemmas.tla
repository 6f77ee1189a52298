----------------------------- MODULE QueueLemmas -----------------------------
(***************************************************************************)
(* What the four ways in which the scheduler changes a deque (append,      *)
(* appendleft, popleft, del queue[i]) do to its elements, their order and  *)
(* their uniqueness.  Facts about sequences only; the proofs about         *)
(* Scheduler cite them.                                                    *)
(***************************************************************************)
EXTENDS Integers, Sequences, Functions, SequencesExt, SequenceTheorems, TLAPS

\* RemoveAt (removal from the middle: abort_request, the timeouts of Step 4)
\* shifts the elements behind the removed one by one place.
LEMMA RemoveAtElements ==
    ASSUME NEW S, NEW s \in Seq(S), NEW i \in 1..Len(s)
    PROVE  /\ RemoveAt(s, i) \in Seq(S)
           /\ Len(RemoveAt(s, i)) = Len(s) - 1
           /\ \A k \in 1..(Len(s) - 1) :
                 RemoveAt(s, i)[k] = IF k < i THEN s[k] ELSE s[k + 1]
<1>1. PICK n \in Nat : n = Len(s)
  BY LenProperties
<1>2. i \in Nat /\ 1 <= i /\ i <= n
  BY <1>1
<1>3. \A k \in 1..n : s[k] \in S
  BY <1>1, ElementOfSeq
<1>4. PICK front : front = SubSeq(s, 1, i - 1)
  OBVIOUS
<1>5. PICK back : back = SubSeq(s, i + 1, n)
  OBVIOUS
<1>6. /\ front \in Seq(S)
      /\ Len(front) = i - 1
      /\ \A k \in 1..(i - 1) : front[k] = s[k]
  <2>1. 1 \in Int /\ i - 1 \in Int /\ \A k \in 1..(i - 1) : s[k] \in S
    BY <1>2, <1>3
  <2>2. /\ SubSeq(s, 1, i - 1) \in Seq(S)
        /\ Len(SubSeq(s, 1, i - 1)) = IF 1 <= i - 1 THEN i - 1 - 1 + 1 ELSE 0
        /\ \A k \in 1..(i - 1 - 1 + 1) : SubSeq(s, 1, i - 1)[k] = s[1 + k - 1]
    BY <2>1, SubSeqProperties
  <2>3. QED BY <2>2, <1>2, <1>4
<1>7. /\ back \in Seq(S)
      /\ Len(back) = n - i
      /\ \A k \in 1..(n - i) : back[k] = s[i + k]
  <2>1. n \in Int /\ i + 1 \in Int /\ \A k \in (i + 1)..n : s[k] \in S
    BY <1>1, <1>2, <1>3
  <2>2. /\ SubSeq(s, i + 1, n) \in Seq(S)
        /\ Len(SubSeq(s, i + 1, n)) = IF i + 1 <= n THEN n - (i + 1) + 1 ELSE 0
        /\ \A k \in 1..(n - (i + 1) + 1) : SubSeq(s, i + 1, n)[k] = s[i + 1 + k - 1]
    BY <2>1, SubSeqProperties
  <2>3. QED BY <2>2, <1>1, <1>2, <1>5
<1>8. RemoveAt(s, i) = front \o back
  BY <1>1, <1>4, <1>5 DEF RemoveAt
<1>9. PICK t : t = front \o back
  OBVIOUS
<1>10. /\ t \in Seq(S)
       /\ Len(t) = Len(front) + Len(back)
       /\ \A k \in 1..(Len(front) + Len(back)) :
             t[k] = IF k <= Len(front) THEN front[k] ELSE back[k - Len(front)]
  BY <1>6, <1>7, <1>9, ConcatProperties, Zenon
<1>11. Len(t) = n - 1
  BY <1>1, <1>2, <1>6, <1>7, <1>10
<1>12. ASSUME NEW k \in 1..(n - 1)
       PROVE  t[k] = IF k < i THEN s[k] ELSE s[k + 1]
  <2>1. k \in 1..(Len(front) + Len(back))
    BY <1>1, <1>2, <1>6, <1>7
  <2>2. CASE k < i
    <3>1. k <= Len(front) /\ k \in 1..(i - 1)
      BY <1>1, <1>2, <1>6, <2>2
    <3>2. QED BY <3>1, <2>1, <2>2, <1>6, <1>10
  <2>3. CASE ~(k < i)
    <3>1. ~(k <= Len(front)) /\ k - (i - 1) \in 1..(n - i) /\ i + (k - (i - 1)) = k + 1
      BY <1>1, <1>2, <1>6, <2>3
    <3>2. t[k] = back[k - (i - 1)]
      BY <3>1, <2>1, <1>6, <1>10
    <3>3. back[k - (i - 1)] = s[k + 1]
      BY <3>1, <1>7
    <3>4. QED BY <3>2, <3>3, <2>3
  <2>4. QED BY <2>2, <2>3
<1>13. QED
  BY <1>1, <1>8, <1>9, <1>10, <1>11, <1>12

\* From a queue without duplicates RemoveAt takes exactly the element at i.
LEMMA RemoveAtRange ==
    ASSUME NEW S, NEW s \in Seq(S), NEW i \in 1..Len(s), IsInjective(s)
    PROVE  /\ RemoveAt(s, i) \in Seq(S)
           /\ IsInjective(RemoveAt(s, i))
           /\ Range(RemoveAt(s, i)) = Range(s) \ {s[i]}
<1>1. PICK n \in Nat : n = Len(s) /\ DOMAIN s = 1..n
  BY LenProperties
<1>2. i \in Nat /\ 1 <= i /\ i <= n
  BY <1>1
<1>3. PICK t : t = RemoveAt(s, i)
  OBVIOUS
<1>4. /\ t \in Seq(S)
      /\ DOMAIN t = 1..(n - 1)
      /\ \A k \in 1..(n - 1) : t[k] = IF k < i THEN s[k] ELSE s[k + 1]
  BY <1>1, <1>3, RemoveAtElements, LenProperties
<1>5. \A a, b \in 1..n : s[a] = s[b] => a = b
  BY <1>1 DEF IsInjective
<1> DEFINE old(k) == IF k < i THEN k ELSE k + 1
<1>6. \A k \in 1..(n - 1) : t[k] = s[old(k)] /\ old(k) \in 1..n /\ old(k) # i
  BY <1>1, <1>2, <1>4
<1>7. \A k, l \in 1..(n - 1) : old(k) = old(l) => k = l
  BY <1>1, <1>2
<1>8. \A j \in 1..n : j # i => \E k \in 1..(n - 1) : old(k) = j
  <2>1. SUFFICES ASSUME NEW j \in 1..n, j # i
                 PROVE  \E k \in 1..(n - 1) : old(k) = j
    OBVIOUS
  <2>2. CASE j < i
    <3>1. j \in 1..(n - 1) /\ old(j) = j
      BY <1>1, <1>2, <2>2
    <3>2. QED BY <3>1
  <2>3. CASE j > i
    <3>1. j - 1 \in 1..(n - 1) /\ old(j - 1) = j
      BY <1>1, <1>2, <2>3
    <3>2. QED BY <3>1
  <2>4. QED BY <1>1, <1>2, <2>1, <2>2, <2>3
<1> HIDE DEF old
<1>9. IsInjective(t)
  BY <1>4, <1>5, <1>6, <1>7 DEF IsInjective
<1>10. Range(t) = {t[k] : k \in 1..(n - 1)} /\ Range(s) = {s[k] : k \in 1..n}
  BY <1>1, <1>4 DEF Range
<1>11. ASSUME NEW k \in 1..(n - 1)
       PROVE  t[k] \in Range(s) \ {s[i]}
  <2>1. i \in 1..n
    BY <1>1, <1>2
  <2>2. QED BY <2>1, <1>5, <1>6, <1>10
<1>12. ASSUME NEW j \in 1..n, s[j] # s[i]
       PROVE  s[j] \in Range(t)
  BY <1>6, <1>8, <1>10, <1>12
<1>13. Range(t) = Range(s) \ {s[i]}
  BY <1>10, <1>11, <1>12
<1>14. QED BY <1>3, <1>4, <1>9, <1>13

\* popleft: Tail takes exactly the head, and shifts the rest.
LEMMA TailRange ==
    ASSUME NEW S, NEW s \in Seq(S), s # <<>>, IsInjective(s)
    PROVE  /\ Tail(s) \in Seq(S)
           /\ IsInjective(Tail(s))
           /\ Range(Tail(s)) = Range(s) \ {Head(s)}
           /\ Head(s) \in Range(s)
           /\ Len(Tail(s)) = Len(s) - 1
           /\ \A k \in 1..(Len(s) - 1) : Tail(s)[k] = s[k + 1]
<1>1. PICK n \in Nat : n = Len(s) /\ DOMAIN s = 1..n
  BY LenProperties
<1>2. n > 0
  BY <1>1, EmptySeq
<1>3. Head(s) = s[1]
  OBVIOUS
<1>4. PICK t : t = Tail(s)
  OBVIOUS
<1>5. /\ t \in Seq(S)
      /\ Len(t) = n - 1
      /\ \A k \in 1..(n - 1) : t[k] = s[k + 1]
  BY <1>1, <1>2, <1>4, HeadTailProperties
<1>6. DOMAIN t = 1..(n - 1)
  BY <1>1, <1>2, <1>5, LenProperties
<1>7. \A a, b \in 1..n : s[a] = s[b] => a = b
  BY <1>1 DEF IsInjective
<1>8. Range(t) = {t[k] : k \in 1..(n - 1)} /\ Range(s) = {s[k] : k \in 1..n}
  BY <1>1, <1>6 DEF Range
<1>9. IsInjective(t)
  BY <1>2, <1>5, <1>6, <1>7 DEF IsInjective
<1>10. ASSUME NEW k \in 1..(n - 1)
       PROVE  t[k] \in Range(s) \ {s[1]}
  <2>1. k + 1 \in 1..n /\ k + 1 # 1 /\ 1 \in 1..n
    BY <1>2
  <2>2. QED BY <2>1, <1>5, <1>7, <1>8
<1>11. ASSUME NEW j \in 1..n, s[j] # s[1]
       PROVE  s[j] \in Range(t)
  <2>1. j - 1 \in 1..(n - 1) /\ (j - 1) + 1 = j
    BY <1>2, <1>11
  <2>2. t[j - 1] = s[j]
    BY <2>1, <1>5
  <2>3. QED BY <2>1, <2>2, <1>8
<1>12. Range(t) = Range(s) \ {s[1]}
  BY <1>8, <1>10, <1>11
<1>13. s[1] \in Range(s)
  BY <1>2, <1>8
<1>14. QED BY <1>1, <1>3, <1>4, <1>5, <1>9, <1>12, <1>13

\* append: exactly e is added, and no duplicate appears if e was not there.
LEMMA AppendRange ==
    ASSUME NEW S, NEW s \in Seq(S), NEW e \in S
    PROVE  /\ Append(s, e) \in Seq(S)
           /\ Range(Append(s, e)) = Range(s) \cup {e}
           /\ IsInjective(s) /\ e \notin Range(s) => IsInjective(Append(s, e))
<1>1. PICK n \in Nat : n = Len(s) /\ DOMAIN s = 1..n
  BY LenProperties
<1>2. PICK t : t = Append(s, e)
  OBVIOUS
<1>3. /\ t \in Seq(S)
      /\ Len(t) = n + 1
      /\ \A k \in 1..n : t[k] = s[k]
      /\ t[n + 1] = e
  BY <1>1, <1>2, AppendProperties
<1>4. DOMAIN t = 1..(n + 1)
  BY <1>1, <1>3, LenProperties
<1>5. Range(t) = {t[k] : k \in 1..(n + 1)} /\ Range(s) = {s[k] : k \in 1..n}
  BY <1>1, <1>4 DEF Range
<1>6. \A k \in 1..(n + 1) : k \in 1..n \/ k = n + 1
  BY <1>1
<1>7. n + 1 \in 1..(n + 1) /\ 1..n \subseteq 1..(n + 1)
  BY <1>1
<1>8. Range(t) = Range(s) \cup {e}
  <2>1. ASSUME NEW k \in 1..(n + 1) PROVE t[k] \in Range(s) \cup {e}
    BY <1>3, <1>5, <1>6
  <2>2. ASSUME NEW k \in 1..n PROVE s[k] \in Range(t)
    BY <1>3, <1>5, <1>7
  <2>3. e \in Range(t)
    BY <1>3, <1>5, <1>7
  <2>4. QED BY <2>1, <2>2, <2>3, <1>5
<1>9. ASSUME IsInjective(s), e \notin Range(s)
      PROVE  IsInjective(t)
  <2>1. \A a, b \in 1..n : s[a] = s[b] => a = b
    BY <1>1, <1>9 DEF IsInjective
  <2>2. \A a \in 1..n : s[a] # e
    BY <1>5, <1>9
  <2>3. \A a, b \in 1..(n + 1) : t[a] = t[b] => a = b
    BY <2>1, <2>2, <1>3, <1>6
  <2>4. QED BY <2>3, <1>4 DEF IsInjective
<1>10. QED BY <1>2, <1>3, <1>8, <1>9

\* appendleft: e is the new head, the rest is shifted.
LEMMA ConsElements ==
    ASSUME NEW S, NEW s \in Seq(S), NEW e \in S
    PROVE  /\ Cons(e, s) \in Seq(S)
           /\ Len(Cons(e, s)) = Len(s) + 1
           /\ Cons(e, s)[1] = e
           /\ \A k \in 2..(Len(s) + 1) : Cons(e, s)[k] = s[k - 1]
<1>1. PICK n \in Nat : n = Len(s)
  BY LenProperties
<1>2. PICK t : t = Cons(e, s)
  OBVIOUS
<1>3. PICK u : u = <<e>>
  OBVIOUS
<1>4. u \in Seq(S) /\ Len(u) = 1 /\ u[1] = e
  BY <1>3
<1>5. t = u \o s
  BY <1>2, <1>3 DEF Cons
<1>6. /\ t \in Seq(S)
      /\ Len(t) = 1 + n
      /\ \A k \in 1..(1 + n) : t[k] = IF k <= 1 THEN u[k] ELSE s[k - 1]
  <2>1. /\ t \in Seq(S)
        /\ Len(t) = Len(u) + Len(s)
        /\ \A k \in 1..(Len(u) + Len(s)) :
              t[k] = IF k <= Len(u) THEN u[k] ELSE s[k - Len(u)]
    BY <1>4, <1>5, ConcatProperties, Zenon
  <2>2. QED BY <2>1, <1>1, <1>4
<1>7. t[1] = e /\ \A k \in 2..(n + 1) : t[k] = s[k - 1]
  BY <1>1, <1>4, <1>6
<1>8. QED BY <1>1, <1>2, <1>6, <1>7

\* appendleft adds exactly e, and no duplicate appears if e was not there.
LEMMA ConsRange ==
    ASSUME NEW S, NEW s \in Seq(S), NEW e \in S
    PROVE  /\ Cons(e, s) \in Seq(S)
           /\ Range(Cons(e, s)) = Range(s) \cup {e}
           /\ IsInjective(s) /\ e \notin Range(s) => IsInjective(Cons(e, s))
<1>1. PICK n \in Nat : n = Len(s) /\ DOMAIN s = 1..n
  BY LenProperties
<1>2. PICK t : t = Cons(e, s)
  OBVIOUS
<1>3. /\ t \in Seq(S)
      /\ Len(t) = n + 1
      /\ t[1] = e
      /\ \A k \in 2..(n + 1) : t[k] = s[k - 1]
  <2>1. /\ Cons(e, s) \in Seq(S)
        /\ Len(Cons(e, s)) = Len(s) + 1
        /\ Cons(e, s)[1] = e
        /\ \A k \in 2..(Len(s) + 1) : Cons(e, s)[k] = s[k - 1]
    BY ConsElements
  <2>2. QED BY <2>1, <1>1, <1>2
<1>4. DOMAIN t = 1..(n + 1)
  BY <1>1, <1>3, LenProperties
<1>5. Range(t) = {t[k] : k \in 1..(n + 1)} /\ Range(s) = {s[k] : k \in 1..n}
  BY <1>1, <1>4 DEF Range
<1>6. \A k \in 1..(n + 1) : k = 1 \/ (k \in 2..(n + 1) /\ k - 1 \in 1..n)
  BY <1>1
<1>7. 1 \in 1..(n + 1)
  BY <1>1
<1>8. Range(t) = Range(s) \cup {e}
  <2>1. ASSUME NEW k \in 1..(n + 1) PROVE t[k] \in Range(s) \cup {e}
    BY <1>3, <1>5, <1>6
  <2>2. ASSUME NEW k \in 1..n PROVE s[k] \in Range(t)
    <3>1. k + 1 \in 2..(n + 1) /\ k + 1 \in 1..(n + 1) /\ (k + 1) - 1 = k
      BY <1>1
    <3>2. t[k + 1] = s[k]
      BY <3>1, <1>3
    <3>3. QED BY <3>1, <3>2, <1>5
  <2>3. e \in Range(t)
    BY <1>3, <1>5, <1>7
  <2>4. QED BY <2>1, <2>2, <2>3, <1>5
<1>9. ASSUME IsInjective(s), e \notin Range(s)
      PROVE  IsInjective(t)
  <2>1. \A a, b \in 1..n : s[a] = s[b] => a = b
    BY <1>1, <1>9 DEF IsInjective
  <2>2. \A a \in 1..n : s[a] # e
    BY <1>5, <1>9
  <2>3. \A a, b \in 1..(n + 1) : t[a] = t[b] => a = b
    BY <2>1, <2>2, <1>3, <1>6
  <2>4. QED BY <2>3, <1>4 DEF IsInjective
<1>10. QED BY <1>2, <1>3, <1>8, <1>9

=============================================================================
