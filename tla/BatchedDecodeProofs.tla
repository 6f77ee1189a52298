-------------------------- MODULE BatchedDecodeProofs --------------------------
(***************************************************************************)
(* Machine-checked proofs about BatchedDecode, for every value of its      *)
(* constants: any requests, any vocabulary, prompts and limits of any      *)
(* length, batches of any size and mix.                                    *)
(***************************************************************************)
EXTENDS BatchedDecode, Integers, SequenceTheorems, FunctionTheorems, FiniteSetTheorems, TLAPS

-----------------------------------------------------------------------------
(* max(lens) *)

\* A nonempty finite set of lengths has a largest one.
LEMMA LargestExists ==
    \A S \in SUBSET Nat : IsFiniteSet(S) /\ S # {} => \E x \in S : \A y \in S : x >= y
<1> DEFINE HasLargest(S) == \E x \in S : \A y \in S : x >= y
           Bad(n) == \E S \in SUBSET Nat :
                        IsFiniteSet(S) /\ S # {} /\ Cardinality(S) = n /\ ~HasLargest(S)
           T == {n \in Nat : Bad(n)}
           R == OpToRel(<, Nat)
<1>1. SUFFICES T = {}
  <2>1. \A S \in SUBSET Nat : IsFiniteSet(S) => Cardinality(S) \in Nat
    BY FS_CardinalityType
  <2>2. QED
    BY <2>1
<1>2. SUFFICES ASSUME T # {} PROVE FALSE
  OBVIOUS
<1>3. IsWellFoundedOn(R, Nat)
  BY NatLessThanWellFounded
<1>4. T \in SUBSET Nat
  OBVIOUS
<1>5. PICK n \in T : \A m \in T : ~(<<m, n>> \in R)
  <2> HIDE DEF R, T
  <2>1. QED
    BY <1>2, <1>3, <1>4, WFMin
<1>6. \A m \in Nat : m < n => ~Bad(m)
  BY <1>5 DEF OpToRel
<1>7. PICK S \in SUBSET Nat :
        IsFiniteSet(S) /\ S # {} /\ Cardinality(S) = n /\ ~HasLargest(S)
  OBVIOUS
<1>8. PICK x \in S : TRUE
  BY <1>7
<1>9. IsFiniteSet(S \ {x}) /\ Cardinality(S \ {x}) = n - 1
  BY <1>7, <1>8, FS_RemoveElement
<1>10. n - 1 \in Nat
  BY <1>7, <1>9, FS_CardinalityType
<1>11. S \ {x} # {} => HasLargest(S \ {x})
  <2>1. ~Bad(n - 1)
    BY <1>6, <1>10
  <2>2. QED
    BY <1>9, <2>1
<1>12. HasLargest(S)
  <2>1. CASE S \ {x} = {}
    BY <1>8, <2>1
  <2>2. ASSUME NEW y \in S \ {x}, \A z \in S \ {x} : y >= z
        PROVE  HasLargest(S)
    BY <1>8, <2>2
  <2>3. QED
    BY <1>11, <2>1, <2>2
<1>13. QED
  BY <1>7, <1>12

LEMMA MaxFacts ==
    ASSUME NEW S \in SUBSET Nat, IsFiniteSet(S), S # {}
    PROVE  Max(S) \in Nat /\ \A y \in S : y <= Max(S)
<1>1. \E x \in S : \A y \in S : x >= y
  BY LargestExists
<1>2. Max(S) \in S /\ \A y \in S : Max(S) >= y
  BY <1>1 DEF Max
<1>3. QED
  BY <1>2

-----------------------------------------------------------------------------
(* Sequences whose lengths are known. *)

LEMMA AppendFacts ==
    ASSUME NEW S, NEW s \in Seq(S), NEW e \in S, NEW n \in Nat, n = Len(s)
    PROVE  /\ Append(s, e) \in Seq(S)
           /\ Append(s, e) # <<>>
           /\ Len(Append(s, e)) = n + 1
           /\ DOMAIN Append(s, e) = 1..(n + 1)
           /\ \A i \in 1..n : Append(s, e)[i] = s[i]
           /\ Append(s, e)[n + 1] = e
<1>1. /\ Append(s, e) \in Seq(S)
      /\ Append(s, e) # <<>>
      /\ Len(Append(s, e)) = Len(s) + 1
      /\ \A i \in 1..Len(s) : Append(s, e)[i] = s[i]
      /\ Append(s, e)[Len(s) + 1] = e
  BY AppendProperties
<1>2. DOMAIN Append(s, e) = 1..Len(Append(s, e))
  BY <1>1, LenProperties
<1>3. QED
  BY <1>1, <1>2

LEMMA ConcatFacts ==
    ASSUME NEW S, NEW s \in Seq(S), NEW u \in Seq(S),
           NEW m \in Nat, m = Len(s), NEW n \in Nat, n = Len(u)
    PROVE  /\ s \o u \in Seq(S)
           /\ Len(s \o u) = m + n
           /\ \A i \in 1..m : (s \o u)[i] = s[i]
           /\ \A i \in 1..n : (s \o u)[m + i] = u[i]
<1>1. /\ s \o u \in Seq(S)
      /\ Len(s \o u) = Len(s) + Len(u)
      /\ \A i \in 1..(Len(s) + Len(u)) :
            (s \o u)[i] = IF i <= Len(s) THEN s[i] ELSE u[i - Len(s)]
  BY ConcatProperties
<1>2. PICK q : q = s \o u
  OBVIOUS
<1>3. \A i \in 1..(m + n) : q[i] = IF i <= m THEN s[i] ELSE u[i - m]
  BY <1>1, <1>2
<1>4. \A i \in 1..m : q[i] = s[i]
  BY <1>3
<1>5. \A i \in 1..n : q[m + i] = u[i]
  <2>1. TAKE i \in 1..n
  <2>2. m + i \in 1..(m + n) /\ ~(m + i <= m) /\ (m + i) - m = i
    OBVIOUS
  <2>3. QED
    BY <1>3, <2>2
<1>6. QED
  BY <1>1, <1>2, <1>4, <1>5

\* The first k elements.
LEMMA PrefixFacts ==
    ASSUME NEW S, NEW s \in Seq(S), NEW k \in Nat, k <= Len(s)
    PROVE  /\ SubSeq(s, 1, k) \in Seq(S)
           /\ Len(SubSeq(s, 1, k)) = k
           /\ \A i \in 1..k : SubSeq(s, 1, k)[i] = s[i]
<1>1. PICK u : u = SubSeq(s, 1, k)
  OBVIOUS
<1>2. 1 \in Int /\ k \in Int /\ \A i \in 1..k : s[i] \in S
  BY LenProperties, ElementOfSeq
<1>3. /\ u \in Seq(S)
      /\ Len(u) = IF 1 <= k THEN k - 1 + 1 ELSE 0
      /\ \A i \in 1..(k - 1 + 1) : u[i] = s[1 + i - 1]
  BY <1>1, <1>2, SubSeqProperties
<1>4. Len(u) = k /\ \A i \in 1..k : u[i] = s[i]
  BY <1>3
<1>5. QED
  BY <1>1, <1>3, <1>4

\* The last k elements.
LEMMA SuffixFacts ==
    ASSUME NEW S, NEW s \in Seq(S), NEW d \in Nat, NEW k \in Nat \ {0}, Len(s) = d + k
    PROVE  /\ SubSeq(s, d + 1, d + k) \in Seq(S)
           /\ Len(SubSeq(s, d + 1, d + k)) = k
           /\ \A i \in 1..k : SubSeq(s, d + 1, d + k)[i] = s[d + i]
<1>1. PICK a \in Int : a = d + 1
  OBVIOUS
<1>2. PICK b \in Int : b = d + k
  OBVIOUS
<1>3. PICK u : u = SubSeq(s, a, b)
  OBVIOUS
<1>4. \A i \in a..b : s[i] \in S
  BY <1>1, <1>2, ElementOfSeq
<1>5. /\ u \in Seq(S)
      /\ Len(u) = IF a <= b THEN b - a + 1 ELSE 0
      /\ \A i \in 1..(b - a + 1) : u[i] = s[a + i - 1]
  BY <1>3, <1>4, SubSeqProperties
<1>6. Len(u) = k
  BY <1>1, <1>2, <1>5
<1>7. \A i \in 1..k : u[i] = s[d + i]
  <2>1. TAKE i \in 1..k
  <2>2. i \in 1..(b - a + 1) /\ a + i - 1 = d + i
    BY <1>1, <1>2
  <2>3. QED
    BY <1>5, <2>2
<1>8. QED
  BY <1>1, <1>2, <1>3, <1>5, <1>6, <1>7

-----------------------------------------------------------------------------
(* Padding, the row of a forward pass, and cutting the padding off again. *)

\* Behind any amount of padding, a cache c with one more entry e is found again
\* in the last Len(c) + 1 columns of the row, and these are the columns that
\* the attention mask shows.
LEMMA PaddedRow ==
    ASSUME NEW S, NEW c \in Seq(S), NEW e \in S, NEW pad \in Seq(S)
    PROVE  /\ Unpadded(Append(pad \o c, e), Len(c) + 1) = Append(c, e)
           /\ \A i \in 1..(Len(pad) + Len(c) + 1) :
                 i > Len(pad) => Append(pad \o c, e)[i] \in Range(Append(c, e))
           /\ \A i \in 1..(Len(c) + 1) :
                 Append(pad \o c, e)[Len(pad) + i] = Append(c, e)[i]
<1>n. PICK n \in Nat : n = Len(c)
  BY LenProperties
<1>d. PICK d \in Nat : d = Len(pad)
  BY LenProperties
<1>k. PICK k \in Nat \ {0} : k = n + 1
  OBVIOUS
<1>m. PICK m \in Nat : m = d + n
  OBVIOUS
<1>p. PICK p : p = pad \o c
  OBVIOUS
<1>row. PICK row : row = Append(p, e)
  OBVIOUS
<1>t. PICK t : t = Append(c, e)
  OBVIOUS
<1>u. PICK u : u = SubSeq(row, d + 1, d + k)
  OBVIOUS
<1>1. p \in Seq(S) /\ Len(p) = m /\ \A i \in 1..n : p[d + i] = c[i]
  BY <1>n, <1>d, <1>m, <1>p, ConcatFacts
<1>2. /\ row \in Seq(S)
      /\ Len(row) = m + 1
      /\ \A i \in 1..m : row[i] = p[i]
      /\ row[m + 1] = e
  BY <1>1, <1>row, AppendFacts
<1>3. /\ t \in Seq(S)
      /\ Len(t) = k
      /\ DOMAIN t = 1..k
      /\ \A i \in 1..n : t[i] = c[i]
      /\ t[n + 1] = e
  BY <1>n, <1>k, <1>t, AppendFacts
<1>4. m + 1 = d + k
  BY <1>m, <1>k
<1>5. ASSUME NEW i \in 1..k
      PROVE  row[d + i] = t[i]
  <2>1. CASE i = n + 1
    BY <1>2, <1>3, <1>k, <1>m, <2>1
  <2>2. CASE i \in 1..n
    <3>1. d + i \in 1..m
      BY <1>m, <2>2
    <3>2. QED
      BY <1>1, <1>2, <1>3, <2>2, <3>1
  <2>3. i = n + 1 \/ i \in 1..n
    BY <1>k
  <2>4. QED
    BY <2>1, <2>2, <2>3
<1>6. /\ u \in Seq(S)
      /\ Len(u) = k
      /\ \A i \in 1..k : u[i] = row[d + i]
  BY <1>2, <1>4, <1>u, SuffixFacts
<1>7. u = t
  <2>1. Len(u) = Len(t) /\ \A i \in 1..Len(u) : u[i] = t[i]
    BY <1>3, <1>5, <1>6
  <2>2. QED
    BY <1>3, <1>6, <2>1, SeqEqual
<1>8. Unpadded(row, k) = t
  <2>1. Len(row) - k + 1 = d + 1 /\ Len(row) = d + k
    BY <1>2, <1>4
  <2>2. QED
    BY <1>u, <1>7, <2>1 DEF Unpadded
<1>9. ASSUME NEW i \in 1..(m + 1), i > d
      PROVE  row[i] \in Range(t)
  <2>1. i - d \in 1..k /\ d + (i - d) = i
    BY <1>4, <1>9
  <2>2. PICK j \in 1..k : d + j = i
    BY <2>1
  <2>3. QED
    BY <1>3, <1>5, <2>2 DEF Range
<1>11. Len(pad) + Len(c) + 1 = m + 1 /\ Len(c) + 1 = k
  BY <1>n, <1>d, <1>k, <1>m
<1>12. Append(pad \o c, e) = row /\ Append(c, e) = t /\ Len(pad) = d
  BY <1>d, <1>p, <1>row, <1>t
<1>13. Unpadded(Append(pad \o c, e), Len(c) + 1) = Append(c, e)
  BY <1>8, <1>11, <1>12
<1>14. \A i \in 1..(Len(pad) + Len(c) + 1) :
          i > Len(pad) => Append(pad \o c, e)[i] \in Range(Append(c, e))
  BY <1>9, <1>11, <1>12
<1>15. \A i \in 1..(Len(c) + 1) :
          Append(pad \o c, e)[Len(pad) + i] = Append(c, e)[i]
  BY <1>5, <1>11, <1>12
<1>16. QED
  BY <1>13, <1>14, <1>15

-----------------------------------------------------------------------------
(* What one forward pass does for one of its requests. *)

\* Every entry, and the padding, of a row of the batch.
Cells == CacheEntry \cup {Padding}

\* The row and the attended entries of a request, by its cache and its tokens.
RowOf(cache, len, tokens, m) ==
    LET row == Append([i \in 1..(m - len) |-> Padding] \o cache, Entry(Last(tokens), len))
    IN  [row |-> row,
         attended |-> {row[i] : i \in {j \in 1..(m + 1) : j > m - len} \cap CausalColumns(m)}]

LEMMA ForwardIsRowOf ==
    \A r, m : Forward(r, m) = RowOf(past_kv[r], seq_len[r], generated[r], m)
BY DEF Forward, LeftPadded, MaskedColumns, Position, RowOf

\* A request that is in the running pass: its row was built from the cache and
\* the last token that it still has.
InPass(r) ==
    \E m \in Nat : /\ seq_len[r] <= m
                   /\ outputs[r] = RowOf(past_kv[r], seq_len[r], generated[r], m)

\* Whatever the other requests of the batch were, the pass adds the entry of the
\* request's last token to its cache, and its logits come from exactly these.
LEMMA PassResult ==
    ASSUME NEW r \in Requests, InPass(r), past_kv[r] \in Seq(CacheEntry), seq_len[r] \in Nat,
           seq_len[r] = Len(past_kv[r]),
           NEW e \in CacheEntry, e = Entry(Last(generated[r]), seq_len[r])
    PROVE  /\ Unpadded(outputs[r].row, seq_len[r] + 1) = Append(past_kv[r], e)
           /\ outputs[r].attended = Range(Append(past_kv[r], e))
<1>1. PICK m \in Nat : /\ seq_len[r] <= m
                       /\ outputs[r] = RowOf(past_kv[r], seq_len[r], generated[r], m)
  BY DEF InPass
<1>2. PICK n \in Nat : n = seq_len[r]
  OBVIOUS
<1>3. PICK c \in Seq(Cells) : c = past_kv[r]
  BY SeqMonotonic DEF Cells
<1>4. n = Len(c) /\ n <= m
  BY <1>1, <1>2, <1>3
<1>5. PICK d \in Nat : d = m - n
  BY <1>4
<1>6. PICK pad \in Seq(Cells) : pad = [i \in 1..d |-> Padding] /\ Len(pad) = d
  <2>1. PICK f \in [1..d -> Cells] : f = [i \in 1..d |-> Padding]
    BY DEF Cells
  <2>2. f \in Seq(Cells) /\ Len(f) = d
    OBVIOUS
  <2>3. QED
    BY <2>1, <2>2
<1>8. PICK row : row = Append(pad \o c, e)
  OBVIOUS
<1>9. PICK t : t = Append(c, e)
  OBVIOUS
<1>12. /\ Unpadded(row, n + 1) = t
       /\ \A i \in 1..(d + n + 1) : i > d => row[i] \in Range(t)
       /\ \A i \in 1..(n + 1) : row[d + i] = t[i]
       /\ DOMAIN t = 1..(n + 1)
  <2>1. e \in Cells
    BY DEF Cells
  <2>2. /\ Unpadded(Append(pad \o c, e), Len(c) + 1) = Append(c, e)
        /\ \A i \in 1..(Len(pad) + Len(c) + 1) :
              i > Len(pad) => Append(pad \o c, e)[i] \in Range(Append(c, e))
        /\ \A i \in 1..(Len(c) + 1) :
              Append(pad \o c, e)[Len(pad) + i] = Append(c, e)[i]
    BY <2>1, PaddedRow
  <2>3. DOMAIN Append(c, e) = 1..(n + 1)
    BY <1>4, <2>1, AppendFacts
  <2>4. QED
    BY <1>4, <1>6, <1>8, <1>9, <2>2, <2>3
<1>13. outputs[r] =
         [row |-> row,
          attended |-> {row[i] : i \in {j \in 1..(m + 1) : j > m - n} \cap CausalColumns(m)}]
  BY <1>1, <1>2, <1>3, <1>5, <1>6, <1>8 DEF RowOf
<1>C. PICK C : C = {j \in 1..(m + 1) : j > m - n} \cap CausalColumns(m)
  OBVIOUS
<1>14. \A i : i \in C <=> i \in 1..(d + n + 1) /\ i > d
  <2>1. m - n = d /\ m + 1 = d + n + 1
    BY <1>4, <1>5
  <2>2. QED
    BY <1>C, <2>1 DEF CausalColumns
<1>15. {row[i] : i \in C} = Range(t)
  <2>1. \A i \in C : row[i] \in Range(t)
    BY <1>12, <1>14
  <2>2. ASSUME NEW x \in Range(t)
        PROVE  \E i \in C : row[i] = x
    <3>1. PICK j \in 1..(n + 1) : x = t[j]
      BY <1>12 DEF Range
    <3>2. d + j \in C
      BY <1>14
    <3>3. QED
      BY <1>12, <3>1, <3>2
  <2>3. QED
    BY <2>1, <2>2
<1>16. outputs[r].row = row /\ outputs[r].attended = Range(t)
  BY <1>13, <1>C, <1>15
<1>18. QED
  BY <1>2, <1>3, <1>9, <1>12, <1>16

-----------------------------------------------------------------------------
(* The history of a request. *)

LEMMA EntriesFacts ==
    ASSUME NEW s \in Seq(Vocabulary)
    PROVE  /\ Entries(s) \in Seq(CacheEntry)
           /\ Len(Entries(s)) = Len(s)
           /\ \A i \in 1..Len(s) : Entries(s)[i] = Entry(s[i], i - 1)
<1>1. PICK n \in Nat : n = Len(s) /\ DOMAIN s = 1..n /\ \A i \in 1..n : s[i] \in Vocabulary
  BY LenProperties, ElementOfSeq
<1>2. \A i \in 1..n : Entry(s[i], i - 1) \in CacheEntry
  BY <1>1 DEF Entry, CacheEntry
<1>3. PICK f : f = [i \in 1..n |-> Entry(s[i], i - 1)]
  OBVIOUS
<1>4. Entries(s) = f
  BY <1>1, <1>3 DEF Entries
<1>5. f \in [1..n -> CacheEntry]
  BY <1>2, <1>3
<1>6. f \in Seq(CacheEntry) /\ Len(f) = n
  BY <1>5
<1>7. QED
  BY <1>1, <1>3, <1>4, <1>6

\* What has gone through the model when the prompt is p and the tokens are g.
Past(p, g) == IF g = <<>> THEN <<>> ELSE Entries(p \o SubSeq(g, 1, Len(g) - 1))

LEMMA HistoryIsPast == \A r : History(r) = Past(Prompt[r], generated[r])
BY DEF History, Past

\* The first token: nothing but the prompt has gone through the model.
LEMMA PastStart ==
    ASSUME NEW p \in Seq(Vocabulary), NEW t \in Vocabulary
    PROVE  Past(p, Append(<<>>, t)) = Entries(p)
<1>1. /\ Append(<<>>, t) # <<>>
      /\ Len(Append(<<>>, t)) = 1
  BY EmptySeq, AppendProperties
<1>2. SubSeq(Append(<<>>, t), 1, 0) = <<>>
  BY SubSeqEmpty
<1>3. p \o <<>> = p
  BY ConcatEmptySeq
<1>4. 1 - 1 = 0
  OBVIOUS
<1>5. QED
  BY <1>1, <1>2, <1>3, <1>4 DEF Past

LEMMA PastType ==
    ASSUME NEW p \in Seq(Vocabulary), p # <<>>, NEW g \in Seq(Vocabulary)
    PROVE  /\ Past(p, g) \in Seq(CacheEntry)
           /\ g # <<>> => Past(p, g) # <<>>
           /\ g # <<>> => Len(Past(p, g)) = Len(p) + Len(g) - 1
<1>1. CASE g = <<>>
  BY <1>1, EmptySeq DEF Past
<1>2. CASE g # <<>>
  <2>1. PICK n \in Nat \ {0} : n = Len(g)
    BY <1>2, EmptySeq
  <2>2. PICK m \in Nat \ {0} : m = Len(p)
    BY EmptySeq
  <2>3. PICK h \in Seq(Vocabulary) : h = SubSeq(g, 1, n - 1) /\ Len(h) = n - 1
    <3>1. n - 1 \in Nat /\ n - 1 <= Len(g)
      BY <2>1
    <3>2. QED
      BY <3>1, PrefixFacts
  <2>q. PICK q : q = p \o h
    OBVIOUS
  <2>4. q = p \o h /\ q \in Seq(Vocabulary) /\ Len(q) = m + (n - 1)
    <3>1. n - 1 \in Nat
      BY <2>1
    <3>2. QED
      BY <2>2, <2>3, <2>q, <3>1, ConcatFacts
  <2>5. /\ Past(p, g) = Entries(q)
        /\ Entries(q) \in Seq(CacheEntry)
        /\ Len(Entries(q)) = Len(q)
    BY <1>2, <2>1, <2>3, <2>4, EntriesFacts DEF Past
  <2>6. Len(Past(p, g)) = m + n - 1 /\ m + n - 1 # 0
    BY <2>1, <2>2, <2>4, <2>5
  <2>7. Past(p, g) # <<>>
    BY <2>6, EmptySeq
  <2>8. QED
    BY <2>1, <2>2, <2>5, <2>6, <2>7
<1>3. QED
  BY <1>1, <1>2

\* Each further token adds the entry of the one before it, at the position that
\* follows the cache.
LEMMA PastGrows ==
    ASSUME NEW p \in Seq(Vocabulary), p # <<>>,
           NEW g \in Seq(Vocabulary), g # <<>>, NEW t \in Vocabulary
    PROVE  Past(p, Append(g, t)) = Append(Past(p, g), Entry(Last(g), Len(Past(p, g))))
<1>1. PICK n \in Nat \ {0} : n = Len(g)
  BY EmptySeq
<1>2. PICK m \in Nat \ {0} : m = Len(p)
  BY EmptySeq
<1>u. PICK u : u = Append(g, t)
  OBVIOUS
<1>3. /\ u = Append(g, t)
      /\ u \in Seq(Vocabulary)
      /\ u # <<>>
      /\ Len(u) = n + 1
      /\ \A i \in 1..n : u[i] = g[i]
  BY <1>1, <1>u, AppendFacts
<1>4. PICK h \in Seq(Vocabulary) : /\ h = SubSeq(g, 1, n - 1)
                                   /\ Len(h) = n - 1
                                   /\ \A i \in 1..(n - 1) : h[i] = g[i]
  <2>1. n - 1 \in Nat /\ n - 1 <= Len(g)
    BY <1>1
  <2>2. QED
    BY <2>1, PrefixFacts
<1>5. SubSeq(u, 1, n) = g
  <2>1. n <= Len(u)
    BY <1>1, <1>3
  <2>w. PICK w : w = SubSeq(u, 1, n)
    OBVIOUS
  <2>2. /\ w = SubSeq(u, 1, n)
        /\ w \in Seq(Vocabulary)
        /\ Len(w) = n
        /\ \A i \in 1..n : w[i] = u[i]
    BY <1>3, <2>1, <2>w, PrefixFacts
  <2>3. Len(w) = Len(g) /\ \A i \in 1..Len(w) : w[i] = g[i]
    BY <1>1, <1>3, <2>2
  <2>4. QED
    BY <2>2, <2>3, SeqEqual
<1>q. PICK q : q = p \o h
  OBVIOUS
<1>6. /\ q = p \o h
      /\ q \in Seq(Vocabulary)
      /\ Len(q) = m + (n - 1)
      /\ \A i \in 1..m : q[i] = p[i]
      /\ \A i \in 1..(n - 1) : q[m + i] = h[i]
  <2>1. n - 1 \in Nat
    BY <1>1
  <2>2. QED
    BY <1>2, <1>4, <1>q, <2>1, ConcatFacts
<1>v. PICK v : v = p \o g
  OBVIOUS
<1>7. /\ v = p \o g
      /\ v \in Seq(Vocabulary)
      /\ Len(v) = m + n
      /\ \A i \in 1..m : v[i] = p[i]
      /\ \A i \in 1..n : v[m + i] = g[i]
  BY <1>1, <1>2, <1>v, ConcatFacts
<1>8. /\ \A i \in 1..(m + n - 1) : v[i] = q[i]
      /\ v[m + n] = g[n]
  <2>1. ASSUME NEW i \in 1..(m + n - 1)
        PROVE  v[i] = q[i]
    <3>1. CASE i <= m
      BY <1>6, <1>7, <3>1
    <3>2. CASE i > m
      <4>1. i - m \in 1..(n - 1) /\ m + (i - m) = i
        BY <3>2
      <4>2. PICK j \in 1..(n - 1) : m + j = i
        BY <4>1
      <4>3. v[i] = g[j] /\ q[i] = h[j] /\ h[j] = g[j]
        BY <1>4, <1>6, <1>7, <4>2
      <4>4. QED
        BY <4>3
    <3>3. QED
      BY <3>1, <3>2
  <2>2. n \in 1..n
    OBVIOUS
  <2>3. QED
    BY <1>7, <2>1, <2>2
<1>9. Last(g) = g[n] /\ g[n] \in Vocabulary
  BY <1>1, ElementOfSeq DEF Last
<1>10. PICK c \in Seq(CacheEntry) : /\ c = Past(p, g)
                                    /\ Len(c) = m + n - 1
                                    /\ \A i \in 1..(m + n - 1) : c[i] = Entry(q[i], i - 1)
  <2>1. Past(p, g) = Entries(q)
    BY <1>1, <1>4, <1>6 DEF Past
  <2>2. m + (n - 1) = m + n - 1
    BY <1>1, <1>2
  <2>3. QED
    BY <1>6, <2>1, <2>2, EntriesFacts
<1>11. PICK d \in Seq(CacheEntry) : /\ d = Past(p, Append(g, t))
                                    /\ Len(d) = m + n
                                    /\ \A i \in 1..(m + n) : d[i] = Entry(v[i], i - 1)
  <2>1. (n + 1) - 1 = n
    BY <1>1
  <2>2. Past(p, Append(g, t)) = Entries(v)
    BY <1>3, <1>5, <1>7, <2>1 DEF Past
  <2>3. QED
    BY <1>7, <2>2, EntriesFacts
<1>12. PICK e \in CacheEntry : e = Entry(Last(g), Len(c))
  <2>1. PICK k \in Nat : k = Len(c)
    BY LenProperties
  <2>2. QED
    BY <1>9, <2>1 DEF Entry, CacheEntry
<1>13. PICK x \in Seq(CacheEntry) : /\ x = Append(c, e)
                                    /\ Len(x) = Len(c) + 1
                                    /\ \A i \in 1..Len(c) : x[i] = c[i]
                                    /\ x[Len(c) + 1] = e
  BY AppendProperties
<1>14. d = x
  <2>1. Len(c) + 1 = m + n /\ (m + n) - 1 = Len(c)
    BY <1>1, <1>2, <1>10
  <2>2. ASSUME NEW i \in 1..(m + n)
        PROVE  d[i] = x[i]
    <3>1. CASE i \in 1..(m + n - 1)
      BY <1>8, <1>10, <1>11, <1>13, <3>1
    <3>2. CASE i = m + n
      BY <1>8, <1>9, <1>11, <1>12, <1>13, <2>1, <3>2
    <3>3. i \in 1..(m + n - 1) \/ i = m + n
      OBVIOUS
    <3>4. QED
      BY <3>1, <3>2, <3>3
  <2>3. QED
    BY <1>11, <1>13, <2>1, <2>2, SeqEqual
<1>15. QED
  BY <1>10, <1>11, <1>12, <1>13, <1>14

-----------------------------------------------------------------------------
(* The inductive invariant. *)

Contexts == context \in [Requests -> SUBSET CacheEntry]

\* The cache and the count of a request agree with its tokens, and its tokens
\* with its status: only a request that is not done goes on generating.
RequestOK(r) ==
    /\ seq_len[r] = Len(past_kv[r])
    /\ status[r] = "PENDING" => generated[r] = <<>> /\ past_kv[r] = <<>>
    /\ status[r] = "GENERATING" => /\ generated[r] # <<>>
                                   /\ ~IsDone(generated[r], MaxNew[r])
                                   /\ past_kv[r] = Past(Prompt[r], generated[r])
    /\ status[r] = "COMPLETE" => past_kv[r] = <<>>

\* A request whose output of the running pass is still to be used is as the pass
\* found it, unless an abort has failed it in the meantime.
RowOK(r) ==
    /\ status[r] \in {"GENERATING", "FAILED"}
    /\ generated[r] # <<>>
    /\ ~IsDone(generated[r], MaxNew[r])
    /\ past_kv[r] = Past(Prompt[r], generated[r])
    /\ InPass(r)

IInv ==
    /\ TypeOK
    /\ Contexts
    /\ \A r \in Requests : RequestOK(r)
    /\ \A r \in DOMAIN outputs : RowOK(r)

LEMMA HistoryFollows == (\A r \in Requests : RequestOK(r)) => CacheIsHistory
BY HistoryIsPast DEF CacheIsHistory, RequestOK

\* A step that leaves a request alone keeps what is true of it.
LEMMA RequestKept ==
    ASSUME NEW r, RequestOK(r), status'[r] = status[r], generated'[r] = generated[r],
           past_kv'[r] = past_kv[r], seq_len'[r] = seq_len[r]
    PROVE  RequestOK(r)'
BY DEF RequestOK

\* An abort may meet a request in a pass; its row stays.
LEMMA RowKept ==
    ASSUME NEW r, RowOK(r), status'[r] \in {status[r], "FAILED"}, generated'[r] = generated[r],
           past_kv'[r] = past_kv[r], seq_len'[r] = seq_len[r], outputs'[r] = outputs[r]
    PROVE  RowOK(r)'
BY DEF RowOK, InPass

\* The types that every step must keep.
LEMMA PromptType == \A r \in Requests : Prompt[r] \in Seq(Vocabulary) /\ Prompt[r] # <<>>
BY DecodeAssumption

LEMMA RangeType == \A S : \A s \in Seq(S) : Range(s) \in SUBSET S
<1>1. ASSUME NEW S, NEW s \in Seq(S), NEW i \in DOMAIN s
      PROVE  s[i] \in S
  BY <1>1, LenProperties, ElementOfSeq
<1>2. QED
  BY <1>1 DEF Range

LEMMA InitInvariant == BatchInit => IInv
<1>1. \A S : <<>> \in Seq(S) /\ Len(<<>>) = 0
  BY EmptySeq
<1>2. QED
  BY <1>1 DEF BatchInit, IInv, TypeOK, Contexts, RequestOK

\* The fields that TypeOK constrains one by one.
RequestTypes ==
    /\ status \in [Requests -> {"PENDING", "GENERATING", "COMPLETE", "FAILED"}]
    /\ generated \in [Requests -> Seq(Vocabulary)]
    /\ past_kv \in [Requests -> Seq(CacheEntry)]
    /\ seq_len \in [Requests -> Nat]
    /\ context \in [Requests -> SUBSET CacheEntry]

LEMMA TypeParts ==
    TypeOK /\ Contexts <=> /\ RequestTypes
                           /\ group \in SUBSET Requests
                           /\ DOMAIN outputs \subseteq group
BY DEF TypeOK, Contexts, RequestTypes

\* What prefill and each round of decode_batch share: a token is taken whose
\* logits come from all that has gone through the model.
LEMMA TokenTaken ==
    ASSUME RequestTypes, \A q \in Requests : RequestOK(q),
           NEW r \in Requests, NEW t \in Vocabulary, NEW s \in {"GENERATING", "FAILED"},
           NEW cache, NEW attended, NEW len,
           TakeToken(r, t, s, attended, cache, len),
           cache = Past(Prompt[r], Append(generated[r], t)),
           attended = Range(cache), len = Len(cache)
    PROVE  /\ RequestTypes'
           /\ \A q \in Requests : RequestOK(q)'
           /\ generated' = [generated EXCEPT ![r] = Append(generated[r], t)]
           /\ context' = [context EXCEPT ![r] = Range(Past(Prompt[r], generated'[r]))]
           /\ \A q \in Requests \ {r} : /\ status'[q] = status[q]
                                        /\ generated'[q] = generated[q]
                                        /\ past_kv'[q] = past_kv[q]
                                        /\ seq_len'[q] = seq_len[q]
<1>g. PICK g : g = Append(generated[r], t)
  OBVIOUS
<1>1. generated[r] \in Seq(Vocabulary) /\ g \in Seq(Vocabulary) /\ g # <<>>
  <2>1. generated[r] \in Seq(Vocabulary)
    BY DEF RequestTypes
  <2>2. g \in Seq(Vocabulary) /\ g # <<>>
    BY <1>g, <2>1, AppendProperties
  <2>3. QED
    BY <2>1, <2>2
<1>2. cache \in Seq(CacheEntry) /\ len \in Nat /\ attended \in SUBSET CacheEntry
  <2>1. cache = Past(Prompt[r], g) /\ Prompt[r] \in Seq(Vocabulary) /\ Prompt[r] # <<>>
    BY <1>g, PromptType
  <2>2. cache \in Seq(CacheEntry)
    BY <1>1, <2>1, PastType
  <2>3. QED
    BY <2>2, RangeType, LenProperties
<1>3. /\ generated' = [generated EXCEPT ![r] = g]
      /\ context' = [context EXCEPT ![r] = attended]
  BY <1>g DEF TakeToken
<1>4. generated'[r] = g
  BY <1>3 DEF RequestTypes
<1>5. \/ /\ IsDone(g, MaxNew[r])
         /\ status' = [status EXCEPT ![r] = "COMPLETE"]
         /\ past_kv' = [past_kv EXCEPT ![r] = <<>>]
         /\ seq_len' = [seq_len EXCEPT ![r] = 0]
      \/ /\ ~IsDone(g, MaxNew[r])
         /\ status' = [status EXCEPT ![r] = s]
         /\ past_kv' = [past_kv EXCEPT ![r] = cache]
         /\ seq_len' = [seq_len EXCEPT ![r] = len]
  BY <1>4 DEF TakeToken, Store
<1>6. RequestTypes'
  <2>1. generated' \in [Requests -> Seq(Vocabulary)] /\ context' \in [Requests -> SUBSET CacheEntry]
    BY <1>1, <1>2, <1>3 DEF RequestTypes
  <2>2. /\ status' \in [Requests -> {"PENDING", "GENERATING", "COMPLETE", "FAILED"}]
        /\ past_kv' \in [Requests -> Seq(CacheEntry)]
        /\ seq_len' \in [Requests -> Nat]
    <3>1. <<>> \in Seq(CacheEntry) /\ 0 \in Nat
      BY EmptySeq
    <3>2. QED
      BY <1>2, <1>5, <3>1 DEF RequestTypes
  <2>3. QED
    BY <2>1, <2>2 DEF RequestTypes
<1>7. \A q \in Requests \ {r} : /\ status'[q] = status[q]
                                /\ generated'[q] = generated[q]
                                /\ past_kv'[q] = past_kv[q]
                                /\ seq_len'[q] = seq_len[q]
  BY <1>3, <1>5 DEF RequestTypes
<1>8. RequestOK(r)'
  <2>1. /\ status'[r] = "COMPLETE" \/ status'[r] = s
        /\ status'[r] = "COMPLETE" => past_kv'[r] = <<>> /\ seq_len'[r] = 0
        /\ status'[r] = s => /\ ~IsDone(g, MaxNew[r])
                             /\ past_kv'[r] = cache
                             /\ seq_len'[r] = len
    BY <1>5 DEF RequestTypes
  <2>2. Len(<<>>) = 0
    BY EmptySeq
  <2>3. QED
    BY <1>g, <1>1, <1>4, <2>1, <2>2 DEF RequestOK
<1>9. \A q \in Requests : RequestOK(q)'
  BY <1>7, <1>8, RequestKept
<1>10. QED
  BY <1>g, <1>3, <1>4, <1>6, <1>7, <1>9

\* r gets the token t, sampled from logits over everything before it.
Samples(r, t) ==
    /\ generated' = [generated EXCEPT ![r] = Append(generated[r], t)]
    /\ context' = [context EXCEPT ![r] = Range(Past(Prompt[r], generated'[r]))]

LEMMA PrefillTakes ==
    ASSUME IInv, NEW r \in Requests, Prefill(r)
    PROVE  \E t \in Vocabulary :
              /\ generated[r] = <<>>
              /\ TakeToken(r, t, "GENERATING", Range(Past(Prompt[r], Append(generated[r], t))),
                           Past(Prompt[r], Append(generated[r], t)),
                           Len(Past(Prompt[r], Append(generated[r], t))))
<1>1. PICK t \in Vocabulary :
        TakeToken(r, t, "GENERATING", Range(Entries(Prompt[r])), Entries(Prompt[r]),
                  Len(Entries(Prompt[r])))
  BY DEF Prefill
<1>2. generated[r] = <<>>
  BY DEF IInv, RequestOK, Prefill
<1>3. Past(Prompt[r], Append(generated[r], t)) = Entries(Prompt[r])
  BY <1>2, PromptType, PastStart
<1>4. QED
  BY <1>1, <1>2, <1>3

\* The row of a request in the pass, cut back to its length, is its cache with
\* one more entry: what has gone through the model when the next token comes.
LEMMA RowIsPast ==
    ASSUME IInv, NEW r \in DOMAIN outputs, NEW t \in Vocabulary
    PROVE  /\ r \in Requests
           /\ generated[r] # <<>>
           /\ ~IsDone(generated[r], MaxNew[r])
           /\ status[r] \in {"GENERATING", "FAILED"}
           /\ Unpadded(outputs[r].row, seq_len[r] + 1) = Past(Prompt[r], Append(generated[r], t))
           /\ outputs[r].attended = Range(Past(Prompt[r], Append(generated[r], t)))
           /\ seq_len[r] + 1 = Len(Past(Prompt[r], Append(generated[r], t)))
<1>1. /\ r \in Requests
      /\ generated[r] \in Seq(Vocabulary)
      /\ past_kv[r] \in Seq(CacheEntry)
      /\ seq_len[r] \in Nat
      /\ seq_len[r] = Len(past_kv[r])
  BY DEF IInv, TypeOK, RequestOK
<1>2. /\ generated[r] # <<>>
      /\ ~IsDone(generated[r], MaxNew[r])
      /\ status[r] \in {"GENERATING", "FAILED"}
      /\ past_kv[r] = Past(Prompt[r], generated[r])
      /\ InPass(r)
  BY DEF IInv, RowOK
<1>3. PICK e \in CacheEntry : e = Entry(Last(generated[r]), seq_len[r])
  <2>1. Last(generated[r]) \in Vocabulary
    <3>1. PICK n \in Nat : n = Len(generated[r]) /\ n # 0
      BY <1>1, <1>2, EmptySeq, LenProperties
    <3>2. QED
      BY <1>1, <3>1, ElementOfSeq DEF Last
  <2>2. QED
    BY <1>1, <2>1 DEF Entry, CacheEntry
<1>4. /\ Unpadded(outputs[r].row, seq_len[r] + 1) = Append(past_kv[r], e)
      /\ outputs[r].attended = Range(Append(past_kv[r], e))
  BY <1>1, <1>2, <1>3, PassResult
<1>5. Past(Prompt[r], Append(generated[r], t)) = Append(past_kv[r], e)
  <2>1. Prompt[r] \in Seq(Vocabulary) /\ Prompt[r] # <<>>
    BY <1>1, PromptType
  <2>2. Past(Prompt[r], Append(generated[r], t)) =
          Append(Past(Prompt[r], generated[r]),
                 Entry(Last(generated[r]), Len(Past(Prompt[r], generated[r]))))
    BY <1>1, <1>2, <2>1, PastGrows
  <2>3. QED
    BY <1>1, <1>2, <1>3, <2>2
<1>6. Len(Append(past_kv[r], e)) = seq_len[r] + 1
  BY <1>1, AppendProperties
<1>7. QED
  BY <1>1, <1>2, <1>4, <1>5, <1>6

LEMMA EmitTakes ==
    ASSUME IInv, NEW r \in Requests, EmitToken(r)
    PROVE  \E t \in Vocabulary :
              TakeToken(r, t, status[r], Range(Past(Prompt[r], Append(generated[r], t))),
                        Past(Prompt[r], Append(generated[r], t)),
                        Len(Past(Prompt[r], Append(generated[r], t))))
<1>1. PICK t \in Vocabulary :
        TakeToken(r, t, status[r], outputs[r].attended,
                  Unpadded(outputs[r].row, seq_len[r] + 1), seq_len[r] + 1)
  BY DEF EmitToken
<1>2. r \in DOMAIN outputs
  BY DEF EmitToken
<1>3. QED
  BY <1>1, <1>2, RowIsPast

LEMMA PrefillStep ==
    ASSUME IInv, NEW r \in Requests, Prefill(r)
    PROVE  IInv' /\ generated[r] = <<>> /\ \E t \in Vocabulary : Samples(r, t)
<1>1. PICK t \in Vocabulary :
        /\ generated[r] = <<>>
        /\ TakeToken(r, t, "GENERATING", Range(Past(Prompt[r], Append(generated[r], t))),
                     Past(Prompt[r], Append(generated[r], t)),
                     Len(Past(Prompt[r], Append(generated[r], t))))
  BY PrefillTakes
<1>2. RequestTypes /\ \A q \in Requests : RequestOK(q)
  BY TypeParts DEF IInv
<1>3. RequestTypes' /\ (\A q \in Requests : RequestOK(q)') /\ Samples(r, t)
  BY <1>1, <1>2, TokenTaken DEF Samples
<1>4. group' = {} /\ DOMAIN outputs' = {}
  BY DEF IInv, TypeOK, Prefill, EngineFree, passVars
<1>5. QED
  BY <1>1, <1>3, <1>4 DEF IInv, TypeOK, Contexts, RequestTypes

LEMMA EmitStep ==
    ASSUME IInv, NEW r \in Requests, EmitToken(r)
    PROVE  IInv' /\ \E t \in Vocabulary : Samples(r, t)
<1>1. PICK t \in Vocabulary :
        TakeToken(r, t, status[r], Range(Past(Prompt[r], Append(generated[r], t))),
                  Past(Prompt[r], Append(generated[r], t)),
                  Len(Past(Prompt[r], Append(generated[r], t))))
  BY EmitTakes
<1>2. RequestTypes /\ \A q \in Requests : RequestOK(q)
  BY TypeParts DEF IInv
<1>3. status[r] \in {"GENERATING", "FAILED"}
  BY DEF IInv, RowOK, EmitToken
<1>4. /\ RequestTypes'
      /\ \A q \in Requests : RequestOK(q)'
      /\ Samples(r, t)
      /\ \A q \in Requests \ {r} : /\ status'[q] = status[q]
                                   /\ generated'[q] = generated[q]
                                   /\ past_kv'[q] = past_kv[q]
                                   /\ seq_len'[q] = seq_len[q]
  BY <1>1, <1>2, <1>3, TokenTaken DEF Samples
<1>5. /\ DOMAIN outputs' = DOMAIN outputs \ {r}
      /\ \A q \in DOMAIN outputs' : outputs'[q] = outputs[q]
      /\ group' = IF DOMAIN outputs = {r} THEN {} ELSE group
  BY DEF EmitToken, Restrict
<1>6. group' \in SUBSET Requests /\ DOMAIN outputs' \subseteq group'
  BY <1>5 DEF IInv, TypeOK
<1>7. ASSUME NEW q \in DOMAIN outputs'
      PROVE  RowOK(q)'
  <2>1. q \in Requests \ {r} /\ RowOK(q)
    BY <1>5, <1>7 DEF IInv, TypeOK
  <2>2. QED
    BY <1>4, <1>5, <1>7, <2>1, RowKept
<1>8. QED
  BY <1>4, <1>6, <1>7 DEF IInv, TypeOK, Contexts, RequestTypes

LEMMA PrefillRaisesStep ==
    ASSUME IInv, NEW r \in Requests, PrefillRaises(r)
    PROVE  IInv'
<1>1. Entries(Prompt[r]) \in Seq(CacheEntry) /\ Len(Entries(Prompt[r])) = Len(Prompt[r])
  BY PromptType, EntriesFacts
<1>2. Len(Prompt[r]) \in Nat
  BY PromptType, LenProperties
<1>3. RequestTypes /\ \A q \in Requests : RequestOK(q)
  BY TypeParts DEF IInv
<1>4. /\ status' = [status EXCEPT ![r] = "FAILED"]
      /\ generated' = generated /\ context' = context
      /\ \/ past_kv' = past_kv /\ seq_len' = seq_len
         \/ /\ past_kv' = [past_kv EXCEPT ![r] = Entries(Prompt[r])]
            /\ seq_len' = [seq_len EXCEPT ![r] = Len(Prompt[r])]
  BY DEF PrefillRaises, storeVars, Store
<1>5. RequestTypes'
  BY <1>1, <1>2, <1>3, <1>4 DEF RequestTypes
<1>6. RequestOK(r)'
  <2>1. status'[r] = "FAILED"
    BY <1>3, <1>4 DEF RequestTypes
  <2>2. seq_len'[r] = Len(past_kv'[r])
    BY <1>1, <1>3, <1>4 DEF RequestTypes, RequestOK
  <2>3. QED
    BY <2>1, <2>2 DEF RequestOK
<1>7. ASSUME NEW q \in Requests \ {r}
      PROVE  RequestOK(q)'
  <2>1. /\ status'[q] = status[q] /\ generated'[q] = generated[q]
        /\ past_kv'[q] = past_kv[q] /\ seq_len'[q] = seq_len[q]
    BY <1>3, <1>4 DEF RequestTypes
  <2>2. QED
    BY <1>3, <2>1, RequestKept
<1>8. group' = {} /\ DOMAIN outputs' = {}
  BY DEF IInv, TypeOK, PrefillRaises, EngineFree, passVars
<1>9. QED
  BY <1>5, <1>6, <1>7, <1>8 DEF IInv, TypeOK, Contexts, RequestTypes

LEMMA BeginPassStep ==
    ASSUME IInv, NEW requests \in SUBSET Requests, BeginPass(requests)
    PROVE  IInv'
<1>1. PICK A : A = ActiveOf(requests)
  OBVIOUS
<1>2. PICK m : m = Max({seq_len[r] : r \in A})
  OBVIOUS
<1>3. /\ A # {} /\ A \subseteq requests /\ IsFiniteSet(A)
      /\ A \subseteq Requests
  BY <1>1, FS_Subset DEF BeginPass, ActiveOf
<1>4. outputs' = [r \in A |-> Forward(r, m)] /\ group' = requests
  BY <1>1, <1>2 DEF BeginPass
<1>5. m \in Nat /\ \A r \in A : seq_len[r] <= m
  <2>1. PICK L : L = {seq_len[r] : r \in A}
    OBVIOUS
  <2>2. L \in SUBSET Nat /\ L # {}
    BY <1>3, <2>1 DEF IInv, TypeOK
  <2>3. IsFiniteSet(L)
    <3>1. PICK f : f = [r \in A |-> seq_len[r]]
      OBVIOUS
    <3>2. f \in [A -> L] /\ \A y \in L : \E r \in A : f[r] = y
      BY <2>1, <3>1
    <3>3. f \in Surjection(A, L)
      BY <3>2, Fun_IsSurj
    <3>4. QED
      BY <1>3, <3>3, FS_Surjection
  <2>4. m = Max(L)
    BY <1>2, <2>1
  <2>5. m \in Nat /\ \A y \in L : y <= m
    BY <2>2, <2>3, <2>4, MaxFacts
  <2>6. QED
    BY <2>1, <2>5
<1>6. /\ status' = status /\ generated' = generated /\ context' = context
      /\ past_kv' = past_kv /\ seq_len' = seq_len
  BY DEF BeginPass, requestVars, storeVars
<1>7. \A q \in Requests : RequestOK(q)'
  BY <1>6, RequestKept DEF IInv
<1>8. DOMAIN outputs' = A
  BY <1>4
<1>9. ASSUME NEW r \in A
      PROVE  RowOK(r)'
  <2>1. outputs'[r] = RowOf(past_kv[r], seq_len[r], generated[r], m)
    BY <1>4, ForwardIsRowOf
  <2>2. status[r] = "GENERATING"
    <3>1. generated[r] # <<>> /\ status[r] \notin {"COMPLETE", "FAILED"}
      BY <1>1 DEF BeginPass, ActiveOf, IsFinished
    <3>2. QED
      BY <1>3, <3>1 DEF IInv, TypeOK, RequestOK
  <2>3. /\ generated[r] # <<>>
        /\ ~IsDone(generated[r], MaxNew[r])
        /\ past_kv[r] = Past(Prompt[r], generated[r])
    BY <1>3, <2>2 DEF IInv, RequestOK
  <2>4. InPass(r)'
    BY <1>5, <1>6, <2>1 DEF InPass
  <2>5. QED
    BY <1>6, <2>2, <2>3, <2>4 DEF RowOK
<1>10. DOMAIN outputs' \subseteq group' /\ group' \in SUBSET Requests
  BY <1>3, <1>4, <1>8
<1>11. QED
  BY <1>6, <1>7, <1>8, <1>9, <1>10 DEF IInv, TypeOK, Contexts

LEMMA PassRaisesStep ==
    ASSUME IInv, NEW r \in Requests, PassRaises(r)
    PROVE  /\ IInv'
           /\ \/ UNCHANGED <<generated, context>>
              \/ /\ generated[r] # <<>> /\ ~IsDone(generated[r], MaxNew[r])
                 /\ \E t \in Vocabulary : Samples(r, t)
<1>1. RequestTypes /\ \A q \in Requests : RequestOK(q)
  BY TypeParts DEF IInv
<1>2. r \in DOMAIN outputs /\ r \in group
  BY DEF IInv, TypeOK, PassRaises
<1>3. /\ status' = [q \in Requests |-> IF q \in group THEN "FAILED" ELSE status[q]]
      /\ outputs' = <<>> /\ group' = {}
      /\ past_kv' = past_kv /\ seq_len' = seq_len
  BY DEF PassRaises, storeVars
<1>4. DOMAIN outputs' = {}
  BY <1>3
<1>5. CASE UNCHANGED <<generated, context>>
  <2>1. RequestTypes'
    BY <1>1, <1>3, <1>5 DEF RequestTypes
  <2>2. ASSUME NEW q \in Requests
        PROVE  RequestOK(q)'
    BY <1>1, <1>3, <1>5 DEF RequestOK
  <2>3. QED
    BY <1>3, <1>4, <1>5, <2>1, <2>2 DEF IInv, TypeOK, Contexts, RequestTypes
<1>6. ASSUME NEW t \in Vocabulary,
             generated' = [generated EXCEPT ![r] = Append(@, t)],
             context' = [context EXCEPT ![r] = outputs[r].attended]
      PROVE  IInv' /\ Samples(r, t) /\ generated[r] # <<>> /\ ~IsDone(generated[r], MaxNew[r])
  <2>g. PICK g : g = Append(generated[r], t)
    OBVIOUS
  <2>1. generated[r] \in Seq(Vocabulary) /\ g \in Seq(Vocabulary)
    <3>1. generated[r] \in Seq(Vocabulary)
      BY <1>1 DEF RequestTypes
    <3>2. QED
      BY <2>g, <3>1, AppendProperties
  <2>c. PICK c : c = Past(Prompt[r], g)
    OBVIOUS
  <2>2. c \in Seq(CacheEntry) /\ Range(c) \in SUBSET CacheEntry
    <3>1. Prompt[r] \in Seq(Vocabulary) /\ Prompt[r] # <<>>
      BY PromptType
    <3>2. c \in Seq(CacheEntry)
      BY <2>1, <2>c, <3>1, PastType
    <3>3. QED
      BY <3>2, RangeType
  <2>3. /\ generated' = [generated EXCEPT ![r] = g]
        /\ context' = [context EXCEPT ![r] = Range(c)]
        /\ generated[r] # <<>> /\ ~IsDone(generated[r], MaxNew[r])
    BY <1>2, <1>6, <2>g, <2>c, RowIsPast
  <2>4. generated'[r] = g
    BY <1>1, <2>3 DEF RequestTypes
  <2>5. Samples(r, t)
    BY <2>3, <2>4, <2>g, <2>c DEF Samples
  <2>6. RequestTypes'
    BY <1>1, <1>3, <2>1, <2>2, <2>3 DEF RequestTypes
  <2>7. ASSUME NEW q \in Requests
        PROVE  RequestOK(q)'
    <3>1. CASE q \in group
      BY <1>1, <1>3, <3>1 DEF RequestOK
    <3>2. CASE q \notin group
      <4>1. generated'[q] = generated[q] /\ status'[q] = status[q]
        BY <1>1, <1>2, <1>3, <2>3, <3>2 DEF RequestTypes
      <4>2. QED
        BY <1>1, <1>3, <4>1, RequestKept
    <3>3. QED
      BY <3>1, <3>2
  <2>8. QED
    BY <1>3, <1>4, <2>3, <2>5, <2>6, <2>7 DEF IInv, TypeOK, Contexts, RequestTypes
<1>7. QED
  BY <1>5, <1>6 DEF PassRaises

LEMMA AbortedStep ==
    ASSUME IInv, NEW r \in Requests, Aborted(r)
    PROVE  IInv'
<1>1. /\ status' = [status EXCEPT ![r] = "FAILED"]
      /\ generated' = generated /\ context' = context
      /\ past_kv' = past_kv /\ seq_len' = seq_len
      /\ group' = group /\ outputs' = outputs
  BY DEF Aborted, storeVars, passVars
<1>2. \A q \in Requests : status'[q] \in {status[q], "FAILED"}
  BY <1>1 DEF IInv, TypeOK
<1>3. \A q \in Requests : RequestOK(q)'
  BY <1>1, <1>2 DEF IInv, RequestOK
<1>4. \A q \in DOMAIN outputs' : RowOK(q)'
  BY <1>1, <1>2, RowKept DEF IInv, TypeOK
<1>5. QED
  BY <1>1, <1>3, <1>4 DEF IInv, TypeOK, Contexts

\* Every step keeps the invariant.
LEMMA Inductive == IInv /\ [BatchNext]_batchVars => IInv'
<1>1. SUFFICES ASSUME IInv, [BatchNext]_batchVars
               PROVE  IInv'
  OBVIOUS
<1>2. CASE UNCHANGED batchVars
  BY <1>1, <1>2 DEF batchVars, requestVars, storeVars, passVars, IInv, TypeOK, Contexts,
     RequestOK, RowOK, InPass
<1>3. CASE BatchNext
  <2>1. ASSUME NEW r \in Requests, Prefill(r)
        PROVE  IInv'
    BY <1>1, <2>1, PrefillStep
  <2>2. ASSUME NEW r \in Requests, PrefillRaises(r)
        PROVE  IInv'
    BY <1>1, <2>2, PrefillRaisesStep
  <2>3. ASSUME NEW r \in Requests, EmitToken(r)
        PROVE  IInv'
    BY <1>1, <2>3, EmitStep
  <2>4. ASSUME NEW r \in Requests, PassRaises(r)
        PROVE  IInv'
    BY <1>1, <2>4, PassRaisesStep
  <2>5. ASSUME NEW r \in Requests, Aborted(r)
        PROVE  IInv'
    BY <1>1, <2>5, AbortedStep
  <2>6. ASSUME NEW requests \in SUBSET Requests, BeginPass(requests)
        PROVE  IInv'
    BY <1>1, <2>6, BeginPassStep
  <2>7. QED
    BY <1>3, <2>1, <2>2, <2>3, <2>4, <2>5, <2>6 DEF BatchNext
<1>4. QED
  BY <1>1, <1>2, <1>3

LEMMA Invariant == BatchSpec => []IInv
<1>1. QED
  BY InitInvariant, Inductive, PTL DEF BatchSpec

-----------------------------------------------------------------------------
(* What follows. *)

\* The types of the fields: no padding is ever kept in a cache or attended to
\* (engine/inference.py:138-174).
THEOREM TypeCorrect == BatchSpec => []TypeOK
<1>1. IInv => TypeOK
  BY DEF IInv
<1>2. QED
  BY <1>1, Invariant, PTL

\* The cache of a generating request is its prompt and its tokens but the last,
\* each at its own position, whatever requests it has shared passes with; the
\* count of entries agrees with it, and a completed request has no cache.
THEOREM CacheIsHistoryHolds == BatchSpec => []CacheIsHistory
<1>1. IInv => CacheIsHistory
  BY HistoryFollows DEF IInv
<1>2. QED
  BY <1>1, Invariant, PTL

-----------------------------------------------------------------------------
(* Batched decoding implements the single-request loop. *)

\* The cache of the single-request loop, as the refinement maps it.
Mapped == [r \in Requests |-> IF status[r] = "GENERATING" THEN past_kv[r] ELSE History(r)]

LEMMA MappedIsPast ==
    ASSUME \A r \in Requests : RequestOK(r)
    PROVE  Mapped = [r \in Requests |-> Past(Prompt[r], generated[r])]
BY HistoryIsPast DEF Mapped, RequestOK

LEMMA MappedIsPastNext ==
    ASSUME \A r \in Requests : RequestOK(r)'
    PROVE  Mapped' = [r \in Requests |-> Past(Prompt[r], generated'[r])]
<1>1. \A r : History(r)' = Past(Prompt[r], generated'[r])
  BY DEF History, Past
<1>2. QED
  BY <1>1 DEF Mapped, RequestOK

\* The sequential specification over the mapped variables.
LEMMA SameEntries ==
    /\ \A t, p : Sequential!Entry(t, p) = Entry(t, p)
    /\ \A s : Sequential!Entries(s) = Entries(s)
    /\ \A s, n : Sequential!Done(s, n) = IsDone(s, n)
    /\ \A s : Sequential!Last(s) = Last(s)
    /\ \A s : Sequential!Range(s) = Range(s)
<1>1. \A t, p : Sequential!Entry(t, p) = Entry(t, p)
  BY DEF Sequential!Entry, Entry
<1>2. \A s, n : Sequential!Done(s, n) = IsDone(s, n)
  BY DEF Sequential!Done, IsDone, Sequential!Last, Last
<1>3. ASSUME NEW s
      PROVE  Sequential!Entries(s) = Entries(s)
  BY <1>1 DEF Sequential!Entries, Entries
<1>4. \A s : Sequential!Last(s) = Last(s)
  BY DEF Sequential!Last, Last
<1>5. ASSUME NEW s
      PROVE  Sequential!Range(s) = Range(s)
  BY DEF Sequential!Range, Range
<1>6. QED
  BY <1>1, <1>2, <1>3, <1>4, <1>5

LEMMA SequentialSteps ==
    ASSUME NEW r
    PROVE  /\ Sequential!Start(r) <=>
                /\ generated[r] = <<>>
                /\ Mapped' = [Mapped EXCEPT ![r] = Sequential!Entries(Prompt[r])]
                /\ context' = [context EXCEPT ![r] =
                                  Sequential!Range(Sequential!Entries(Prompt[r]))]
                /\ \E t \in Vocabulary : generated' = [generated EXCEPT ![r] = <<t>>]
           /\ Sequential!Continue(r) <=>
                /\ generated[r] # <<>>
                /\ ~Sequential!Done(generated[r], MaxNew[r])
                /\ Mapped' = [Mapped EXCEPT ![r] =
                      Append(@, Sequential!Entry(Sequential!Last(generated[r]), Len(@)))]
                /\ context' = [context EXCEPT ![r] = Sequential!Range(Mapped'[r])]
                /\ \E t \in Vocabulary : generated' = [generated EXCEPT ![r] = Append(@, t)]
BY DEF Sequential!Start, Sequential!Continue, Mapped

\* Every cache is mapped to what has gone through the model.
MappedBefore == \A r \in Requests : RequestOK(r)
MappedAfter == \A r \in Requests : RequestOK(r)'

\* A sampled token changes the mapped cache of its own request only.
LEMMA MappedUpdate ==
    ASSUME MappedBefore, MappedAfter, generated \in [Requests -> Seq(Vocabulary)],
           NEW r \in Requests, NEW t \in Vocabulary, Samples(r, t)
    PROVE  /\ Mapped[r] = Past(Prompt[r], generated[r])
           /\ Mapped' = [Mapped EXCEPT ![r] = Past(Prompt[r], Append(generated[r], t))]
           /\ Mapped'[r] = Past(Prompt[r], Append(generated[r], t))
           /\ context' = [context EXCEPT ![r] = Range(Past(Prompt[r], Append(generated[r], t)))]
<1>1. /\ Mapped = [q \in Requests |-> Past(Prompt[q], generated[q])]
      /\ Mapped' = [q \in Requests |-> Past(Prompt[q], generated'[q])]
  BY MappedIsPast, MappedIsPastNext DEF MappedBefore, MappedAfter
<1>2. generated'[r] = Append(generated[r], t)
  BY DEF Samples
<1>3. \A q \in Requests \ {r} : generated'[q] = generated[q]
  BY DEF Samples
<1>4. QED
  BY <1>1, <1>2, <1>3 DEF Samples

\* The first token of a request is the sequential loop's first.
LEMMA StartMapped ==
    ASSUME MappedBefore, MappedAfter, generated \in [Requests -> Seq(Vocabulary)],
           NEW r \in Requests, NEW t \in Vocabulary, Samples(r, t), generated[r] = <<>>
    PROVE  Sequential!Start(r)
<1>1. Past(Prompt[r], Append(generated[r], t)) = Entries(Prompt[r])
  BY PromptType, PastStart
<1>2. Append(<<>>, t) = <<t>>
  OBVIOUS
<1>3. generated' = [generated EXCEPT ![r] = <<t>>]
  BY <1>2 DEF Samples
<1>4. /\ Mapped' = [Mapped EXCEPT ![r] = Entries(Prompt[r])]
      /\ context' = [context EXCEPT ![r] = Range(Entries(Prompt[r]))]
  BY <1>1, MappedUpdate
<1>5. QED
  BY <1>3, <1>4, SameEntries, SequentialSteps

\* Any further token is the sequential loop's next.
LEMMA ContinueMapped ==
    ASSUME MappedBefore, MappedAfter, generated \in [Requests -> Seq(Vocabulary)],
           NEW r \in Requests, NEW t \in Vocabulary, Samples(r, t),
           generated[r] # <<>>, ~IsDone(generated[r], MaxNew[r])
    PROVE  Sequential!Continue(r)
<1>1. /\ Mapped[r] = Past(Prompt[r], generated[r])
      /\ Mapped' = [Mapped EXCEPT ![r] = Past(Prompt[r], Append(generated[r], t))]
      /\ Mapped'[r] = Past(Prompt[r], Append(generated[r], t))
      /\ context' = [context EXCEPT ![r] = Range(Past(Prompt[r], Append(generated[r], t)))]
  BY MappedUpdate
<1>2. Past(Prompt[r], Append(generated[r], t)) =
         Append(Past(Prompt[r], generated[r]),
                Entry(Last(generated[r]), Len(Past(Prompt[r], generated[r]))))
  <2>1. Prompt[r] \in Seq(Vocabulary) /\ Prompt[r] # <<>> /\ generated[r] \in Seq(Vocabulary)
    BY PromptType
  <2>2. QED
    BY <2>1, PastGrows
<1>3. Sequential!Entry(Sequential!Last(generated[r]), Len(Mapped[r])) =
         Entry(Last(generated[r]), Len(Past(Prompt[r], generated[r])))
  BY <1>1, SameEntries
<1>4. Mapped' = [Mapped EXCEPT ![r] =
         Append(@, Sequential!Entry(Sequential!Last(generated[r]), Len(@)))]
  BY <1>1, <1>2, <1>3
<1>5. context' = [context EXCEPT ![r] = Sequential!Range(Mapped'[r])]
  BY <1>1, SameEntries
<1>6. generated' = [generated EXCEPT ![r] = Append(@, t)]
  BY DEF Samples
<1>7. ~Sequential!Done(generated[r], MaxNew[r])
  BY SameEntries
<1>8. QED
  BY <1>4, <1>5, <1>6, <1>7, SequentialSteps

\* A step without a token is none of the sequential loop's.
LEMMA Stutters ==
    ASSUME MappedBefore, MappedAfter, UNCHANGED <<generated, context>>
    PROVE  UNCHANGED <<generated, Mapped, context>>
<1>1. Mapped' = Mapped
  BY MappedIsPast, MappedIsPastNext DEF MappedBefore, MappedAfter
<1>2. QED
  BY <1>1

LEMMA MappedInit == BatchInit => Sequential!SeqInit
<1>1. SUFFICES ASSUME BatchInit PROVE Sequential!SeqInit
  OBVIOUS
<1>2. ASSUME NEW r \in Requests
      PROVE  History(r) = <<>> /\ status[r] # "GENERATING"
  <2>1. generated[r] = <<>> /\ status[r] = "PENDING"
    BY <1>1 DEF BatchInit
  <2>2. QED
    BY <2>1 DEF History
<1>3. Mapped = [r \in Requests |-> <<>>]
  BY <1>2 DEF Mapped
<1>4. QED
  BY <1>1, <1>3 DEF BatchInit, Sequential!SeqInit, Mapped

LEMMA StepImplements ==
    ASSUME IInv, [BatchNext]_batchVars
    PROVE  [Sequential!SeqNext]_(Sequential!seqVars)
<1>1. MappedBefore /\ MappedAfter /\ generated \in [Requests -> Seq(Vocabulary)]
  BY Inductive DEF IInv, TypeOK, MappedBefore, MappedAfter
<1>2. ASSUME UNCHANGED <<generated, context>>
      PROVE  UNCHANGED Sequential!seqVars
  BY <1>1, <1>2, Stutters DEF Sequential!seqVars, Mapped
<1>3. CASE UNCHANGED batchVars
  BY <1>2, <1>3 DEF batchVars, requestVars
<1>4. ASSUME NEW r \in Requests, Prefill(r)
      PROVE  Sequential!SeqNext
  BY <1>1, <1>4, PrefillStep, StartMapped DEF Sequential!SeqNext
<1>5. ASSUME NEW r \in Requests, EmitToken(r)
      PROVE  Sequential!SeqNext
  <2>1. generated[r] # <<>> /\ ~IsDone(generated[r], MaxNew[r])
    BY <1>5 DEF IInv, RowOK, EmitToken
  <2>2. QED
    BY <1>1, <1>5, <2>1, EmitStep, ContinueMapped DEF Sequential!SeqNext
<1>6. ASSUME NEW r \in Requests, PassRaises(r)
      PROVE  Sequential!SeqNext \/ UNCHANGED Sequential!seqVars
  <2>1. \/ UNCHANGED <<generated, context>>
        \/ /\ generated[r] # <<>> /\ ~IsDone(generated[r], MaxNew[r])
           /\ \E t \in Vocabulary : Samples(r, t)
    BY <1>6, PassRaisesStep
  <2>2. QED
    BY <1>1, <1>2, <2>1, ContinueMapped DEF Sequential!SeqNext
<1>7. ASSUME NEW r \in Requests, PrefillRaises(r) \/ Aborted(r)
      PROVE  UNCHANGED Sequential!seqVars
  BY <1>2, <1>7 DEF PrefillRaises, Aborted
<1>8. ASSUME NEW requests \in SUBSET Requests, BeginPass(requests)
      PROVE  UNCHANGED Sequential!seqVars
  BY <1>2, <1>8 DEF BeginPass, requestVars
<1>9. QED
  BY <1>3, <1>4, <1>5, <1>6, <1>7, <1>8 DEF BatchNext

\* Batched decoding is decoding each request on its own (inference.py:13): with
\* any prompts, limits and mix of lengths, every token is sampled from logits
\* over the entries that the single-request loop attends to, and the cache grows
\* by the same entry.
THEOREM ImplementsSequentialHolds == BatchSpec => ImplementsSequential
<1>1. IInv /\ [BatchNext]_batchVars => [Sequential!SeqNext]_(Sequential!seqVars)
  BY StepImplements
<1>2. QED
  BY <1>1, MappedInit, Invariant, PTL
     DEF BatchSpec, ImplementsSequential, Sequential!SeqSpec

=============================================================================
