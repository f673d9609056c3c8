-------------------------- MODULE RankFusion_proofs --------------------------
(***************************************************************************)
(* The order of the answer respects the evidence and nothing better is     *)
(* left out, for any memes, sources, rankings and changes of rows.         *)
(*                                                                         *)
(* The fusion keeps every meme at least as high as those it dominates, and *)
(* ahead by a millionth once a source that prefers it is done: rounding    *)
(* cannot undo that.                                                       *)
(***************************************************************************)
EXTENDS RankFusion, SequenceTheorems, TLAPS

TypeOK ==
    /\ hits \in [Sources -> HitLists]
    /\ source \in 1 .. Len(Weight) + 1 /\ rank \in Nat \ {0}
    /\ rrf \in [Memes -> Nat]
    /\ todo \in Seq(Memes) /\ loaded \in Seq(Memes)
    /\ rows \in [Memes -> Rows] /\ seen \in [Memes -> Rows \cup {None}]

AsGood(a, b) == \A s \in Sources : b \in Range(hits[s]) => Better(a, b, s)

\* a is ahead of b by what shows after rounding.
Clear(a, b) == 1000 * rrf[a] >= 1000 * rrf[b] + Scale

Fused(m) == \E k \in DOMAIN hits[source] : k < rank /\ hits[source][k] = m

\* The score so far respects the evidence so far.
Ahead ==
    \A a, b \in Memes : AsGood(a, b) =>
        /\ rrf[a] >= rrf[b]
        /\ (\E s \in Sources : s < source /\ Better(a, b, s)) => Clear(a, b)
        /\ source \in Sources =>
             \A j \in DOMAIN hits[source] : j < rank /\ hits[source][j] = a =>
                 \/ Fused(b) /\ Clear(a, b)
                 \/ ~Fused(b) /\ rrf[a] >= rrf[b] + Contribution(source, j)

\* Every meme is loaded once, and stays in if its row matches.
LoadedOnce ==
    /\ IsInjective(todo) /\ IsInjective(loaded)
    /\ Range(todo) \cap Range(loaded) = {}
    /\ Range(loaded) = Candidates
    /\ source \in Sources => loaded = <<>>

Answered ==
    results # None => source \notin Sources /\ todo = <<>> /\ results \in Answers(loaded)

IInv == TypeOK /\ Ahead /\ LoadedOnce /\ Answered

-----------------------------------------------------------------------------
(* Arithmetic *)

LEMMA DivisionIsMonotone ==
  ASSUME NEW x \in Nat, NEW y \in Nat, NEW d \in Nat \ {0}
  PROVE  /\ x \div d \in Nat
         /\ x >= y => x \div d >= y \div d
         /\ x >= y + d => x \div d > y \div d
  OBVIOUS

LEMMA DivisionIsExact ==
  ASSUME NEW x \in Nat, NEW d \in Nat \ {0}, x % d = 0
  PROVE  x \div d \in Nat /\ (x \div d) * d = x
  OBVIOUS

\* A score that is a millionth higher is higher after rounding.
LEMMA RoundingKeepsOrder ==
  ASSUME NEW x \in Nat, NEW y \in Nat
  PROVE  /\ Rounded(x) \in Nat
         /\ x >= y => Rounded(x) >= Rounded(y)
         /\ 1000 * x >= 1000 * y + Scale => Rounded(x) > Rounded(y)
<1> DEFINE h == Scale \div 2
<1>1. h \in Nat /\ Scale \in Nat \ {0}  BY ScaleAssumption
<1> HIDE DEF h
<1>2. 1000 * x + h \in Nat /\ 1000 * y + h \in Nat  BY <1>1
<1>3. Rounded(x) = (1000 * x + h) \div Scale /\ Rounded(y) = (1000 * y + h) \div Scale
  BY DEF Rounded, h
<1>. QED  BY <1>1, <1>2, <1>3, DivisionIsMonotone

\* What a rank is worth: something that shows, and more than the ranks after it.
LEMMA ContributionOfRank ==
  ASSUME NEW s \in Sources, NEW k \in 1 .. MaxHits
  PROVE  /\ Contribution(s, k) \in Nat
         /\ 1000 * Contribution(s, k) >= Scale
         /\ \A j \in 1 .. MaxHits : j < k =>
              1000 * Contribution(s, j) >= 1000 * Contribution(s, k) + Scale
<1> DEFINE part(r) == Scale \div (60 + r)
           w == Weight[s]
<1>1. w \in Nat /\ (60 + MaxHits) * (60 + MaxHits) <= 1000 * w /\ MaxHits \in Nat
  BY WeightAssumption, BoundsAssumption DEF Sources, RRF_K
<1>2. ASSUME NEW r \in 1 .. MaxHits
      PROVE  /\ Contribution(s, r) = w * part(r) /\ part(r) \in Nat
             /\ part(r) * (60 + r) = Scale /\ Scale \in Nat \ {0}
  <2>1. Scale \in Nat \ {0} /\ 60 + r \in Nat \ {0} /\ Scale % (60 + r) = 0
    BY <1>1, ScaleAssumption DEF RRF_K
  <2>. QED  BY <2>1, DivisionIsExact DEF Contribution, RRF_K
<1> HIDE DEF part, w
<1>3. Contribution(s, k) \in Nat  BY <1>1, <1>2
<1>4. 1000 * Contribution(s, k) >= Scale
  <2>1. 60 + k <= 1000 * w  BY <1>1
  <2>2. part(k) * (60 + k) <= part(k) * (1000 * w)  BY <1>1, <1>2, <2>1
  <2>. QED  BY <1>1, <1>2, <2>2
<1>5. ASSUME NEW j \in 1 .. MaxHits, j < k
      PROVE  1000 * Contribution(s, j) >= 1000 * Contribution(s, k) + Scale
  <2> DEFINE more == part(j) - part(k)
  <2>1. part(j) \in Nat /\ part(k) \in Nat /\ part(j) * (60 + j) = part(k) * (60 + k)
    BY <1>2
  <2>2. (part(j) - part(k)) * (60 + j) = part(k) * (k - j)  BY <1>1, <1>5, <2>1
  <2>3. more \in Int /\ more * (60 + j) >= part(k)  BY <1>1, <1>5, <2>1, <2>2
  <2>4. more \in Nat  BY <1>1, <2>1, <2>3
  <2> HIDE DEF more
  <2>5. (more * (60 + j)) * (60 + k) >= part(k) * (60 + k)  BY <1>1, <2>1, <2>3, <2>4
  <2>6. (60 + j) * (60 + k) <= (60 + MaxHits) * (60 + MaxHits)  BY <1>1
  <2>7. more * ((60 + j) * (60 + k)) <= more * (1000 * w)  BY <1>1, <2>4, <2>6
  <2>8. more * (1000 * w) >= Scale
    <3>1. ASSUME NEW a \in Nat, NEW b \in Nat, NEW c \in Nat PROVE (a * b) * c = a * (b * c)
      OBVIOUS
    <3>2. (more * (60 + j)) * (60 + k) = more * ((60 + j) * (60 + k))
      BY <1>1, <2>4, <3>1
    <3>3. part(k) * (60 + k) = Scale  BY <1>2
    <3>. QED  BY <2>5, <2>7, <3>2, <3>3, <1>1, <1>2, <2>1, <2>4
  <2>9. w * part(j) = w * part(k) + w * more  BY <1>1, <2>1 DEF more
  <2>. QED  BY <1>1, <1>2, <2>1, <2>4, <2>8, <2>9
<1>. QED  BY <1>3, <1>4, <1>5

-----------------------------------------------------------------------------
(* Fusion *)

LEMMA HitsOfSource ==
  ASSUME TypeOK, NEW s \in Sources
  PROVE  \E n \in 0 .. MaxHits :
           /\ hits[s] \in [1 .. n -> Memes] /\ DOMAIN hits[s] = 1 .. n
           /\ DOMAIN hits[s] \subseteq 1 .. MaxHits
           /\ \A j, k \in DOMAIN hits[s] : hits[s][j] = hits[s][k] => j = k
<1>1. hits[s] \in HitLists  BY DEF TypeOK
<1>2. PICK n \in 0 .. MaxHits : hits[s] \in [1 .. n -> Memes]  BY <1>1 DEF HitLists
<1>3. n \in Nat /\ MaxHits \in Nat  BY BoundsAssumption
<1>. QED  BY <1>1, <1>2, <1>3 DEF HitLists, IsInjective

\* A step of the fusion that gives its contribution to hit number rank.
LEMMA HitKeepsOrder ==
  ASSUME TypeOK, Ahead, FuseHit
  PROVE  Ahead'
<1> DEFINE m == hits[source][rank]
           c == Contribution(source, rank)
<1>1. /\ source \in Sources /\ rank \in DOMAIN hits[source] /\ rank \in 1 .. MaxHits
      /\ source' = source /\ rank' = rank + 1 /\ hits' = hits
      /\ rrf' = [rrf EXCEPT ![m] = @ + c] /\ m \in Memes
  BY HitsOfSource DEF FuseHit, TypeOK
<1>2. c \in Nat /\ rrf \in [Memes -> Nat] /\ Scale \in Nat /\ source \in Int /\ MaxHits \in Nat
  BY <1>1, ContributionOfRank, ScaleAssumption, BoundsAssumption DEF TypeOK
<1>3. \A k \in DOMAIN hits[source] : k \in 1 .. MaxHits /\ (hits[source][k] = m => k = rank)
  BY <1>1, HitsOfSource
<1>4. \A n \in Memes : Fused(n)' <=> Fused(n) \/ n = m
  BY <1>1, <1>3, BoundsAssumption DEF Fused
<1>5. ~Fused(m)  BY <1>1, <1>3, <1>2 DEF Fused
<1> HIDE DEF m, c
<1>6. \A n \in Memes : rrf'[n] = IF n = m THEN rrf[n] + c ELSE rrf[n]  BY <1>1, <1>2
<1> SUFFICES ASSUME NEW a \in Memes, NEW b \in Memes, AsGood(a, b)'
             PROVE  /\ rrf'[a] >= rrf'[b]
                    /\ (\E s \in Sources : s < source /\ Better(a, b, s)) => Clear(a, b)'
                    /\ \A j \in DOMAIN hits[source] : j < rank + 1 /\ hits[source][j] = a =>
                         \/ Fused(b)' /\ Clear(a, b)'
                         \/ ~Fused(b)' /\ rrf'[a] >= rrf'[b] + Contribution(source, j)
  BY <1>1 DEF Ahead, Better
<1>7. AsGood(a, b)  BY <1>1 DEF AsGood, Better
<1>8. /\ rrf[a] >= rrf[b]
      /\ (\E s \in Sources : s < source /\ Better(a, b, s)) => Clear(a, b)
      /\ \A j \in DOMAIN hits[source] : j < rank /\ hits[source][j] = a =>
           \/ Fused(b) /\ Clear(a, b)
           \/ ~Fused(b) /\ rrf[a] >= rrf[b] + Contribution(source, j)
  BY <1>1, <1>7 DEF Ahead
<1>9. CASE m # a /\ m # b
  <2>1. rrf'[a] = rrf[a] /\ rrf'[b] = rrf[b] /\ (Clear(a, b)' <=> Clear(a, b))
    BY <1>6, <1>9 DEF Clear
  <2>2. \A j \in DOMAIN hits[source] : j < rank + 1 /\ hits[source][j] = a => j < rank
    BY <1>1, <1>2, <1>3, <1>9 DEF m
  <2>. QED  BY <1>4, <1>8, <1>9, <2>1, <2>2
<1>10. CASE m = a /\ m # b
  <2>1. rrf'[a] = rrf[a] + c /\ rrf'[b] = rrf[b]  BY <1>6, <1>10
  <2>2. ~Fused(b)
    <3>1. SUFFICES ASSUME Fused(b) PROVE FALSE  OBVIOUS
    <3>2. PICK k \in DOMAIN hits[source] : k < rank /\ hits[source][k] = b  BY <3>1 DEF Fused
    <3>3. Better(a, b, source)  BY <1>1, <1>7, <3>2 DEF AsGood, Range
    <3>4. rank < k  BY <1>3, <1>10, <3>2, <3>3 DEF Better
    <3>. QED  BY <1>1, <1>3, <3>2, <3>4
  <2>3. Clear(a, b) => Clear(a, b)'  BY <1>2, <2>1 DEF Clear
  <2>4. \A j \in DOMAIN hits[source] : hits[source][j] = a => Contribution(source, j) = c
    BY <1>3, <1>10 DEF c
  <2>. QED  BY <1>2, <1>4, <1>8, <1>10, <2>1, <2>2, <2>3, <2>4
<1>11. CASE m = b
  <2>1. Better(a, b, source)  BY <1>1, <1>7, <1>11 DEF AsGood, Range, m
  <2>2. PICK j \in DOMAIN hits[source] : j < rank /\ hits[source][j] = a
    BY <1>1, <1>11, <2>1 DEF Better, m
  <2>3. a # b /\ j \in 1 .. MaxHits  BY <1>1, <1>3, <1>11, <2>2
  <2>4. rrf[a] >= rrf[b] + Contribution(source, j)  BY <1>5, <1>8, <1>11, <2>2
  <2>5. 1000 * Contribution(source, j) >= 1000 * c + Scale /\ Contribution(source, j) \in Nat
    BY <1>1, <2>2, <2>3, ContributionOfRank DEF c
  <2>6. rrf'[a] = rrf[a] /\ rrf'[b] = rrf[b] + c  BY <1>6, <1>11, <2>3
  <2>7. Clear(a, b)' /\ rrf'[a] >= rrf'[b]  BY <1>2, <2>4, <2>5, <2>6 DEF Clear
  <2>. QED  BY <1>4, <1>11, <2>7
<1>. QED  BY <1>9, <1>10, <1>11

\* At the end of a source those it prefers are ahead of the others.
LEMMA SourceKeepsOrder ==
  ASSUME TypeOK, Ahead, NextSource
  PROVE  Ahead'
<1>1. /\ source \in Sources /\ rank \notin DOMAIN hits[source]
      /\ source' = source + 1 /\ rank' = 1 /\ hits' = hits /\ rrf' = rrf
  BY DEF NextSource
<1>2. /\ rrf \in [Memes -> Nat] /\ Scale \in Nat /\ source \in Nat /\ rank \in Nat \ {0}
      /\ Sources \subseteq Nat
  BY ScaleAssumption, WeightAssumption DEF TypeOK, Sources
<1>3. \A k \in DOMAIN hits[source] : k \in 1 .. MaxHits /\ k < rank
  BY <1>1, <1>2, HitsOfSource, BoundsAssumption
<1> SUFFICES ASSUME NEW a \in Memes, NEW b \in Memes, AsGood(a, b)'
             PROVE  /\ rrf'[a] >= rrf'[b]
                    /\ (\E s \in Sources : s < source' /\ Better(a, b, s)) => Clear(a, b)'
                    /\ source' \in Sources => \A j \in DOMAIN hits[source'] : ~(j < 1)
  BY <1>1 DEF Ahead, Better
<1>4. AsGood(a, b)  BY <1>1 DEF AsGood, Better
<1>5. rrf[a] >= rrf[b]  BY <1>4 DEF Ahead
<1>6. ASSUME Better(a, b, source) PROVE Clear(a, b)
  <2>1. PICK j \in DOMAIN hits[source] : hits[source][j] = a  BY <1>6 DEF Better
  <2>2. Clear(a, b) \/ rrf[a] >= rrf[b] + Contribution(source, j)
    BY <1>1, <1>3, <1>4, <2>1 DEF Ahead
  <2>3. Contribution(source, j) \in Nat /\ 1000 * Contribution(source, j) >= Scale
    BY <1>1, <1>3, <2>1, ContributionOfRank
  <2>. QED  BY <1>2, <2>2, <2>3 DEF Clear
<1>7. ASSUME NEW s \in Sources, s < source', Better(a, b, s) PROVE Clear(a, b)
  <2>1. s = source \/ s < source  BY <1>1, <1>2, <1>7
  <2>. QED  BY <1>4, <1>6, <1>7, <2>1 DEF Ahead
<1>8. Clear(a, b)' <=> Clear(a, b)  BY <1>1 DEF Clear
<1>9. source' \in Sources => \A j \in DOMAIN hits[source'] : ~(j < 1)
  BY HitsOfSource, BoundsAssumption
<1>. QED  BY <1>1, <1>5, <1>7, <1>8, <1>9

-----------------------------------------------------------------------------
(* Loading and sorting *)

LEMMA AppendRange ==
  ASSUME NEW S, NEW s \in Seq(S), NEW e
  PROVE  /\ Range(Append(s, e)) = Range(s) \cup {e}
         /\ IsInjective(s) /\ e \notin Range(s) => IsInjective(Append(s, e))
<1>1. /\ Len(s) \in Nat /\ DOMAIN s = 1 .. Len(s)
      /\ DOMAIN Append(s, e) = 1 .. Len(s) + 1
      /\ \A k \in 1 .. Len(s) + 1 : Append(s, e)[k] = IF k = Len(s) + 1 THEN e ELSE s[k]
  OBVIOUS
<1>. QED  BY <1>1 DEF Range, IsInjective

LEMMA TailRange ==
  ASSUME NEW S, NEW s \in Seq(S), s # <<>>
  PROVE  /\ Head(s) \in Range(s) /\ Range(s) = Range(Tail(s)) \cup {Head(s)}
         /\ IsInjective(s) => IsInjective(Tail(s)) /\ Head(s) \notin Range(Tail(s))
<1>1. /\ Len(s) \in Nat \ {0} /\ DOMAIN s = 1 .. Len(s)
      /\ DOMAIN Tail(s) = 1 .. Len(s) - 1
      /\ \A k \in 1 .. Len(s) - 1 : Tail(s)[k] = s[k + 1]
      /\ Head(s) = s[1]
  OBVIOUS
<1>2. \A k \in 2 .. Len(s) : k - 1 \in 1 .. Len(s) - 1 /\ s[k] = Tail(s)[k - 1]  BY <1>1
<1>3. Range(s) = Range(Tail(s)) \cup {Head(s)}
  <2>1. ASSUME NEW k \in 1 .. Len(s) PROVE s[k] \in Range(Tail(s)) \cup {Head(s)}
    <3>1. CASE k = 1  BY <1>1, <3>1
    <3>2. CASE k \in 2 .. Len(s)  BY <1>1, <1>2, <3>2 DEF Range
    <3>. QED  BY <1>1, <3>1, <3>2
  <2>. QED  BY <1>1, <2>1 DEF Range
<1>. QED  BY <1>1, <1>3 DEF Range, IsInjective

LEMMA SequenceRange ==
  ASSUME NEW S, NEW s \in Seq(S)
  PROVE  Range(s) \subseteq S /\ Range(<<>>) = {} /\ IsInjective(<<>>)
  BY DEF Range, IsInjective

\* Every action but Return, on what is loaded.
LEMMA StepsLoadOnce ==
  ASSUME TypeOK, LoadedOnce, FuseHit \/ NextSource \/ Load
  PROVE  LoadedOnce'
<1>1. todo \in Seq(Memes) /\ loaded \in Seq(Memes)  BY DEF TypeOK
<1>2. CASE FuseHit
  <2>1. /\ source \in Sources /\ source' = source /\ loaded' = loaded /\ seen' = seen
        /\ loaded = <<>>
        /\ todo' = IF hits[source][rank] \in Range(todo) THEN todo
                   ELSE Append(todo, hits[source][rank])
    BY <1>2 DEF FuseHit, LoadedOnce
  <2>2. IsInjective(todo')  BY <1>1, <2>1, AppendRange DEF LoadedOnce
  <2>3. Range(loaded) = {}  BY <2>1 DEF Range
  <2>. QED  BY <2>1, <2>2, <2>3 DEF LoadedOnce, Candidates
<1>3. CASE NextSource
  BY <1>3 DEF NextSource, LoadedOnce, Candidates, TypeOK
<1>4. CASE Load
  <2> DEFINE m == Head(todo)
  <2>1. /\ source \notin Sources /\ source' = source /\ todo # <<>> /\ todo' = Tail(todo)
        /\ seen' = [seen EXCEPT ![m] = rows[m]]
        /\ loaded' = IF rows[m] # None /\ rows[m].matches THEN Append(loaded, m) ELSE loaded
    BY <1>4 DEF Load, fusion
  <2>2. m \in Range(todo) /\ m \in Memes /\ Range(todo) = Range(todo') \cup {m}
        /\ IsInjective(todo') /\ m \notin Range(todo')
    BY <1>1, <2>1, TailRange, SequenceRange DEF LoadedOnce
  <2> HIDE DEF m
  <2>3. m \notin Range(loaded)  BY <2>2 DEF LoadedOnce
  <2>4. Candidates' = IF rows[m] # None /\ rows[m].matches
                      THEN Candidates \cup {m} ELSE Candidates \ {m}
    BY <2>1, <2>2 DEF Candidates, TypeOK
  <2>5. Range(loaded') = Candidates' /\ IsInjective(loaded')
    BY <1>1, <2>1, <2>3, <2>4, AppendRange DEF LoadedOnce
  <2>. QED  BY <2>1, <2>2, <2>3, <2>4, <2>5 DEF LoadedOnce
<1>. QED  BY <1>2, <1>3, <1>4

\* What a sorted sequence is.
LEMMA SortedProperties ==
  ASSUME NEW s \in Seq(Memes), IsInjective(s), NEW r \in Sorted(s)
  PROVE  /\ Len(s) \in Nat /\ r \in [1 .. Len(s) -> Memes]
         /\ Range(r) = Range(s)
         /\ \A j, k \in 1 .. Len(s) : r[j] = r[k] => j = k
         /\ \A j, k \in 1 .. Len(s) : j < k =>
              Score(r[j]) > Score(r[k]) \/ Score(r[j]) = Score(r[k])
<1>1. Len(s) \in Nat /\ DOMAIN s = 1 .. Len(s) /\ s \in [1 .. Len(s) -> Memes]  OBVIOUS
<1>2. PICK p \in Bijection(DOMAIN s, DOMAIN s) :
        /\ r = [k \in DOMAIN s |-> s[p[k]]]
        /\ \A j, k \in DOMAIN s : j < k => Precedes(s, p[j], p[k])
  BY DEF Sorted
<1>3. /\ p \in [DOMAIN s -> DOMAIN s]
      /\ \A j, k \in DOMAIN s : p[j] = p[k] => j = k
      /\ \A j \in DOMAIN s : \E k \in DOMAIN s : p[k] = j
  BY <1>2 DEF Bijection, Injection, Surjection, IsInjective
<1>4. Range(r) = Range(s)  BY <1>2, <1>3 DEF Range
<1>5. \A j, k \in 1 .. Len(s) : r[j] = r[k] => j = k
  BY <1>1, <1>2, <1>3 DEF IsInjective
<1>6. r \in [1 .. Len(s) -> Memes]  BY <1>1, <1>2, <1>3
<1>7. \A j, k \in 1 .. Len(s) : j < k =>
        Score(r[j]) > Score(r[k]) \/ Score(r[j]) = Score(r[k])
  BY <1>1, <1>2, <1>3 DEF Precedes
<1>. QED  BY <1>1, <1>4, <1>5, <1>6, <1>7

LEMMA FirstOfProperties ==
  ASSUME NEW n \in Nat, NEW r \in [1 .. n -> Memes]
  PROVE  /\ Len(FirstOf(r)) = (IF n < Limit THEN n ELSE Limit)
         /\ DOMAIN FirstOf(r) = 1 .. Len(FirstOf(r))
         /\ DOMAIN FirstOf(r) \subseteq 1 .. n
         /\ \A k \in DOMAIN FirstOf(r) : FirstOf(r)[k] = r[k]
<1>1. r \in Seq(Memes) /\ Len(r) = n /\ Limit \in Nat  BY BoundsAssumption
<1>. QED  BY <1>1 DEF FirstOf

\* What the search returns is the beginning of the loaded memes in order.
LEMMA AnswerProperties ==
  ASSUME TypeOK, LoadedOnce, results \in Answers(loaded)
  PROVE  \E r \in [1 .. Len(loaded) -> Memes] :
           /\ Len(loaded) \in Nat /\ Limit \in Nat
           /\ Range(r) = Candidates
           /\ \A j, k \in 1 .. Len(loaded) : r[j] = r[k] => j = k
           /\ \A j, k \in 1 .. Len(loaded) : j < k =>
                Score(r[j]) > Score(r[k]) \/ Score(r[j]) = Score(r[k])
           /\ Len(results) = (IF Len(loaded) < Limit THEN Len(loaded) ELSE Limit)
           /\ DOMAIN results = 1 .. Len(results)
           /\ \A k \in DOMAIN results : k \in 1 .. Len(loaded) /\ results[k] = r[k]
<1>1. loaded \in Seq(Memes) /\ IsInjective(loaded) /\ Range(loaded) = Candidates
  BY DEF TypeOK, LoadedOnce
<1>2. PICK r \in Sorted(loaded) : results = FirstOf(r)  BY DEF Answers
<1>3. Limit \in Nat  BY BoundsAssumption
<1>. QED  BY <1>1, <1>2, <1>3, SortedProperties, FirstOfProperties

-----------------------------------------------------------------------------
(* The invariant *)

LEMMA Types ==
  ASSUME TypeOK, Next
  PROVE  TypeOK'
<1>1. /\ todo \in Seq(Memes) /\ loaded \in Seq(Memes) /\ Weight \in Seq(Nat)
      /\ source \in 1 .. Len(Weight) + 1 /\ rank \in Nat \ {0} /\ rrf \in [Memes -> Nat]
  BY WeightAssumption DEF TypeOK
<1>2. CASE FuseHit
  <2>1. hits[source][rank] \in Memes /\ rank \in 1 .. MaxHits /\ source \in Sources
    BY <1>2, HitsOfSource DEF FuseHit
  <2>2. Contribution(source, rank) \in Nat  BY <2>1, ContributionOfRank
  <2>. QED  BY <1>1, <1>2, <2>1, <2>2 DEF FuseHit, TypeOK
<1>3. CASE NextSource  BY <1>1, <1>3 DEF NextSource, TypeOK, Sources
<1>4. CASE Load
  <2>1. Head(todo) \in Memes /\ Tail(todo) \in Seq(Memes)  BY <1>1, <1>4 DEF Load
  <2>. QED  BY <1>1, <1>4, <2>1 DEF Load, TypeOK, fusion
<1>5. CASE Return  BY <1>5 DEF Return, TypeOK, fusion
<1>6. ASSUME NEW m \in Memes, NEW row \in Rows, Change(m, row) PROVE TypeOK'
  BY <1>6 DEF Change, TypeOK, fusion
<1>. QED  BY <1>2, <1>3, <1>4, <1>5, <1>6 DEF Next

(* The invariant of the search holds whatever the sources rank and however  *)
(* rows change between the loads (hybrid_search in server/search.py).       *)
THEOREM Invariance == Spec => []IInv
<1>1. Init => IInv
  <2> SUFFICES ASSUME Init PROVE IInv  OBVIOUS
  <2>1. Weight \in Seq(Nat)  BY WeightAssumption
  <2>2. TypeOK  BY <2>1, RowsAssumption DEF Init, TypeOK
  <2>3. Ahead
    <3>1. \A s \in Sources : ~(s < source)  BY <2>1 DEF Init, Sources
    <3>2. \A s \in Sources : \A j \in DOMAIN hits[s] : ~(j < rank)
      BY <2>2, HitsOfSource, BoundsAssumption DEF Init
    <3>. QED  BY <3>1, <3>2 DEF Init, Ahead
  <2>4. LoadedOnce  BY SequenceRange DEF Init, LoadedOnce, Candidates, Range, IsInjective
  <2>. QED  BY <2>2, <2>3, <2>4 DEF Init, IInv, Answered
<1>2. IInv /\ [Next]_vars => IInv'
  <2> SUFFICES ASSUME IInv, [Next]_vars PROVE IInv'  OBVIOUS
  <2> USE DEF IInv
  <2>1. CASE FuseHit
    <3>1. results' = results /\ source \in Sources  BY <2>1 DEF FuseHit
    <3>. QED  BY <2>1, <3>1, Types, HitKeepsOrder, StepsLoadOnce DEF Next, Answered
  <2>2. CASE NextSource
    <3>1. results' = results /\ source \in Sources  BY <2>2 DEF NextSource
    <3>. QED  BY <2>2, <3>1, Types, SourceKeepsOrder, StepsLoadOnce DEF Next, Answered
  <2>3. CASE Load
    <3>1. results' = results /\ todo # <<>> /\ fusion' = fusion  BY <2>3 DEF Load
    <3>2. Ahead'
      BY <3>1 DEF fusion, Ahead, AsGood, Better, Clear, Fused
    <3>. QED  BY <2>3, <3>1, <3>2, Types, StepsLoadOnce DEF Next, Answered
  <2>4. CASE Return
    <3>1. /\ results' \in Answers(loaded) /\ todo = <<>> /\ source \notin Sources
          /\ fusion' = fusion /\ todo' = todo /\ loaded' = loaded /\ seen' = seen
      BY <2>4 DEF Return
    <3>2. Ahead'
      BY <3>1 DEF fusion, Ahead, AsGood, Better, Clear, Fused
    <3>3. LoadedOnce'  BY <3>1 DEF fusion, LoadedOnce, Candidates
    <3>4. Answers(loaded)' = Answers(loaded)
      BY <3>1 DEF fusion, Answers, Sorted, Precedes, Score
    <3>. QED  BY <2>4, <3>1, <3>2, <3>3, <3>4, Types DEF Next, Answered, fusion
  <2>5. ASSUME NEW m \in Memes, NEW row \in Rows, Change(m, row) PROVE IInv'
    <3>1. /\ results' = results /\ results = None
          /\ fusion' = fusion /\ todo' = todo /\ loaded' = loaded /\ seen' = seen
      BY <2>5 DEF Change
    <3>2. Ahead'
      BY <3>1 DEF fusion, Ahead, AsGood, Better, Clear, Fused
    <3>3. LoadedOnce'  BY <3>1 DEF fusion, LoadedOnce, Candidates
    <3>. QED  BY <2>5, <3>1, <3>2, <3>3, Types DEF Next, Answered
  <2>6. CASE UNCHANGED vars
    <3>1. Ahead'
      BY <2>6 DEF vars, fusion, Ahead, AsGood, Better, Clear, Fused
    <3>2. TypeOK' /\ LoadedOnce'  BY <2>6 DEF vars, fusion, TypeOK, LoadedOnce, Candidates
    <3>3. Answered'
      BY <2>6 DEF vars, fusion, Answered, Answers, Sorted, Precedes, Score
    <3>. QED  BY <3>1, <3>2, <3>3
  <2>. QED  BY <2>1, <2>2, <2>3, <2>4, <2>5, <2>6 DEF Next
<1>. QED  BY <1>1, <1>2, PTL DEF Spec

LEMMA ScoreType ==
  ASSUME IInv, NEW m \in Candidates
  PROVE  /\ rrf[m] \in Nat /\ Boost(seen[m]) \in Nat
         /\ Score(m) = Rounded(rrf[m] + Boost(seen[m])) /\ Score(m) \in Nat
<1>1. rrf[m] \in Nat /\ Scale \in Nat  BY ScaleAssumption DEF IInv, TypeOK, Candidates
<1>2. seen[m] \in [verified : BOOLEAN, rating : 0 .. 5, matches : BOOLEAN]
  BY RowsAssumption DEF Candidates, IInv, TypeOK
<1>3. (IF seen[m].verified THEN 5 ELSE 0) + seen[m].rating \in Nat  BY <1>2
<1>4. Boost(seen[m]) \in Nat  BY <1>1, <1>3 DEF Boost
<1>. QED  BY <1>1, <1>4, RoundingKeepsOrder DEF Score

\* A candidate that dominates another scores more, after boosts and rounding.
LEMMA EvidenceShows ==
  ASSUME IInv, source \notin Sources, NEW a \in Candidates, NEW b \in Candidates,
         Dominates(a, b)
  PROVE  Score(a) > Score(b)
<1>1. /\ rrf[a] \in Nat /\ rrf[b] \in Nat /\ Scale \in Nat
      /\ \A s \in Sources : s < source
  BY ScaleAssumption, WeightAssumption DEF IInv, TypeOK, Candidates, Sources
<1>2. Boost(seen[a]) \in Nat /\ Boost(seen[b]) \in Nat  BY ScoreType
<1>3. Clear(a, b)  BY <1>1 DEF IInv, Ahead, AsGood, Dominates, Candidates
<1>4. 1000 * (rrf[a] + Boost(seen[a])) >= 1000 * (rrf[b] + Boost(seen[b])) + Scale
  BY <1>1, <1>2, <1>3 DEF Clear, Dominates
<1>. QED  BY <1>1, <1>2, <1>4, RoundingKeepsOrder, ScoreType

(* For all rankings and all rows, a meme is not behind one it dominates:    *)
(* neither rounding, nor the order of insertion, nor the cut inverts the    *)
(* evidence (lines 106 to 144 of server/search.py).                         *)
THEOREM EvidenceIsDecisive == Spec => []EvidenceDecides
<1>1. IInv => EvidenceDecides
  <2> SUFFICES ASSUME IInv, results # None, NEW a \in Candidates, NEW b \in Candidates,
                      Dominates(a, b), NEW k \in DOMAIN results, results[k] = b
               PROVE  \E l \in 1 .. k - 1 : results[l] = a
    BY DEF EvidenceDecides
  <2>1. source \notin Sources /\ results \in Answers(loaded) /\ TypeOK /\ LoadedOnce
    BY DEF IInv, Answered
  <2>2. PICK r \in [1 .. Len(loaded) -> Memes] :
          /\ Len(loaded) \in Nat /\ Limit \in Nat
          /\ Range(r) = Candidates
          /\ \A i, j \in 1 .. Len(loaded) : i < j =>
               Score(r[i]) > Score(r[j]) \/ Score(r[i]) = Score(r[j])
          /\ DOMAIN results = 1 .. Len(results) /\ Len(results) \in Nat
          /\ \A j \in DOMAIN results : j \in 1 .. Len(loaded) /\ results[j] = r[j]
    BY <2>1, AnswerProperties
  <2>3. PICK l \in 1 .. Len(loaded) : r[l] = a  BY <2>2 DEF Range
  <2>4. Score(a) > Score(b) /\ Score(a) \in Int /\ Score(b) \in Int  BY <2>1, EvidenceShows, ScoreType
  <2>5. l < k
    <3>1. l # k /\ ~(k < l)  BY <2>2, <2>3, <2>4
    <3>. QED  BY <2>2, <2>3, <3>1
  <2>. QED  BY <2>2, <2>3, <2>5
<1>. QED  BY <1>1, Invariance, PTL

(* For all rankings and all rows, nothing better is left out and nothing    *)
(* returned twice (the sort and the cut of hybrid_search).                  *)
THEOREM NothingBetterIsLeftOut == Spec => []BestAreReturned
<1>1. IInv => BestAreReturned
  <2> SUFFICES ASSUME IInv, results # None
               PROVE  /\ IsInjective(results) /\ Range(results) \subseteq Candidates
                      /\ \A m \in Candidates \ Range(results) :
                           Len(results) = Limit
                           /\ \A k \in DOMAIN results : Score(results[k]) >= Score(m)
    BY DEF BestAreReturned
  <2>1. results \in Answers(loaded) /\ TypeOK /\ LoadedOnce  BY DEF IInv, Answered
  <2>2. PICK r \in [1 .. Len(loaded) -> Memes] :
          /\ Len(loaded) \in Nat /\ Limit \in Nat
          /\ Range(r) = Candidates
          /\ \A j, k \in 1 .. Len(loaded) : r[j] = r[k] => j = k
          /\ \A j, k \in 1 .. Len(loaded) : j < k =>
               Score(r[j]) > Score(r[k]) \/ Score(r[j]) = Score(r[k])
          /\ Len(results) = (IF Len(loaded) < Limit THEN Len(loaded) ELSE Limit)
          /\ DOMAIN results = 1 .. Len(results)
          /\ \A k \in DOMAIN results : k \in 1 .. Len(loaded) /\ results[k] = r[k]
    BY <2>1, AnswerProperties
  <2>3. IsInjective(results) /\ Range(results) \subseteq Candidates
    BY <2>2 DEF IsInjective, Range
  <2>4. ASSUME NEW m \in Candidates \ Range(results)
        PROVE  Len(results) = Limit /\ \A k \in DOMAIN results : Score(results[k]) >= Score(m)
    <3>1. PICK l \in 1 .. Len(loaded) : r[l] = m  BY <2>2 DEF Range
    <3>2. l \notin DOMAIN results  BY <2>2, <2>4, <3>1 DEF Range
    <3>3. Len(results) = Limit /\ \A k \in DOMAIN results : k < l  BY <2>2, <3>1, <3>2
    <3>4. ASSUME NEW k \in DOMAIN results PROVE Score(results[k]) >= Score(m)
      <4>1. results[k] = r[k] /\ r[k] \in Candidates /\ k \in 1 .. Len(loaded) /\ k < l
        BY <2>2, <3>3 DEF Range
      <4>2. Score(r[k]) \in Nat /\ Score(m) \in Nat  BY <4>1, ScoreType
      <4>3. Score(r[k]) > Score(m) \/ Score(r[k]) = Score(m)  BY <2>2, <3>1, <4>1
      <4>. QED  BY <4>1, <4>2, <4>3
    <3>. QED  BY <3>3, <3>4
  <2>. QED  BY <2>3, <2>4
<1>. QED  BY <1>1, Invariance, PTL

=============================================================================
