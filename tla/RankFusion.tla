----------------------------- MODULE RankFusion -----------------------------
(***************************************************************************)
(* Hybrid search (server/search.py): the hits of each vector field and of  *)
(* the keyword index are merged by weighted reciprocal rank fusion, the    *)
(* rows are loaded one by one, filtered and boosted, and the best are      *)
(* returned.  Searching holds no lock: rows change between the loads.      *)
(*                                                                         *)
(* Scores are integers in units of 1/(1000 * Scale).                       *)
(***************************************************************************)
EXTENDS Integers, Sequences, Functions

CONSTANTS
    Memes, None,
    Weight,       \* weight of each source in thousandths, in search order:
                  \* the vector fields and the keyword index
    MaxHits,      \* hits of a source at most (max(20, limit * 2), up to 200)
    MaxChanges,   \* bound: rows changed during the search
    Rows,         \* what a row can be: [verified, rating, matches], or None
    FirstRow,     \* the row every meme starts with
    Limit,
    Scale         \* divisible by the denominator of every rank

Sources == DOMAIN Weight
RRF_K == 60

ASSUME BoundsAssumption == {MaxHits, MaxChanges, Limit} \subseteq Nat
ASSUME ScaleAssumption ==
    Scale \in Nat \ {0} /\ \A rank \in 1 .. MaxHits : Scale % (RRF_K + rank) = 0
\* One rank more or less shows in the sixth decimal.
ASSUME WeightAssumption ==
    /\ Weight \in Seq(Nat)
    /\ \A s \in Sources : (RRF_K + MaxHits) * (RRF_K + MaxHits) <= 1000 * Weight[s]
ASSUME RowsAssumption ==
    /\ FirstRow \in Rows
    /\ Rows \ {None} \subseteq [verified : BOOLEAN, rating : 0 .. 5, matches : BOOLEAN]

\* Each source ranks memes, best first, none twice.
HitLists == {s \in UNION {[1 .. n -> Memes] : n \in 0 .. MaxHits} : IsInjective(s)}

VARIABLES
    hits,       \* source -> its hits
    source,     \* the source being fused, and
    rank,       \* the rank of the hit that is next
    rrf,        \* meme -> its score so far
    todo,       \* memes to load, in the order they entered rrf
    rows,       \* meme -> its row in the database, or None
    loaded,     \* memes that stay in, in that order
    seen,       \* meme -> the row it was loaded with
    results,    \* None until the search returns
    changes

fusion == <<hits, source, rank, rrf>>
vars == <<fusion, todo, rows, loaded, seen, results, changes>>

\* Mutant: ranks count from the worst hit.
Contribution_Reversed(s, k) == Weight[s] * (Scale \div (RRF_K + MaxHits + 1 - k))

Contribution(s, k) == Weight[s] * (Scale \div (RRF_K + k))

\* VERIFIED_BONUS and RATING_BONUS.
Boost(row) == Scale * ((IF row.verified THEN 5 ELSE 0) + row.rating)

\* round(score, 6): the score in millionths.
Rounded(score) == (1000 * score + Scale \div 2) \div Scale

\* A meme's score with the row it was loaded with.
Score(m) == Rounded(rrf[m] + Boost(seen[m]))

\* results.sort(reverse=True): by score, and equals stay in their order.
Precedes(s, j, k) == Score(s[j]) > Score(s[k]) \/ (Score(s[j]) = Score(s[k]) /\ j < k)

Sorted(s) ==
    {[k \in DOMAIN s |-> s[p[k]]] : p \in
        {q \in Bijection(DOMAIN s, DOMAIN s) :
            \A j, k \in DOMAIN s : j < k => Precedes(s, q[j], q[k])}}

FirstOf(s) == SubSeq(s, 1, IF Len(s) < Limit THEN Len(s) ELSE Limit)

\* Mutant: cut off before sorting.
Answers_CutFirst(candidates) == Sorted(FirstOf(candidates))

Answers(candidates) == {FirstOf(s) : s \in Sorted(candidates)}

Init ==
    /\ hits \in [Sources -> HitLists]
    /\ source = 1 /\ rank = 1
    /\ rrf = [m \in Memes |-> 0] /\ todo = <<>>
    /\ rows = [m \in Memes |-> FirstRow]
    /\ loaded = <<>> /\ seen = [m \in Memes |-> None]
    /\ results = None
    /\ changes = 0

FuseHit ==
    /\ source \in Sources /\ rank \in DOMAIN hits[source]
    /\ LET m == hits[source][rank]
       IN  /\ rrf' = [rrf EXCEPT ![m] = @ + Contribution(source, rank)]
           /\ todo' = IF m \in Range(todo) THEN todo ELSE Append(todo, m)
    /\ rank' = rank + 1
    /\ UNCHANGED <<hits, source, rows, loaded, seen, results, changes>>

NextSource ==
    /\ source \in Sources /\ rank \notin DOMAIN hits[source]
    /\ source' = source + 1 /\ rank' = 1
    /\ UNCHANGED <<hits, rrf, todo, rows, loaded, seen, results, changes>>

Load ==
    /\ source \notin Sources /\ todo # <<>>
    /\ LET m == Head(todo)
       IN  /\ seen' = [seen EXCEPT ![m] = rows[m]]
           /\ loaded' = IF rows[m] # None /\ rows[m].matches THEN Append(loaded, m) ELSE loaded
    /\ todo' = Tail(todo)
    /\ UNCHANGED <<fusion, rows, results, changes>>

Return ==
    /\ source \notin Sources /\ todo = <<>> /\ results = None
    /\ results' \in Answers(loaded)
    /\ UNCHANGED <<fusion, todo, rows, loaded, seen, changes>>

\* Another request edits, verifies, rates or deletes a meme.
Change(m, row) ==
    /\ results = None /\ changes < MaxChanges /\ rows[m] # None
    /\ rows' = [rows EXCEPT ![m] = row]
    /\ changes' = changes + 1
    /\ UNCHANGED <<fusion, todo, loaded, seen, results>>

Next == FuseHit \/ NextSource \/ Load \/ Return \/ \E m \in Memes, row \in Rows : Change(m, row)

Spec == Init /\ [][Next]_vars

-----------------------------------------------------------------------------
\* a has a hit of this source where b has none, or a worse one.
Better(a, b, s) ==
    \E j \in DOMAIN hits[s] :
        hits[s][j] = a /\ \A k \in DOMAIN hits[s] : hits[s][k] = b => j < k

\* a is at least as good as b by every piece of evidence, and better by one.
Dominates(a, b) ==
    /\ \A s \in Sources : b \in Range(hits[s]) => Better(a, b, s)
    /\ \E s \in Sources : Better(a, b, s)
    /\ Boost(seen[a]) >= Boost(seen[b])

Candidates == {m \in Memes : seen[m] # None /\ seen[m].matches}

(* A meme that every source ranks at least as well as another, with no      *)
(* smaller boost, is not placed behind it nor left out in its favour:       *)
(* rounding, the order of insertion and the cut never invert the evidence.  *)
EvidenceDecides ==
    results # None =>
        \A a, b \in Candidates : Dominates(a, b) =>
            \A k \in DOMAIN results : results[k] = b => \E l \in 1 .. k - 1 : results[l] = a

(* The answer is full: a candidate is left out only when Limit others are   *)
(* returned, none of which scores less, and nothing is returned twice.      *)
BestAreReturned ==
    results # None =>
        /\ IsInjective(results) /\ Range(results) \subseteq Candidates
        /\ \A m \in Candidates \ Range(results) :
             Len(results) = Limit /\ \A k \in DOMAIN results : Score(results[k]) >= Score(m)

=============================================================================
