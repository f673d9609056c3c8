------------------------- MODULE FaceClusters_proofs -------------------------
(***************************************************************************)
(* Proofs about FaceClusters, for any memes, faces and people, any number  *)
(* of threads and any bounds.                                              *)
(*                                                                         *)
(* The inductive invariant says of every request that what it carries fits *)
(* the memes it is still to write, by the mistakes made so far, and of     *)
(* every number that it stands for people it is known to have stood for.   *)
(* Mistakes and what numbers have stood for only grow, so that whatever    *)
(* fits goes on fitting.  A step changes one request, so each action is    *)
(* shown to leave that request fitting, and the rest true.                 *)
(***************************************************************************)
EXTENDS FaceClusters, FiniteSetTheorems, SequenceTheorems, TLAPS

-----------------------------------------------------------------------------
(* Sequences of faces *)

LEMMA ListingType ==
  ASSUME NEW S, IsFiniteSet(S)
  PROVE  /\ Cardinality(S) \in Nat /\ Listing(S) \in Seq(S)
         /\ Len(Listing(S)) = Cardinality(S)
<1>1. Cardinality(S) \in Nat /\ \E s : s \in Bijection(1 .. Cardinality(S), S)
  BY FS_CardinalityType DEF ExistsBijection
<1>2. \E s \in [1 .. Cardinality(S) -> S] : \A f \in S : \E k \in DOMAIN s : s[k] = f
  BY <1>1 DEF Bijection, Surjection
<1>3. Listing(S) \in [1 .. Cardinality(S) -> S]  BY <1>2 DEF Listing
<1>. QED  BY <1>1, <1>3

LEMMA FirstOfProperties ==
  ASSUME NEW S, NEW s \in Seq(S), NEW n \in Nat
  PROVE  /\ FirstOf(s, n) \in Seq(S) /\ Len(FirstOf(s, n)) <= n
         /\ \A k \in DOMAIN FirstOf(s, n) : k \in DOMAIN s /\ FirstOf(s, n)[k] = s[k]
<1> DEFINE m == IF Len(s) < n THEN Len(s) ELSE n
<1>1. m \in Nat /\ m <= Len(s) /\ m <= n  BY LenProperties
<1>2. \A i \in 1 .. m : s[i] \in S  BY <1>1, ElementOfSeq
<1>3. /\ SubSeq(s, 1, m) \in Seq(S)
      /\ Len(SubSeq(s, 1, m)) = IF 1 <= m THEN m - 1 + 1 ELSE 0
      /\ \A i \in 1 .. m - 1 + 1 : SubSeq(s, 1, m)[i] = s[1 + i - 1]
  <2> HIDE DEF m
  <2>. QED  BY <1>1, <1>2, SubSeqProperties
<1>4. Len(SubSeq(s, 1, m)) = m  BY <1>1, <1>3
<1>5. DOMAIN SubSeq(s, 1, m) = 1 .. m  BY <1>3, <1>4, LenProperties
<1>6. FirstOf(s, n) = SubSeq(s, 1, m)  BY DEF FirstOf
<1> HIDE DEF m
<1>7. ASSUME NEW k \in 1 .. m PROVE k \in DOMAIN s /\ SubSeq(s, 1, m)[k] = s[k]
  BY <1>1, <1>3, LenProperties
<1>. QED  BY <1>1, <1>3, <1>4, <1>5, <1>6, <1>7

LEMMA ShownProperties ==
  ASSUME TypeOK, NEW c
  PROVE  Shown(c) \in Seq(FacesIn(c))
<1>1. IsFiniteSet(FacesIn(c))
  <2>1. FacesIn(c) \in SUBSET Faces  BY DEF TypeOK, FacesIn
  <2>. QED  BY <2>1, FiniteAssumption, FS_Subset
<1>2. Taught \in Nat  BY NumbersAssumption
<1>. QED  BY <1>1, <1>2, ListingType, FirstOfProperties DEF Shown

-----------------------------------------------------------------------------
(* Requests *)

Serving == \A t \in Processes : Fits(t, req[t])

\* What only grows: mistakes, and whom a number has stood for.
Grows ==
    /\ mixed \subseteq mixed' /\ \A c \in Numbers : shown[c] \subseteq shown'[c]
    /\ MixUpsAreOfNumbers'

LEMMA Steady ==
  ASSUME IInv, shown' = shown, mixed' = mixed
  PROVE  Grows
BY DEF IInv, TagsAreTrue, MixUpsAreOfNumbers, Grows

LEMMA NamesGrow ==
  ASSUME Grows, NEW m
  PROVE  NamesFor(m) \subseteq NamesFor(m)'
BY DEF Grows, NamesFor, StandsFor, PeopleOf

LEMMA LinesGoOn ==
  ASSUME Grows, NEW m, NEW ls \in SUBSET Line, OneTrueLine(m, ls)
  PROVE  OneTrueLine(m, ls)'
<1>1. NamesFor(m) \subseteq NamesFor(m)'  BY NamesGrow
<1>2. \A l \in ls : l.cluster \in Numbers  BY DEF Line
<1>. QED  BY <1>1, <1>2 DEF OneTrueLine, Grows

LEMMA RefsGoOn ==
  ASSUME Grows, NEW known, TrueRefs(known)
  PROVE  TrueRefs(known)'
BY DEF Grows, TrueRefs, StandsFor

\* A request that fits goes on fitting.
LEMMA MostFits ==
  ASSUME NEW t, NEW r \in Request, req'[t] = r, Grows,
         NamesFit(r), TagsFit(r), LinesFit(r), ClusterFits(r)
  PROVE  NamesFit(req[t])' /\ TagsFit(req[t])' /\ LinesFit(req[t])' /\ ClusterFits(req[t])'
<1>1. \A m : NamesFor(m) \subseteq NamesFor(m)'  BY NamesGrow
<1>2. NamesFit(req[t])' /\ TagsFit(req[t])'  BY <1>1 DEF NamesFit, TagsFit
<1>3. ClusterFits(req[t])'  BY DEF ClusterFits, Grows
<1>4. CASE r.op = "describe"
  <2>1. r.cluster \in Numbers /\ shown[r.cluster] \subseteq shown'[r.cluster]
    BY <1>4 DEF ClusterFits, Grows
  <2>2. r.at = "write" => r.seen \in SUBSET Line /\ OneTrueLine(r.meme, r.seen)'
    BY <1>4, LinesGoOn DEF LinesFit
  <2>3. LinesFit(req[t])'  BY <1>4, <2>1, <2>2 DEF LinesFit
  <2>. QED  BY <1>2, <1>3, <2>3
<1>5. CASE r.op # "describe"
  <2>1. LinesFit(req[t])'  BY <1>5 DEF LinesFit
  <2>. QED  BY <1>2, <1>3, <2>1
<1>. QED  BY <1>4, <1>5

LEMMA StillFits ==
  ASSUME NEW t \in Processes, NEW r \in Request, Fits(t, r), req'[t] = r, Grows
  PROVE  Fits(t, req[t])'
<1>1. NamesFit(req[t])' /\ TagsFit(req[t])' /\ LinesFit(req[t])' /\ ClusterFits(req[t])'
  BY MostFits DEF Fits
<1>2. RefsFit(req[t])'  BY RefsGoOn DEF Fits, RefsFit
<1>. QED  BY <1>1, <1>2 DEF Fits

LEMMA RequestsFit ==
  ASSUME IInv, NEW t \in Processes, NEW r \in Request, Fits(t, r) \/ Fits(t, req[t])',
         req' = [req EXCEPT ![t] = r], Grows \/ (shown' = shown /\ mixed' = mixed)
  PROVE  req' \in [Processes -> Request] /\ Serving'
<1>1. req \in [Processes -> Request] /\ Serving /\ Grows  BY Steady DEF IInv, TypeOK, Serving
<1>2. req' \in [Processes -> Request]  BY <1>1
<1>3. \A u \in Processes : u # t => Fits(u, req'[u])  BY <1>1 DEF Serving
<1>4. Fits(t, req'[t]) \/ Fits(t, req[t])'  BY <1>1
<1>. QED  BY <1>1, <1>2, <1>3, <1>4, StillFits DEF Serving

LEMMA SameRequests ==
  ASSUME IInv, UNCHANGED req, Grows \/ (shown' = shown /\ mixed' = mixed)
  PROVE  req' \in [Processes -> Request] /\ Serving'
<1>1. req \in [Processes -> Request] /\ Serving /\ Grows  BY Steady DEF IInv, TypeOK, Serving
<1>2. \A u \in Processes : Fits(u, req'[u])  BY <1>1 DEF Serving
<1>. QED  BY <1>1, <1>2, StillFits DEF Serving

\* Whoever has still to enqueue a RE_EMBED goes on having to.
LEMMA ReembedKept ==
  ASSUME IInv, NEW t \in Processes, NEW r \in Request, req' = [req EXCEPT ![t] = r],
         req[t].at # "enqueue", UNCHANGED <<stale, cut>>
  PROVE  ReembedFollows'
<1>1. ReembedFollows /\ DOMAIN req = Processes  BY DEF IInv, TypeOK
<1> SUFFICES ASSUME NEW m \in stale, m \notin cut
               PROVE  \E u \in Threads : req'[u].at = "enqueue" /\ req'[u].meme = m
  BY DEF ReembedFollows
<1>3. PICK u \in Threads : req[u].at = "enqueue" /\ req[u].meme = m  BY <1>1 DEF ReembedFollows
<1>4. u \in Processes /\ req'[u] = req[u]  BY <1>1, <1>3 DEF Processes
<1>. QED  BY <1>3, <1>4

LEMMA Frame ==
  ASSUME IInv, Grows \/ (shown' = shown /\ mixed' = mixed)
  PROVE  /\ UNCHANGED <<rows, cluster, record>> => NumbersFit'
         /\ UNCHANGED actors => TagsAreTrue'
         /\ UNCHANGED lines => OneTrueLineEach'
         /\ UNCHANGED refs => RefsAreTrue'
<1>1. Grows  BY Steady
<1>2. UNCHANGED <<rows, cluster, record>> => NumbersFit'
  BY <1>1 DEF IInv, TypeOK, NumbersFit, Grows
<1>3. UNCHANGED actors => TagsAreTrue'
  BY <1>1, NamesGrow DEF IInv, TagsAreTrue, Grows
<1>4. UNCHANGED lines => OneTrueLineEach'
  <2> SUFFICES ASSUME UNCHANGED lines, NEW m \in Memes PROVE OneTrueLine(m, lines[m])'
    BY DEF OneTrueLineEach
  <2>1. lines[m] \in SUBSET Line /\ OneTrueLine(m, lines[m])  BY DEF IInv, TypeOK, OneTrueLineEach
  <2>. QED  BY <1>1, <2>1, LinesGoOn
<1>5. UNCHANGED refs => RefsAreTrue'  BY <1>1, RefsGoOn DEF IInv, RefsAreTrue
<1>. QED  BY <1>2, <1>3, <1>4, <1>5

\* A step that writes nothing but where its request is.
LEMMA RequestStep ==
  ASSUME IInv, NEW t \in Processes, NEW r \in Request, Fits(t, r) \/ Fits(t, req[t])',
         req' = [req EXCEPT ![t] = r], req[t].at # "enqueue", UNCHANGED <<table, search, refs>>,
         UNCHANGED mixed \/ (mixed' \subseteq People \X People /\ Grows)
  PROVE  IInv'
<1>1. UNCHANGED <<memes, rows, reading, grouped, cluster, shown, label, record, actors, lines,
                  stale, cut, refs>>
  BY DEF table, clustering, search
<1>2. req' \in [Processes -> Request] /\ Serving'  BY <1>1, RequestsFit
<1>3. TypeOK'  BY <1>1, <1>2 DEF IInv, TypeOK
<1>4. ReembedFollows'  BY <1>1, ReembedKept
<1>. QED  BY <1>1, <1>2, <1>3, <1>4, Frame DEF IInv, Serving

\* The people in a meme go by their names; a step that makes no mistake and
\* renumbers nothing leaves every name standing for the same people.
LEMMA SameNames ==
  ASSUME IInv, shown' = shown, mixed' = mixed
  PROVE  /\ MixUpsAreOfNumbers' /\ \A m : NamesFor(m)' = NamesFor(m)
         /\ \A m : PeopleOf(m) \subseteq NamesFor(m) /\ NamesFor(m) \subseteq People
         /\ \A m, ls : OneTrueLine(m, ls) => OneTrueLine(m, ls)'
<1>1. MixUpsAreOfNumbers'  BY DEF IInv, TagsAreTrue, MixUpsAreOfNumbers
<1>2. \A m : NamesFor(m)' = NamesFor(m)  BY DEF NamesFor, StandsFor, PeopleOf
<1>3. \A m : PeopleOf(m) \subseteq People  BY FacesAssumption DEF PeopleOf
<1>4. \A m : PeopleOf(m) \subseteq NamesFor(m) /\ NamesFor(m) \subseteq People
  BY <1>3 DEF NamesFor, StandsFor
<1>5. \A m, ls : OneTrueLine(m, ls) => OneTrueLine(m, ls)'  BY <1>2 DEF OneTrueLine
<1>. QED  BY <1>1, <1>2, <1>4, <1>5

LEMMA IdleFits ==
  ASSUME NEW t \in Processes
  PROVE  Idle \in Request /\ Fits(t, Idle)
<1>1. NoRefs \in References  BY DEF NoRefs, References
<1>2. Idle \in Request  BY <1>1 DEF Idle, Request
<1>3. Idle.op = "none" /\ Idle.at = "idle"  BY DEF Idle
<1>4. NamesFit(Idle) /\ TagsFit(Idle) /\ LinesFit(Idle) /\ ClusterFits(Idle) /\ RefsFit(Idle)
  BY <1>3 DEF NamesFit, TagsFit, LinesFit, ClusterFits, RefsFit
<1>. QED  BY <1>2, <1>3, <1>4 DEF Fits, OpsOf, PlacesOf


\* What is known of the request a step is taken of.
LEMMA RequestIs ==
  ASSUME IInv, NEW t \in Processes
  PROVE  req \in [Processes -> Request] /\ req[t] \in Request /\ Fits(t, req[t])
BY DEF IInv, TypeOK

\* A mistake is made with a number that has stood for both.
LEMMA MixUpsFit ==
  ASSUME IInv, NEW c \in Numbers, NEW p \in shown[c], mixed' = mixed \cup MixUps(p, c),
         UNCHANGED shown
  PROVE  mixed' \subseteq People \X People /\ Grows
<1>1. \A f \in FacesIn(c) : PersonOf[f] \in People /\ PersonOf[f] \in shown[c]
  BY FacesAssumption, DistinctAssumption DEF IInv, TypeOK, FacesIn, NumbersFit
<1>2. p \in People  BY DEF IInv, TypeOK
<1>3. \A x \in MixUps(p, c) : /\ x \in People \X People /\ x[1] # x[2]
                              /\ x[1] \in shown[c] /\ x[2] \in shown[c]
  BY <1>1, <1>2 DEF MixUps
<1>4. MixUpsAreOfNumbers'  BY <1>3 DEF IInv, TagsAreTrue, MixUpsAreOfNumbers
<1>. QED  BY <1>3, <1>4 DEF IInv, TypeOK, Grows

\* The name then stands for everybody the number stands for.
LEMMA MixUpsName ==
  ASSUME TypeOK, NEW c \in Numbers, NEW p \in People, mixed' = mixed \cup MixUps(p, c)
  PROVE  /\ \A f \in FacesIn(c) : f \in Faces /\ StandsFor(p, PersonOf[f])'
         /\ \A m \in Members(c) : {p} \subseteq NamesFor(m)'
<1>1. \A f \in FacesIn(c) : f \in Faces /\ StandsFor(p, PersonOf[f])'
  BY DEF TypeOK, FacesIn, StandsFor, MixUps
<1>2. \A m \in Members(c) : \E f \in FacesIn(c) : f \in Faces /\ MemeOf[f] = m
  BY <1>1 DEF Members
<1>. QED  BY <1>1, <1>2 DEF NamesFor, PeopleOf

LEMMA ClusterRequestStep ==
  ASSUME IInv, NEW t \in Threads, NEW c \in Numbers, NEW op \in {"label", "describe", "delete"},
         ClusterRequest(t, op, c)
  PROVE  IInv'
<1>1. t \in Processes /\ t # Worker /\ t # Builder
  BY ProcessesAssumption DEF Processes
<1>2. /\ req[t] = Idle /\ UNCHANGED <<table, search, refs>>
      /\ UNCHANGED <<shown, cluster, rows>>
  BY DEF ClusterRequest, Begin, table, clustering
<1>3. req[t].at # "enqueue"  BY <1>2 DEF Idle
<1>4. Members(c) \in SUBSET Memes
  BY FacesAssumption DEF IInv, TypeOK, Members, FacesIn
<1>5. CASE op = "delete"
  <2> DEFINE r == [Idle EXCEPT !.op = op, !.at = "memes", !.cluster = c, !.todo = Members(c)]
  <2>1. req' = [req EXCEPT ![t] = r] /\ UNCHANGED mixed  BY <1>5 DEF ClusterRequest, Begin
  <2>2. r \in Request /\ r.op = "delete" /\ r.at = "memes"
    BY <1>1, <1>4, <1>5, IdleFits DEF Request
  <2> HIDE DEF r
  <2>3. Fits(t, r)
    BY <1>1, <2>2 DEF Fits, OpsOf, PlacesOf, NamesFit, TagsFit, LinesFit, ClusterFits, RefsFit
  <2>. QED  BY <1>1, <1>2, <1>3, <2>1, <2>2, <2>3, RequestStep
<1>6. CASE op # "delete"
  <2>1. PICK p \in shown[c] :
          /\ req' = [req EXCEPT ![t] = [Idle EXCEPT !.op = op, !.at = "record", !.cluster = c,
                                                   !.names = {p}, !.todo = Members(c)]]
          /\ mixed' = mixed \cup MixUps(p, c)
    BY <1>6 DEF ClusterRequest, Begin
  <2> DEFINE r == [Idle EXCEPT !.op = op, !.at = "record", !.cluster = c,
                               !.names = {p}, !.todo = Members(c)]
  <2>2. p \in People  BY <2>1 DEF IInv, TypeOK
  <2>3. r \in Request  BY <1>1, <1>4, <2>2, IdleFits DEF Request
  <2>4. r.op = op /\ r.at = "record" /\ r.cluster = c /\ r.names = {p} /\ r.todo = Members(c)
    BY DEF Idle
  <2> HIDE DEF r
  <2>5. mixed' \subseteq People \X People /\ Grows  BY <1>2, <2>1, MixUpsFit
  <2>6. Fits(t, req[t])'
    <3>1. req'[t] = r  BY <1>1, <2>1 DEF IInv, TypeOK, r
    <3>2. \A m \in Members(c) : {p} \subseteq NamesFor(m)'  BY <2>1, <2>2, MixUpsName DEF IInv
    <3>3. NamesFit(req[t])'  BY <1>6, <2>4, <3>1, <3>2 DEF NamesFit
    <3>4. ClusterFits(req[t])'  BY <1>2, <2>1, <2>4, <3>1 DEF ClusterFits
    <3>5. TagsFit(req[t])' /\ LinesFit(req[t])' /\ RefsFit(req[t])'
      BY <2>4, <3>1 DEF TagsFit, LinesFit, RefsFit
    <3>. QED  BY <1>1, <1>6, <2>4, <3>1, <3>3, <3>4, <3>5 DEF Fits, OpsOf, PlacesOf
  <2>. QED  BY <1>1, <1>2, <1>3, <2>1, <2>3, <2>5, <2>6, RequestStep DEF r
<1>. QED  BY <1>5, <1>6

\* A name the references give to a face in a meme is that of somebody in it.
LEMMA MatchesAreTrue ==
  ASSUME RefsAreTrue, Loadable, NEW m, NEW names \in Matches(m)
  PROVE  names \subseteq NamesFor(m) \cap People
<1> SUFFICES ASSUME NEW p \in names PROVE p \in NamesFor(m) \cap People  OBVIOUS
<1>1. p \in People /\ refs[p] # None /\ \E k \in DOMAIN refs[p] : ShownBy(refs[p][k]) \in PeopleOf(m)
  BY DEF Matches
<1>. QED  BY <1>1 DEF RefsAreTrue, TrueRefs, Loadable, NamesFor

LEMMA RecognizeStep ==
  ASSUME IInv, NEW t \in Threads \cup {Worker}, NEW m \in Memes, Recognize(t, m)
  PROVE  IInv'
<1>1. t \in Processes /\ (t # Worker => t \in Threads) /\ t # Builder
  BY ProcessesAssumption DEF Processes
<1>2. PICK names \in Matches(m) :
        Begin(t, [Idle EXCEPT !.op = IF t = Worker THEN "face" ELSE "auto_tag", !.at = "memes",
                              !.names = names, !.todo = {m}])
  BY DEF Recognize
<1> DEFINE op == IF t = Worker THEN "face" ELSE "auto_tag"
           r == [Idle EXCEPT !.op = op, !.at = "memes", !.names = names, !.todo = {m}]
<1>3. req[t] = Idle /\ req' = [req EXCEPT ![t] = r]  BY <1>2 DEF Begin
<1>4. names \subseteq NamesFor(m) \cap People  BY MatchesAreTrue DEF IInv, Recognize
<1>5. r \in Request /\ r.op = op /\ r.at = "memes" /\ r.names = names /\ r.todo = {m}
  BY <1>1, <1>4, IdleFits DEF Request
<1> HIDE DEF r
<1>6. Fits(t, r)
  <2>1. NamesFit(r) /\ TagsFit(r) /\ LinesFit(r) /\ ClusterFits(r) /\ RefsFit(r)
    BY <1>4, <1>5 DEF NamesFit, TagsFit, LinesFit, ClusterFits, RefsFit
  <2>. QED  BY <1>1, <1>5, <2>1 DEF Fits, OpsOf, PlacesOf
<1>7. req[t].at # "enqueue"  BY <1>3 DEF Idle
<1>. QED  BY <1>1, <1>3, <1>5, <1>6, <1>7, RequestStep DEF Recognize

LEMMA ComposeLineStep ==
  ASSUME IInv, NEW t \in Processes, ComposeLine(t)
  PROVE  IInv'
<1>1. PICK p \in req[t].names :
        req' = [req EXCEPT ![t] = [req[t] EXCEPT !.at = "memes",
          !.line = [cluster |-> req[t].cluster, name |-> LabelOf(req[t].cluster), about |-> p]]]
  BY DEF ComposeLine, Continue
<1>2. req[t] \in Request /\ Fits(t, req[t]) /\ req[t].at = "line"  BY RequestIs DEF ComposeLine
<1>3. req[t].op = "describe" /\ req[t].cluster \in Numbers
  BY <1>2 DEF Fits, OpsOf, PlacesOf, ClusterFits
<1>4. LabelOf(req[t].cluster) \in People \cup {None}
  BY <1>3 DEF IInv, TypeOK, LabelOf
<1> DEFINE l == [cluster |-> req[t].cluster, name |-> LabelOf(req[t].cluster), about |-> p]
           r == [req[t] EXCEPT !.at = "memes", !.line = l]
<1>5. p \in People /\ l \in Line
  BY <1>2, <1>3, <1>4 DEF Request, Line
<1>6. l \in [cluster : {req[t].cluster}, name : {None} \cup shown[req[t].cluster], about : req[t].names]
  BY <1>3 DEF IInv, NumbersFit, LabelOf
<1> HIDE DEF l
<1>7. /\ r \in Request /\ r.op = "describe" /\ r.at = "memes" /\ r.line = l
      /\ r.names = req[t].names /\ r.todo = req[t].todo /\ r.cluster = req[t].cluster
  BY <1>2, <1>3, <1>5 DEF Request
<1> HIDE DEF r
<1>8. Fits(t, r)
  <2>1. NamesFit(r) /\ TagsFit(r) /\ LinesFit(r) /\ ClusterFits(r) /\ RefsFit(r)
    BY <1>2, <1>3, <1>6, <1>7 DEF Fits, NamesFit, TagsFit, LinesFit, ClusterFits, RefsFit
  <2>. QED  BY <1>2, <1>3, <1>7, <2>1 DEF Fits, PlacesOf
<1>. QED  BY <1>1, <1>2, <1>7, <1>8, RequestStep DEF ComposeLine, l, r

LEMMA ReadMemeStep ==
  ASSUME IInv, NEW t \in Processes, NEW m \in Memes, ReadMeme(t, m)
  PROVE  IInv'
<1>1. req[t] \in Request /\ Fits(t, req[t]) /\ req[t].at = "memes" /\ req[t].op # "delete"
      /\ m \in req[t].todo
  BY RequestIs DEF ReadMeme
<1> DEFINE s == [req[t] EXCEPT !.todo = @ \ {m}]
           seen == IF s.op = "describe" THEN lines[m] ELSE actors[m]
           w == [s EXCEPT !.at = "write", !.meme = m, !.seen = seen]
<1>2. /\ s \in Request /\ s.op = req[t].op /\ s.at = "memes" /\ s.names = req[t].names
      /\ s.todo = req[t].todo \ {m} /\ s.cluster = req[t].cluster /\ s.line = req[t].line
  BY <1>1 DEF Request
<1>3. req' = [req EXCEPT ![t] = s] \/ req' = [req EXCEPT ![t] = w]
  BY DEF ReadMeme, Continue
<1>4. seen \in SUBSET (People \cup Line)
  BY DEF IInv, TypeOK
<1>5. /\ s.op # "describe" => seen \subseteq NamesFor(m)
      /\ s.op = "describe" => seen \subseteq Line /\ OneTrueLine(m, seen)
  BY DEF IInv, TypeOK, TagsAreTrue, OneTrueLineEach, OneTrueLine
<1> HIDE DEF s, seen
<1>6. /\ w \in Request /\ w.op = s.op /\ w.at = "write" /\ w.names = s.names
      /\ w.todo = s.todo /\ w.cluster = s.cluster /\ w.line = s.line
      /\ w.meme = m /\ w.seen = seen
  BY <1>2, <1>4 DEF Request
<1> HIDE DEF w
<1>7. s.op \in {"label", "describe", "face", "auto_tag", "edit"}
  BY <1>1, <1>2 DEF Fits, OpsOf, PlacesOf
<1>a. s.op # "edit"  BY <1>1, <1>2 DEF Fits, NamesFit
<1>8. Fits(t, s)
  <2>1. NamesFit(s) /\ TagsFit(s) /\ LinesFit(s) /\ ClusterFits(s) /\ RefsFit(s)
    BY <1>1, <1>2 DEF Fits, NamesFit, TagsFit, LinesFit, ClusterFits, RefsFit
  <2>. QED  BY <1>1, <1>2, <2>1 DEF Fits
<1>9. Fits(t, w)
  <2>1. NamesFit(w)  BY <1>1, <1>2, <1>6, <1>7, <1>a DEF Fits, NamesFit
  <2>2. TagsFit(w) /\ LinesFit(w)
    BY <1>1, <1>2, <1>5, <1>6 DEF Fits, TagsFit, LinesFit
  <2>3. ClusterFits(w) /\ RefsFit(w)  BY <1>1, <1>2, <1>6 DEF Fits, ClusterFits, RefsFit
  <2>4. w.op \in OpsOf(t) /\ w.at \in PlacesOf(w.op)
    BY <1>1, <1>2, <1>6, <1>7, <1>a DEF Fits, PlacesOf
  <2>. QED  BY <2>1, <2>2, <2>3, <2>4 DEF Fits
<1>. QED  BY <1>1, <1>2, <1>3, <1>6, <1>8, <1>9, RequestStep DEF ReadMeme

-----------------------------------------------------------------------------
(* Tags, lines and tables *)

LEMMA ScanFaceStep ==
  ASSUME IInv, NEW f \in Faces, ScanFace(f)
  PROVE  IInv'
<1>1. /\ reading = None /\ f \notin rows /\ MemeOf[f] \in memes /\ rows' = rows \cup {f}
      /\ UNCHANGED <<memes, reading, grouped, cluster, shown, mixed, label, record, actors, lines,
                     stale, cut, refs, req>>
  BY DEF ScanFace, search, clustering
<1>2. req' \in [Processes -> Request] /\ Serving'  BY <1>1, SameRequests
<1>3. TypeOK'  BY <1>1, <1>2 DEF IInv, TypeOK
<1>4. NumbersFit'  BY <1>1 DEF IInv, NumbersFit
<1>5. ReembedFollows'  BY <1>1 DEF IInv, ReembedFollows
<1>. QED  BY <1>1, <1>2, <1>3, <1>4, <1>5, Frame DEF IInv, Serving

LEMMA ReadFacesStep ==
  ASSUME IInv, ReadFaces \/ ClusteringKilled
  PROVE  IInv'
<1>1. /\ reading' \in {None, rows}
      /\ UNCHANGED <<memes, rows, grouped, cluster, shown, mixed, label, record, actors, lines,
                     stale, cut, refs, req>>
  BY DEF ReadFaces, ClusteringKilled, search
<1>2. req' \in [Processes -> Request] /\ Serving'  BY <1>1, SameRequests
<1>3. TypeOK'  BY <1>1, <1>2 DEF IInv, TypeOK
<1>4. ReembedFollows'  BY <1>1 DEF IInv, ReembedFollows
<1>. QED  BY <1>1, <1>2, <1>3, <1>4, Frame DEF IInv, Serving

\* The requests under way keep their numbers, which now may stand for others.
LEMMA WriteClustersStep ==
  ASSUME IInv, WriteClusters
  PROVE  IInv'
<1>1. /\ UNCHANGED <<memes, rows, mixed, label, record, actors, lines, stale, cut, refs, req>>
      /\ reading # None /\ reading' = None /\ grouped' = reading
      /\ shown' = [c \in Numbers |->
                      shown[c] \cup {PersonOf[f] : f \in {g \in Faces : cluster'[g] = c}}]
  BY DEF WriteClusters, search
<1> DEFINE found == {PersonOf[f] : f \in reading}
           Group(p) == {f \in reading : PersonOf[f] = p}
<1>2. PICK rank \in [found -> 1 .. Cardinality(found)] :
        cluster' = [f \in Faces |->
               IF f \in rows /\ Cardinality(Group(PersonOf[f])) > 1
               THEN rank[PersonOf[f]] ELSE None]
  BY DEF WriteClusters
<1>3. rows \subseteq reading /\ reading \subseteq Faces /\ found \in SUBSET People
  BY <1>1, FacesAssumption DEF IInv, TypeOK
<1>4. \A f \in rows : rank[PersonOf[f]] \in Numbers
  <2>1. /\ IsFiniteSet(found) /\ Cardinality(found) <= Cardinality(People)
        /\ Cardinality(found) \in Nat /\ Cardinality(People) \in Nat
    BY <1>3, FiniteAssumption, FS_Subset, FS_CardinalityType
  <2>2. \A f \in rows : PersonOf[f] \in found  BY <1>3
  <2> HIDE DEF found
  <2>3. \A p \in found : rank[p] \in 1 .. Cardinality(found)  BY <1>2
  <2>. QED  BY <2>1, <2>2, <2>3 DEF Numbers
<1>5. /\ cluster' \in [Faces -> Numbers \cup {None}]
      /\ \A f \in Faces : cluster'[f] # None => f \in rows
  BY <1>2, <1>4
<1>6. /\ shown' \in [Numbers -> SUBSET People]
      /\ \A c \in Numbers : shown[c] \subseteq shown'[c]
      /\ \A f \in Faces : cluster'[f] # None => PersonOf[f] \in shown'[cluster'[f]]
  <2>1. \A f \in Faces : PersonOf[f] \in People  BY FacesAssumption
  <2>2. shown \in [Numbers -> SUBSET People]  BY DEF IInv, TypeOK
  <2>. QED  BY <1>1, <1>5, <2>1, <2>2
<1>7. Grows  BY <1>1, <1>6 DEF IInv, TagsAreTrue, MixUpsAreOfNumbers, Grows
<1>8. req' \in [Processes -> Request] /\ Serving'  BY <1>1, <1>7, SameRequests
<1>9. TypeOK'  BY <1>1, <1>3, <1>5, <1>6, <1>8 DEF IInv, TypeOK
<1>10. NumbersFit'  BY <1>1, <1>5, <1>6 DEF IInv, NumbersFit
<1>11. ReembedFollows'  BY <1>1 DEF IInv, ReembedFollows
<1>. QED  BY <1>1, <1>7, <1>8, <1>9, <1>10, <1>11, Frame DEF IInv, Serving

LEMMA FewerLines ==
  ASSUME IInv, shown' = shown, mixed' = mixed, \A n \in Memes : lines'[n] \subseteq lines[n]
  PROVE  OneTrueLineEach'
<1>1. \A n \in Memes : OneTrueLine(n, lines[n])  BY DEF IInv, OneTrueLineEach
<1>2. \A n \in Memes : OneTrueLine(n, lines'[n])  BY <1>1 DEF OneTrueLine
<1>. QED  BY <1>2, SameNames DEF OneTrueLineEach

LEMMA EditStep ==
  ASSUME IInv, NEW t \in Threads, NEW m \in Memes, Edit(t, m)
  PROVE  IInv'
<1>1. t \in Processes /\ t # Worker /\ t # Builder  BY ProcessesAssumption DEF Processes
<1> DEFINE r == [Idle EXCEPT !.op = "edit", !.at = "enqueue", !.meme = m]
<1>2. /\ m \in memes /\ req[t] = Idle /\ req' = [req EXCEPT ![t] = r]
      /\ stale' = stale \cup {m}
      /\ UNCHANGED <<memes, rows, reading, grouped, cluster, shown, mixed, label, record, refs, cut>>
  BY DEF Edit, Begin, table, clustering
<1>3. /\ r \in Request /\ r.op = "edit" /\ r.at = "enqueue" /\ r.meme = m /\ r.todo = {}
  BY <1>1, IdleFits DEF Request, Idle
<1> HIDE DEF r
<1>4. Fits(t, r)
  BY <1>1, <1>3 DEF Fits, OpsOf, PlacesOf, NamesFit, TagsFit, LinesFit, ClusterFits, RefsFit
<1>5. req' \in [Processes -> Request] /\ Serving'
  BY <1>1, <1>2, <1>3, <1>4, RequestsFit
<1>6. PICK names \in SUBSET PeopleOf(m) : actors' = [actors EXCEPT ![m] = names]  BY DEF Edit
<1>7. PICK kept \in SUBSET lines[m] : lines' = [lines EXCEPT ![m] = kept]  BY DEF Edit
<1>8. PeopleOf(m) \subseteq People  BY FacesAssumption DEF PeopleOf
<1>9. TypeOK'  BY <1>2, <1>5, <1>6, <1>7, <1>8 DEF IInv, TypeOK
<1>10. TagsAreTrue'  BY <1>2, <1>6, SameNames DEF IInv, TypeOK, TagsAreTrue
<1>11. OneTrueLineEach'
  <2>1. \A n \in Memes : lines'[n] \subseteq lines[n]  BY <1>7 DEF IInv, TypeOK
  <2>. QED  BY <1>2, <2>1, FewerLines
<1>12. ReembedFollows'
  <2> SUFFICES ASSUME NEW n \in stale', n \notin cut'
               PROVE  \E u \in Threads : req'[u].at = "enqueue" /\ req'[u].meme = n
    BY DEF ReembedFollows
  <2>0. DOMAIN req = Processes /\ t \in Threads /\ \A u \in Threads : u \in Processes
    BY <1>1 DEF IInv, TypeOK, Processes
  <2>1. CASE n = m  BY <1>2, <1>3, <2>0, <2>1
  <2>2. CASE n \in stale
    <3>1. PICK u \in Threads : req[u].at = "enqueue" /\ req[u].meme = n
      BY <1>2, <2>2 DEF IInv, ReembedFollows
    <3>2. u # t  BY <1>2, <3>1 DEF Idle
    <3>. QED  BY <1>2, <2>0, <3>1, <3>2
  <2>. QED  BY <1>2, <2>1, <2>2
<1>. QED  BY <1>2, <1>5, <1>9, <1>10, <1>11, <1>12, Frame DEF IInv, Serving

\* A request that goes on to another place carries what it carried.
LEMMA GotoRequest ==
  ASSUME IInv, NEW t \in Processes, NEW at \in PlacesOf(req[t].op) \ {"write", "look"}, at # "idle",
         req[t].op = "describe" /\ at \in {"memes", "enqueue"} => req[t].at \in {"write", "memes", "enqueue"},
         at \in {"open", "save"} => req[t].at \in {"look", "open", "save"},
         Goto(t, at)
  PROVE  \E r \in Request : Fits(t, r) /\ r.at = at /\ r = [req[t] EXCEPT !.at = at]
                            /\ req' = [req EXCEPT ![t] = r]
<1> DEFINE r == [req[t] EXCEPT !.at = at]
<1>1. req[t] \in Request /\ Fits(t, req[t])  BY RequestIs
<1>2. at \in {"record", "line", "memes", "enqueue", "refs", "open", "save"}
  BY <1>1 DEF Fits, OpsOf, PlacesOf
<1>3. req' = [req EXCEPT ![t] = r]  BY DEF Goto, Continue
<1>4. /\ r \in Request /\ r.at = at /\ r.op = req[t].op /\ r.names = req[t].names
      /\ r.todo = req[t].todo /\ r.cluster = req[t].cluster /\ r.line = req[t].line
      /\ r.known = req[t].known
  BY <1>1, <1>2 DEF Request
<1>6. r = [req[t] EXCEPT !.at = at]  OBVIOUS
<1> HIDE DEF r
<1>5. Fits(t, r)
  <2>1. NamesFit(r) /\ TagsFit(r)  BY <1>1, <1>2, <1>4 DEF Fits, NamesFit, TagsFit
  <2>2. LinesFit(r) /\ RefsFit(r)  BY <1>1, <1>2, <1>4 DEF Fits, LinesFit, RefsFit
  <2>3. ClusterFits(r)  BY <1>1, <1>4 DEF Fits, ClusterFits
  <2>. QED  BY <1>1, <1>4, <2>1, <2>2, <2>3 DEF Fits
<1>. QED  BY <1>3, <1>4, <1>5, <1>6

LEMMA NameClusterStep ==
  ASSUME IInv, NEW t \in Processes, NameCluster(t)
  PROVE  IInv'
<1>1. req[t] \in Request /\ Fits(t, req[t]) /\ req[t].op = "label" /\ req[t].at = "record"
  BY RequestIs DEF NameCluster
<1> DEFINE c == req[t].cluster
<1>2. PICK p \in req[t].names :
        /\ label' = [f \in Faces |-> IF f \in FacesIn(c) THEN p ELSE label[f]]
        /\ record' = [record EXCEPT ![c] = [label |-> p, about |-> AboutOf(c)]]
  BY DEF NameCluster
<1>3. /\ UNCHANGED <<memes, rows, reading, grouped, cluster, shown, mixed, actors, lines, stale, cut, refs>>
      /\ Goto(t, "memes")
  BY DEF NameCluster, search, clustering
<1>4. PICK r \in Request : Fits(t, r) /\ req' = [req EXCEPT ![t] = r]
  BY <1>1, <1>3, GotoRequest DEF PlacesOf
<1>5. req' \in [Processes -> Request] /\ Serving'  BY <1>3, <1>4, Frame, RequestsFit
<1>6. p \in People /\ c \in Numbers /\ p \in shown[c]  BY <1>1, <1>2 DEF Request, Fits, ClusterFits
<1>7. AboutOf(c) \in People \cup {None}  /\ AboutOf(c) \in {None} \cup shown[c]
  BY <1>6 DEF IInv, TypeOK, NumbersFit, AboutOf
<1>8. TypeOK'  BY <1>2, <1>3, <1>5, <1>6, <1>7 DEF IInv, TypeOK
<1>9. ReembedFollows'  BY <1>1, <1>3, <1>4, ReembedKept
<1>10. NumbersFit'  BY <1>2, <1>3, <1>6, <1>7 DEF IInv, TypeOK, NumbersFit
<1>. QED  BY <1>3, <1>5, <1>8, <1>9, <1>10, Frame DEF IInv, Serving

LEMMA DescribeClusterStep ==
  ASSUME IInv, NEW t \in Processes, DescribeCluster(t)
  PROVE  IInv'
<1>1. req[t] \in Request /\ Fits(t, req[t]) /\ req[t].op = "describe" /\ req[t].at = "record"
  BY RequestIs DEF DescribeCluster
<1> DEFINE c == req[t].cluster
<1>2. PICK p \in req[t].names :
        record' = [record EXCEPT ![c] = [label |-> LabelOf(c), about |-> p]]
  BY DEF DescribeCluster
<1>3. /\ UNCHANGED <<memes, rows, reading, grouped, cluster, shown, mixed, label, actors, lines, stale, cut, refs>>
      /\ Goto(t, "line")
  BY DEF DescribeCluster, search, clustering
<1>4. PICK r \in Request : Fits(t, r) /\ req' = [req EXCEPT ![t] = r]
  BY <1>1, <1>3, GotoRequest DEF PlacesOf
<1>5. req' \in [Processes -> Request] /\ Serving'  BY <1>3, <1>4, Frame, RequestsFit
<1>6. p \in People /\ c \in Numbers /\ p \in shown[c]  BY <1>1, <1>2 DEF Request, Fits, ClusterFits
<1>7. LabelOf(c) \in People \cup {None}  /\ LabelOf(c) \in {None} \cup shown[c]
  BY <1>6 DEF IInv, TypeOK, NumbersFit, LabelOf
<1>8. TypeOK'  BY <1>2, <1>3, <1>5, <1>6, <1>7 DEF IInv, TypeOK
<1>9. ReembedFollows'  BY <1>1, <1>3, <1>4, ReembedKept
<1>10. NumbersFit'  BY <1>2, <1>3, <1>6, <1>7 DEF IInv, TypeOK, NumbersFit
<1>. QED  BY <1>3, <1>5, <1>8, <1>9, <1>10, Frame DEF IInv, Serving

\* The RE_EMBED of a meme that has been changed is for its request to enqueue.
LEMMA ReembedOwed ==
  ASSUME IInv, NEW t \in Threads, NEW r \in Request, req' = [req EXCEPT ![t] = r],
         req[t].at # "enqueue", r.at = "enqueue", UNCHANGED cut,
         stale' \subseteq stale \cup {r.meme}
  PROVE  ReembedFollows'
<1>1. DOMAIN req = Processes /\ t \in Processes /\ \A u \in Threads : u \in Processes
  BY DEF IInv, TypeOK, Processes
<1> SUFFICES ASSUME NEW n \in stale', n \notin cut'
             PROVE  \E u \in Threads : req'[u].at = "enqueue" /\ req'[u].meme = n
  BY DEF ReembedFollows
<1>2. CASE n = r.meme  BY <1>1, <1>2
<1>3. CASE n \in stale
  <2>1. PICK u \in Threads : req[u].at = "enqueue" /\ req[u].meme = n
    BY <1>3 DEF IInv, ReembedFollows
  <2>2. u # t  BY <2>1
  <2>. QED  BY <1>1, <2>1, <2>2
<1>. QED  BY <1>2, <1>3

LEMMA WriteTagsStep ==
  ASSUME IInv, NEW t \in Processes, WriteTags(t)
  PROVE  IInv'
<1> DEFINE q == req[t]
<1>1. req[t] \in Request /\ Fits(t, q) /\ q.at = "write" /\ q.op # "describe"
  BY RequestIs DEF WriteTags
<1>2. q.op \in {"label", "face", "auto_tag"}
  BY <1>1 DEF Fits, OpsOf, PlacesOf
<1>3. q.meme \in Memes /\ q.names \subseteq NamesFor(q.meme) /\ q.seen \subseteq NamesFor(q.meme)
  BY <1>1, <1>2 DEF Fits, NamesFit, TagsFit
<1>4. NamesFor(q.meme) \subseteq People  BY DEF NamesFor
<1>5. /\ actors' = [m \in Memes |-> IF m = q.meme /\ m \in memes THEN q.seen \cup q.names ELSE actors[m]]
      /\ stale' = IF q.op = "face" THEN stale ELSE stale \cup ({q.meme} \cap memes)
      /\ Goto(t, IF q.op = "face" THEN "idle" ELSE "enqueue")
      /\ UNCHANGED <<memes, rows, reading, grouped, cluster, shown, mixed, label, record, lines, cut, refs>>
  BY DEF WriteTags, table, clustering
<1>6. PICK r \in Request : /\ Fits(t, r) /\ req' = [req EXCEPT ![t] = r]
                           /\ q.op # "face" => r.at = "enqueue" /\ r.meme = q.meme
  <2>1. CASE q.op = "face"  BY <1>5, <2>1, IdleFits DEF Goto, Continue
  <2>2. CASE q.op # "face"
    <3>1. Goto(t, "enqueue") /\ "enqueue" \in PlacesOf(q.op)  BY <1>2, <1>5, <2>2 DEF PlacesOf
    <3>2. PICK r \in Request : Fits(t, r) /\ r.at = "enqueue" /\ r = [req[t] EXCEPT !.at = "enqueue"]
                               /\ req' = [req EXCEPT ![t] = r]
      BY <1>1, <3>1, GotoRequest
    <3>. QED  BY <1>1, <3>2 DEF Request
  <2>. QED  BY <2>1, <2>2
<1>7. req' \in [Processes -> Request] /\ Serving'  BY <1>5, <1>6, Frame, RequestsFit
<1>8. TypeOK'
  <2>1. stale' \subseteq memes /\ cut \subseteq stale'  BY <1>5 DEF IInv, TypeOK
  <2>2. actors' \in [Memes -> SUBSET People]  BY <1>3, <1>4, <1>5 DEF IInv, TypeOK
  <2>3. \A m \in Memes \ memes : actors'[m] = {}  BY <1>5 DEF IInv, TypeOK
  <2>. QED  BY <1>5, <1>7, <2>1, <2>2, <2>3 DEF IInv, TypeOK
<1>9. TagsAreTrue'  BY <1>3, <1>5, SameNames DEF IInv, TagsAreTrue
<1>10. ReembedFollows'
  <2>1. CASE q.op = "face"  BY <1>1, <1>5, <1>6, <2>1, ReembedKept
  <2>2. CASE q.op # "face"
    <3>1. t \in Threads  BY <1>1, <1>2, <2>2 DEF Fits, OpsOf, Processes
    <3>. QED  BY <1>1, <1>5, <1>6, <2>2, <3>1, ReembedOwed
  <2>. QED  BY <2>1, <2>2
<1>11. NumbersFit'  BY <1>5 DEF IInv, NumbersFit
<1>. QED  BY <1>5, <1>7, <1>8, <1>9, <1>10, <1>11, Frame DEF IInv, Serving

\* The line replaces the one of its cluster, of those the request has read.
LEMMA WriteLineStep ==
  ASSUME IInv, NEW t \in Processes, WriteLine(t)
  PROVE  IInv'
<1> DEFINE q == req[t]
           written == {l \in q.seen : l.cluster # q.cluster} \cup {q.line}
<1>1. req[t] \in Request /\ Fits(t, q) /\ q.at = "write" /\ q.op = "describe"
  BY RequestIs DEF WriteLine
<1>2. q.meme \in Memes /\ q.names \subseteq NamesFor(q.meme) /\ NamesFor(q.meme) \subseteq People
  BY <1>1 DEF Fits, NamesFit, NamesFor
<1>3. /\ q.cluster \in Numbers /\ q.seen \subseteq Line /\ OneTrueLine(q.meme, q.seen)
      /\ q.line \in [cluster : {q.cluster}, name : {None} \cup shown[q.cluster], about : q.names]
      /\ q.names \subseteq shown[q.cluster] /\ shown[q.cluster] \subseteq People
  BY <1>1 DEF Fits, LinesFit, ClusterFits, IInv, TypeOK
<1>4. /\ q.line \in Line /\ q.line.cluster = q.cluster /\ q.line.about \in NamesFor(q.meme)
      /\ q.line.name = None \/ {q.line.name, q.line.about} \subseteq shown[q.line.cluster]
  BY <1>2, <1>3 DEF Line
<1>5. written \subseteq Line /\ OneTrueLine(q.meme, written)
  BY <1>3, <1>4 DEF OneTrueLine
<1>6. /\ lines' = [m \in Memes |-> IF m = q.meme /\ m \in memes THEN written ELSE lines[m]]
      /\ stale' = stale \cup ({q.meme} \cap memes)
      /\ Goto(t, "enqueue")
      /\ UNCHANGED <<memes, rows, reading, grouped, cluster, shown, mixed, label, record, actors, cut, refs>>
  BY DEF WriteLine, table, clustering
<1> HIDE DEF written
<1>7. PICK r \in Request : /\ Fits(t, r) /\ req' = [req EXCEPT ![t] = r]
                           /\ r.at = "enqueue" /\ r.meme = q.meme
  <2>1. "enqueue" \in PlacesOf(q.op)  BY <1>1 DEF PlacesOf
  <2>2. PICK r \in Request : Fits(t, r) /\ r.at = "enqueue" /\ r = [req[t] EXCEPT !.at = "enqueue"]
                             /\ req' = [req EXCEPT ![t] = r]
    BY <1>1, <1>6, <2>1, GotoRequest
  <2>. QED  BY <1>1, <2>2 DEF Request
<1>8. req' \in [Processes -> Request] /\ Serving'  BY <1>6, <1>7, Frame, RequestsFit
<1>9. TypeOK'
  <2>1. stale' \subseteq memes /\ cut \subseteq stale'  BY <1>6 DEF IInv, TypeOK
  <2>2. lines' \in [Memes -> SUBSET Line]  BY <1>5, <1>6 DEF IInv, TypeOK
  <2>3. \A m \in Memes \ memes : lines'[m] = {}  BY <1>6 DEF IInv, TypeOK
  <2>. QED  BY <1>6, <1>8, <2>1, <2>2, <2>3 DEF IInv, TypeOK
<1>10. OneTrueLineEach'
  <2>1. \A m \in Memes : OneTrueLine(m, lines[m])  BY DEF IInv, OneTrueLineEach
  <2>2. \A m \in Memes : OneTrueLine(m, lines'[m])  BY <1>5, <1>6, <2>1
  <2>. QED  BY <1>6, <2>2, SameNames DEF OneTrueLineEach
<1>11. ReembedFollows'
  <2>1. t \in Threads  BY <1>1 DEF Fits, OpsOf, Processes
  <2>. QED  BY <1>1, <1>6, <1>7, <2>1, ReembedOwed
<1>12. NumbersFit'  BY <1>6 DEF IInv, NumbersFit
<1>. QED  BY <1>6, <1>8, <1>9, <1>10, <1>11, <1>12, Frame DEF IInv, Serving

LEMMA ReembedStep ==
  ASSUME IInv, NEW t \in Processes, Reembed(t)
  PROVE  IInv'
<1> DEFINE q == req[t]
<1>1. req[t] \in Request /\ Fits(t, q) /\ q.at = "enqueue"  BY RequestIs DEF Reembed
<1>2. /\ stale' = stale \ {q.meme} /\ cut' = cut \ {q.meme}
      /\ Goto(t, IF q.meme \in memes THEN "memes" ELSE "idle")
      /\ UNCHANGED <<memes, rows, reading, grouped, cluster, shown, mixed, label, record, actors, lines, refs>>
  BY DEF Reembed, table, clustering
<1>3. PICK r \in Request : Fits(t, r) /\ req' = [req EXCEPT ![t] = r]
  <2>1. CASE q.meme \notin memes  BY <1>2, <2>1, IdleFits DEF Goto, Continue
  <2>2. CASE q.meme \in memes
    <3>1. Goto(t, "memes") /\ "memes" \in PlacesOf(q.op)
      BY <1>1, <1>2, <2>2 DEF Fits, OpsOf, PlacesOf
    <3>. QED  BY <1>1, <3>1, GotoRequest
  <2>. QED  BY <2>1, <2>2
<1>4. req' \in [Processes -> Request] /\ Serving'  BY <1>2, <1>3, Frame, RequestsFit
<1>5. TypeOK'  BY <1>2, <1>4 DEF IInv, TypeOK
<1>6. ReembedFollows'
  <2> SUFFICES ASSUME NEW n \in stale', n \notin cut'
               PROVE  \E u \in Threads : req'[u].at = "enqueue" /\ req'[u].meme = n
    BY DEF ReembedFollows
  <2>1. n \in stale /\ n # q.meme /\ n \notin cut  BY <1>2
  <2>2. PICK u \in Threads : req[u].at = "enqueue" /\ req[u].meme = n
    BY <2>1 DEF IInv, ReembedFollows
  <2>3. u # t /\ u \in Processes /\ DOMAIN req = Processes
    BY <2>1, <2>2 DEF Processes, IInv, TypeOK
  <2>. QED  BY <1>3, <2>2, <2>3
<1>7. NumbersFit'  BY <1>2 DEF IInv, NumbersFit
<1>. QED  BY <1>2, <1>4, <1>5, <1>6, <1>7, Frame DEF IInv, Serving

LEMMA DeleteMemeStep ==
  ASSUME IInv, NEW t \in Processes, NEW m \in Memes, DeleteMeme(t, m)
  PROVE  IInv'
<1> DEFINE q == req[t]
           r == [q EXCEPT !.todo = @ \ {m}]
           gone == {f \in Faces : MemeOf[f] = m}
<1>1. req[t] \in Request /\ Fits(t, q) /\ q.op = "delete" /\ q.at = "memes"
  BY RequestIs DEF DeleteMeme, Fits, PlacesOf
<1>2. /\ rows' = rows \ gone
      /\ cluster' = [f \in Faces |-> IF f \in gone THEN None ELSE cluster[f]]
      /\ label' = [f \in Faces |-> IF f \in gone THEN None ELSE label[f]]
      /\ memes' = memes \ {m}
      /\ actors' = [actors EXCEPT ![m] = {}] /\ lines' = [lines EXCEPT ![m] = {}]
      /\ stale' = stale \ {m} /\ cut' = cut \ {m}
      /\ req' = [req EXCEPT ![t] = r]
      /\ UNCHANGED <<reading, grouped, shown, mixed, record, refs>>
  BY DEF DeleteMeme, Continue
<1>3. /\ r \in Request /\ r.op = "delete" /\ r.at = "memes"
  BY <1>1 DEF Request
<1> HIDE DEF r
<1>4. Fits(t, r)
  BY <1>1, <1>3 DEF Fits, PlacesOf, NamesFit, TagsFit, LinesFit, ClusterFits, RefsFit
<1>6. req' \in [Processes -> Request] /\ Serving'  BY <1>1, <1>2, <1>3, <1>4, RequestsFit
<1>7. TypeOK'
  <2>1. rows' \subseteq {f \in Faces : MemeOf[f] \in memes'}  BY <1>2 DEF IInv, TypeOK
  <2>2. cluster' \in [Faces -> Numbers \cup {None}] /\ label' \in [Faces -> People \cup {None}]
    BY <1>2 DEF IInv, TypeOK
  <2>3. actors' \in [Memes -> SUBSET People] /\ lines' \in [Memes -> SUBSET Line]
    BY <1>2 DEF IInv, TypeOK
  <2>4. \A n \in Memes \ memes' : actors'[n] = {} /\ lines'[n] = {}
    BY <1>2 DEF IInv, TypeOK
  <2>. QED  BY <1>2, <1>6, <2>1, <2>2, <2>3, <2>4 DEF IInv, TypeOK
<1>8. TagsAreTrue'  BY <1>2, SameNames DEF IInv, TypeOK, TagsAreTrue
<1>9. OneTrueLineEach'
  <2>1. \A n \in Memes : lines'[n] \subseteq lines[n]  BY <1>2 DEF IInv, TypeOK
  <2>. QED  BY <1>2, <2>1, FewerLines
<1>10. NumbersFit'
  <2>1. \A f \in Faces : cluster'[f] # None => f \notin gone /\ cluster'[f] = cluster[f]
    BY <1>2
  <2>. QED  BY <1>2, <2>1 DEF IInv, NumbersFit
<1>11. ReembedFollows'
  <2> SUFFICES ASSUME NEW n \in stale', n \notin cut'
               PROVE  \E u \in Threads : req'[u].at = "enqueue" /\ req'[u].meme = n
    BY DEF ReembedFollows
  <2>1. n \in stale /\ n \notin cut  BY <1>2
  <2>2. PICK u \in Threads : req[u].at = "enqueue" /\ req[u].meme = n
    BY <2>1 DEF IInv, ReembedFollows
  <2>3. u # t /\ u \in Processes /\ DOMAIN req = Processes
    BY <1>1, <2>2 DEF Processes, IInv, TypeOK
  <2>. QED  BY <1>2, <2>2, <2>3
<1>. QED  BY <1>2, <1>6, <1>7, <1>8, <1>9, <1>10, <1>11, Frame DEF IInv, Serving

LEMMA EndLoopStep ==
  ASSUME IInv, NEW t \in Processes, EndLoop(t)
  PROVE  IInv'
<1> DEFINE q == req[t]
<1>1. req[t] \in Request /\ Fits(t, q) /\ q.at = "memes"  BY RequestIs DEF EndLoop
<1>2. /\ record' = IF q.op = "delete" THEN [record EXCEPT ![q.cluster] = None] ELSE record
      /\ Goto(t, IF q.op = "label" THEN "refs" ELSE "idle")
      /\ UNCHANGED <<memes, rows, reading, grouped, cluster, shown, mixed, label, actors, lines, stale, cut, refs>>
  BY DEF EndLoop, search, clustering
<1>3. PICK r \in Request : Fits(t, r) /\ req' = [req EXCEPT ![t] = r]
  <2>1. CASE q.op = "label"
    <3>1. Goto(t, "refs") /\ "refs" \in PlacesOf(q.op)  BY <1>2, <2>1 DEF PlacesOf
    <3>. QED  BY <3>1, GotoRequest
  <2>2. CASE q.op # "label"  BY <1>2, <2>2, IdleFits DEF Goto, Continue
  <2>. QED  BY <2>1, <2>2
<1>4. req' \in [Processes -> Request] /\ Serving'  BY <1>2, <1>3, Frame, RequestsFit
<1>5. TypeOK'  BY <1>2, <1>4 DEF IInv, TypeOK
<1>6. ReembedFollows'  BY <1>1, <1>2, <1>3, ReembedKept
<1>7. NumbersFit'  BY <1>2 DEF IInv, NumbersFit
<1>. QED  BY <1>2, <1>4, <1>5, <1>6, <1>7, Frame DEF IInv, Serving

-----------------------------------------------------------------------------
(* References *)

\* What is added to a name are faces it now stands for, and the list is cut.
LEMMA LabelTeaches ==
  ASSUME IInv, refs \notin {Empty, Torn}, NEW c \in Numbers, NEW p \in People,
         mixed' = mixed \cup MixUps(p, c), Grows,
         NEW known, known = [refs EXCEPT ![p] = FirstOf(Known(p) \o Shown(c), MaxRefs)]
  PROVE  known \in References /\ TrueRefs(known)'
<1> DEFINE all == Known(p) \o Shown(c)
           Portraits == Faces \cup People
           Right == {x \in Portraits : StandsFor(p, ShownBy(x))'}
<1>1. TypeOK /\ refs \in References /\ TrueRefs(refs) /\ FacesIn(c) \subseteq Faces
  BY DEF IInv, TypeOK, FacesIn, RefsAreTrue
<1>2. FacesIn(c) \subseteq Right
  BY <1>1, MixUpsName DEF ShownBy
<1>3. Known(p) \in Seq(Right)
  <2>1. CASE refs[p] = None  BY <2>1 DEF Known
  <2>2. CASE refs[p] # None
    <3>1. refs[p] \in Seq(Portraits) /\ \A k \in DOMAIN refs[p] : StandsFor(p, ShownBy(refs[p][k]))
      BY <1>1, <2>2 DEF References, TrueRefs
    <3>2. Len(refs[p]) \in Nat /\ refs[p] \in [1 .. Len(refs[p]) -> Portraits]
      BY <3>1, LenProperties
    <3>3. \A x : StandsFor(p, ShownBy(x)) => StandsFor(p, ShownBy(x))'  BY DEF StandsFor
    <3>4. refs[p] \in [1 .. Len(refs[p]) -> Right]  BY <3>1, <3>2, <3>3
    <3>. QED  BY <2>2, <3>2, <3>4 DEF Known
  <2>. QED  BY <2>1, <2>2
<1>4. Shown(c) \in Seq(Right)
  <2>1. Shown(c) \in Seq(FacesIn(c))  BY <1>1, ShownProperties
  <2>. QED  BY <1>2, <2>1, SeqMonotonic
<1>5. all \in Seq(Right)  BY <1>3, <1>4, ConcatProperties
<1> HIDE DEF all
<1>6. PICK taught \in Seq(Right) : taught = FirstOf(all, MaxRefs) /\ Len(taught) <= MaxRefs
  BY <1>5, NumbersAssumption, FirstOfProperties
<1>7. taught \in Seq(Portraits)  BY <1>6, SeqMonotonic
<1>8. \A k \in DOMAIN taught : StandsFor(p, ShownBy(taught[k]))'
  <2>1. \A k \in DOMAIN taught : taught[k] \in Right  BY <1>6, LenProperties, ElementOfSeq
  <2>. QED  BY <2>1
<1>9. known = [refs EXCEPT ![p] = taught]  BY <1>6 DEF all
<1>10. known \in References  BY <1>1, <1>7, <1>9 DEF References
<1>11. TrueRefs(known)'
  <2> SUFFICES ASSUME NEW q \in People, known[q] # None
               PROVE  /\ Len(known[q]) <= MaxRefs
                      /\ \A k \in DOMAIN known[q] : StandsFor(q, ShownBy(known[q][k]))'
    BY DEF TrueRefs
  <2>1. CASE q = p
    <3>1. known[q] = taught  BY <1>1, <1>9, <2>1 DEF References
    <3>. QED  BY <1>6, <1>8, <2>1, <3>1
  <2>2. CASE q # p
    <3>1. known[q] = refs[q]  BY <1>1, <1>9, <2>2 DEF References
    <3>2. \A x : StandsFor(q, ShownBy(x)) => StandsFor(q, ShownBy(x))'  BY DEF StandsFor
    <3>3. /\ Len(known[q]) <= MaxRefs
          /\ \A k \in DOMAIN known[q] : StandsFor(q, ShownBy(known[q][k]))
      BY <1>1, <3>1 DEF TrueRefs
    <3>. QED  BY <3>2, <3>3
  <2>. QED  BY <2>1, <2>2
<1>. QED  BY <1>10, <1>11

LEMMA ReadRefsStep ==
  ASSUME IInv, NEW t \in Processes, ReadRefs(t)
  PROVE  IInv'
<1> DEFINE q == req[t]
           c == req[t].cluster
<1>1. req[t] \in Request /\ Fits(t, q) /\ q.at = "refs" /\ q.op = "label"
  BY RequestIs DEF ReadRefs, Fits, OpsOf, PlacesOf
<1>2. PICK p \in q.names :
        /\ req' = [req EXCEPT ![t] = [q EXCEPT !.at = "open",
             !.known = [refs EXCEPT ![p] = FirstOf(Known(p) \o Shown(c), MaxRefs)]]]
        /\ mixed' = mixed \cup MixUps(p, c)
  BY DEF ReadRefs, Continue
<1>3. p \in People /\ c \in Numbers /\ p \in shown[c]
  BY <1>1, <1>2 DEF Request, Fits, ClusterFits
<1>4. refs \notin {Empty, Torn} /\ UNCHANGED <<table, search, refs>> /\ UNCHANGED shown
  BY DEF ReadRefs, table, clustering
<1>5. mixed' \subseteq People \X People /\ Grows  BY <1>2, <1>3, <1>4, MixUpsFit
<1>6. PICK known : known = [refs EXCEPT ![p] = FirstOf(Known(p) \o Shown(c), MaxRefs)]
  OBVIOUS
<1>7. known \in References /\ TrueRefs(known)'
  BY <1>2, <1>3, <1>4, <1>5, <1>6, LabelTeaches
<1>8. PICK r : r = [q EXCEPT !.at = "open", !.known = known]  OBVIOUS
<1>9. req' = [req EXCEPT ![t] = r] /\ req'[t] = r
  BY <1>2, <1>6, <1>8 DEF IInv, TypeOK
<1>10. /\ r \in Request /\ r.op = "label" /\ r.at = "open" /\ r.known = known
       /\ r.names = q.names /\ r.todo = q.todo /\ r.cluster = q.cluster
  BY <1>1, <1>7, <1>8 DEF Request
<1>11. NamesFit(r) /\ TagsFit(r) /\ LinesFit(r) /\ ClusterFits(r)
  BY <1>1, <1>10 DEF Fits, NamesFit, TagsFit, LinesFit, ClusterFits
<1>12. Fits(t, req[t])'
  <2>1. RefsFit(req[t])'  BY <1>7, <1>9, <1>10 DEF RefsFit
  <2>2. NamesFit(req[t])' /\ TagsFit(req[t])' /\ LinesFit(req[t])' /\ ClusterFits(req[t])'
    BY <1>5, <1>9, <1>10, <1>11, MostFits
  <2>3. r.op \in OpsOf(t) /\ r.at \in PlacesOf(r.op)  BY <1>1, <1>10 DEF Fits, PlacesOf
  <2>. QED  BY <1>9, <2>1, <2>2, <2>3 DEF Fits, OpsOf, PlacesOf
<1>. QED  BY <1>1, <1>4, <1>5, <1>9, <1>10, <1>12, RequestStep

LEMMA RefsUnreadableStep ==
  ASSUME IInv, NEW t \in Processes, RefsUnreadable(t)
  PROVE  IInv'
BY IdleFits, RequestStep DEF RefsUnreadable, Goto, Continue

\* The file being written is unreadable, so nothing is claimed of it.
LEMMA OpenRefsStep ==
  ASSUME IInv, NEW t \in Processes, OpenRefs(t)
  PROVE  IInv'
<1>1. /\ req[t].at = "open" /\ refs' = Empty /\ Goto(t, "save")
      /\ UNCHANGED <<memes, rows, reading, grouped, cluster, shown, mixed, label, record, actors, lines, stale, cut>>
  BY DEF OpenRefs, table, clustering, search
<1>2. "save" \in PlacesOf(req[t].op)
  <2>1. Fits(t, req[t])  BY RequestIs
  <2>. QED  BY <1>1, <2>1 DEF Fits, OpsOf, PlacesOf
<1>3. PICK r \in Request : Fits(t, r) /\ req' = [req EXCEPT ![t] = r]
  BY <1>1, <1>2, GotoRequest
<1>4. req' \in [Processes -> Request] /\ Serving'  BY <1>1, <1>3, Frame, RequestsFit
<1>5. TypeOK'  BY <1>1, <1>4 DEF IInv, TypeOK
<1>6. RefsAreTrue'  BY <1>1 DEF RefsAreTrue
<1>7. ReembedFollows'  BY <1>1, <1>3, ReembedKept
<1>8. NumbersFit'  BY <1>1 DEF IInv, NumbersFit
<1>. QED  BY <1>1, <1>4, <1>5, <1>6, <1>7, <1>8, Frame DEF IInv, Serving

LEMMA SaveRefsStep ==
  ASSUME IInv, NEW t \in Processes, SaveRefs(t)
  PROVE  IInv'
<1>1. /\ req[t].at = "save" /\ req' = [req EXCEPT ![t] = Idle]
      /\ refs' = req[t].known \/ refs' = Torn
      /\ UNCHANGED <<memes, rows, reading, grouped, cluster, shown, mixed, label, record, actors, lines, stale, cut>>
  BY DEF SaveRefs, Goto, Continue, table, clustering, search
<1>2. req[t] \in Request /\ Fits(t, req[t])  BY RequestIs
<1>3. req[t].known \in References /\ TrueRefs(req[t].known)
  BY <1>1, <1>2 DEF Request, Fits, RefsFit
<1>4. req' \in [Processes -> Request] /\ Serving'  BY <1>1, IdleFits, Frame, RequestsFit
<1>5. TypeOK'  BY <1>1, <1>3, <1>4 DEF IInv, TypeOK
<1>6. RefsAreTrue'
  <2>1. Grows  BY <1>1, Steady
  <2>2. TrueRefs(req[t].known) => refs' = Torn \/ TrueRefs(refs)'
    BY <1>1, <2>1 DEF Grows, TrueRefs, StandsFor
  <2>. QED  BY <1>1, <1>3, <2>2 DEF RefsAreTrue
<1>7. ReembedFollows'  BY <1>1, IdleFits, ReembedKept
<1>8. NumbersFit'  BY <1>1 DEF IInv, NumbersFit
<1>. QED  BY <1>1, <1>4, <1>5, <1>6, <1>7, <1>8, Frame DEF IInv, Serving

LEMMA BuildRefsStep ==
  ASSUME IInv, NEW onlyMissing \in BOOLEAN, BuildRefs(onlyMissing)
  PROVE  IInv'
<1> DEFINE names == IF onlyMissing THEN {p \in People : refs[p] = None} ELSE People
           known == IF onlyMissing THEN refs ELSE NoRefs
           r == [Idle EXCEPT !.op = "build", !.at = "look", !.names = names, !.known = known]
<1>1. /\ req[Builder] = Idle /\ req' = [req EXCEPT ![Builder] = r]
      /\ onlyMissing => refs \notin {Empty, Torn}
  BY DEF BuildRefs
<1>2. Builder \in Processes /\ Builder # Worker  BY ProcessesAssumption DEF Processes
<1>3. known \in References /\ TrueRefs(known)
  <2>1. CASE onlyMissing  BY <1>1, <2>1 DEF IInv, TypeOK, RefsAreTrue
  <2>2. CASE ~onlyMissing  BY <2>2 DEF NoRefs, References, TrueRefs
  <2>. QED  BY <2>1, <2>2
<1>4. names \in SUBSET People  OBVIOUS
<1> HIDE DEF names, known
<1>5. r \in Request /\ r.op = "build" /\ r.at = "look" /\ r.known = known
  BY <1>2, <1>3, <1>4, IdleFits DEF Request
<1> HIDE DEF r
<1>6. Fits(Builder, r)
  <2>1. NamesFit(r) /\ TagsFit(r) /\ LinesFit(r) /\ ClusterFits(r) /\ RefsFit(r)
    BY <1>3, <1>5 DEF NamesFit, TagsFit, LinesFit, ClusterFits, RefsFit
  <2>. QED  BY <1>2, <1>5, <2>1 DEF Fits, OpsOf, PlacesOf
<1>7. req[Builder].at # "enqueue"  BY <1>1 DEF Idle
<1>. QED  BY <1>1, <1>2, <1>5, <1>6, <1>7, RequestStep DEF BuildRefs

\* A portrait and faces like it, no more than MaxRefs together.
LEMMA PortraitTeaches ==
  ASSUME NEW p \in People, NEW like \in SUBSET {f \in Faces : PersonOf[f] = p},
         Cardinality(like) <= MaxDomain
  PROVE  LET s == <<p>> \o Listing(like)
         IN  /\ s \in Seq(Faces \cup People) /\ Len(s) <= MaxRefs
             /\ \A k \in DOMAIN s : ShownBy(s[k]) = p
<1> DEFINE Right == {x \in Faces \cup People : ShownBy(x) = p}
           s == <<p>> \o Listing(like)
<1>1. like \in SUBSET Faces /\ IsFiniteSet(like)  BY FiniteAssumption, FS_Subset
<1>2. p \in Right /\ like \subseteq Right  BY DistinctAssumption DEF ShownBy
<1>3. Listing(like) \in Seq(Right) /\ Len(Listing(like)) = Cardinality(like) /\ Cardinality(like) \in Nat
  <2>1. Listing(like) \in Seq(like)  BY <1>1, ListingType
  <2>. QED  BY <1>1, <1>2, <2>1, ListingType, SeqMonotonic
<1>4. <<p>> \in Seq(Right) /\ Len(<<p>>) = 1  BY <1>2
<1>5. s \in Seq(Right) /\ Len(s) = 1 + Cardinality(like)  BY <1>3, <1>4, ConcatProperties
<1> HIDE DEF s
<1>6. Len(s) <= MaxRefs  BY <1>3, <1>5, NumbersAssumption
<1>7. s \in Seq(Faces \cup People)  BY <1>5, SeqMonotonic
<1>8. \A k \in DOMAIN s : ShownBy(s[k]) = p  BY <1>5, LenProperties, ElementOfSeq
<1>. QED  BY <1>6, <1>7, <1>8 DEF s

LEMMA LookUpStep ==
  ASSUME IInv, NEW p \in People, LookUp(p)
  PROVE  IInv'
<1> DEFINE q == req[Builder]
           r == [q EXCEPT !.names = @ \ {p}]
<1>1. Builder \in Processes /\ Builder # Worker  BY ProcessesAssumption DEF Processes
<1>2. q \in Request /\ Fits(Builder, q) /\ q.at = "look"  BY <1>1, RequestIs DEF LookUp
<1>3. q.op = "build" /\ q.known \in References /\ TrueRefs(q.known)
  BY <1>1, <1>2 DEF Request, Fits, OpsOf, PlacesOf, RefsFit
<1>4. \/ req' = [req EXCEPT ![Builder] = r]
      \/ \E like \in SUBSET {f \in Faces : PersonOf[f] = p} :
           /\ Cardinality(like) <= MaxDomain
           /\ req' = [req EXCEPT ![Builder] =
                [q EXCEPT !.names = @ \ {p}, !.known[p] = <<p>> \o Listing(like)]]
  <2>1. CASE Continue(Builder, r)  BY <2>1 DEF Continue
  <2>2. ASSUME NEW like \in SUBSET {f \in Faces : PersonOf[f] = p /\ MemeOf[f] \in memes
                                                  /\ p \in actors[MemeOf[f]]},
               Cardinality(like) <= MaxDomain,
               Continue(Builder, [q EXCEPT !.names = @ \ {p}, !.known[p] = <<p>> \o Listing(like)])
        PROVE  \E l \in SUBSET {f \in Faces : PersonOf[f] = p} :
           /\ Cardinality(l) <= MaxDomain
           /\ req' = [req EXCEPT ![Builder] =
                [q EXCEPT !.names = @ \ {p}, !.known[p] = <<p>> \o Listing(l)]]
    <3>1. like \in SUBSET {f \in Faces : PersonOf[f] = p}  OBVIOUS
    <3>. QED  BY <2>2, <3>1 DEF Continue
  <2>. QED  BY <2>1, <2>2 DEF LookUp
<1>5. CASE req' = [req EXCEPT ![Builder] = r]
  <2>1. r \in Request /\ r.op = "build" /\ r.at = "look" /\ r.known = q.known
    BY <1>2, <1>3 DEF Request
  <2> HIDE DEF r
  <2>2. NamesFit(r) /\ TagsFit(r) /\ LinesFit(r) /\ ClusterFits(r) /\ RefsFit(r)
    BY <1>3, <2>1 DEF NamesFit, TagsFit, LinesFit, ClusterFits, RefsFit
  <2>3. Fits(Builder, r)  BY <1>1, <2>1, <2>2 DEF Fits, OpsOf, PlacesOf
  <2>. QED  BY <1>1, <1>2, <1>5, <2>1, <2>3, RequestStep DEF LookUp
<1>6. ASSUME NEW like \in SUBSET {f \in Faces : PersonOf[f] = p}, Cardinality(like) <= MaxDomain,
             req' = [req EXCEPT ![Builder] =
                [q EXCEPT !.names = @ \ {p}, !.known[p] = <<p>> \o Listing(like)]]
      PROVE  IInv'
  <2> DEFINE s == <<p>> \o Listing(like)
             known == [q.known EXCEPT ![p] = s]
             w == [q EXCEPT !.names = @ \ {p}, !.known = known]
  <2>1. /\ s \in Seq(Faces \cup People) /\ Len(s) <= MaxRefs
        /\ \A k \in DOMAIN s : ShownBy(s[k]) = p
    BY <1>6, PortraitTeaches
  <2>2. req' = [req EXCEPT ![Builder] = w]  BY <1>2, <1>6 DEF Request
  <2> HIDE DEF s
  <2>3. known \in References /\ TrueRefs(known)
    BY <1>3, <2>1 DEF References, TrueRefs, StandsFor
  <2> HIDE DEF known
  <2>4. w \in Request /\ w.op = "build" /\ w.at = "look" /\ w.known = known
    BY <1>2, <1>3, <2>3 DEF Request
  <2> HIDE DEF w
  <2>5. NamesFit(w) /\ TagsFit(w) /\ LinesFit(w) /\ ClusterFits(w) /\ RefsFit(w)
    BY <2>3, <2>4 DEF NamesFit, TagsFit, LinesFit, ClusterFits, RefsFit
  <2>6. Fits(Builder, w)  BY <1>1, <2>4, <2>5 DEF Fits, OpsOf, PlacesOf
  <2>. QED  BY <1>1, <1>2, <2>2, <2>4, <2>6, RequestStep DEF LookUp
<1>. QED  BY <1>4, <1>5, <1>6

LEMMA EndLookUpsStep ==
  ASSUME IInv, EndLookUps
  PROVE  IInv'
<1>1. Builder \in Processes /\ req[Builder].at = "look" /\ Goto(Builder, "open")
  BY DEF Processes, EndLookUps
<1>2. "open" \in PlacesOf(req[Builder].op)
  <2>1. Fits(Builder, req[Builder])  BY <1>1, RequestIs
  <2>. QED  BY <1>1, <2>1 DEF Fits, OpsOf, PlacesOf
<1>3. PICK r \in Request : Fits(Builder, r) /\ req' = [req EXCEPT ![Builder] = r]
  BY <1>1, <1>2, GotoRequest
<1>. QED  BY <1>1, <1>3, RequestStep DEF EndLookUps

LEMMA BuildKilledStep ==
  ASSUME IInv, BuildKilled
  PROVE  IInv'
<1>1. Builder \in Processes /\ req' = [req EXCEPT ![Builder] = Idle]
  BY DEF Processes, BuildKilled
<1>2. req[Builder].at # "enqueue"
  <2>1. Fits(Builder, req[Builder])  BY <1>1, RequestIs
  <2>. QED  BY <2>1, ProcessesAssumption DEF Fits, OpsOf, PlacesOf
<1>. QED  BY <1>1, <1>2, IdleFits, RequestStep DEF BuildKilled

LEMMA CrashStep ==
  ASSUME IInv, Crash
  PROVE  IInv'
<1> DEFINE asked == {req[t].meme : t \in {u \in Processes : req[u].at = "enqueue"}}
<1>1. /\ req' = [t \in Processes |-> IF t = Builder THEN req[t] ELSE Idle]
      /\ cut' = cut \cup (stale \cap asked)
      /\ UNCHANGED <<memes, rows, reading, grouped, cluster, shown, mixed, label, record, actors, lines, stale, refs>>
  BY DEF Crash, table, clustering
<1>2. \A t \in Processes : req'[t] \in Request /\ Fits(t, req'[t])
  BY <1>1, RequestIs, IdleFits
<1>3. req' \in [Processes -> Request]  BY <1>1, <1>2
<1>4. Serving'  BY <1>1, <1>2, Steady, StillFits DEF Serving
<1>5. TypeOK'  BY <1>1, <1>3 DEF IInv, TypeOK
<1>6. ReembedFollows'
  <2> SUFFICES ASSUME NEW n \in stale, n \notin cut PROVE n \in asked
    BY <1>1 DEF ReembedFollows
  <2>1. PICK u \in Threads : req[u].at = "enqueue" /\ req[u].meme = n
    BY DEF IInv, ReembedFollows
  <2>. QED  BY <2>1 DEF Processes
<1>7. NumbersFit'  BY <1>1 DEF IInv, NumbersFit
<1>. QED  BY <1>1, <1>3, <1>4, <1>5, <1>6, <1>7, Frame DEF IInv, Serving

-----------------------------------------------------------------------------
LEMMA InitIInv == Init => IInv
<1> SUFFICES ASSUME Init PROVE IInv  OBVIOUS
<1>1. /\ memes = Memes /\ rows = {} /\ reading = None /\ grouped = {} /\ mixed = {}
      /\ shown = [c \in Numbers |-> {}] /\ stale = {} /\ cut = {}
      /\ cluster = [f \in Faces |-> None] /\ label = [f \in Faces |-> None]
      /\ record = [c \in Numbers |-> None] /\ refs = NoRefs
      /\ actors = [m \in Memes |-> {}] /\ lines = [m \in Memes |-> {}]
      /\ req = [t \in Processes |-> Idle]
  BY DEF Init
<1>2. NoRefs \in References  BY DEF NoRefs, References
<1>3. TypeOK  BY <1>1, <1>2, IdleFits DEF TypeOK
<1>4. TagsAreTrue /\ OneTrueLineEach /\ ReembedFollows /\ NumbersFit
  BY <1>1 DEF TagsAreTrue, MixUpsAreOfNumbers, OneTrueLineEach, OneTrueLine, ReembedFollows, NumbersFit
<1>5. RefsAreTrue  BY <1>1 DEF RefsAreTrue, TrueRefs, NoRefs
<1>. QED  BY <1>1, <1>3, <1>4, <1>5, IdleFits DEF IInv

LEMMA NextIInv == IInv /\ [Next]_vars => IInv'
<1> SUFFICES ASSUME IInv, [Next]_vars PROVE IInv'  OBVIOUS
<1>1. CASE \E t \in Processes :
             \/ NameCluster(t) \/ DescribeCluster(t) \/ ComposeLine(t)
             \/ \E m \in Memes : ReadMeme(t, m) \/ DeleteMeme(t, m)
             \/ WriteTags(t) \/ WriteLine(t) \/ Reembed(t) \/ EndLoop(t)
             \/ ReadRefs(t) \/ RefsUnreadable(t) \/ OpenRefs(t) \/ SaveRefs(t)
  BY <1>1, NameClusterStep, DescribeClusterStep, ComposeLineStep, ReadMemeStep, DeleteMemeStep,
     WriteTagsStep, WriteLineStep, ReembedStep, EndLoopStep, ReadRefsStep, RefsUnreadableStep,
     OpenRefsStep, SaveRefsStep
<1>2. CASE UNCHANGED vars
  <2>1. UNCHANGED <<memes, rows, reading, grouped, cluster, shown, mixed, label, record, actors, lines, stale, cut, refs, req>>
    BY <1>2 DEF vars, table, clustering, search
  <2>2. req' \in [Processes -> Request] /\ Serving'  BY <2>1, Frame, SameRequests
  <2>3. TypeOK' /\ ReembedFollows' /\ NumbersFit'
    BY <2>1 DEF IInv, TypeOK, ReembedFollows, NumbersFit
  <2>. QED  BY <2>1, <2>2, <2>3, Frame DEF IInv, Serving
<1>3. CASE \/ ReadFaces \/ WriteClusters \/ ClusteringKilled \/ EndLookUps \/ BuildKilled \/ Crash
           \/ \E f \in Faces : ScanFace(f)
           \/ \E p \in People : LookUp(p)
           \/ \E onlyMissing \in BOOLEAN : BuildRefs(onlyMissing)
  BY <1>3, ReadFacesStep, WriteClustersStep, EndLookUpsStep, BuildKilledStep, CrashStep, ScanFaceStep, LookUpStep,
     BuildRefsStep
<1>4. CASE \/ \E t \in Threads, c \in Numbers, op \in {"label", "describe", "delete"} :
                 ClusterRequest(t, op, c)
           \/ \E t \in Threads \cup {Worker}, m \in Memes : Recognize(t, m)
           \/ \E t \in Threads, m \in Memes : Edit(t, m)
  BY <1>4, ClusterRequestStep, RecognizeStep, EditStep
<1>. QED  BY <1>1, <1>2, <1>3, <1>4 DEF Next

\* Lines are taken away by descriptions, edits and deletions only.
LinesAreLeft ==
    \A m \in memes : \A l \in lines[m] \ lines'[m] :
        \/ m \notin memes' \/ EditOf(m)
        \/ \E t \in Threads : DescriptionOf(m, t)
               /\ (l.cluster = req[t].cluster \/ l \notin req[t].seen)

LEMMA WriteLineLeaves ==
  ASSUME IInv, NEW t \in Processes, WriteLine(t)
  PROVE  LinesAreLeft
<1>1. req[t] \in Request /\ Fits(t, req[t]) /\ req[t].at = "write" /\ req[t].op = "describe"
  BY RequestIs DEF WriteLine
<1>2. t \in Threads  BY <1>1 DEF Fits, OpsOf, Processes
<1>3. lines' = [m \in Memes |-> IF m = req[t].meme /\ m \in memes
                  THEN {l \in req[t].seen : l.cluster # req[t].cluster} \cup {req[t].line}
                  ELSE lines[m]]
  BY DEF WriteLine
<1> SUFFICES ASSUME NEW m \in memes, NEW l \in lines[m] \ lines'[m]
             PROVE  DescriptionOf(m, t) /\ (l.cluster = req[t].cluster \/ l \notin req[t].seen)
  BY <1>2 DEF LinesAreLeft
<1>4. m \in Memes  BY DEF IInv, TypeOK
<1>5. m = req[t].meme  BY <1>3, <1>4
<1>6. l \notin {k \in req[t].seen : k.cluster # req[t].cluster}  BY <1>3, <1>4, <1>5
<1>. QED  BY <1>1, <1>5, <1>6 DEF DescriptionOf

LEMMA NextLeavesLines == IInv /\ [Next]_vars => LinesAreLeft
<1> SUFFICES ASSUME IInv, [Next]_vars PROVE LinesAreLeft  OBVIOUS
<1>1. UNCHANGED lines => LinesAreLeft  BY DEF LinesAreLeft
<1>2. CASE \E t \in Processes : WriteLine(t)  BY <1>2, WriteLineLeaves
<1>3. CASE \E t \in Threads, m \in Memes : Edit(t, m)
  <2>1. PICK t \in Threads, m \in Memes : Edit(t, m)  BY <1>3
  <2>2. t \in Processes /\ req \in [Processes -> Request] /\ lines \in [Memes -> SUBSET Line]
    BY DEF Processes, IInv, TypeOK
  <2>3. req[t] = Idle /\ req'[t].op = "edit" /\ req'[t].meme = m
    BY <2>1, <2>2 DEF Edit, Begin, Idle
  <2>4. \A n \in Memes : n # m => lines'[n] = lines[n]  BY <2>1, <2>2 DEF Edit
  <2>5. memes \subseteq Memes  BY DEF IInv, TypeOK
  <2>. QED  BY <2>3, <2>4, <2>5 DEF LinesAreLeft, EditOf
<1>4. CASE \E t \in Processes, m \in Memes : DeleteMeme(t, m)
  <2>1. PICK t \in Processes, m \in Memes : DeleteMeme(t, m)  BY <1>4
  <2>2. lines \in [Memes -> SUBSET Line] /\ memes \subseteq Memes  BY DEF IInv, TypeOK
  <2>3. memes' = memes \ {m} /\ \A n \in Memes : n # m => lines'[n] = lines[n]
    BY <2>1, <2>2 DEF DeleteMeme
  <2>. QED  BY <2>2, <2>3 DEF LinesAreLeft
<1>5. CASE UNCHANGED vars  BY <1>1, <1>5 DEF vars, search
<1>6. CASE \/ ReadFaces \/ WriteClusters \/ ClusteringKilled \/ EndLookUps \/ BuildKilled \/ Crash
           \/ \E f \in Faces : ScanFace(f)
           \/ \E p \in People : LookUp(p)
           \/ \E onlyMissing \in BOOLEAN : BuildRefs(onlyMissing)
           \/ \E t \in Threads, c \in Numbers, op \in {"label", "describe", "delete"} :
                 ClusterRequest(t, op, c)
           \/ \E t \in Threads \cup {Worker}, m \in Memes : Recognize(t, m)
  <2>1. UNCHANGED lines
    BY <1>6 DEF ReadFaces, WriteClusters, ClusteringKilled, EndLookUps, BuildKilled, Crash, ScanFace,
       LookUp, BuildRefs, ClusterRequest, Recognize, search
  <2>. QED  BY <1>1, <2>1
<1>7. CASE \E t \in Processes :
             \/ NameCluster(t) \/ DescribeCluster(t) \/ ComposeLine(t)
             \/ \E m \in Memes : ReadMeme(t, m)
             \/ WriteTags(t) \/ Reembed(t) \/ EndLoop(t)
             \/ ReadRefs(t) \/ RefsUnreadable(t) \/ OpenRefs(t) \/ SaveRefs(t)
  <2>1. UNCHANGED lines
    BY <1>7 DEF NameCluster, DescribeCluster, ComposeLine, ReadMeme, WriteTags, Reembed, EndLoop,
       ReadRefs, RefsUnreadable, OpenRefs, SaveRefs, search
  <2>. QED  BY <1>1, <2>1
<1>. QED  BY <1>2, <1>3, <1>4, <1>5, <1>6, <1>7 DEF Next

-----------------------------------------------------------------------------
(* In every behaviour of requests, jobs, scripts and crashes together, with *)
(* clusterings renumbering under requests at any step, what a request       *)
(* carries fits the memes it is still to write but for the mistakes made so *)
(* far, and a number and its record are of people the number has stood for  *)
(* (app.py, the FACE job of jobs.py, face_cluster.py, build_face_refs.py).  *)
THEOREM Invariance == Spec => []IInv
BY InitIInv, NextIInv, PTL DEF Spec

(* Rows, clusters, records, tags, lines, references and requests keep their *)
(* types, and nothing is left of a meme that has been deleted.              *)
THEOREM TypeCorrect == Spec => []TypeOK
<1>1. IInv => TypeOK  BY DEF IInv
<1>. QED  BY <1>1, Invariance, PTL

(* No interleaving of clusterings, label requests, FACE jobs, sweeps, edits *)
(* and deletions tags a meme with somebody who is not in it, unless a       *)
(* request has given that name to the face of somebody who is, for a number *)
(* that a clustering has turned from the one to the other                   *)
(* (label_face_cluster and auto_tag_meme in app.py, _do_face in jobs.py).   *)
THEOREM NobodyElseIsMistaken == Spec => []TagsAreTrue
<1>1. IInv => TagsAreTrue  BY DEF IInv
<1>. QED  BY <1>1, Invariance, PTL

(* face_refs.json, when it can be read, shows each name by faces of that    *)
(* person, and of those the name has been given to by that mistake, and     *)
(* never by more than MaxRefs, whichever of the endpoint and the script     *)
(* wrote it last (app.py, build_face_refs.py).                              *)
THEOREM NamesAreTaughtRight == Spec => []RefsAreTrue
<1>1. IInv => RefsAreTrue  BY DEF IInv
<1>. QED  BY <1>1, Invariance, PTL

(* A description never says two things for one cluster number, is about     *)
(* people the meme shows or mistaken for them, and is headed by their name, *)
(* or else by the name of somebody the number stood for before              *)
(* (describe_face_cluster in app.py).                                       *)
THEOREM LinesAreTrue == Spec => []OneTrueLineEach
<1>1. IInv => OneTrueLineEach  BY DEF IInv
<1>. QED  BY <1>1, Invariance, PTL

(* A line goes with its meme, by an edit, by a description of its number,   *)
(* or by one that was composed before the line was written                  *)
(* (describe_face_cluster in app.py).                                       *)
THEOREM OtherLinesStay == Spec => LinesStay
<1>1. IInv /\ [Next]_vars => [LinesAreLeft]_vars  BY NextLeavesLines
<1>. QED  BY <1>1, Invariance, PTL DEF Spec, LinesStay, LinesAreLeft

(* Every change of tags or description has its RE_EMBED to come, unless a   *)
(* crash has cut the request between the two (label_face_cluster,           *)
(* describe_face_cluster, auto_tag_meme and edit_meme in app.py).           *)
THEOREM ChangesAreReembedded == Spec => []ReembedFollows
<1>1. IInv => ReembedFollows  BY DEF IInv
<1>. QED  BY <1>1, Invariance, PTL

=============================================================================
