--------------------------- MODULE MemoryStore_proofs --------------------------
(***************************************************************************)
(* Proofs about MemoryStore, for any workers, learners, keys, limits and   *)
(* evaluations.  What the loops of the sections compute is proved by       *)
(* induction on their steps (Loop_proofs); from that, that the six         *)
(* sections have the outcome the evaluation means, and, following a worker *)
(* through them while others run, that its commit publishes it whole.      *)
(***************************************************************************)
EXTENDS MemoryStore, SequenceTheorems, FiniteSetTheorems, TLAPS

-----------------------------------------------------------------------------
(* The inductive invariant.                                                *)

IsStore(s) ==
  s = [name |-> s.name, edge |-> s.edge, obs |-> s.obs, mark |-> s.mark,
       traits |-> s.traits, summary |-> s.summary]

\* The tables of concepts and marks have the rows of their keys.
Tables(s) ==
  /\ IsStore(s)
  /\ s.name \in [Keys -> Names \cup {NoName}]
  /\ s.mark \in [Learners -> [Keys -> {Weak, Strong, NoMark}]]

IsMap(f) == f = [x \in DOMAIN f |-> f[x]]

\* Observations, traits and summaries have one row for each learner.
Rows(s) ==
  /\ s.obs \in [Learners -> Nat]
  /\ s.traits = [u \in Learners |-> s.traits[u]]
  /\ \A u \in Learners : IsMap(s.traits[u])
  /\ s.summary = [u \in Learners |-> s.summary[u]]

\* The foreign keys of edges and marks.
Linked(s) ==
  /\ \A x \in s.edge : Known(s, x.from) /\ Known(s, x.to)
  /\ \A u \in Learners, k \in Keys : s.mark[u][k] # NoMark => Known(s, k)

Sound(s) == Tables(s) /\ Linked(s) /\ Rows(s)

\* The tables that a section does not write.
NamesSame(s, t) == t.name = s.name
EdgesSame(s, t) == t.edge = s.edge
MarksSame(s, t) == t.mark = s.mark
RestSame(s, t) == t.obs = s.obs /\ t.traits = s.traits /\ t.summary = s.summary

\* What is left of an evaluation by the caps of _validate_semantic.
Applied == Evals \cup {Validated(e) : e \in Evals}

StoreInv ==
  /\ Sound(db) /\ Sound(working)
  /\ ev \in [Workers -> Applied]
  /\ at \in [Workers -> Nat]

-----------------------------------------------------------------------------
(* Every statement leaves sound tables.                                    *)

\* A statement of the concepts section writes one name.
LEMMA UpsertIsSound ==
  ASSUME NEW s, Sound(s), NEW c, c.name \in Names, NEW e
  PROVE  LET t == Upsert(e, s, c)
         IN /\ Sound(t)
            /\ EdgesSame(s, t) /\ MarksSame(s, t) /\ RestSame(s, t)
            /\ t.name = IF Norm[c.key] = NoKey THEN s.name
                        ELSE [s.name EXCEPT ![Norm[c.key]] = c.name]
<1>1. CASE Norm[c.key] = NoKey
  BY <1>1 DEF Upsert, EdgesSame, MarksSame, RestSame
<1>2. CASE Norm[c.key] # NoKey
  <2> DEFINE k == Norm[c.key]
             t == Upsert(e, s, c)
  <2>1. t = [s EXCEPT !.name = [s.name EXCEPT ![k] = c.name]]
    BY <1>2 DEF Upsert
  <2>2. /\ IsStore(t) /\ t.name = [s.name EXCEPT ![k] = c.name]
        /\ t.mark = s.mark /\ t.edge = s.edge
        /\ t.obs = s.obs /\ t.traits = s.traits /\ t.summary = s.summary
    BY <2>1 DEF Sound, Tables, IsStore
  <2> HIDE DEF t
  <2>3. \A n : Known(s, n) => Known(t, n)
    BY <2>2, StoreAssumption DEF Known, Sound, Tables
  <2>4. Tables(t)
    BY <2>2 DEF Sound, Tables
  <2>5. Linked(t)
    BY <2>2, <2>3 DEF Sound, Linked
  <2>6. Rows(t)
    BY <2>2 DEF Sound, Rows
  <2> QED BY <1>2, <2>2, <2>4, <2>5, <2>6 DEF Sound, t, EdgesSame, MarksSame, RestSame
<1> QED BY <1>1, <1>2

\* A statement of the edges section adds one edge.
LEMMA LinkIsSound ==
  ASSUME NEW s, Sound(s), NEW x, NEW e
  PROVE  LET t == Link(e, s, x)
         IN /\ Sound(t)
            /\ NamesSame(s, t) /\ MarksSame(s, t) /\ RestSame(s, t)
            /\ t.edge = s.edge \cup {Stored(y) : y \in {z \in {x} : Linkable(s, z)}}
<1>1. CASE ~Linkable(s, x)
  BY <1>1 DEF Link, NamesSame, MarksSame, RestSame
<1>2. CASE Linkable(s, x)
  <2> DEFINE t == Link(e, s, x)
  <2>1. t = [s EXCEPT !.edge = s.edge \cup {Stored(x)}]
    BY <1>2 DEF Link
  <2>2. /\ IsStore(t) /\ t.edge = s.edge \cup {Stored(x)}
        /\ t.name = s.name /\ t.mark = s.mark
        /\ t.obs = s.obs /\ t.traits = s.traits /\ t.summary = s.summary
    BY <2>1 DEF Sound, Tables, IsStore
  <2> HIDE DEF t
  <2>3. \A n : Known(t, n) <=> Known(s, n)
    BY <2>2 DEF Known
  <2>4. Known(s, Stored(x).from) /\ Known(s, Stored(x).to)
    BY <1>2 DEF Linkable, Stored
  <2>5. Tables(t)
    BY <2>2 DEF Sound, Tables
  <2>6. Linked(t)
    BY <2>2, <2>3, <2>4 DEF Sound, Linked
  <2>7. Rows(t)
    BY <2>2 DEF Sound, Rows
  <2> QED BY <1>2, <2>2, <2>5, <2>6, <2>7 DEF Sound, t, NamesSame, MarksSame, RestSame
<1> QED BY <1>1, <1>2

\* A statement of the state section sets one mark.
MarkWritten(s, t, u, d) ==
  t.mark = IF Known(s, Norm[d.key])
           THEN [s.mark EXCEPT ![u] = [s.mark[u] EXCEPT ![Norm[d.key]] = d.mark]]
           ELSE s.mark

LEMMA MarkIsSound ==
  ASSUME NEW s, Sound(s), NEW e, NEW d, d.mark \in {Weak, Strong}
  PROVE  LET t == Mark(e, s, d)
         IN /\ Sound(t)
            /\ NamesSame(s, t) /\ EdgesSame(s, t) /\ RestSame(s, t)
            /\ MarkWritten(s, t, e.user, d)
<1>1. CASE ~Known(s, Norm[d.key])
  BY <1>1 DEF Mark, NamesSame, EdgesSame, RestSame, MarkWritten
<1>2. CASE Known(s, Norm[d.key])
  <2> DEFINE k == Norm[d.key]
             t == Mark(e, s, d)
             row == [s.mark[e.user] EXCEPT ![k] = d.mark]
             Marks == {Weak, Strong, NoMark}
  <2>1. t = [s EXCEPT !.mark = [s.mark EXCEPT ![e.user] = row]]
    BY <1>2 DEF Mark
  <2>2. /\ IsStore(t) /\ t.mark = [s.mark EXCEPT ![e.user] = row]
        /\ t.name = s.name /\ t.edge = s.edge
        /\ t.obs = s.obs /\ t.traits = s.traits /\ t.summary = s.summary
    BY <2>1 DEF Sound, Tables, IsStore
  <2> HIDE DEF t
  <2>3. \A n : Known(t, n) <=> Known(s, n)
    BY <2>2 DEF Known
  <2>4. t.mark \in [Learners -> [Keys -> Marks]]
    <3>1. s.mark \in [Learners -> [Keys -> Marks]] /\ d.mark \in Marks
      BY DEF Sound, Tables
    <3> HIDE DEF Marks, k
    <3>2. e.user \in Learners => row \in [Keys -> Marks]
      BY <3>1
    <3> HIDE DEF row
    <3> QED BY <2>2, <3>1, <3>2
  <2>5. \A v \in Learners, n \in Keys : t.mark[v][n] = s.mark[v][n] \/ n = k
    BY <2>2 DEF Sound, Tables
  <2>6. Tables(t)
    BY <2>2, <2>4 DEF Sound, Tables
  <2>7. Linked(t)
    BY <2>2, <2>3, <2>5, <1>2 DEF Sound, Linked
  <2>8. Rows(t)
    BY <2>2 DEF Sound, Rows
  <2> QED BY <1>2, <2>2, <2>6, <2>7, <2>8 DEF Sound, t, NamesSame, EdgesSame, RestSame, MarkWritten
<1> QED BY <1>1, <1>2

\* A section that touches neither concepts, edges nor marks keeps the tables
\* sound when the row it writes is one.
LEMMA RestIsSound ==
  ASSUME NEW s, Sound(s), NEW t, IsStore(t), NamesSame(s, t), MarksSame(s, t), EdgesSame(s, t),
         Rows(t)
  PROVE  Sound(t)
BY DEF Sound, Tables, Linked, Known, NamesSame, MarksSame, EdgesSame

LEMMA ObserveIsSound ==
  ASSUME NEW s, Sound(s), NEW e, e.observations \in Nat
  PROVE  LET t == Observe(s, e)
         IN /\ Sound(t)
            /\ NamesSame(s, t) /\ EdgesSame(s, t) /\ MarksSame(s, t)
            /\ t.obs = [s.obs EXCEPT ![e.user] = s.obs[e.user] + e.observations]
            /\ t.traits = s.traits /\ t.summary = s.summary
<1> DEFINE t == Observe(s, e)
<1>1. t = [s EXCEPT !.obs = [s.obs EXCEPT ![e.user] = s.obs[e.user] + e.observations]]
  BY DEF Observe
<1>2. /\ IsStore(t)
      /\ NamesSame(s, t) /\ EdgesSame(s, t) /\ MarksSame(s, t)
      /\ t.obs = [s.obs EXCEPT ![e.user] = s.obs[e.user] + e.observations]
      /\ t.traits = s.traits /\ t.summary = s.summary
  BY <1>1 DEF Sound, Tables, IsStore, NamesSame, EdgesSame, MarksSame
<1> HIDE DEF t
<1>3. t.obs \in [Learners -> Nat]
  <2>1. s.obs \in [Learners -> Nat]
    BY DEF Sound, Rows
  <2>2. e.user \in Learners => s.obs[e.user] + e.observations \in Nat
    BY <2>1
  <2> QED BY <1>2, <2>1, <2>2
<1>4. Rows(t)
  BY <1>2, <1>3 DEF Sound, Rows
<1>5. Sound(t)
  BY <1>2, <1>4, RestIsSound
<1> QED BY <1>2, <1>5 DEF t

LEMMA ObserveNone ==
  ASSUME NEW s, Sound(s), NEW e, e.observations = 0
  PROVE  Observe(s, e) = s
<1>1. s.obs \in [Learners -> Nat]
  BY DEF Sound, Rows
<1>2. [s.obs EXCEPT ![e.user] = s.obs[e.user] + e.observations] = s.obs
  BY <1>1
<1>3. Observe(s, e) = [s EXCEPT !.obs = s.obs]
  BY <1>2 DEF Observe
<1> QED BY <1>3 DEF Sound, Tables, IsStore

LEMMA MergeIsSound ==
  ASSUME NEW s, Sound(s), NEW e, NEW r
  PROVE  LET t == MergeTraits(s, e, r)
         IN /\ Sound(t)
            /\ NamesSame(s, t) /\ EdgesSame(s, t) /\ MarksSame(s, t)
            /\ t.traits = IF e.traits = <<>> THEN s.traits
                          ELSE [s.traits EXCEPT ![e.user] = Merge(r, e.traits)]
            /\ t.obs = s.obs /\ t.summary = s.summary
<1>1. CASE e.traits = <<>>
  BY <1>1 DEF MergeTraits, NamesSame, EdgesSame, MarksSame
<1>2. CASE e.traits # <<>>
  <2> DEFINE t == MergeTraits(s, e, r)
             row == Merge(r, e.traits)
  <2>1. t = [s EXCEPT !.traits = [s.traits EXCEPT ![e.user] = row]]
    BY <1>2 DEF MergeTraits
  <2>2. IsMap(row)
    BY DEF IsMap, Merge
  <2> HIDE DEF row
  <2>3. /\ IsStore(t)
        /\ NamesSame(s, t) /\ EdgesSame(s, t) /\ MarksSame(s, t)
        /\ t.traits = [s.traits EXCEPT ![e.user] = row]
        /\ t.obs = s.obs /\ t.summary = s.summary
    BY <2>1 DEF Sound, Tables, IsStore, NamesSame, EdgesSame, MarksSame
  <2> HIDE DEF t
  <2>4. Rows(t)
    BY <2>2, <2>3 DEF Sound, Rows
  <2>5. Sound(t)
    BY <2>3, <2>4, RestIsSound
  <2> QED BY <1>2, <2>3, <2>5 DEF t, row
<1> QED BY <1>1, <1>2

LEMMA SummariseIsSound ==
  ASSUME NEW s, Sound(s), NEW e
  PROVE  LET t == Summarise(s, e)
         IN /\ Sound(t)
            /\ NamesSame(s, t) /\ EdgesSame(s, t) /\ MarksSame(s, t)
            /\ t.summary = IF e.summary = NoSummary THEN s.summary
                           ELSE [s.summary EXCEPT ![e.user] = e.summary]
            /\ t.obs = s.obs /\ t.traits = s.traits
<1>1. CASE e.summary = NoSummary
  BY <1>1 DEF Summarise, NamesSame, EdgesSame, MarksSame
<1>2. CASE e.summary # NoSummary
  <2> DEFINE t == Summarise(s, e)
  <2>1. t = [s EXCEPT !.summary = [s.summary EXCEPT ![e.user] = e.summary]]
    BY <1>2 DEF Summarise
  <2>2. /\ IsStore(t)
        /\ NamesSame(s, t) /\ EdgesSame(s, t) /\ MarksSame(s, t)
        /\ t.summary = [s.summary EXCEPT ![e.user] = e.summary]
        /\ t.obs = s.obs /\ t.traits = s.traits
    BY <2>1 DEF Sound, Tables, IsStore, NamesSame, EdgesSame, MarksSame
  <2> HIDE DEF t
  <2>3. Rows(t)
    BY <2>2 DEF Sound, Rows
  <2>4. Sound(t)
    BY <2>2, <2>3, RestIsSound
  <2> QED BY <1>2, <2>2, <2>4 DEF t
<1> QED BY <1>1, <1>2

LEMMA EmptyIsSound == Sound(EmptyStore)
<1>1. IsMap(<<>>)
  BY DEF IsMap
<1> QED BY <1>1, StoreAssumption DEF EmptyStore, Sound, Tables, IsStore, Linked, Known, Rows

-----------------------------------------------------------------------------
(* What the items of an evaluation look like.                              *)

LEMMA TruncateIsSeq ==
  ASSUME NEW S, NEW q \in Seq(S), NEW n \in Nat
  PROVE  Truncate(q, n) \in Seq(S)
<1> DEFINE m == IF Len(q) < n THEN Len(q) ELSE n
<1>1. Len(q) \in Nat /\ m \in Nat /\ m <= Len(q)
  BY LenProperties
<1>2. \A i \in 1..m : q[i] \in S
  BY <1>1, ElementOfSeq
<1> HIDE DEF m
<1>3. SubSeq(q, 1, m) \in Seq(S)
  BY <1>1, <1>2, SubSeqProperties
<1> QED BY <1>3 DEF Truncate, m

EdgeItems == [from : RawKeys, to : RawKeys, relation : {"prerequisite", "related"}]

IsApplied(e) ==
  /\ e.user \in Learners
  /\ e.upserts \in Seq([key : RawKeys, name : Names])
  /\ e.edges \in Seq(EdgeItems)
  /\ e.observations \in Nat
  /\ e.deltas \in Seq([key : RawKeys, mark : {Weak, Strong}])

LEMMA AppliedTypes == ASSUME NEW e \in Applied PROVE IsApplied(e)
<1>1. ASSUME NEW f \in Evals PROVE IsApplied(f)
  BY EvalsAssumption DEF IsApplied, EdgeItems
<1>2. ASSUME NEW f \in Evals PROVE IsApplied(Validated(f))
  <2> DEFINE v == Validated(f)
  <2>1. /\ v.user = f.user /\ v.deltas = f.deltas
        /\ v.upserts = Truncate(f.upserts, MaxConcepts)
        /\ v.edges = Truncate(f.edges, MaxConcepts)
        /\ v.observations = IF f.observations < MaxObservations THEN f.observations
                            ELSE MaxObservations
    BY EvalsAssumption DEF Validated
  <2>2. MaxConcepts \in Nat /\ MaxObservations \in Nat
    BY StoreAssumption
  <2>3. v.upserts \in Seq([key : RawKeys, name : Names])
    BY <1>1, <2>1, <2>2, TruncateIsSeq DEF IsApplied
  <2>4. v.edges \in Seq(EdgeItems)
    BY <1>1, <2>1, <2>2, TruncateIsSeq DEF IsApplied
  <2> HIDE DEF v
  <2>5. v.observations \in Nat
    BY <1>1, <2>1, <2>2 DEF IsApplied
  <2>6. IsApplied(v)
    BY <1>1, <2>1, <2>3, <2>4, <2>5 DEF IsApplied
  <2> QED BY <2>6 DEF v
<1> QED BY <1>1, <1>2 DEF Applied

-----------------------------------------------------------------------------
(* What the three loops compute, by induction on their steps.              *)

UpsertSteps == INSTANCE Loop_proofs WITH Body <- Upsert
LinkSteps == INSTANCE Loop_proofs WITH Body <- Link
MarkSteps == INSTANCE Loop_proofs WITH Body <- Mark

\* The tables after n steps of each loop.
UpsertsDone(s, e, n) == Upserting!After(e, s, e.upserts, n)
EdgesDone(s, e, n) == Linking!After(e, s, e.edges, n)
MarksDone(s, e, n) == Marking!After(e, s, e.deltas, n)

UpsertAt(e, i) == e.upserts[i]
EdgeAt(e, i) == e.edges[i]
DeltaAt(e, i) == e.deltas[i]

LEMMA UpsertsNext ==
  ASSUME NEW s, NEW e
  PROVE  /\ UpsertsDone(s, e, 0) = s
         /\ \A n \in Nat : UpsertsDone(s, e, n + 1) = Upsert(e, UpsertsDone(s, e, n), UpsertAt(e, n + 1))
<1>1. \A n : UpsertsDone(s, e, n) = UpsertSteps!After(e, s, e.upserts, n)
  BY Zenon DEF UpsertsDone, Upserting!After, UpsertSteps!After
<1>2. UpsertsDone(s, e, 0) = s
  BY <1>1, UpsertSteps!AfterNone
<1>3. ASSUME NEW n \in Nat
      PROVE  UpsertsDone(s, e, n + 1) = Upsert(e, UpsertsDone(s, e, n), UpsertAt(e, n + 1))
  <2>1. UpsertSteps!After(e, s, e.upserts, n + 1)
        = Upsert(e, UpsertSteps!After(e, s, e.upserts, n), e.upserts[n + 1])
    BY UpsertSteps!AfterNext
  <2> QED BY <1>1, <2>1 DEF UpsertAt
<1> QED BY <1>2, <1>3

LEMMA UpsertsAll ==
  ASSUME NEW s, NEW e
  PROVE  UpsertConcepts(s, e) = UpsertsDone(s, e, Len(e.upserts))
BY Zenon DEF UpsertConcepts, UpsertsDone, Upserting!Loop

LEMMA EdgesNext ==
  ASSUME NEW s, NEW e
  PROVE  /\ EdgesDone(s, e, 0) = s
         /\ \A n \in Nat : EdgesDone(s, e, n + 1) = Link(e, EdgesDone(s, e, n), EdgeAt(e, n + 1))
<1>1. \A n : EdgesDone(s, e, n) = LinkSteps!After(e, s, e.edges, n)
  BY Zenon DEF EdgesDone, Linking!After, LinkSteps!After
<1>2. EdgesDone(s, e, 0) = s
  BY <1>1, LinkSteps!AfterNone
<1>3. ASSUME NEW n \in Nat
      PROVE  EdgesDone(s, e, n + 1) = Link(e, EdgesDone(s, e, n), EdgeAt(e, n + 1))
  <2>1. LinkSteps!After(e, s, e.edges, n + 1)
        = Link(e, LinkSteps!After(e, s, e.edges, n), e.edges[n + 1])
    BY LinkSteps!AfterNext
  <2> QED BY <1>1, <2>1 DEF EdgeAt
<1> QED BY <1>2, <1>3

LEMMA EdgesAll ==
  ASSUME NEW s, NEW e
  PROVE  LinkConcepts(s, e) = EdgesDone(s, e, Len(e.edges))
BY Zenon DEF LinkConcepts, EdgesDone, Linking!Loop

LEMMA MarksNext ==
  ASSUME NEW s, NEW e
  PROVE  /\ MarksDone(s, e, 0) = s
         /\ \A n \in Nat : MarksDone(s, e, n + 1) = Mark(e, MarksDone(s, e, n), DeltaAt(e, n + 1))
<1>1. \A n : MarksDone(s, e, n) = MarkSteps!After(e, s, e.deltas, n)
  BY Zenon DEF MarksDone, Marking!After, MarkSteps!After
<1>2. MarksDone(s, e, 0) = s
  BY <1>1, MarkSteps!AfterNone
<1>3. ASSUME NEW n \in Nat
      PROVE  MarksDone(s, e, n + 1) = Mark(e, MarksDone(s, e, n), DeltaAt(e, n + 1))
  <2>1. MarkSteps!After(e, s, e.deltas, n + 1)
        = Mark(e, MarkSteps!After(e, s, e.deltas, n), e.deltas[n + 1])
    BY MarkSteps!AfterNext
  <2> QED BY <1>1, <2>1 DEF DeltaAt
<1> QED BY <1>2, <1>3

LEMMA MarksAll ==
  ASSUME NEW s, NEW e
  PROVE  SetMarks(s, e) = MarksDone(s, e, Len(e.deltas))
BY Zenon DEF SetMarks, MarksDone, Marking!Loop

\* The upserts so far that name concept k, the edges so far that have both
\* their concepts, the deltas so far of concept k.
NamesOf(e, n, k) == {i \in 1..n : Norm[e.upserts[i].key] = k}
LinksOf(s, e, n) == {Stored(y) : y \in {z \in {e.edges[i] : i \in 1..n} : Linkable(s, z)}}
StatesOf(e, n, k) == {i \in 1..n : Norm[e.deltas[i].key] = k}

IsLast(i, I) == i \in I /\ \A j \in I : j <= i

\* The last upsert of a concept wins; a concept that none names keeps its name.
NamesWritten(s, t, e, n) ==
  /\ \A k \in Keys : NamesOf(e, n, k) = {} => t.name[k] = s.name[k]
  /\ \A k \in Keys : \A i \in 1..n : IsLast(i, NamesOf(e, n, k)) => t.name[k] = e.upserts[i].name

LEMMA UpsertsWritten ==
  ASSUME NEW s, Sound(s), NEW e, IsApplied(e), NEW m \in 0..Len(e.upserts)
  PROVE  /\ Sound(UpsertsDone(s, e, m)) /\ NamesWritten(s, UpsertsDone(s, e, m), e, m)
         /\ EdgesSame(s, UpsertsDone(s, e, m)) /\ MarksSame(s, UpsertsDone(s, e, m))
         /\ RestSame(s, UpsertsDone(s, e, m))
<1> DEFINE Good(t, n) == /\ Sound(t) /\ NamesWritten(s, t, e, n)
                         /\ EdgesSame(s, t) /\ MarksSame(s, t) /\ RestSame(s, t)
           T == {n \in Nat : n <= Len(e.upserts) => Good(UpsertsDone(s, e, n), n)}
<1>0. Len(e.upserts) \in Nat /\ m \in Nat /\ m <= Len(e.upserts)
  BY LenProperties DEF IsApplied
<1>1. 0 \in T
  <2>1. 1..0 = {}
    OBVIOUS
  <2>2. Good(s, 0)
    BY <2>1 DEF NamesWritten, NamesOf, IsLast, EdgesSame, MarksSame, RestSame
  <2> HIDE DEF Good
  <2> QED BY <2>2, UpsertsNext
<1>2. ASSUME NEW n \in Nat, n \in T PROVE n + 1 \in T
  <2> SUFFICES ASSUME n + 1 <= Len(e.upserts) PROVE Good(UpsertsDone(s, e, n + 1), n + 1)
    OBVIOUS
  <2> DEFINE t == UpsertsDone(s, e, n)
             c == e.upserts[n + 1]
             u == Upsert(e, t, c)
             k0 == Norm[c.key]
  <2>1. Good(t, n)
    BY <1>0, <1>2
  <2>2. n + 1 \in 1..Len(e.upserts)
    BY <1>0
  <2>3. c \in [key : RawKeys, name : Names]
    BY <2>2, ElementOfSeq DEF IsApplied
  <2>4. UpsertsDone(s, e, n + 1) = u
    <3>1. UpsertsDone(s, e, n + 1) = Upsert(e, t, UpsertAt(e, n + 1))
      BY UpsertsNext
    <3> QED BY <3>1 DEF UpsertAt
  <2>5. c.name \in Names
    BY <2>3
  <2> HIDE DEF c, t
  <2>6. /\ Sound(u) /\ EdgesSame(t, u) /\ MarksSame(t, u) /\ RestSame(t, u)
        /\ u.name = IF k0 = NoKey THEN t.name ELSE [t.name EXCEPT ![k0] = c.name]
    BY <2>1, <2>5, UpsertIsSound
  <2> HIDE DEF u
  <2>7. NamesWritten(s, u, e, n + 1)
    <3>1. \A k : NamesOf(e, n + 1, k) = NamesOf(e, n, k) \cup (IF k0 = k THEN {n + 1} ELSE {})
      <4>1. 1..(n + 1) = (1..n) \cup {n + 1}
        OBVIOUS
      <4> QED BY <4>1 DEF NamesOf, c
    <3>2. t.name \in [Keys -> Names \cup {NoName}]
      BY <2>1 DEF Sound, Tables
    <3>3. NoKey \notin Keys
      BY StoreAssumption
    <3>4. NamesWritten(s, t, e, n)
      BY <2>1
    <3>5. \A k : NamesOf(e, n, k) \subseteq 1..n
      BY DEF NamesOf
    <3>6. ASSUME NEW k \in Keys, NamesOf(e, n + 1, k) = {} PROVE u.name[k] = s.name[k]
      <4>1. NamesOf(e, n, k) = {} /\ k # k0
        BY <3>1, <3>6
      <4>2. t.name[k] = s.name[k]
        BY <3>4, <4>1 DEF NamesWritten
      <4> QED BY <2>6, <3>2, <4>1, <4>2
    <3>7. ASSUME NEW k \in Keys, NEW i \in 1..(n + 1), IsLast(i, NamesOf(e, n + 1, k))
          PROVE  u.name[k] = e.upserts[i].name
      <4>1. CASE k = k0
        <5>1. n + 1 \in NamesOf(e, n + 1, k)
          BY <3>1, <4>1
        <5>2. i = n + 1
          BY <3>7, <5>1 DEF IsLast
        <5> QED BY <2>6, <3>2, <3>3, <4>1, <5>2 DEF c
      <4>2. CASE k # k0
        <5>1. NamesOf(e, n + 1, k) = NamesOf(e, n, k)
          BY <3>1, <4>2
        <5>2. i \in 1..n /\ IsLast(i, NamesOf(e, n, k))
          BY <3>5, <3>7, <5>1 DEF IsLast
        <5>3. t.name[k] = e.upserts[i].name
          BY <3>4, <5>2 DEF NamesWritten
        <5> QED BY <2>6, <3>2, <4>2, <5>3
      <4> QED BY <4>1, <4>2
    <3> QED BY <3>6, <3>7 DEF NamesWritten
  <2>8. EdgesSame(s, u) /\ MarksSame(s, u) /\ RestSame(s, u)
    BY <2>1, <2>6 DEF EdgesSame, MarksSame, RestSame
  <2> QED BY <2>4, <2>6, <2>7, <2>8
<1> HIDE DEF T
<1>3. m \in T
  BY <1>0, <1>1, <1>2, UpsertSteps!Induction
<1> QED BY <1>0, <1>3 DEF T

\* The edges section adds the edges whose concepts both exist.
LEMMA EdgesWritten ==
  ASSUME NEW s, Sound(s), NEW e, IsApplied(e), NEW m \in 0..Len(e.edges)
  PROVE  LET t == EdgesDone(s, e, m)
         IN /\ Sound(t)
            /\ NamesSame(s, t) /\ MarksSame(s, t) /\ RestSame(s, t)
            /\ t.edge = s.edge \cup LinksOf(s, e, m)
<1> DEFINE Good(t, n) == /\ Sound(t)
                         /\ NamesSame(s, t) /\ MarksSame(s, t) /\ RestSame(s, t)
                         /\ t.edge = s.edge \cup LinksOf(s, e, n)
           T == {n \in Nat : Good(EdgesDone(s, e, n), n)}
<1>1. 0 \in T
  <2>1. 1..0 = {}
    OBVIOUS
  <2>2. LinksOf(s, e, 0) = {}
    BY <2>1 DEF LinksOf
  <2>3. Good(s, 0)
    BY <2>2 DEF NamesSame, MarksSame, RestSame
  <2> HIDE DEF Good
  <2> QED BY <2>3, EdgesNext
<1>2. ASSUME NEW n \in Nat, n \in T PROVE n + 1 \in T
  <2> DEFINE t == EdgesDone(s, e, n)
             x == EdgeAt(e, n + 1)
             u == Link(e, t, x)
  <2>1. Good(t, n)
    BY <1>2
  <2>2. EdgesDone(s, e, n + 1) = u
    BY EdgesNext
  <2> HIDE DEF x, t
  <2>3. /\ Sound(u) /\ NamesSame(t, u) /\ MarksSame(t, u) /\ RestSame(t, u)
        /\ u.edge = t.edge \cup {Stored(y) : y \in {z \in {x} : Linkable(t, z)}}
    BY <2>1, LinkIsSound
  <2> HIDE DEF u
  <2>4. \A z : Linkable(t, z) <=> Linkable(s, z)
    BY <2>1 DEF NamesSame, Linkable, Known
  <2>5. LinksOf(s, e, n + 1) = LinksOf(s, e, n) \cup {Stored(y) : y \in {z \in {x} : Linkable(s, z)}}
    <3>1. 1..(n + 1) = (1..n) \cup {n + 1}
      OBVIOUS
    <3> QED BY <3>1 DEF LinksOf, x, EdgeAt
  <2>6. u.edge = s.edge \cup LinksOf(s, e, n + 1)
    BY <2>1, <2>3, <2>4, <2>5
  <2>7. NamesSame(s, u) /\ MarksSame(s, u) /\ RestSame(s, u)
    BY <2>1, <2>3 DEF NamesSame, MarksSame, RestSame
  <2> QED BY <2>2, <2>3, <2>6, <2>7
<1> HIDE DEF T
<1>3. m \in T
  BY <1>1, <1>2, LinkSteps!Induction
<1> QED BY <1>3 DEF T

\* The last delta of a concept that exists sets its mark; every other mark,
\* and the marks of other learners, stay.
StatesWritten(s, t, e, n) ==
  /\ \A u \in Learners, k \in Keys :
       u # e.user \/ s.name[k] = NoName \/ StatesOf(e, n, k) = {} => t.mark[u][k] = s.mark[u][k]
  /\ \A k \in Keys : \A i \in 1..n :
       s.name[k] # NoName /\ IsLast(i, StatesOf(e, n, k)) => t.mark[e.user][k] = e.deltas[i].mark

LEMMA MarksAreWritten ==
  ASSUME NEW s, Sound(s), NEW e, IsApplied(e), NEW m \in 0..Len(e.deltas)
  PROVE  /\ Sound(MarksDone(s, e, m)) /\ StatesWritten(s, MarksDone(s, e, m), e, m)
         /\ NamesSame(s, MarksDone(s, e, m)) /\ EdgesSame(s, MarksDone(s, e, m))
         /\ RestSame(s, MarksDone(s, e, m))
<1> DEFINE Good(t, n) == /\ Sound(t) /\ StatesWritten(s, t, e, n)
                         /\ NamesSame(s, t) /\ EdgesSame(s, t) /\ RestSame(s, t)
           T == {n \in Nat : n <= Len(e.deltas) => Good(MarksDone(s, e, n), n)}
<1>0. Len(e.deltas) \in Nat /\ m \in Nat /\ m <= Len(e.deltas)
  BY LenProperties DEF IsApplied
<1>1. 0 \in T
  <2>1. 1..0 = {}
    OBVIOUS
  <2>2. Good(s, 0)
    BY <2>1 DEF StatesWritten, StatesOf, IsLast, NamesSame, EdgesSame, RestSame
  <2> HIDE DEF Good
  <2> QED BY <2>2, MarksNext
<1>2. ASSUME NEW n \in Nat, n \in T PROVE n + 1 \in T
  <2> SUFFICES ASSUME n + 1 <= Len(e.deltas) PROVE Good(MarksDone(s, e, n + 1), n + 1)
    OBVIOUS
  <2> DEFINE t == MarksDone(s, e, n)
             d == DeltaAt(e, n + 1)
             k0 == Norm[d.key]
             v == Mark(e, t, d)
  <2>1. Good(t, n)
    BY <1>0, <1>2
  <2>2. n + 1 \in 1..Len(e.deltas)
    BY <1>0
  <2>3. d \in [key : RawKeys, mark : {Weak, Strong}]
    BY <2>2, ElementOfSeq DEF IsApplied, DeltaAt
  <2>4. MarksDone(s, e, n + 1) = v
    BY MarksNext
  <2>5. d.mark \in {Weak, Strong}
    BY <2>3
  <2> HIDE DEF d, t
  <2>6. /\ Sound(v) /\ NamesSame(t, v) /\ EdgesSame(t, v) /\ RestSame(t, v)
        /\ MarkWritten(t, v, e.user, d)
    BY <2>1, <2>5, MarkIsSound
  <2> HIDE DEF v
  <2>7. StatesWritten(s, v, e, n + 1)
    <3> DEFINE Marks == {Weak, Strong, NoMark}
    <3>1. \A k : StatesOf(e, n + 1, k) = StatesOf(e, n, k) \cup (IF k0 = k THEN {n + 1} ELSE {})
      <4>1. 1..(n + 1) = (1..n) \cup {n + 1}
        OBVIOUS
      <4> QED BY <4>1 DEF StatesOf, d, DeltaAt
    <3>2. t.mark \in [Learners -> [Keys -> Marks]] /\ e.user \in Learners
      BY <2>1 DEF Sound, Tables, IsApplied
    <3>3. StatesWritten(s, t, e, n) /\ t.name = s.name
      BY <2>1 DEF NamesSame
    <3>4. \A k : StatesOf(e, n, k) \subseteq 1..n
      BY DEF StatesOf
    <3> HIDE DEF Marks, k0
    <3>5. \A u \in Learners, k \in Keys :
            v.mark[u][k] = IF u = e.user /\ k = k0 /\ s.name[k] # NoName THEN d.mark
                           ELSE t.mark[u][k]
      <4>1. k0 = Norm[d.key]
        BY DEF k0
      <4>2. CASE Known(t, k0)
        <5> DEFINE row == [t.mark[e.user] EXCEPT ![k0] = d.mark]
        <5>1. v.mark = [t.mark EXCEPT ![e.user] = row]
          BY <2>6, <4>1, <4>2 DEF MarkWritten
        <5>2. k0 \in Keys /\ s.name[k0] # NoName
          BY <3>3, <4>2 DEF Known
        <5>3. \A k \in Keys : row[k] = IF k = k0 THEN d.mark ELSE t.mark[e.user][k]
          BY <3>2
        <5> HIDE DEF row
        <5>4. \A u \in Learners : v.mark[u] = IF u = e.user THEN row ELSE t.mark[u]
          BY <3>2, <5>1
        <5> QED BY <5>2, <5>3, <5>4
      <4>3. CASE ~Known(t, k0)
        <5>1. v.mark = t.mark
          BY <2>6, <4>1, <4>3 DEF MarkWritten
        <5>2. \A k \in Keys : k = k0 => s.name[k] = NoName
          BY <3>3, <4>3 DEF Known
        <5> QED BY <5>1, <5>2
      <4> QED BY <4>2, <4>3
    <3>6. ASSUME NEW u \in Learners, NEW k \in Keys,
                 u # e.user \/ s.name[k] = NoName \/ StatesOf(e, n + 1, k) = {}
          PROVE  v.mark[u][k] = s.mark[u][k]
      <4>1. u # e.user \/ s.name[k] = NoName \/ StatesOf(e, n, k) = {}
        BY <3>1, <3>6
      <4>2. t.mark[u][k] = s.mark[u][k]
        BY <3>3, <4>1 DEF StatesWritten
      <4>3. ~ (u = e.user /\ k = k0 /\ s.name[k] # NoName)
        BY <3>1, <3>6
      <4> QED BY <3>5, <4>2, <4>3
    <3>7. ASSUME NEW k \in Keys, NEW i \in 1..(n + 1), s.name[k] # NoName,
                 IsLast(i, StatesOf(e, n + 1, k))
          PROVE  v.mark[e.user][k] = e.deltas[i].mark
      <4>1. CASE k = k0
        <5>1. n + 1 \in StatesOf(e, n + 1, k)
          BY <3>1, <4>1
        <5>2. i = n + 1
          BY <3>7, <5>1 DEF IsLast
        <5>3. v.mark[e.user][k] = d.mark
          BY <3>2, <3>5, <3>7, <4>1
        <5> QED BY <5>2, <5>3 DEF d, DeltaAt
      <4>2. CASE k # k0
        <5>1. StatesOf(e, n + 1, k) = StatesOf(e, n, k)
          BY <3>1, <4>2
        <5>2. i \in 1..n /\ IsLast(i, StatesOf(e, n, k))
          BY <3>4, <3>7, <5>1 DEF IsLast
        <5>3. t.mark[e.user][k] = e.deltas[i].mark
          BY <3>3, <3>7, <5>2 DEF StatesWritten
        <5> QED BY <3>2, <3>5, <4>2, <5>3
      <4> QED BY <4>1, <4>2
    <3> QED BY <3>6, <3>7 DEF StatesWritten
  <2>8. NamesSame(s, v) /\ EdgesSame(s, v) /\ RestSame(s, v)
    BY <2>1, <2>6 DEF NamesSame, EdgesSame, RestSame
  <2> QED BY <2>4, <2>6, <2>7, <2>8
<1> HIDE DEF T
<1>3. m \in T
  BY <1>0, <1>1, <1>2, MarkSteps!Induction
<1> QED BY <1>0, <1>3 DEF T

-----------------------------------------------------------------------------
(* What a whole evaluation computes.                                       *)

Observed(s, e) == Observe(LinkConcepts(UpsertConcepts(s, e), e), e)
AllMarked(s, e) == SetMarks(Observed(s, e), e)
Merged(s, e) == MergeTraits(AllMarked(s, e), e, AllMarked(s, e).traits[e.user])

LEMMA WholeIsThis == ASSUME NEW s, NEW e PROVE Whole(s, e) = Summarise(Merged(s, e), e)
BY DEF Whole, Merged, AllMarked, Observed

LEMMA UpsertConceptsIs ==
  ASSUME NEW s, Sound(s), NEW e, IsApplied(e)
  PROVE  LET t == UpsertConcepts(s, e)
         IN /\ Sound(t) /\ EdgesSame(s, t) /\ MarksSame(s, t) /\ RestSame(s, t)
            /\ NamesWritten(s, t, e, Len(e.upserts))
<1>1. Len(e.upserts) \in 0..Len(e.upserts)
  BY LenProperties DEF IsApplied
<1> QED BY <1>1, UpsertsWritten, UpsertsAll

LEMMA LinkConceptsIs ==
  ASSUME NEW s, Sound(s), NEW e, IsApplied(e)
  PROVE  LET t == LinkConcepts(s, e)
         IN /\ Sound(t) /\ NamesSame(s, t) /\ MarksSame(s, t) /\ RestSame(s, t)
            /\ t.edge = s.edge \cup LinksOf(s, e, Len(e.edges))
<1>1. Len(e.edges) \in 0..Len(e.edges)
  BY LenProperties DEF IsApplied
<1> QED BY <1>1, EdgesWritten, EdgesAll

LEMMA SetMarksIs ==
  ASSUME NEW s, Sound(s), NEW e, IsApplied(e)
  PROVE  LET t == SetMarks(s, e)
         IN /\ Sound(t) /\ NamesSame(s, t) /\ EdgesSame(s, t) /\ RestSame(s, t)
            /\ StatesWritten(s, t, e, Len(e.deltas))
<1>1. Len(e.deltas) \in 0..Len(e.deltas)
  BY LenProperties DEF IsApplied
<1> QED BY <1>1, MarksAreWritten, MarksAll

LEMMA ObservedIs ==
  ASSUME NEW s, Sound(s), NEW e, IsApplied(e)
  PROVE  LET u == UpsertConcepts(s, e)
             o == Observed(s, e)
         IN /\ Sound(o) /\ NamesSame(u, o) /\ MarksSame(s, o)
            /\ o.edge = s.edge \cup LinksOf(u, e, Len(e.edges))
            /\ o.obs = [s.obs EXCEPT ![e.user] = s.obs[e.user] + e.observations]
            /\ o.traits = s.traits /\ o.summary = s.summary
<1> DEFINE u == UpsertConcepts(s, e)
           l == LinkConcepts(u, e)
           o == Observe(l, e)
<1>1. Sound(u) /\ EdgesSame(s, u) /\ MarksSame(s, u) /\ RestSame(s, u)
  BY UpsertConceptsIs
<1> HIDE DEF u
<1>2. /\ Sound(l) /\ NamesSame(u, l) /\ MarksSame(u, l) /\ RestSame(u, l)
      /\ l.edge = u.edge \cup LinksOf(u, e, Len(e.edges))
  BY <1>1, LinkConceptsIs
<1> HIDE DEF l
<1>3. e.observations \in Nat
  BY DEF IsApplied
<1>4. /\ Sound(o) /\ NamesSame(l, o) /\ EdgesSame(l, o) /\ MarksSame(l, o)
      /\ o.obs = [l.obs EXCEPT ![e.user] = l.obs[e.user] + e.observations]
      /\ o.traits = l.traits /\ o.summary = l.summary
  BY <1>2, <1>3, ObserveIsSound
<1> HIDE DEF o
<1>5. o = Observed(s, e)
  BY DEF o, l, u, Observed
<1>6. /\ Sound(o) /\ NamesSame(u, o) /\ MarksSame(s, o)
      /\ o.edge = s.edge \cup LinksOf(u, e, Len(e.edges))
      /\ o.obs = [s.obs EXCEPT ![e.user] = s.obs[e.user] + e.observations]
      /\ o.traits = s.traits /\ o.summary = s.summary
  BY <1>1, <1>2, <1>4 DEF NamesSame, EdgesSame, MarksSame, RestSame
<1> QED BY <1>5, <1>6 DEF u

\* The tables after a whole evaluation.
LEMMA WholeIs ==
  ASSUME NEW s, Sound(s), NEW e, IsApplied(e)
  PROVE  LET u == UpsertConcepts(s, e)
             t == Whole(s, e)
         IN /\ Sound(t) /\ NamesSame(u, t)
            /\ t.edge = s.edge \cup LinksOf(u, e, Len(e.edges))
            /\ t.obs = [s.obs EXCEPT ![e.user] = s.obs[e.user] + e.observations]
            /\ StatesWritten(Observed(s, e), t, e, Len(e.deltas))
            /\ t.traits = IF e.traits = <<>> THEN s.traits
                          ELSE [s.traits EXCEPT ![e.user] = Merge(s.traits[e.user], e.traits)]
            /\ t.summary = IF e.summary = NoSummary THEN s.summary
                           ELSE [s.summary EXCEPT ![e.user] = e.summary]
<1> DEFINE u == UpsertConcepts(s, e)
           o == Observed(s, e)
           a == AllMarked(s, e)
           g == Merged(s, e)
           t == Summarise(g, e)
<1>1. /\ Sound(o) /\ NamesSame(u, o)
      /\ o.edge = s.edge \cup LinksOf(u, e, Len(e.edges))
      /\ o.obs = [s.obs EXCEPT ![e.user] = s.obs[e.user] + e.observations]
      /\ o.traits = s.traits /\ o.summary = s.summary
  BY ObservedIs
<1>2. /\ Sound(a) /\ NamesSame(o, a) /\ EdgesSame(o, a) /\ RestSame(o, a)
      /\ StatesWritten(o, a, e, Len(e.deltas))
  <2>1. a = SetMarks(o, e)
    BY DEF AllMarked
  <2> HIDE DEF a, o
  <2> QED BY <1>1, <2>1, SetMarksIs
<1>3. /\ Sound(g) /\ NamesSame(a, g) /\ EdgesSame(a, g) /\ MarksSame(a, g)
      /\ g.traits = IF e.traits = <<>> THEN a.traits
                    ELSE [a.traits EXCEPT ![e.user] = Merge(a.traits[e.user], e.traits)]
      /\ g.obs = a.obs /\ g.summary = a.summary
  <2>1. g = MergeTraits(a, e, a.traits[e.user])
    BY DEF Merged
  <2> HIDE DEF a, g
  <2> QED BY <1>2, <2>1, MergeIsSound
<1>4. /\ Sound(t) /\ NamesSame(g, t) /\ EdgesSame(g, t) /\ MarksSame(g, t)
      /\ t.summary = IF e.summary = NoSummary THEN g.summary
                     ELSE [g.summary EXCEPT ![e.user] = e.summary]
      /\ t.obs = g.obs /\ t.traits = g.traits
  <2> HIDE DEF g
  <2> QED BY <1>3, SummariseIsSound
<1>5. Whole(s, e) = t
  BY WholeIsThis
<1> HIDE DEF u, o, a, g, t
<1>6. StatesWritten(o, t, e, Len(e.deltas))
  BY <1>2, <1>3, <1>4 DEF StatesWritten, MarksSame
<1>7. /\ NamesSame(u, t)
      /\ t.edge = s.edge \cup LinksOf(u, e, Len(e.edges))
      /\ t.obs = [s.obs EXCEPT ![e.user] = s.obs[e.user] + e.observations]
  BY <1>1, <1>2, <1>3, <1>4 DEF NamesSame, EdgesSame, RestSame
<1>8. /\ t.traits = IF e.traits = <<>> THEN s.traits
                    ELSE [s.traits EXCEPT ![e.user] = Merge(s.traits[e.user], e.traits)]
      /\ t.summary = IF e.summary = NoSummary THEN s.summary
                     ELSE [s.summary EXCEPT ![e.user] = e.summary]
  BY <1>1, <1>2, <1>3, <1>4 DEF RestSame
<1> QED BY <1>4, <1>5, <1>6, <1>7, <1>8 DEF u, o

-----------------------------------------------------------------------------
(* Where an application stands between two of its steps.                   *)

\* The first n upserts have keys that normalise to nothing.
Silent(e, n) == \A i \in 1..n : Norm[UpsertAt(e, i).key] = NoKey

\* The transaction began with an upsert: what the worker sees is exactly what
\* the evaluation makes of the committed tables s up to here.
Exact(pc, n, e, s, v, r) ==
  /\ pc = "concepts"     => v = UpsertsDone(s, e, n)
  /\ pc = "edges"        => v = EdgesDone(UpsertConcepts(s, e), e, n)
  /\ pc = "observations" => v = LinkConcepts(UpsertConcepts(s, e), e)
  /\ pc = "state"        => v = MarksDone(Observed(s, e), e, n)
  /\ pc = "traits"       => v = AllMarked(s, e)
  /\ pc = "merge"        => v = AllMarked(s, e) /\ r = AllMarked(s, e).traits[e.user]
  /\ pc = "summary"      => v = Merged(s, e)
  /\ pc = "commit"       => v = Whole(s, e)

AfterObservations == {"state", "traits", "merge", "summary", "commit"}
AfterTraits == {"summary", "commit"}

\* Nothing is upserted: the transaction begins with some later section, and
\* what was looked up before it began was looked up in older tables.
Partly(pc, e, s, v) ==
  /\ NamesSame(s, v)
  /\ s.edge \subseteq v.edge /\ v.edge \subseteq s.edge \cup LinksOf(s, e, Len(e.edges))
  /\ v.obs = IF pc \in AfterObservations
             THEN [s.obs EXCEPT ![e.user] = s.obs[e.user] + e.observations] ELSE s.obs
  /\ pc \in AfterTraits => \A n \in DOMAIN e.traits : v.traits[e.user][n] = e.traits[n]
  /\ v.summary = IF pc = "commit" /\ e.summary # NoSummary
                 THEN [s.summary EXCEPT ![e.user] = e.summary] ELSE s.summary

\* No section up to here had anything to write.
Unwritten(pc, e) ==
  /\ pc \in AfterObservations => e.observations = 0
  /\ pc \in AfterTraits => e.traits = <<>>
  /\ pc = "commit" => e.summary = NoSummary

\* v is what the worker sees, locked whether its transaction has begun.
Progress(pc, n, e, s, v, r, locked) ==
  IF UpsertsFirst(e)
  THEN IF locked THEN Exact(pc, n, e, s, v, r) ELSE pc = "concepts" /\ Silent(e, n)
  ELSE IF locked THEN pc # "concepts" /\ Partly(pc, e, s, v) ELSE Unwritten(pc, e)

LEMMA FirstUpsert ==
  ASSUME NEW e, IsApplied(e)
  PROVE  UpsertsFirst(e) <=> ~Silent(e, Len(e.upserts))
<1>1. DOMAIN e.upserts = 1..Len(e.upserts)
  BY LenProperties DEF IsApplied
<1> QED BY <1>1 DEF UpsertsFirst, Silent, UpsertAt, Range

LEMMA SilentUpserts ==
  ASSUME NEW s, NEW e, NEW m \in Nat, Silent(e, m)
  PROVE  UpsertsDone(s, e, m) = s
<1> DEFINE T == {n \in Nat : n <= m => UpsertsDone(s, e, n) = s}
<1>1. 0 \in T
  BY UpsertsNext
<1>2. ASSUME NEW n \in Nat, n \in T PROVE n + 1 \in T
  <2> SUFFICES ASSUME n + 1 <= m PROVE UpsertsDone(s, e, n + 1) = s
    OBVIOUS
  <2>1. UpsertsDone(s, e, n + 1) = Upsert(e, UpsertsDone(s, e, n), UpsertAt(e, n + 1))
    BY UpsertsNext
  <2>2. n + 1 \in 1..m
    OBVIOUS
  <2>3. Norm[UpsertAt(e, n + 1).key] = NoKey
    BY <2>2 DEF Silent
  <2> QED BY <1>2, <2>1, <2>3 DEF Upsert
<1> HIDE DEF T
<1>3. m \in T
  BY <1>1, <1>2, UpsertSteps!Induction
<1> QED BY <1>3 DEF T

\* A transaction that begins now begins with the committed tables.
LEMMA PartlyNone ==
  ASSUME NEW s, Sound(s), NEW e, IsApplied(e), NEW pc, Unwritten(pc, e)
  PROVE  Partly(pc, e, s, s)
<1>1. pc \in AfterObservations => s.obs = [s.obs EXCEPT ![e.user] = s.obs[e.user] + e.observations]
  <2>1. s.obs \in [Learners -> Nat] /\ e.user \in Learners
    BY DEF Sound, Rows, IsApplied
  <2> SUFFICES ASSUME e.observations = 0
               PROVE  s.obs = [s.obs EXCEPT ![e.user] = s.obs[e.user] + e.observations]
    BY DEF Unwritten
  <2>2. s.obs[e.user] + 0 = s.obs[e.user]
    BY <2>1
  <2> QED BY <2>1, <2>2
<1>2. pc \in AfterTraits => \A n \in DOMAIN e.traits : s.traits[e.user][n] = e.traits[n]
  <2>1. DOMAIN <<>> = {}
    OBVIOUS
  <2> QED BY <2>1 DEF Unwritten
<1> QED BY <1>1, <1>2 DEF Partly, NamesSame, Unwritten

LEMMA ProgressConcepts ==
  ASSUME NEW s, Sound(s), NEW v, NEW e, IsApplied(e), NEW n \in Nat, n < Len(e.upserts),
         NEW r, NEW l \in BOOLEAN, NEW l2 \in BOOLEAN, ~l => v = s,
         Progress("concepts", n, e, s, v, r, l),
         l2 <=> (l \/ Norm[UpsertAt(e, n + 1).key] # NoKey)
  PROVE  Progress("concepts", n + 1, e, s, Upsert(e, v, UpsertAt(e, n + 1)), r, l2)
<1> DEFINE c == UpsertAt(e, n + 1)
           v2 == Upsert(e, v, c)
<1>0. Len(e.upserts) \in Nat
  BY LenProperties DEF IsApplied
<1>1. CASE UpsertsFirst(e)
  <2>1. CASE l2
    <3>1. v = UpsertsDone(s, e, n)
      <4>1. CASE l
        BY <1>1, <4>1 DEF Progress, Exact
      <4>2. CASE ~l
        <5>1. Silent(e, n)
          BY <1>1, <4>2 DEF Progress
        <5> QED BY <4>2, <5>1, SilentUpserts
      <4> QED BY <4>1, <4>2
    <3>2. v2 = UpsertsDone(s, e, n + 1)
      <4>1. UpsertsDone(s, e, n + 1) = Upsert(e, UpsertsDone(s, e, n), UpsertAt(e, n + 1))
        BY UpsertsNext
      <4> QED BY <3>1, <4>1
    <3> HIDE DEF v2
    <3>3. Exact("concepts", n + 1, e, s, v2, r)
      BY <3>2 DEF Exact
    <3> QED BY <1>1, <2>1, <3>3 DEF Progress, v2
  <2>2. CASE ~l2
    <3>1. Silent(e, n) /\ Norm[c.key] = NoKey
      BY <1>1, <2>2 DEF Progress
    <3>2. 1..(n + 1) = (1..n) \cup {n + 1}
      OBVIOUS
    <3>3. Silent(e, n + 1)
      BY <3>1, <3>2 DEF Silent
    <3> QED BY <1>1, <2>2, <3>3 DEF Progress
  <2> QED BY <2>1, <2>2
<1>2. CASE ~UpsertsFirst(e)
  <2>1. Silent(e, Len(e.upserts))
    BY <1>2, FirstUpsert
  <2>2. n + 1 \in 1..Len(e.upserts)
    BY <1>0
  <2>3. Norm[c.key] = NoKey
    BY <2>1, <2>2 DEF Silent
  <2>4. ~l /\ ~l2
    BY <1>2, <2>3 DEF Progress
  <2> QED BY <1>2, <2>4 DEF Progress, Unwritten, AfterObservations, AfterTraits
<1> QED BY <1>1, <1>2

\* The end of a loop: the next section starts from what the loop has made.
LEMMA ProgressLoopEnds ==
  ASSUME NEW s, Sound(s), NEW v, NEW e, IsApplied(e), NEW r, NEW l \in BOOLEAN
  PROVE  /\ Progress("concepts", Len(e.upserts), e, s, v, r, l) => Progress("edges", 0, e, s, v, r, l)
         /\ Progress("edges", Len(e.edges), e, s, v, r, l) => Progress("observations", 0, e, s, v, r, l)
         /\ Progress("state", Len(e.deltas), e, s, v, r, l) => Progress("traits", 0, e, s, v, r, l)
<1>1. ASSUME Progress("concepts", Len(e.upserts), e, s, v, r, l)
      PROVE  Progress("edges", 0, e, s, v, r, l)
  <2>1. CASE UpsertsFirst(e)
    <3>1. l
      BY <1>1, <2>1, FirstUpsert DEF Progress
    <3>2. v = UpsertConcepts(s, e)
      BY <1>1, <2>1, <3>1, UpsertsAll DEF Progress, Exact
    <3>3. v = EdgesDone(UpsertConcepts(s, e), e, 0)
      BY <3>2, EdgesNext
    <3> QED BY <2>1, <3>1, <3>3 DEF Progress, Exact
  <2>2. CASE ~UpsertsFirst(e)
    BY <1>1, <2>2 DEF Progress, Unwritten, AfterObservations, AfterTraits
  <2> QED BY <2>1, <2>2
<1>2. ASSUME Progress("edges", Len(e.edges), e, s, v, r, l)
      PROVE  Progress("observations", 0, e, s, v, r, l)
  <2>1. CASE UpsertsFirst(e)
    <3>1. l /\ v = LinkConcepts(UpsertConcepts(s, e), e)
      BY <1>2, <2>1, EdgesAll DEF Progress, Exact
    <3> QED BY <2>1, <3>1 DEF Progress, Exact
  <2>2. CASE ~UpsertsFirst(e)
    BY <1>2, <2>2 DEF Progress, Partly, Unwritten, AfterObservations, AfterTraits
  <2> QED BY <2>1, <2>2
<1>3. ASSUME Progress("state", Len(e.deltas), e, s, v, r, l)
      PROVE  Progress("traits", 0, e, s, v, r, l)
  <2>1. CASE UpsertsFirst(e)
    <3>1. l /\ v = AllMarked(s, e)
      BY <1>3, <2>1, MarksAll DEF Progress, Exact, AllMarked
    <3> QED BY <2>1, <3>1 DEF Progress, Exact
  <2>2. CASE ~UpsertsFirst(e)
    BY <1>3, <2>2 DEF Progress, Partly, Unwritten, AfterObservations, AfterTraits
  <2> QED BY <2>1, <2>2
<1> QED BY <1>1, <1>2, <1>3

LEMMA ProgressEdges ==
  ASSUME NEW s, Sound(s), NEW v, Sound(v), NEW e, IsApplied(e), NEW n \in Nat, n < Len(e.edges),
         NEW r, NEW l \in BOOLEAN, NEW l2 \in BOOLEAN, ~l => v = s,
         Progress("edges", n, e, s, v, r, l),
         l2 <=> (l \/ Linkable(v, EdgeAt(e, n + 1)))
  PROVE  Progress("edges", n + 1, e, s, Link(e, v, EdgeAt(e, n + 1)), r, l2)
<1> DEFINE x == EdgeAt(e, n + 1)
           v2 == Link(e, v, x)
           u == UpsertConcepts(s, e)
<1>1. CASE UpsertsFirst(e)
  <2>1. l /\ l2 /\ v = EdgesDone(u, e, n)
    BY <1>1 DEF Progress, Exact
  <2>2. EdgesDone(u, e, n + 1) = Link(e, EdgesDone(u, e, n), x)
    BY EdgesNext
  <2>3. v2 = EdgesDone(u, e, n + 1)
    BY <2>1, <2>2
  <2> HIDE DEF v2
  <2>4. Exact("edges", n + 1, e, s, v2, r)
    BY <2>3 DEF Exact
  <2> QED BY <1>1, <2>1, <2>4 DEF Progress, v2
<1>2. CASE ~UpsertsFirst(e) /\ l2
  <2>1. Partly("edges", e, s, v)
    <3>1. CASE l
      BY <1>2, <3>1 DEF Progress
    <3>2. CASE ~l
      BY <1>2, <3>2, PartlyNone DEF Progress
    <3> QED BY <3>1, <3>2
  <2>2. /\ NamesSame(v, v2) /\ RestSame(v, v2)
        /\ v2.edge = v.edge \cup {Stored(y) : y \in {z \in {x} : Linkable(v, z)}}
    BY LinkIsSound
  <2> HIDE DEF v2
  <2>3. Linkable(v, x) => Linkable(s, x)
    BY <2>1 DEF Partly, NamesSame, Linkable, Known
  <2>4. \A y \in {z \in {x} : Linkable(v, z)} : Stored(y) \in LinksOf(s, e, Len(e.edges))
    <3>1. Len(e.edges) \in Nat
      BY LenProperties DEF IsApplied
    <3>2. n + 1 \in 1..Len(e.edges)
      BY <3>1
    <3> QED BY <2>3, <3>2 DEF LinksOf, EdgeAt
  <2>5. Partly("edges", e, s, v2)
    BY <2>1, <2>2, <2>4 DEF Partly, NamesSame, RestSame, AfterObservations, AfterTraits
  <2> QED BY <1>2, <2>5 DEF Progress, v2
<1>3. CASE ~UpsertsFirst(e) /\ ~l2
  BY <1>3 DEF Progress, Unwritten, AfterObservations, AfterTraits
<1> QED BY <1>1, <1>2, <1>3

LEMMA ProgressObservations ==
  ASSUME NEW s, Sound(s), NEW v, Sound(v), NEW e, IsApplied(e),
         NEW r, NEW l \in BOOLEAN, NEW l2 \in BOOLEAN, ~l => v = s,
         Progress("observations", 0, e, s, v, r, l),
         l2 <=> (l \/ e.observations > 0)
  PROVE  Progress("state", 0, e, s, Observe(v, e), r, l2)
<1> DEFINE v2 == Observe(v, e)
<1>0. e.observations \in Nat
  BY DEF IsApplied
<1>1. CASE UpsertsFirst(e)
  <2>1. l /\ l2 /\ v2 = Observed(s, e)
    BY <1>1 DEF Progress, Exact, Observed
  <2>2. v2 = MarksDone(Observed(s, e), e, 0)
    BY <2>1, MarksNext
  <2> HIDE DEF v2
  <2>3. Exact("state", 0, e, s, v2, r)
    BY <2>2 DEF Exact
  <2> QED BY <1>1, <2>1, <2>3 DEF Progress, v2
<1>2. CASE ~UpsertsFirst(e) /\ l2
  <2>1. Partly("observations", e, s, v)
    <3>1. CASE l
      BY <1>2, <3>1 DEF Progress
    <3>2. CASE ~l
      BY <1>2, <3>2, PartlyNone DEF Progress
    <3> QED BY <3>1, <3>2
  <2>2. /\ NamesSame(v, v2) /\ EdgesSame(v, v2)
        /\ v2.obs = [v.obs EXCEPT ![e.user] = v.obs[e.user] + e.observations]
        /\ v2.traits = v.traits /\ v2.summary = v.summary
    BY <1>0, ObserveIsSound
  <2> HIDE DEF v2
  <2>3. Partly("state", e, s, v2)
    BY <2>1, <2>2 DEF Partly, NamesSame, EdgesSame, AfterObservations, AfterTraits
  <2> QED BY <1>2, <2>3 DEF Progress, v2
<1>3. CASE ~UpsertsFirst(e) /\ ~l2
  <2>1. e.observations = 0
    BY <1>0, <1>3
  <2> QED BY <1>3, <2>1 DEF Progress, Unwritten, AfterTraits
<1> QED BY <1>1, <1>2, <1>3

LEMMA ProgressState ==
  ASSUME NEW s, Sound(s), NEW v, Sound(v), NEW e, IsApplied(e), NEW n \in Nat, n < Len(e.deltas),
         NEW r, NEW l \in BOOLEAN, NEW l2 \in BOOLEAN, ~l => v = s,
         Progress("state", n, e, s, v, r, l),
         l2 <=> (l \/ Known(v, Norm[DeltaAt(e, n + 1).key]))
  PROVE  Progress("state", n + 1, e, s, Mark(e, v, DeltaAt(e, n + 1)), r, l2)
<1> DEFINE d == DeltaAt(e, n + 1)
           v2 == Mark(e, v, d)
           o == Observed(s, e)
<1>1. CASE UpsertsFirst(e)
  <2>1. l /\ l2 /\ v = MarksDone(o, e, n)
    BY <1>1 DEF Progress, Exact
  <2>2. MarksDone(o, e, n + 1) = Mark(e, MarksDone(o, e, n), d)
    BY MarksNext
  <2>3. v2 = MarksDone(o, e, n + 1)
    BY <2>1, <2>2
  <2> HIDE DEF v2
  <2>4. Exact("state", n + 1, e, s, v2, r)
    BY <2>3 DEF Exact
  <2> QED BY <1>1, <2>1, <2>4 DEF Progress, v2
<1>2. CASE ~UpsertsFirst(e) /\ l2
  <2>1. Partly("state", e, s, v)
    <3>1. CASE l
      BY <1>2, <3>1 DEF Progress
    <3>2. CASE ~l
      BY <1>2, <3>2, PartlyNone DEF Progress
    <3> QED BY <3>1, <3>2
  <2>2. d.mark \in {Weak, Strong}
    <3>1. Len(e.deltas) \in Nat
      BY LenProperties DEF IsApplied
    <3>2. n + 1 \in 1..Len(e.deltas)
      BY <3>1
    <3>3. d \in [key : RawKeys, mark : {Weak, Strong}]
      BY <3>2, ElementOfSeq DEF IsApplied, DeltaAt
    <3> QED BY <3>3
  <2> HIDE DEF d
  <2>3. NamesSame(v, v2) /\ EdgesSame(v, v2) /\ RestSame(v, v2)
    BY <2>2, MarkIsSound
  <2> HIDE DEF v2
  <2>4. Partly("state", e, s, v2)
    BY <2>1, <2>3 DEF Partly, NamesSame, EdgesSame, RestSame, AfterObservations, AfterTraits
  <2> QED BY <1>2, <2>4 DEF Progress, v2, d
<1>3. CASE ~UpsertsFirst(e) /\ ~l2
  BY <1>3 DEF Progress, Unwritten, AfterObservations, AfterTraits
<1> QED BY <1>1, <1>2, <1>3

LEMMA ProgressRead ==
  ASSUME NEW s, NEW v, NEW e, NEW r, NEW l \in BOOLEAN,
         Progress("traits", 0, e, s, v, r, l)
  PROVE  Progress("merge", 0, e, s, v, v.traits[e.user], l)
<1>1. CASE UpsertsFirst(e)
  BY <1>1 DEF Progress, Exact
<1>2. CASE ~UpsertsFirst(e)
  BY <1>2 DEF Progress, Partly, Unwritten, AfterObservations, AfterTraits
<1> QED BY <1>1, <1>2

LEMMA ProgressMerge ==
  ASSUME NEW s, Sound(s), NEW v, Sound(v), NEW e, IsApplied(e),
         NEW r, NEW l \in BOOLEAN, NEW l2 \in BOOLEAN, ~l => v = s,
         Progress("merge", 0, e, s, v, r, l),
         l2 <=> (l \/ e.traits # <<>>)
  PROVE  Progress("summary", 0, e, s, MergeTraits(v, e, r), r, l2)
<1> DEFINE v2 == MergeTraits(v, e, r)
<1>1. CASE UpsertsFirst(e)
  <2>1. l /\ l2 /\ v2 = Merged(s, e)
    BY <1>1 DEF Progress, Exact, Merged
  <2> HIDE DEF v2
  <2>2. Exact("summary", 0, e, s, v2, r)
    BY <2>1 DEF Exact
  <2> QED BY <1>1, <2>1, <2>2 DEF Progress, v2
<1>2. CASE ~UpsertsFirst(e) /\ l2
  <2>1. Partly("merge", e, s, v)
    <3>1. CASE l
      BY <1>2, <3>1 DEF Progress
    <3>2. CASE ~l
      BY <1>2, <3>2, PartlyNone DEF Progress
    <3> QED BY <3>1, <3>2
  <2>2. /\ NamesSame(v, v2) /\ EdgesSame(v, v2)
        /\ v2.traits = IF e.traits = <<>> THEN v.traits
                       ELSE [v.traits EXCEPT ![e.user] = Merge(r, e.traits)]
        /\ v2.obs = v.obs /\ v2.summary = v.summary
    BY MergeIsSound
  <2> HIDE DEF v2
  <2>3. \A n \in DOMAIN e.traits : v2.traits[e.user][n] = e.traits[n]
    <3>1. DOMAIN <<>> = {}
      OBVIOUS
    <3>2. CASE e.traits = <<>>
      BY <3>1, <3>2
    <3>3. CASE e.traits # <<>>
      <4>1. v.traits = [x \in Learners |-> v.traits[x]] /\ e.user \in Learners
        BY DEF Sound, Rows, IsApplied
      <4>2. v2.traits[e.user] = Merge(r, e.traits)
        <5> DEFINE row == Merge(r, e.traits)
        <5>1. v2.traits = [v.traits EXCEPT ![e.user] = row]
          BY <2>2, <3>3
        <5> HIDE DEF row
        <5> QED BY <4>1, <5>1 DEF row
      <4>3. \A n \in DOMAIN e.traits : Merge(r, e.traits)[n] = e.traits[n]
        BY DEF Merge
      <4> QED BY <4>2, <4>3
    <3> QED BY <3>2, <3>3
  <2>4. Partly("summary", e, s, v2)
    BY <2>1, <2>2, <2>3 DEF Partly, NamesSame, EdgesSame, AfterObservations, AfterTraits
  <2> QED BY <1>2, <2>4 DEF Progress, v2
<1>3. CASE ~UpsertsFirst(e) /\ ~l2
  BY <1>3 DEF Progress, Unwritten, AfterObservations, AfterTraits
<1> QED BY <1>1, <1>2, <1>3

LEMMA ProgressSummary ==
  ASSUME NEW s, Sound(s), NEW v, Sound(v), NEW e, IsApplied(e),
         NEW r, NEW l \in BOOLEAN, NEW l2 \in BOOLEAN, ~l => v = s,
         Progress("summary", 0, e, s, v, r, l),
         l2 <=> (l \/ e.summary # NoSummary)
  PROVE  Progress("commit", 0, e, s, Summarise(v, e), r, l2)
<1> DEFINE v2 == Summarise(v, e)
<1>1. CASE UpsertsFirst(e)
  <2>1. l /\ l2 /\ v2 = Whole(s, e)
    BY <1>1, WholeIsThis DEF Progress, Exact
  <2> HIDE DEF v2
  <2>2. Exact("commit", 0, e, s, v2, r)
    BY <2>1 DEF Exact
  <2> QED BY <1>1, <2>1, <2>2 DEF Progress, v2
<1>2. CASE ~UpsertsFirst(e) /\ l2
  <2>1. Partly("summary", e, s, v)
    <3>1. CASE l
      BY <1>2, <3>1 DEF Progress
    <3>2. CASE ~l
      BY <1>2, <3>2, PartlyNone DEF Progress
    <3> QED BY <3>1, <3>2
  <2>2. /\ NamesSame(v, v2) /\ EdgesSame(v, v2)
        /\ v2.summary = IF e.summary = NoSummary THEN v.summary
                        ELSE [v.summary EXCEPT ![e.user] = e.summary]
        /\ v2.obs = v.obs /\ v2.traits = v.traits
    BY SummariseIsSound
  <2> HIDE DEF v2
  <2>3. Partly("commit", e, s, v2)
    BY <2>1, <2>2 DEF Partly, NamesSame, EdgesSame, AfterObservations, AfterTraits
  <2> QED BY <1>2, <2>3 DEF Progress, v2
<1>3. CASE ~UpsertsFirst(e) /\ ~l2
  BY <1>3 DEF Progress, Unwritten, AfterObservations, AfterTraits
<1> QED BY <1>1, <1>2, <1>3

-----------------------------------------------------------------------------
(* Every step keeps the invariant.                                         *)

LEMMA SeesSound ==
  ASSUME StoreInv, NEW w
  PROVE  Sound(Sees(w))
BY DEF StoreInv, Sees

LEMMA StatementKeeps ==
  ASSUME StoreInv, NEW w \in Workers, NEW writes, NEW result, Sound(result),
         Statement(w, writes, result), at' \in [Workers -> Nat]
  PROVE  StoreInv'
BY DEF Statement, StoreInv, Sound, Tables, IsStore, Linked, Known, Applied

LEMMA LoopEndsKeeps ==
  ASSUME StoreInv, NEW w \in Workers, NEW pc, NEW items, LoopEnds(w, pc, items)
  PROVE  StoreInv'
BY DEF LoopEnds, StoreInv, Sound, Tables, IsStore, Linked, Known, Applied

\* The loop's next item is one of its items.
LEMMA LoopItem ==
  ASSUME StoreInv, NEW w \in Workers, NEW pc, NEW S, NEW items \in Seq(S),
         LoopRuns(w, pc, items)
  PROVE  items[at[w] + 1] \in S /\ at' \in [Workers -> Nat]
<1>1. Len(items) \in Nat /\ at[w] \in Nat /\ at[w] < Len(items)
  BY LenProperties DEF LoopRuns, StoreInv
<1>2. at[w] + 1 \in 1..Len(items)
  BY <1>1
<1>3. items[at[w] + 1] \in S
  BY <1>2, ElementOfSeq
<1>4. at' \in [Workers -> Nat]
  BY <1>1 DEF LoopRuns, StoreInv
<1> QED BY <1>3, <1>4

LEMMA ApplyStepKeeps ==
  ASSUME StoreInv, NEW w \in Workers, ApplyStep(w)
  PROVE  StoreInv'
<1>0. Sound(Sees(w)) /\ ev[w] \in Applied /\ at \in [Workers -> Nat]
  BY SeesSound DEF StoreInv
<1>1. CASE Begin(w)
  <2>1. PICK e \in Evals : ev' = [ev EXCEPT ![w] = Validated(e)]
    BY <1>1 DEF Begin
  <2>2. ev' \in [Workers -> Applied]
    BY <2>1 DEF StoreInv, Applied
  <2> QED BY <1>1, <2>2 DEF Begin, StoreInv, Sound, Tables, IsStore, Linked, Known, Applied
<1>2. CASE ApplyConcepts(w)
  <2>1. CASE LoopEnds(w, "concepts", ev[w].upserts)
    BY <2>1, LoopEndsKeeps
  <2>2. CASE LoopRuns(w, "concepts", ev[w].upserts)
             /\ LET c == ev[w].upserts[at[w] + 1]
                IN Statement(w, Norm[c.key] # NoKey, Upsert(ev[w], Sees(w), c))
    <3> DEFINE c == ev[w].upserts[at[w] + 1]
    <3>1. c \in [key : RawKeys, name : Names] /\ at' \in [Workers -> Nat]
      BY <1>0, <2>2, AppliedTypes, LoopItem DEF IsApplied
    <3>2. Sound(Upsert(ev[w], Sees(w), c))
      <4> HIDE DEF c
      <4> QED BY <1>0, <3>1, UpsertIsSound
    <3> QED BY <2>2, <3>1, <3>2, StatementKeeps
  <2> QED BY <1>2, <2>1, <2>2 DEF ApplyConcepts
<1>3. CASE ApplyEdges(w)
  <2>1. CASE LoopEnds(w, "edges", ev[w].edges)
    BY <2>1, LoopEndsKeeps
  <2>2. CASE LoopRuns(w, "edges", ev[w].edges)
             /\ LET x == ev[w].edges[at[w] + 1]
                IN Statement(w, Linkable(Sees(w), x), Link(ev[w], Sees(w), x))
    <3> DEFINE x == ev[w].edges[at[w] + 1]
    <3>1. at' \in [Workers -> Nat]
      BY <1>0, <2>2 DEF LoopRuns
    <3>2. Sound(Link(ev[w], Sees(w), x))
      BY <1>0, LinkIsSound
    <3> QED BY <2>2, <3>1, <3>2, StatementKeeps
  <2> QED BY <1>3, <2>1, <2>2 DEF ApplyEdges
<1>4. CASE ApplyObservations(w)
  <2>1. Sound(Observe(Sees(w), ev[w]))
    <3>1. ev[w].observations \in Nat
      BY <1>0, AppliedTypes DEF IsApplied
    <3> QED BY <1>0, <3>1, ObserveIsSound
  <2> QED BY <1>0, <1>4, <2>1, StatementKeeps DEF ApplyObservations, Section
<1>5. CASE ApplyState(w)
  <2>1. CASE LoopEnds(w, "state", ev[w].deltas)
    BY <2>1, LoopEndsKeeps
  <2>2. CASE LoopRuns(w, "state", ev[w].deltas)
             /\ LET d == ev[w].deltas[at[w] + 1]
                IN Statement(w, Known(Sees(w), Norm[d.key]), Mark(ev[w], Sees(w), d))
    <3> DEFINE d == ev[w].deltas[at[w] + 1]
    <3>1. d \in [key : RawKeys, mark : {Weak, Strong}] /\ at' \in [Workers -> Nat]
      BY <1>0, <2>2, AppliedTypes, LoopItem DEF IsApplied
    <3>2. Sound(Mark(ev[w], Sees(w), d))
      <4>1. d.mark \in {Weak, Strong}
        BY <3>1
      <4> HIDE DEF d
      <4> QED BY <1>0, <4>1, MarkIsSound
    <3> QED BY <2>2, <3>1, <3>2, StatementKeeps
  <2> QED BY <1>5, <2>1, <2>2 DEF ApplyState
<1>6. CASE ReadTraits(w)
  BY <1>0, <1>6, StatementKeeps DEF ReadTraits, Section, StoreInv
<1>7. CASE ApplyTraits(w)
  <2>1. Sound(MergeTraits(Sees(w), ev[w], read[w]))
    BY <1>0, MergeIsSound
  <2> QED BY <1>0, <1>7, <2>1, StatementKeeps DEF ApplyTraits, Section
<1>8. CASE ApplySummary(w)
  <2>1. Sound(Summarise(Sees(w), ev[w]))
    BY <1>0, SummariseIsSound
  <2> QED BY <1>0, <1>8, <2>1, StatementKeeps DEF ApplySummary, Section
<1>9. ASSUME Commit(w) \/ Rollback(w) PROVE StoreInv'
  <2>1. Sound(db') /\ Sound(working')
    BY <1>0, <1>9, EmptyIsSound DEF Commit, Rollback, StoreInv
  <2>2. ev' = ev /\ at' \in [Workers -> Nat]
    BY <1>0, <1>9 DEF Commit, Rollback, Leave
  <2> QED BY <2>1, <2>2 DEF StoreInv, Sound, Tables, IsStore, Linked, Known, Applied
<1> QED BY <1>1, <1>2, <1>3, <1>4, <1>5, <1>6, <1>7, <1>8, <1>9 DEF ApplyStep

LEMMA StoreInvHolds == Spec => []StoreInv
<1>1. Init => StoreInv
  BY EmptyIsSound, EvalsAssumption DEF Init, StoreInv, Applied
<1>2. StoreInv /\ [Next]_storeVars => StoreInv'
  <2>1. ASSUME StoreInv, UNCHANGED applyVars PROVE StoreInv'
    BY <2>1 DEF applyVars, StoreInv, Sound, Tables, IsStore, Linked, Known, Applied
  <2>2. ASSUME StoreInv, LoadStep PROVE StoreInv'
    BY <2>1, <2>2 DEF LoadStep, LoadWeak, LoadIds, LoadEdges, LoadReturn
  <2> QED BY <2>1, <2>2, ApplyStepKeeps DEF Next, storeVars
<1> QED BY <1>1, <1>2, PTL DEF Spec

-----------------------------------------------------------------------------
(* Every application stands where its progress says.                       *)

Loops == {"concepts", "edges", "state"}

Stands(pc, n, e, s, v, r, l) ==
  /\ pc = "idle" => ~l
  /\ pc \notin Loops => n = 0
  /\ pc # "idle" => Progress(pc, n, e, s, v, r, l)

Standing(w) == Stands(apc[w], at[w], ev[w], db, Sees(w), read[w], lock = w)

WholeInv ==
  /\ StoreInv
  /\ apc \in [Workers -> Sections \cup {"idle"}]
  /\ read = [w \in Workers |-> read[w]]
  /\ \A w \in Workers : Standing(w)

LEMMA StandsSame ==
  ASSUME NEW pc, NEW n, NEW e, NEW s, NEW v, NEW r, NEW l \in BOOLEAN,
         NEW s2, NEW v2, NEW l2 \in BOOLEAN,
         Stands(pc, n, e, s, v, r, l), l2 <=> l, l => s2 = s /\ v2 = v
  PROVE  Stands(pc, n, e, s2, v2, r, l2)
<1>1. CASE l
  BY <1>1
<1>2. CASE ~l
  BY <1>2 DEF Stands, Progress
<1> QED BY <1>1, <1>2

\* What worker w leaves alone: where the others stand.
LEMMA OthersStand ==
  ASSUME WholeInv, NEW w \in Workers, NEW v \in Workers, v # w,
         apc'[v] = apc[v], at'[v] = at[v], ev'[v] = ev[v], read'[v] = read[v],
         lock' = v <=> lock = v, lock = v => db' = db /\ working' = working
  PROVE  Standing(v)'
<1> DEFINE l == lock = v
           l2 == lock' = v
           sees2 == IF lock' = v THEN working' ELSE db'
<1>1. Stands(apc[v], at[v], ev[v], db, Sees(v), read[v], l)
  BY DEF WholeInv, Standing
<1>2. l \in BOOLEAN /\ l2 \in BOOLEAN /\ (l2 <=> l)
  OBVIOUS
<1>3. l => db' = db /\ sees2 = Sees(v)
  BY DEF Sees
<1> HIDE DEF l, l2, sees2
<1>4. Stands(apc[v], at[v], ev[v], db', sees2, read[v], l2)
  BY <1>1, <1>2, <1>3, StandsSame
<1>5. Stands(apc'[v], at'[v], ev'[v], db', sees2, read'[v], l2)
  BY <1>4
<1> QED BY <1>5 DEF Standing, Sees, sees2, l2

\* A statement of w shows its result to w, holds the lock if it wrote, and
\* leaves the others what they had.
LEMMA StatementShows ==
  ASSUME WholeInv, NEW w \in Workers, NEW writes \in BOOLEAN, NEW result,
         Statement(w, writes, result), ~writes => result = Sees(w)
  PROVE  /\ Sees(w)' = result
         /\ lock' = w <=> (lock = w \/ writes)
         /\ db' = db /\ ev' = ev
         /\ \A v \in Workers : v # w => (lock' = v <=> lock = v)
         /\ \A v \in Workers : v # w /\ lock = v => working' = working
BY NoOneAssumption DEF Statement, Sees

LEMMA LoopEndsStands ==
  ASSUME WholeInv, NEW w \in Workers, NEW pc \in Loops, NEW items, LoopEnds(w, pc, items),
         Progress(pc, Len(items), ev[w], db, Sees(w), read[w], lock = w)
           => Progress(NextSection[pc], 0, ev[w], db, Sees(w), read[w], lock = w)
  PROVE  WholeInv'
<1>1. StoreInv'
  BY LoopEndsKeeps DEF WholeInv
<1>2. /\ apc \in [Workers -> Sections \cup {"idle"}] /\ at \in [Workers -> Nat]
      /\ apc[w] = pc /\ at[w] = Len(items)
      /\ apc' = [apc EXCEPT ![w] = NextSection[pc]] /\ at' = [at EXCEPT ![w] = 0]
      /\ UNCHANGED <<db, lock, working, ev, read, applies, loader>>
  BY DEF LoopEnds, WholeInv, StoreInv
<1>3. NextSection[pc] \in Sections /\ NextSection[pc] # "idle" /\ pc # "idle"
  BY DEF NextSection, Sections, Loops
<1>4. apc' \in [Workers -> Sections \cup {"idle"}]
  BY <1>2, <1>3
<1>5. apc'[w] = NextSection[pc] /\ at'[w] = 0
  BY <1>2
<1>6. Standing(w)'
  <2> DEFINE l == lock = w
  <2>1. Stands(pc, Len(items), ev[w], db, Sees(w), read[w], l)
    BY <1>2 DEF WholeInv, Standing
  <2>2. Progress(NextSection[pc], 0, ev[w], db, Sees(w), read[w], l)
    BY <1>3, <2>1 DEF Stands
  <2> HIDE DEF l
  <2>3. Stands(NextSection[pc], 0, ev[w], db, Sees(w), read[w], l)
    BY <1>3, <2>2 DEF Stands
  <2>4. Stands(apc'[w], at'[w], ev'[w], db', Sees(w)', read'[w], lock' = w)
    BY <1>2, <1>5, <2>3 DEF Sees, l
  <2> QED BY <2>4 DEF Standing
<1>7. \A v \in Workers : v # w => Standing(v)'
  BY <1>2, OthersStand
<1> QED BY <1>1, <1>2, <1>4, <1>6, <1>7 DEF WholeInv

\* A step of w through its sections: what must be shown of it.
LEMMA SectionStands ==
  ASSUME WholeInv, NEW w \in Workers, NEW writes \in BOOLEAN, NEW result,
         Statement(w, writes, result), ~writes => result = Sees(w), StoreInv',
         NEW pc \in Sections, NEW n, NEW r,
         apc' = [apc EXCEPT ![w] = pc], at' = [at EXCEPT ![w] = n], read' = [read EXCEPT ![w] = r],
         pc \notin Loops => n = 0,
         NEW l2 \in BOOLEAN, l2 <=> (lock = w \/ writes),
         Progress(pc, n, ev[w], db, result, r, l2)
  PROVE  WholeInv'
<1>1. /\ apc \in [Workers -> Sections \cup {"idle"}] /\ at \in [Workers -> Nat]
      /\ read = [v \in Workers |-> read[v]]
  BY DEF WholeInv, StoreInv
<1>2. apc' \in [Workers -> Sections \cup {"idle"}] /\ read' = [v \in Workers |-> read'[v]]
  BY <1>1
<1>3. apc'[w] = pc /\ at'[w] = n /\ read'[w] = r
  BY <1>1
<1>4. /\ Sees(w)' = result /\ (lock' = w <=> (lock = w \/ writes)) /\ db' = db /\ ev' = ev
      /\ \A v \in Workers : v # w => (lock' = v <=> lock = v)
      /\ \A v \in Workers : v # w /\ lock = v => working' = working
  BY StatementShows
<1>5. Standing(w)'
  <2>1. pc # "idle"
    BY DEF Sections, NextSection
  <2>2. Stands(pc, n, ev[w], db, result, r, l2)
    BY <2>1 DEF Stands
  <2> DEFINE k == lock' = w
  <2>3. k <=> l2
    BY <1>4
  <2>4. k \in BOOLEAN
    OBVIOUS
  <2> HIDE DEF k
  <2>5. Stands(pc, n, ev[w], db, result, r, k)
    BY <2>2, <2>3, <2>4, StandsSame
  <2>6. Stands(apc'[w], at'[w], ev'[w], db', Sees(w)', read'[w], k)
    BY <1>3, <1>4, <2>5
  <2> QED BY <2>6 DEF Standing, k
<1>6. ASSUME NEW v \in Workers, v # w PROVE Standing(v)'
  <2>1. apc'[v] = apc[v] /\ at'[v] = at[v] /\ read'[v] = read[v] /\ ev'[v] = ev[v]
    BY <1>1, <1>4, <1>6
  <2>2. (lock' = v <=> lock = v) /\ (lock = v => db' = db /\ working' = working)
    BY <1>4, <1>6
  <2> QED BY <1>6, <2>1, <2>2, OthersStand
<1> QED BY <1>2, <1>5, <1>6 DEF WholeInv

\* What is known of worker w between two of its steps.
LEMMA Where ==
  ASSUME WholeInv, NEW w \in Workers, apc[w] # "idle", NEW l \in BOOLEAN, l <=> lock = w
  PROVE  /\ Progress(apc[w], at[w], ev[w], db, Sees(w), read[w], l)
         /\ apc[w] \notin Loops => at[w] = 0
         /\ Sound(db) /\ Sound(Sees(w)) /\ IsApplied(ev[w]) /\ at[w] \in Nat
         /\ ~l => Sees(w) = db
<1> DEFINE k == lock = w
<1>1. Stands(apc[w], at[w], ev[w], db, Sees(w), read[w], k)
  BY DEF WholeInv, Standing
<1>2. k \in BOOLEAN /\ (l <=> k)
  OBVIOUS
<1> HIDE DEF k
<1>3. Stands(apc[w], at[w], ev[w], db, Sees(w), read[w], l)
  BY <1>1, <1>2, StandsSame
<1>4. StoreInv
  BY DEF WholeInv
<1>5. ev[w] \in Applied
  BY <1>4 DEF StoreInv
<1>6. IsApplied(ev[w])
  BY <1>5, AppliedTypes
<1>7. Sound(db) /\ Sound(Sees(w)) /\ at[w] \in Nat
  BY <1>4, SeesSound DEF StoreInv
<1>8. ~l => Sees(w) = db
  BY DEF Sees
<1> QED BY <1>3, <1>6, <1>7, <1>8 DEF Stands

LEMMA Unmoved ==
  ASSUME WholeInv, NEW w \in Workers
  PROVE  apc = [apc EXCEPT ![w] = apc[w]] /\ read = [read EXCEPT ![w] = read[w]]
         /\ at = [at EXCEPT ![w] = at[w]]
BY DEF WholeInv, StoreInv

LEMMA ApplyConceptsStands ==
  ASSUME WholeInv, NEW w \in Workers, ApplyConcepts(w)
  PROVE  WholeInv'
<1> DEFINE c == ev[w].upserts[at[w] + 1]
           writes == Norm[c.key] # NoKey
           result == Upsert(ev[w], Sees(w), c)
<1>1. CASE LoopEnds(w, "concepts", ev[w].upserts)
  <2> DEFINE l == lock = w
  <2>1. apc[w] = "concepts" /\ at[w] = Len(ev[w].upserts) /\ "concepts" # "idle"
    BY <1>1 DEF LoopEnds
  <2>2. l \in BOOLEAN /\ (l <=> lock = w)
    OBVIOUS
  <2> HIDE DEF l
  <2>3. Progress("concepts", Len(ev[w].upserts), ev[w], db, Sees(w), read[w], l)
          => Progress(NextSection["concepts"], 0, ev[w], db, Sees(w), read[w], l)
    <3>1. Sound(db) /\ IsApplied(ev[w])
      BY <2>1, <2>2, Where
    <3>2. NextSection["concepts"] = "edges"
      BY DEF NextSection
    <3> QED BY <2>2, <3>1, <3>2, ProgressLoopEnds
  <2>4. "concepts" \in Loops
    BY DEF Loops
  <2>5. Progress("concepts", Len(ev[w].upserts), ev[w], db, Sees(w), read[w], lock = w)
          => Progress(NextSection["concepts"], 0, ev[w], db, Sees(w), read[w], lock = w)
    BY <2>3 DEF l
  <2> QED BY <1>1, <2>4, <2>5, LoopEndsStands
<1>2. CASE LoopRuns(w, "concepts", ev[w].upserts) /\ Statement(w, writes, result)
  <2> DEFINE l == lock = w
             l2 == lock = w \/ writes
  <2>1. /\ apc[w] = "concepts" /\ at[w] < Len(ev[w].upserts) /\ "concepts" # "idle"
        /\ at' = [at EXCEPT ![w] = at[w] + 1] /\ apc' = apc /\ read' = read
    BY <1>2 DEF LoopRuns
  <2>2. l \in BOOLEAN /\ (l <=> lock = w)
    OBVIOUS
  <2>3. c = UpsertAt(ev[w], at[w] + 1)
    BY DEF UpsertAt
  <2>4. writes \in BOOLEAN /\ (~writes => result = Sees(w))
    BY DEF Upsert
  <2> HIDE DEF c
  <2>5. l2 \in BOOLEAN /\ (l2 <=> (l \/ Norm[c.key] # NoKey))
    OBVIOUS
  <2>6. l2 <=> (lock = w \/ writes)
    OBVIOUS
  <2> HIDE DEF l, l2
  <2>7. /\ Progress("concepts", at[w], ev[w], db, Sees(w), read[w], l)
        /\ Sound(db) /\ Sound(Sees(w)) /\ IsApplied(ev[w]) /\ at[w] \in Nat
        /\ ~l => Sees(w) = db
    BY <2>1, <2>2, Where
  <2>8. Progress("concepts", at[w] + 1, ev[w], db, result, read[w], l2)
    BY <2>1, <2>2, <2>3, <2>5, <2>7, ProgressConcepts
  <2>9. StoreInv'
    BY ApplyStepKeeps DEF ApplyStep, WholeInv
  <2>10. "concepts" \in Sections /\ "concepts" \in Loops
    BY DEF Sections, NextSection, Loops
  <2>11. apc' = [apc EXCEPT ![w] = "concepts"] /\ read' = [read EXCEPT ![w] = read[w]]
    BY <2>1, Unmoved
  <2> HIDE DEF writes, result
  <2> QED BY <1>2, <2>1, <2>4, <2>5, <2>6, <2>8, <2>9, <2>10, <2>11, SectionStands
<1> QED BY <1>1, <1>2 DEF ApplyConcepts

LEMMA ApplyEdgesStands ==
  ASSUME WholeInv, NEW w \in Workers, ApplyEdges(w)
  PROVE  WholeInv'
<1> DEFINE x == ev[w].edges[at[w] + 1]
           writes == Linkable(Sees(w), x)
           result == Link(ev[w], Sees(w), x)
<1>1. CASE LoopEnds(w, "edges", ev[w].edges)
  <2> DEFINE l == lock = w
  <2>1. apc[w] = "edges" /\ at[w] = Len(ev[w].edges) /\ "edges" # "idle"
    BY <1>1 DEF LoopEnds
  <2>2. l \in BOOLEAN /\ (l <=> lock = w)
    OBVIOUS
  <2> HIDE DEF l
  <2>3. Progress("edges", Len(ev[w].edges), ev[w], db, Sees(w), read[w], l)
          => Progress(NextSection["edges"], 0, ev[w], db, Sees(w), read[w], l)
    <3>1. Sound(db) /\ IsApplied(ev[w])
      BY <2>1, <2>2, Where
    <3>2. NextSection["edges"] = "observations"
      BY DEF NextSection
    <3> QED BY <2>2, <3>1, <3>2, ProgressLoopEnds
  <2>4. "edges" \in Loops
    BY DEF Loops
  <2>5. Progress("edges", Len(ev[w].edges), ev[w], db, Sees(w), read[w], lock = w)
          => Progress(NextSection["edges"], 0, ev[w], db, Sees(w), read[w], lock = w)
    BY <2>3 DEF l
  <2> QED BY <1>1, <2>4, <2>5, LoopEndsStands
<1>2. CASE LoopRuns(w, "edges", ev[w].edges) /\ Statement(w, writes, result)
  <2> DEFINE l == lock = w
             l2 == lock = w \/ writes
  <2>1. /\ apc[w] = "edges" /\ at[w] < Len(ev[w].edges) /\ "edges" # "idle"
        /\ at' = [at EXCEPT ![w] = at[w] + 1] /\ apc' = apc /\ read' = read
    BY <1>2 DEF LoopRuns
  <2>2. l \in BOOLEAN /\ (l <=> lock = w)
    OBVIOUS
  <2>3. x = EdgeAt(ev[w], at[w] + 1)
    BY DEF EdgeAt
  <2>4. writes \in BOOLEAN /\ (~writes => result = Sees(w))
    BY DEF Link, Linkable, Known
  <2> HIDE DEF x
  <2>5. l2 \in BOOLEAN /\ (l2 <=> (l \/ Linkable(Sees(w), x)))
    OBVIOUS
  <2>6. l2 <=> (lock = w \/ writes)
    OBVIOUS
  <2> HIDE DEF l, l2
  <2>7. /\ Progress("edges", at[w], ev[w], db, Sees(w), read[w], l)
        /\ Sound(db) /\ Sound(Sees(w)) /\ IsApplied(ev[w]) /\ at[w] \in Nat
        /\ ~l => Sees(w) = db
    BY <2>1, <2>2, Where
  <2>8. Progress("edges", at[w] + 1, ev[w], db, result, read[w], l2)
    BY <2>1, <2>2, <2>3, <2>5, <2>7, ProgressEdges
  <2>9. StoreInv'
    BY ApplyStepKeeps DEF ApplyStep, WholeInv
  <2>10. "edges" \in Sections /\ "edges" \in Loops
    BY DEF Sections, NextSection, Loops
  <2>11. apc' = [apc EXCEPT ![w] = "edges"] /\ read' = [read EXCEPT ![w] = read[w]]
    BY <2>1, Unmoved
  <2> HIDE DEF writes, result
  <2> QED BY <1>2, <2>1, <2>4, <2>5, <2>6, <2>8, <2>9, <2>10, <2>11, SectionStands
<1> QED BY <1>1, <1>2 DEF ApplyEdges

LEMMA ApplyStateStands ==
  ASSUME WholeInv, NEW w \in Workers, ApplyState(w)
  PROVE  WholeInv'
<1> DEFINE d == ev[w].deltas[at[w] + 1]
           writes == Known(Sees(w), Norm[d.key])
           result == Mark(ev[w], Sees(w), d)
<1>1. CASE LoopEnds(w, "state", ev[w].deltas)
  <2> DEFINE l == lock = w
  <2>1. apc[w] = "state" /\ at[w] = Len(ev[w].deltas) /\ "state" # "idle"
    BY <1>1 DEF LoopEnds
  <2>2. l \in BOOLEAN /\ (l <=> lock = w)
    OBVIOUS
  <2> HIDE DEF l
  <2>3. Progress("state", Len(ev[w].deltas), ev[w], db, Sees(w), read[w], l)
          => Progress(NextSection["state"], 0, ev[w], db, Sees(w), read[w], l)
    <3>1. Sound(db) /\ IsApplied(ev[w])
      BY <2>1, <2>2, Where
    <3>2. NextSection["state"] = "traits"
      BY DEF NextSection
    <3> QED BY <2>2, <3>1, <3>2, ProgressLoopEnds
  <2>4. "state" \in Loops
    BY DEF Loops
  <2>5. Progress("state", Len(ev[w].deltas), ev[w], db, Sees(w), read[w], lock = w)
          => Progress(NextSection["state"], 0, ev[w], db, Sees(w), read[w], lock = w)
    BY <2>3 DEF l
  <2> QED BY <1>1, <2>4, <2>5, LoopEndsStands
<1>2. CASE LoopRuns(w, "state", ev[w].deltas) /\ Statement(w, writes, result)
  <2> DEFINE l == lock = w
             l2 == lock = w \/ writes
  <2>1. /\ apc[w] = "state" /\ at[w] < Len(ev[w].deltas) /\ "state" # "idle"
        /\ at' = [at EXCEPT ![w] = at[w] + 1] /\ apc' = apc /\ read' = read
    BY <1>2 DEF LoopRuns
  <2>2. l \in BOOLEAN /\ (l <=> lock = w)
    OBVIOUS
  <2>3. d = DeltaAt(ev[w], at[w] + 1)
    BY DEF DeltaAt
  <2>4. writes \in BOOLEAN /\ (~writes => result = Sees(w))
    BY DEF Mark, Known
  <2> HIDE DEF d
  <2>5. l2 \in BOOLEAN /\ (l2 <=> (l \/ Known(Sees(w), Norm[d.key])))
    OBVIOUS
  <2>6. l2 <=> (lock = w \/ writes)
    OBVIOUS
  <2> HIDE DEF l, l2
  <2>7. /\ Progress("state", at[w], ev[w], db, Sees(w), read[w], l)
        /\ Sound(db) /\ Sound(Sees(w)) /\ IsApplied(ev[w]) /\ at[w] \in Nat
        /\ ~l => Sees(w) = db
    BY <2>1, <2>2, Where
  <2>8. Progress("state", at[w] + 1, ev[w], db, result, read[w], l2)
    BY <2>1, <2>2, <2>3, <2>5, <2>7, ProgressState
  <2>9. StoreInv'
    BY ApplyStepKeeps DEF ApplyStep, WholeInv
  <2>10. "state" \in Sections /\ "state" \in Loops
    BY DEF Sections, NextSection, Loops
  <2>11. apc' = [apc EXCEPT ![w] = "state"] /\ read' = [read EXCEPT ![w] = read[w]]
    BY <2>1, Unmoved
  <2> HIDE DEF writes, result
  <2> QED BY <1>2, <2>1, <2>4, <2>5, <2>6, <2>8, <2>9, <2>10, <2>11, SectionStands
<1> QED BY <1>1, <1>2 DEF ApplyState

LEMMA ApplyObservationsStands ==
  ASSUME WholeInv, NEW w \in Workers, ApplyObservations(w)
  PROVE  WholeInv'
<1> DEFINE writes == ev[w].observations > 0
           result == Observe(Sees(w), ev[w])
           r == read[w]
           l == lock = w
           l2 == lock = w \/ writes
<1>1. /\ apc[w] = "observations" /\ "observations" # "idle" /\ "observations" \notin Loops
      /\ apc' = [apc EXCEPT ![w] = "state"] /\ at' = at /\ read' = read
      /\ Statement(w, writes, result)
  BY DEF ApplyObservations, Section, NextSection, Loops
<1>2. l \in BOOLEAN /\ (l <=> lock = w) /\ writes \in BOOLEAN
  OBVIOUS
<1>3. l2 \in BOOLEAN /\ (l2 <=> (l \/ ev[w].observations > 0)) /\ (l2 <=> (lock = w \/ writes))
  OBVIOUS
<1> HIDE DEF l, l2
<1>4. /\ Progress("observations", 0, ev[w], db, Sees(w), read[w], l) /\ at[w] = 0
      /\ Sound(db) /\ Sound(Sees(w)) /\ IsApplied(ev[w])
      /\ ~l => Sees(w) = db
  BY <1>1, <1>2, Where
<1>5. ~writes => result = Sees(w)
  <2>1. ev[w].observations \in Nat
    BY <1>4 DEF IsApplied
  <2>2. CASE ev[w].observations = 0
    BY <2>1, <2>2, <1>4, ObserveNone
  <2> QED BY <2>1, <2>2
<1>6. Progress("state", 0, ev[w], db, result, r, l2)
  BY <1>2, <1>3, <1>4, ProgressObservations
<1>7. StoreInv'
  BY ApplyStepKeeps DEF ApplyStep, WholeInv
<1>8. "state" \in Sections
  BY DEF Sections, NextSection
<1>9. at' = [at EXCEPT ![w] = 0] /\ read' = [read EXCEPT ![w] = r]
  BY <1>1, <1>4, Unmoved
<1>10. Statement(w, writes, result)
  BY <1>1 DEF Statement
<1> DEFINE n == 0
<1>11. n = 0
  OBVIOUS
<1> HIDE DEF writes, result, r
<1> QED
  <2> HIDE DEF n
  <2>1. at' = [at EXCEPT ![w] = n] /\ Progress("state", n, ev[w], db, result, r, l2)
    BY <1>6, <1>9, <1>11
  <2>2. "state" \notin Loops => n = 0
    BY <1>11
  <2>3. apc' = [apc EXCEPT ![w] = "state"] /\ read' = [read EXCEPT ![w] = r]
    BY <1>1, <1>9
  <2>4. l2 \in BOOLEAN /\ (l2 <=> (lock = w \/ writes)) /\ writes \in BOOLEAN
    BY <1>2, <1>3
  <2> QED BY <1>5, <1>7, <1>8, <1>10, <2>1, <2>2, <2>3, <2>4, SectionStands

LEMMA ReadTraitsStands ==
  ASSUME WholeInv, NEW w \in Workers, ReadTraits(w)
  PROVE  WholeInv'
<1> DEFINE writes == FALSE
           result == Sees(w)
           r == Sees(w).traits[ev[w].user]
           l == lock = w
           l2 == lock = w \/ writes
<1>1. /\ apc[w] = "traits" /\ "traits" # "idle" /\ "traits" \notin Loops
      /\ apc' = [apc EXCEPT ![w] = "merge"] /\ at' = at /\ read' = [read EXCEPT ![w] = r]
      /\ Statement(w, writes, db)
  BY DEF ReadTraits, Section, NextSection, Loops
<1>2. l \in BOOLEAN /\ (l <=> lock = w) /\ writes \in BOOLEAN
  OBVIOUS
<1>3. l2 \in BOOLEAN /\ (l2 <=> (l \/ FALSE)) /\ (l2 <=> (lock = w \/ writes))
  OBVIOUS
<1> HIDE DEF l, l2
<1>4. /\ Progress("traits", 0, ev[w], db, Sees(w), read[w], l) /\ at[w] = 0
      /\ Sound(db) /\ Sound(Sees(w)) /\ IsApplied(ev[w])
      /\ ~l => Sees(w) = db
  BY <1>1, <1>2, Where
<1>5. ~writes => result = Sees(w)
  OBVIOUS
<1>6. Progress("merge", 0, ev[w], db, result, r, l2)
  BY <1>2, <1>3, <1>4, ProgressRead
<1>7. StoreInv'
  BY ApplyStepKeeps DEF ApplyStep, WholeInv
<1>8. "merge" \in Sections
  BY DEF Sections, NextSection
<1>9. at' = [at EXCEPT ![w] = 0] /\ read' = [read EXCEPT ![w] = r]
  BY <1>1, <1>4, Unmoved
<1>10. Statement(w, writes, result)
  BY <1>1 DEF Statement
<1> DEFINE n == 0
<1>11. n = 0
  OBVIOUS
<1> HIDE DEF writes, result, r
<1> QED
  <2> HIDE DEF n
  <2>1. at' = [at EXCEPT ![w] = n] /\ Progress("merge", n, ev[w], db, result, r, l2)
    BY <1>6, <1>9, <1>11
  <2>2. "merge" \notin Loops => n = 0
    BY <1>11
  <2>3. apc' = [apc EXCEPT ![w] = "merge"] /\ read' = [read EXCEPT ![w] = r]
    BY <1>1, <1>9
  <2>4. l2 \in BOOLEAN /\ (l2 <=> (lock = w \/ writes)) /\ writes \in BOOLEAN
    BY <1>2, <1>3
  <2> QED BY <1>5, <1>7, <1>8, <1>10, <2>1, <2>2, <2>3, <2>4, SectionStands

LEMMA ApplyTraitsStands ==
  ASSUME WholeInv, NEW w \in Workers, ApplyTraits(w)
  PROVE  WholeInv'
<1> DEFINE writes == ev[w].traits # <<>>
           result == MergeTraits(Sees(w), ev[w], read[w])
           r == read[w]
           l == lock = w
           l2 == lock = w \/ writes
<1>1. /\ apc[w] = "merge" /\ "merge" # "idle" /\ "merge" \notin Loops
      /\ apc' = [apc EXCEPT ![w] = "summary"] /\ at' = at /\ read' = read
      /\ Statement(w, writes, result)
  BY DEF ApplyTraits, Section, NextSection, Loops
<1>2. l \in BOOLEAN /\ (l <=> lock = w) /\ writes \in BOOLEAN
  OBVIOUS
<1>3. l2 \in BOOLEAN /\ (l2 <=> (l \/ ev[w].traits # <<>>)) /\ (l2 <=> (lock = w \/ writes))
  OBVIOUS
<1> HIDE DEF l, l2
<1>4. /\ Progress("merge", 0, ev[w], db, Sees(w), read[w], l) /\ at[w] = 0
      /\ Sound(db) /\ Sound(Sees(w)) /\ IsApplied(ev[w])
      /\ ~l => Sees(w) = db
  BY <1>1, <1>2, Where
<1>5. ~writes => result = Sees(w)
  BY DEF MergeTraits
<1>6. Progress("summary", 0, ev[w], db, result, r, l2)
  BY <1>2, <1>3, <1>4, ProgressMerge
<1>7. StoreInv'
  BY ApplyStepKeeps DEF ApplyStep, WholeInv
<1>8. "summary" \in Sections
  BY DEF Sections, NextSection
<1>9. at' = [at EXCEPT ![w] = 0] /\ read' = [read EXCEPT ![w] = r]
  BY <1>1, <1>4, Unmoved
<1>10. Statement(w, writes, result)
  BY <1>1 DEF Statement
<1> DEFINE n == 0
<1>11. n = 0
  OBVIOUS
<1> HIDE DEF writes, result, r
<1> QED
  <2> HIDE DEF n
  <2>1. at' = [at EXCEPT ![w] = n] /\ Progress("summary", n, ev[w], db, result, r, l2)
    BY <1>6, <1>9, <1>11
  <2>2. "summary" \notin Loops => n = 0
    BY <1>11
  <2>3. apc' = [apc EXCEPT ![w] = "summary"] /\ read' = [read EXCEPT ![w] = r]
    BY <1>1, <1>9
  <2>4. l2 \in BOOLEAN /\ (l2 <=> (lock = w \/ writes)) /\ writes \in BOOLEAN
    BY <1>2, <1>3
  <2> QED BY <1>5, <1>7, <1>8, <1>10, <2>1, <2>2, <2>3, <2>4, SectionStands

LEMMA ApplySummaryStands ==
  ASSUME WholeInv, NEW w \in Workers, ApplySummary(w)
  PROVE  WholeInv'
<1> DEFINE writes == ev[w].summary # NoSummary
           result == Summarise(Sees(w), ev[w])
           r == read[w]
           l == lock = w
           l2 == lock = w \/ writes
<1>1. /\ apc[w] = "summary" /\ "summary" # "idle" /\ "summary" \notin Loops
      /\ apc' = [apc EXCEPT ![w] = "commit"] /\ at' = at /\ read' = read
      /\ Statement(w, writes, result)
  BY DEF ApplySummary, Section, NextSection, Loops
<1>2. l \in BOOLEAN /\ (l <=> lock = w) /\ writes \in BOOLEAN
  OBVIOUS
<1>3. l2 \in BOOLEAN /\ (l2 <=> (l \/ ev[w].summary # NoSummary)) /\ (l2 <=> (lock = w \/ writes))
  OBVIOUS
<1> HIDE DEF l, l2
<1>4. /\ Progress("summary", 0, ev[w], db, Sees(w), read[w], l) /\ at[w] = 0
      /\ Sound(db) /\ Sound(Sees(w)) /\ IsApplied(ev[w])
      /\ ~l => Sees(w) = db
  BY <1>1, <1>2, Where
<1>5. ~writes => result = Sees(w)
  BY DEF Summarise
<1>6. Progress("commit", 0, ev[w], db, result, r, l2)
  BY <1>2, <1>3, <1>4, ProgressSummary
<1>7. StoreInv'
  BY ApplyStepKeeps DEF ApplyStep, WholeInv
<1>8. "commit" \in Sections
  BY DEF Sections, NextSection
<1>9. at' = [at EXCEPT ![w] = 0] /\ read' = [read EXCEPT ![w] = r]
  BY <1>1, <1>4, Unmoved
<1>10. Statement(w, writes, result)
  BY <1>1 DEF Statement
<1> DEFINE n == 0
<1>11. n = 0
  OBVIOUS
<1> HIDE DEF writes, result, r
<1> QED
  <2> HIDE DEF n
  <2>1. at' = [at EXCEPT ![w] = n] /\ Progress("commit", n, ev[w], db, result, r, l2)
    BY <1>6, <1>9, <1>11
  <2>2. "commit" \notin Loops => n = 0
    BY <1>11
  <2>3. apc' = [apc EXCEPT ![w] = "commit"] /\ read' = [read EXCEPT ![w] = r]
    BY <1>1, <1>9
  <2>4. l2 \in BOOLEAN /\ (l2 <=> (lock = w \/ writes)) /\ writes \in BOOLEAN
    BY <1>2, <1>3
  <2> QED BY <1>5, <1>7, <1>8, <1>10, <2>1, <2>2, <2>3, <2>4, SectionStands

LEMMA BeginStands ==
  ASSUME WholeInv, NEW w \in Workers, Begin(w)
  PROVE  WholeInv'
<1>1. StoreInv'
  BY ApplyStepKeeps DEF ApplyStep, WholeInv
<1>2. /\ apc[w] = "idle" /\ apc' = [apc EXCEPT ![w] = "concepts"]
      /\ UNCHANGED <<db, lock, working, at, read, loader>>
      /\ \E e \in Evals : ev' = [ev EXCEPT ![w] = Validated(e)]
  BY DEF Begin
<1>3. /\ apc \in [Workers -> Sections \cup {"idle"}] /\ at \in [Workers -> Nat]
      /\ read = [v \in Workers |-> read[v]] /\ ev \in [Workers -> Applied]
  BY DEF WholeInv, StoreInv
<1>4. "concepts" \in Sections
  BY DEF Sections, NextSection
<1>5. apc' \in [Workers -> Sections \cup {"idle"}] /\ apc'[w] = "concepts"
  BY <1>2, <1>3, <1>4
<1>6. Standing(w)'
  <2> DEFINE l == lock = w
             k == lock' = w
             e == ev'[w]
  <2>1. Stands("idle", at[w], ev[w], db, Sees(w), read[w], l)
    BY <1>2 DEF WholeInv, Standing
  <2>2. ~l /\ at[w] = 0
    BY <2>1 DEF Stands, Loops
  <2>3. ~k
    BY <1>2, <2>2
  <2> HIDE DEF l, k, e
  <2>4. 1..0 = {}
    OBVIOUS
  <2>5. Progress("concepts", 0, e, db', Sees(w)', read'[w], k)
    BY <2>3, <2>4 DEF Progress, Silent, Unwritten, AfterObservations, AfterTraits
  <2>6. Stands("concepts", 0, e, db', Sees(w)', read'[w], k)
    BY <2>5 DEF Stands, Loops
  <2>7. Stands(apc'[w], at'[w], e, db', Sees(w)', read'[w], k)
    BY <1>2, <1>5, <2>2, <2>6
  <2> QED BY <2>7 DEF Standing, k, e
<1>7. ASSUME NEW v \in Workers, v # w PROVE Standing(v)'
  <2>1. apc'[v] = apc[v] /\ at'[v] = at[v] /\ read'[v] = read[v] /\ ev'[v] = ev[v]
    BY <1>2, <1>3, <1>7
  <2> QED BY <1>2, <1>7, <2>1, OthersStand
<1> QED BY <1>1, <1>2, <1>3, <1>5, <1>6, <1>7 DEF WholeInv

LEMMA LeaveStands ==
  ASSUME WholeInv, NEW w \in Workers, Commit(w) \/ Rollback(w)
  PROVE  WholeInv'
<1>1. StoreInv'
  BY ApplyStepKeeps DEF ApplyStep, WholeInv
<1>2. /\ apc' = [apc EXCEPT ![w] = "idle"] /\ at' = [at EXCEPT ![w] = 0]
      /\ read' = [read EXCEPT ![w] = <<>>]
      /\ lock' = IF lock = w THEN NoOne ELSE lock
      /\ ev' = ev
      /\ lock # w => db' = db /\ working' = working
  BY DEF Commit, Rollback, Leave, Sees
<1>3. /\ apc \in [Workers -> Sections \cup {"idle"}] /\ at \in [Workers -> Nat]
      /\ read = [v \in Workers |-> read[v]]
  BY DEF WholeInv, StoreInv
<1>4. /\ apc' \in [Workers -> Sections \cup {"idle"}] /\ read' = [v \in Workers |-> read'[v]]
      /\ apc'[w] = "idle" /\ at'[w] = 0
  BY <1>2, <1>3
<1>5. lock' # w
  BY <1>2, NoOneAssumption
<1>6. Standing(w)'
  <2> DEFINE k == lock' = w
  <2>1. ~k
    BY <1>5
  <2> HIDE DEF k
  <2>2. Stands("idle", 0, ev'[w], db', Sees(w)', read'[w], k)
    BY <2>1 DEF Stands
  <2>3. Stands(apc'[w], at'[w], ev'[w], db', Sees(w)', read'[w], k)
    BY <1>4, <2>2
  <2> QED BY <2>3 DEF Standing, k
<1>7. ASSUME NEW v \in Workers, v # w PROVE Standing(v)'
  <2>1. apc'[v] = apc[v] /\ at'[v] = at[v] /\ read'[v] = read[v] /\ ev'[v] = ev[v]
    BY <1>2, <1>3, <1>7
  <2>2. (lock' = v <=> lock = v) /\ (lock = v => db' = db /\ working' = working)
    BY <1>2, <1>7, NoOneAssumption
  <2> QED BY <1>7, <2>1, <2>2, OthersStand
<1> QED BY <1>1, <1>4, <1>6, <1>7 DEF WholeInv

LEMMA WholeInvHolds == Spec => []WholeInv
<1>1. Init => WholeInv
  <2> SUFFICES ASSUME Init PROVE WholeInv
    OBVIOUS
  <2>1. StoreInv
    BY EmptyIsSound, EvalsAssumption DEF Init, StoreInv, Applied
  <2>2. /\ apc \in [Workers -> Sections \cup {"idle"}]
        /\ read = [w \in Workers |-> read[w]]
    BY DEF Init
  <2>3. ASSUME NEW w \in Workers PROVE Standing(w)
    <3> DEFINE l == lock = w
    <3>1. ~l /\ apc[w] = "idle" /\ at[w] = 0
      BY NoOneAssumption DEF Init
    <3> HIDE DEF l
    <3>2. Stands(apc[w], at[w], ev[w], db, Sees(w), read[w], l)
      BY <3>1 DEF Stands
    <3> QED BY <3>2 DEF Standing, l
  <2> QED BY <2>1, <2>2, <2>3 DEF WholeInv
<1>2. WholeInv /\ [Next]_storeVars => WholeInv'
  <2>1. ASSUME WholeInv, UNCHANGED applyVars PROVE WholeInv'
    BY <2>1 DEF applyVars, WholeInv, StoreInv, Standing, Sees, Sound, Tables, IsStore, Linked, Known,
                Rows, IsMap, Applied
  <2>2. ASSUME WholeInv, LoadStep PROVE WholeInv'
    BY <2>1, <2>2 DEF LoadStep, LoadWeak, LoadIds, LoadEdges, LoadReturn
  <2>3. ASSUME WholeInv, NEW w \in Workers, ApplyStep(w) PROVE WholeInv'
    BY <2>3, BeginStands, ApplyConceptsStands, ApplyEdgesStands, ApplyObservationsStands,
       ApplyStateStands, ReadTraitsStands, ApplyTraitsStands, ApplySummaryStands, LeaveStands
    DEF ApplyStep
  <2> QED BY <2>1, <2>2, <2>3 DEF Next, storeVars
<1> QED BY <1>1, <1>2, PTL DEF Spec

\* concept_edges and learner_concept_state only refer to concepts that exist,
\* in the committed tables and inside every transaction, however many workers
\* apply whatever evaluations and wherever they are stopped: a foreign key
\* never fails an evaluation.
THEOREM ForeignKeysHold == Spec => []NoDanglingConcept
<1>1. StoreInv => NoDanglingConcept
  BY DEF StoreInv, Sound, Linked, NoDanglingConcept
<1> QED BY <1>1, StoreInvHolds, PTL

\* What a commit publishes of an evaluation that upserts nothing.
LEMMA PartlyWhole ==
  ASSUME NEW s, Sound(s), NEW e, IsApplied(e), ~UpsertsFirst(e), NEW v, Sound(v),
         Partly("commit", e, s, v)
  PROVE  /\ s.edge \subseteq v.edge /\ v.edge \subseteq Whole(s, e).edge
         /\ \A u \in Learners, k \in Keys :
              v.mark[u][k] # Whole(s, e).mark[u][k] => s.name[k] # NoName
         /\ \A n \in DOMAIN e.traits : v.traits[e.user][n] = e.traits[n]
         /\ [v EXCEPT !.edge = Whole(s, e).edge, !.mark = Whole(s, e).mark,
                      !.traits = Whole(s, e).traits] = Whole(s, e)
<1> DEFINE t == Whole(s, e)
           u0 == UpsertConcepts(s, e)
<1>1. u0 = s
  <2>1. Silent(e, Len(e.upserts)) /\ Len(e.upserts) \in Nat
    BY FirstUpsert, LenProperties DEF IsApplied
  <2> QED BY <2>1, SilentUpserts, UpsertsAll
<1>2. /\ Sound(t) /\ NamesSame(u0, t)
      /\ t.edge = s.edge \cup LinksOf(u0, e, Len(e.edges))
      /\ t.obs = [s.obs EXCEPT ![e.user] = s.obs[e.user] + e.observations]
      /\ t.summary = IF e.summary = NoSummary THEN s.summary
                     ELSE [s.summary EXCEPT ![e.user] = e.summary]
  BY WholeIs
<1> HIDE DEF t, u0
<1>3. t.name = s.name /\ v.name = s.name
  BY <1>1, <1>2 DEF Partly, NamesSame
<1>4. t.edge = s.edge \cup LinksOf(s, e, Len(e.edges))
  BY <1>1, <1>2
<1>5. s.edge \subseteq v.edge /\ v.edge \subseteq t.edge
  BY <1>4 DEF Partly
<1>6. ASSUME NEW u \in Learners, NEW k \in Keys, s.name[k] = NoName
      PROVE  v.mark[u][k] = t.mark[u][k]
  <2>1. v.mark[u][k] = NoMark
    BY <1>3, <1>6 DEF Sound, Linked, Known
  <2>2. t.mark[u][k] = NoMark
    BY <1>2, <1>3, <1>6 DEF Sound, Linked, Known
  <2> QED BY <2>1, <2>2
<1>7. \A n \in DOMAIN e.traits : v.traits[e.user][n] = e.traits[n]
  BY DEF Partly, AfterTraits
<1>8. v.obs = t.obs /\ v.summary = t.summary
  BY <1>2 DEF Partly, AfterObservations
<1>9. [v EXCEPT !.edge = t.edge, !.mark = t.mark, !.traits = t.traits] = t
  <2>1. IsStore(v) /\ IsStore(t)
    BY <1>2 DEF Sound, Tables
  <2> QED BY <1>3, <1>8, <2>1 DEF IsStore
<1> QED BY <1>5, <1>6, <1>7, <1>9 DEF t

\* "Write all LLM-derived updates atomically": however the workers' sections
\* interleave, and wherever a worker fails, the committed tables change only
\* from what they were to what a whole evaluation makes of them; an
\* evaluation that upserts nothing may have looked concepts and traits up in
\* older tables, and misses no more than that.
THEOREM EvaluationsAreApplied == Spec => AppliedWhole
<1> DEFINE Good == \A w \in Workers :
       apc[w] # "idle" /\ apc'[w] = "idle" /\ db' # db =>
         LET whole == Whole(db, ev[w])
         IN \/ db' = whole
            \/ /\ ~UpsertsFirst(ev[w])
               /\ db.edge \subseteq db'.edge /\ db'.edge \subseteq whole.edge
               /\ \A u \in Learners, k \in Keys :
                    db'.mark[u][k] # whole.mark[u][k] => db.name[k] # NoName
               /\ \A n \in DOMAIN ev[w].traits : db'.traits[ev[w].user][n] = ev[w].traits[n]
               /\ [db' EXCEPT !.edge = whole.edge, !.mark = whole.mark, !.traits = whole.traits]
                  = whole
<1>1. ASSUME WholeInv, Next PROVE Good
  <2> SUFFICES ASSUME NEW w \in Workers, apc[w] # "idle", apc'[w] = "idle", db' # db
               PROVE  \/ db' = Whole(db, ev[w])
                      \/ /\ ~UpsertsFirst(ev[w])
                         /\ db.edge \subseteq db'.edge /\ db'.edge \subseteq Whole(db, ev[w]).edge
                         /\ \A u \in Learners, k \in Keys :
                              db'.mark[u][k] # Whole(db, ev[w]).mark[u][k] => db.name[k] # NoName
                         /\ \A n \in DOMAIN ev[w].traits :
                              db'.traits[ev[w].user][n] = ev[w].traits[n]
                         /\ [db' EXCEPT !.edge = Whole(db, ev[w]).edge,
                                        !.mark = Whole(db, ev[w]).mark,
                                        !.traits = Whole(db, ev[w]).traits]
                            = Whole(db, ev[w])
    OBVIOUS
  <2>1. PICK v \in Workers : Commit(v)
    BY <1>1 DEF Next, ApplyStep, LoadStep, LoadWeak, LoadIds, LoadEdges, LoadReturn, applyVars,
                Begin, ApplyConcepts, ApplyEdges, ApplyObservations, ApplyState, ReadTraits,
                ApplyTraits, ApplySummary, Rollback, Section, LoopEnds, LoopRuns, Statement
  <2>2. apc' = [apc EXCEPT ![v] = "idle"] /\ apc[v] = "commit" /\ db' = Sees(v)
    BY <2>1 DEF Commit, Leave
  <2>3. v = w
    BY <1>1, <2>2 DEF WholeInv
  <2>4. lock = w /\ apc[w] = "commit" /\ db' = Sees(w)
    BY <2>2, <2>3 DEF Sees
  <2> DEFINE l == TRUE
  <2>5. l \in BOOLEAN /\ (l <=> lock = w)
    BY <2>4
  <2>6. /\ Progress("commit", at[w], ev[w], db, db', read[w], l)
        /\ Sound(db) /\ Sound(db') /\ IsApplied(ev[w])
    <3> HIDE DEF l
    <3> QED BY <1>1, <2>4, <2>5, Where
  <2> DEFINE s == db
             s2 == db'
             e == ev[w]
  <2>7. CASE UpsertsFirst(e)
    BY <2>6, <2>7 DEF Progress, Exact
  <2>8. CASE ~UpsertsFirst(e)
    <3>1. Partly("commit", e, s, s2)
      BY <2>6, <2>8 DEF Progress
    <3>2. Sound(s) /\ Sound(s2) /\ IsApplied(e)
      BY <2>6
    <3> HIDE DEF s, s2, e
    <3>3. /\ s.edge \subseteq s2.edge /\ s2.edge \subseteq Whole(s, e).edge
          /\ \A u \in Learners, k \in Keys :
               s2.mark[u][k] # Whole(s, e).mark[u][k] => s.name[k] # NoName
          /\ \A n \in DOMAIN e.traits : s2.traits[e.user][n] = e.traits[n]
          /\ [s2 EXCEPT !.edge = Whole(s, e).edge, !.mark = Whole(s, e).mark,
                       !.traits = Whole(s, e).traits] = Whole(s, e)
      BY <2>8, <3>1, <3>2, PartlyWhole, Zenon
    <3> QED BY <2>8, <3>3, Zenon DEF s, s2, e
  <2> QED BY <2>7, <2>8
<1>2. WholeInv /\ [Next]_storeVars => [Good]_storeVars
  BY <1>1, Zenon
<1>3. Spec => [][Good]_storeVars
  BY <1>2, WholeInvHolds, PTL DEF Spec
<1> QED BY <1>3, Zenon DEF AppliedWhole

-----------------------------------------------------------------------------
(* The sections compute the meaning of the evaluation.                     *)

LEMMA MaxIsLast ==
  ASSUME NEW m \in Nat, NEW I \in SUBSET (1..m), I # {}
  PROVE  IsLast(Max(I), I)
<1> DEFINE T == {n \in Nat : \A J \in SUBSET (1..n) : J # {} => \E i \in J : \A j \in J : j <= i}
<1>1. 0 \in T
  <2>1. 1..0 = {}
    OBVIOUS
  <2> QED BY <2>1
<1>2. ASSUME NEW n \in Nat, n \in T PROVE n + 1 \in T
  <2> SUFFICES ASSUME NEW J \in SUBSET (1..(n + 1)), J # {}
               PROVE  \E i \in J : \A j \in J : j <= i
    OBVIOUS
  <2>1. CASE n + 1 \in J
    BY <2>1
  <2>2. CASE n + 1 \notin J
    <3>1. J \in SUBSET (1..n)
      BY <2>2
    <3> QED BY <1>2, <3>1
  <2> QED BY <2>1, <2>2
<1> HIDE DEF T
<1>3. m \in T
  BY <1>1, <1>2, UpsertSteps!Induction
<1>4. \E i \in I : \A j \in I : j <= i
  BY <1>3 DEF T
<1>5. \A j \in I : Max(I) \in I /\ Max(I) >= j
  BY <1>4 DEF Max
<1> QED BY <1>5 DEF IsLast

\* A concept exists after the upserts if it did before or one names it.
LEMMA KnownIsExists ==
  ASSUME NEW s, Sound(s), NEW e, IsApplied(e), NEW k
  PROVE  /\ Known(UpsertConcepts(s, e), k) <=> Exists(s, e, k)
         /\ k \in Keys => UpsertConcepts(s, e).name[k] =
              IF UpsertsOf(e, k) = {} THEN s.name[k] ELSE e.upserts[Max(UpsertsOf(e, k))].name
<1> DEFINE u == UpsertConcepts(s, e)
           m == Len(e.upserts)
           I == UpsertsOf(e, k)
<1>1. NamesWritten(s, u, e, m)
  BY UpsertConceptsIs
<1>2. DOMAIN e.upserts = 1..m /\ m \in Nat
  BY LenProperties DEF IsApplied
<1>3. I = NamesOf(e, m, k) /\ I \in SUBSET (1..m)
  BY <1>2 DEF UpsertsOf, NamesOf
<1> HIDE DEF u, m, I
<1>4. CASE k \in Keys /\ I = {}
  <2>1. u.name[k] = s.name[k]
    BY <1>1, <1>3, <1>4 DEF NamesWritten
  <2> QED BY <1>4, <2>1 DEF Known, Exists, u, I
<1>5. CASE k \in Keys /\ I # {}
  <2>1. IsLast(Max(I), I)
    BY <1>2, <1>3, <1>5, MaxIsLast
  <2>2. Max(I) \in 1..m
    BY <1>3, <2>1 DEF IsLast
  <2>3. u.name[k] = e.upserts[Max(I)].name
    BY <1>1, <1>3, <1>5, <2>1, <2>2 DEF NamesWritten
  <2>4. e.upserts[Max(I)] \in [key : RawKeys, name : Names]
    BY <2>2, ElementOfSeq DEF IsApplied, m
  <2>5. u.name[k] # NoName
    BY <2>3, <2>4, StoreAssumption
  <2> QED BY <1>5, <2>3, <2>5 DEF Known, Exists, u, I
<1>6. CASE k \notin Keys
  BY <1>6 DEF Known, Exists
<1> QED BY <1>4, <1>5, <1>6 DEF u, I

LEMMA WholeMeans ==
  ASSUME NEW s, Sound(s), NEW e, IsApplied(e)
  PROVE  Whole(s, e) = Meaning(s, e)
<1> DEFINE u == UpsertConcepts(s, e)
           o == Observed(s, e)
           t == Whole(s, e)
<1>1. /\ Sound(t) /\ NamesSame(u, t)
      /\ t.edge = s.edge \cup LinksOf(u, e, Len(e.edges))
      /\ t.obs = [s.obs EXCEPT ![e.user] = s.obs[e.user] + e.observations]
      /\ StatesWritten(o, t, e, Len(e.deltas))
      /\ t.traits = IF e.traits = <<>> THEN s.traits
                    ELSE [s.traits EXCEPT ![e.user] = Merge(s.traits[e.user], e.traits)]
      /\ t.summary = IF e.summary = NoSummary THEN s.summary
                     ELSE [s.summary EXCEPT ![e.user] = e.summary]
  BY WholeIs
<1>2. NamesSame(u, o) /\ MarksSame(s, o)
  BY ObservedIs
<1>3. \A k : /\ Known(u, k) <=> Exists(s, e, k)
             /\ k \in Keys => u.name[k] =
                  IF UpsertsOf(e, k) = {} THEN s.name[k] ELSE e.upserts[Max(UpsertsOf(e, k))].name
  BY KnownIsExists
<1> HIDE DEF u, o, t
<1>4. t.name = Meaning(s, e).name
  <2>1. t.name = [k \in Keys |-> u.name[k]]
    BY <1>1 DEF Sound, Tables, NamesSame
  <2>2. Meaning(s, e).name = [k \in Keys |->
          IF UpsertsOf(e, k) = {} THEN s.name[k] ELSE e.upserts[Max(UpsertsOf(e, k))].name]
    BY DEF Meaning
  <2> QED BY <1>3, <2>1, <2>2
<1>5. t.edge = Meaning(s, e).edge
  <2>1. DOMAIN e.edges = 1..Len(e.edges)
    BY LenProperties DEF IsApplied
  <2>2. {e.edges[i] : i \in 1..Len(e.edges)} = Range(e.edges)
    BY <2>1 DEF Range
  <2>3. LinksOf(u, e, Len(e.edges)) = {Stored(x) : x \in {y \in Range(e.edges) : Linkable(u, y)}}
    BY <2>2 DEF LinksOf
  <2>4. \A y : Linkable(u, y) <=> Exists(s, e, Norm[y.from]) /\ Exists(s, e, Norm[y.to])
    BY <1>3 DEF Linkable
  <2>5. Meaning(s, e).edge = s.edge \cup {Stored(x) :
          x \in {y \in Range(e.edges) : Exists(s, e, Norm[y.from]) /\ Exists(s, e, Norm[y.to])}}
    BY DEF Meaning
  <2> QED BY <1>1, <2>3, <2>4, <2>5
<1>6. t.obs = Meaning(s, e).obs
  BY <1>1 DEF Meaning
<1>7. t.mark = Meaning(s, e).mark
  <2> DEFINE m == Len(e.deltas)
             New(v, k) == IF v = e.user /\ Exists(s, e, k) /\ DeltasOf(e, k) # {}
                          THEN e.deltas[Max(DeltasOf(e, k))].mark ELSE s.mark[v][k]
  <2>1. DOMAIN e.deltas = 1..m /\ m \in Nat
    BY LenProperties DEF IsApplied
  <2>2. \A k : DeltasOf(e, k) = StatesOf(e, m, k) /\ DeltasOf(e, k) \in SUBSET (1..m)
    BY <2>1 DEF DeltasOf, StatesOf
  <2>3. t.mark = [v \in Learners |-> [k \in Keys |-> t.mark[v][k]]]
    <3>1. t.mark \in [Learners -> [Keys -> {Weak, Strong, NoMark}]]
      BY <1>1 DEF Sound, Tables
    <3> QED BY <3>1
  <2>4. Meaning(s, e).mark = [v \in Learners |-> [k \in Keys |-> New(v, k)]]
    BY DEF Meaning
  <2> HIDE DEF m
  <2>5. ASSUME NEW v \in Learners, NEW k \in Keys PROVE t.mark[v][k] = New(v, k)
    <3>1. Exists(s, e, k) <=> o.name[k] # NoName
      BY <1>2, <1>3 DEF NamesSame, Known
    <3>2. StatesWritten(o, t, e, m) /\ o.mark = s.mark
      BY <1>1, <1>2 DEF MarksSame, m
    <3>3. CASE v = e.user /\ Exists(s, e, k) /\ DeltasOf(e, k) # {}
      <4> DEFINE i == Max(DeltasOf(e, k))
      <4>1. IsLast(i, DeltasOf(e, k))
        BY <2>1, <2>2, <3>3, MaxIsLast
      <4>2. IsLast(i, StatesOf(e, m, k)) /\ i \in 1..m
        BY <2>2, <4>1 DEF IsLast
      <4> HIDE DEF i
      <4>3. t.mark[e.user][k] = e.deltas[i].mark
        BY <3>1, <3>2, <3>3, <4>2 DEF StatesWritten
      <4> QED BY <3>3, <4>3 DEF i
    <3>4. CASE ~ (v = e.user /\ Exists(s, e, k) /\ DeltasOf(e, k) # {})
      <4>1. v # e.user \/ o.name[k] = NoName \/ StatesOf(e, m, k) = {}
        BY <2>2, <3>1, <3>4
      <4>2. t.mark[v][k] = o.mark[v][k]
        BY <3>2, <4>1 DEF StatesWritten
      <4> QED BY <3>2, <3>4, <4>2
    <3> QED BY <3>3, <3>4
  <2> HIDE DEF New
  <2> QED BY <2>3, <2>4, <2>5
<1>8. t.traits = Meaning(s, e).traits
  <2> DEFINE row == s.traits[e.user]
  <2>1. Meaning(s, e).traits = [s.traits EXCEPT ![e.user] = Merge(row, e.traits)]
    BY DEF Meaning, Merge
  <2>2. CASE e.traits = <<>>
    <3>1. IsMap(row) /\ s.traits = [v \in Learners |-> s.traits[v]] /\ e.user \in Learners
      BY DEF Sound, Rows, IsApplied
    <3>2. DOMAIN <<>> = {}
      OBVIOUS
    <3>3. Merge(row, <<>>) = row
      <4> HIDE DEF row
      <4> QED BY <3>1, <3>2 DEF Merge, IsMap
    <3>4. [s.traits EXCEPT ![e.user] = row] = s.traits
      BY <3>1
    <3> QED BY <1>1, <2>1, <2>2, <3>3, <3>4
  <2>3. CASE e.traits # <<>>
    BY <1>1, <2>1, <2>3
  <2> QED BY <2>2, <2>3
<1>9. t.summary = Meaning(s, e).summary
  <2>1. s.summary = [v \in Learners |-> s.summary[v]] /\ e.user \in Learners
    BY DEF Sound, Rows, IsApplied
  <2>2. Meaning(s, e).summary =
          [s.summary EXCEPT ![e.user] = IF e.summary = NoSummary THEN s.summary[e.user] ELSE e.summary]
    BY DEF Meaning
  <2>3. [s.summary EXCEPT ![e.user] = s.summary[e.user]] = s.summary
    BY <2>1
  <2> QED BY <1>1, <2>2, <2>3
<1>10. IsStore(t) /\ IsStore(Meaning(s, e))
  BY <1>1 DEF Sound, Tables, IsStore, Meaning
<1> QED BY <1>4, <1>5, <1>6, <1>7, <1>8, <1>9, <1>10 DEF IsStore, t

\* Whatever tables can be reached, applying a capped evaluation section by
\* section has the outcome the evaluation means: the last spelling of a key
\* wins, an edge or a delta counts when its concepts exist after the upserts.
THEOREM SectionsAreTheMeaning == Spec => []SectionsMeanTheEvaluation
<1>1. StoreInv => SectionsMeanTheEvaluation
  <2> SUFFICES ASSUME StoreInv, NEW e \in Evals
               PROVE  Whole(db, Validated(e)) = Meaning(db, Validated(e))
    BY DEF SectionsMeanTheEvaluation
  <2>1. Sound(db)
    BY DEF StoreInv
  <2>2. IsApplied(Validated(e))
    BY AppliedTypes DEF Applied
  <2> QED BY <2>1, <2>2, WholeMeans
<1> QED BY <1>1, StoreInvHolds, PTL

\* To mean an evaluation twice is to mean it once and to observe it again.
LEMMA MeaningTwice ==
  ASSUME NEW s, Sound(s), NEW e, IsApplied(e), NEW t, t = Meaning(s, e), Sound(t)
  PROVE  Meaning(t, e) = [t EXCEPT !.obs = [t.obs EXCEPT ![e.user] = t.obs[e.user] + e.observations]]
<1> DEFINE m == Meaning(t, e)
           Names1(k) == IF UpsertsOf(e, k) = {} THEN s.name[k] ELSE e.upserts[Max(UpsertsOf(e, k))].name
           Marked1(u, k) == u = e.user /\ Exists(s, e, k) /\ DeltasOf(e, k) # {}
           Links == {Stored(x) : x \in {y \in Range(e.edges) :
                       Exists(s, e, Norm[y.from]) /\ Exists(s, e, Norm[y.to])}}
<1>1. \A k \in Keys : t.name[k] = Names1(k)
  BY DEF Meaning
<1>2. m.name = t.name
  <2>1. m.name = [k \in Keys |->
          IF UpsertsOf(e, k) = {} THEN t.name[k] ELSE e.upserts[Max(UpsertsOf(e, k))].name]
    BY DEF Meaning
  <2>2. t.name = [k \in Keys |-> t.name[k]]
    BY DEF Sound, Tables
  <2> QED BY <1>1, <2>1, <2>2
<1>3. \A k : Exists(t, e, k) <=> Exists(s, e, k)
  BY <1>1 DEF Exists
<1>4. m.edge = t.edge
  <2>1. t.edge = s.edge \cup Links
    BY DEF Meaning
  <2>2. m.edge = t.edge \cup {Stored(x) : x \in {y \in Range(e.edges) :
                   Exists(t, e, Norm[y.from]) /\ Exists(t, e, Norm[y.to])}}
    BY DEF Meaning
  <2>3. {Stored(x) : x \in {y \in Range(e.edges) :
           Exists(t, e, Norm[y.from]) /\ Exists(t, e, Norm[y.to])}} = Links
    BY <1>3
  <2> HIDE DEF Links, m
  <2> QED BY <2>1, <2>2, <2>3
<1>5. m.mark = t.mark
  <2>1. t.mark = [u \in Learners |-> [k \in Keys |->
          IF Marked1(u, k) THEN e.deltas[Max(DeltasOf(e, k))].mark ELSE s.mark[u][k]]]
    BY DEF Meaning
  <2>2. m.mark = [u \in Learners |-> [k \in Keys |->
          IF u = e.user /\ Exists(t, e, k) /\ DeltasOf(e, k) # {}
          THEN e.deltas[Max(DeltasOf(e, k))].mark ELSE t.mark[u][k]]]
    BY DEF Meaning
  <2>3. m.mark = [u \in Learners |-> [k \in Keys |->
          IF Marked1(u, k) THEN e.deltas[Max(DeltasOf(e, k))].mark ELSE t.mark[u][k]]]
    BY <1>3, <2>2
  <2> HIDE DEF Marked1, m
  <2> QED BY <2>1, <2>3
<1>6. m.traits = t.traits
  <2> DEFINE row == Merge(s.traits[e.user], e.traits)
  <2>1. t.traits = [s.traits EXCEPT ![e.user] = row]
    BY DEF Meaning, Merge
  <2>2. m.traits = [t.traits EXCEPT ![e.user] = Merge(t.traits[e.user], e.traits)]
    BY DEF Meaning, Merge
  <2>3. s.traits = [u \in Learners |-> s.traits[u]] /\ e.user \in Learners
        /\ t.traits = [u \in Learners |-> t.traits[u]]
    BY DEF Sound, Rows, IsApplied
  <2>4. Merge(row, e.traits) = row
    BY DEF Merge
  <2> HIDE DEF row, m
  <2>5. t.traits[e.user] = row
    BY <2>1, <2>3
  <2>6. [t.traits EXCEPT ![e.user] = row] = t.traits
    BY <2>3, <2>5
  <2> QED BY <2>2, <2>4, <2>5, <2>6
<1>7. m.summary = t.summary
  <2>1. t.summary = [s.summary EXCEPT ![e.user] =
          IF e.summary = NoSummary THEN s.summary[e.user] ELSE e.summary]
    BY DEF Meaning
  <2>2. m.summary = [t.summary EXCEPT ![e.user] =
          IF e.summary = NoSummary THEN t.summary[e.user] ELSE e.summary]
    BY DEF Meaning
  <2>3. s.summary = [u \in Learners |-> s.summary[u]] /\ e.user \in Learners
        /\ t.summary = [u \in Learners |-> t.summary[u]]
    BY DEF Sound, Rows, IsApplied
  <2> HIDE DEF m
  <2>4. e.summary # NoSummary => t.summary[e.user] = e.summary
    BY <2>1, <2>3
  <2> QED BY <2>2, <2>3, <2>4
<1>8. m.obs = [t.obs EXCEPT ![e.user] = t.obs[e.user] + e.observations]
  BY DEF Meaning
<1>9. IsStore(m)
  BY DEF IsStore, Meaning
<1>10. IsStore(t)
  BY DEF Sound, Tables
<1> HIDE DEF m
<1> QED BY <1>2, <1>4, <1>5, <1>6, <1>7, <1>8, <1>9, <1>10 DEF IsStore, m

\* A job that is run again after its first run committed changes nothing but
\* the observations, which it adds a second time: so for any tables that can
\* be reached and any evaluation, if the LLM answers the same.
THEOREM ReplayAddsObservations == Spec => []ReplayOnlyRepeatsObservations
<1>1. StoreInv => ReplayOnlyRepeatsObservations
  <2> SUFFICES ASSUME StoreInv, NEW e \in Evals
               PROVE  LET v == Validated(e)
                          once == Whole(db, v)
                      IN Whole(once, v) = [once EXCEPT !.obs[v.user] = @ + v.observations]
    BY DEF ReplayOnlyRepeatsObservations
  <2> DEFINE v == Validated(e)
             s == db
             t == Whole(s, v)
  <2>1. Sound(s)
    BY DEF StoreInv
  <2>2. IsApplied(v)
    BY AppliedTypes DEF Applied
  <2> HIDE DEF v, s
  <2>3. Sound(t)
    BY <2>1, <2>2, WholeIs
  <2>4. t = Meaning(s, v) /\ Whole(t, v) = Meaning(t, v)
    BY <2>1, <2>2, <2>3, WholeMeans
  <2> HIDE DEF t
  <2>5. Whole(t, v) = [t EXCEPT !.obs = [t.obs EXCEPT ![v.user] = t.obs[v.user] + v.observations]]
    BY <2>1, <2>2, <2>3, <2>4, MeaningTwice
  <2> QED BY <2>5 DEF v, s, t
<1> QED BY <1>1, StoreInvHolds, PTL

-----------------------------------------------------------------------------
(* Types, of which the bound on observations needs an argument: every      *)
(* evaluation that was begun adds at most MaxObservations, once, and those *)
(* of the workers that are still busy are not committed.                   *)

Busy == {w \in Workers : apc[w] # "idle"}

\* The observations of n evaluations at most.
Cap(n) == n * MaxObservations

LEMMA CapGrows ==
  /\ \A n \in Nat : Cap(n) \in Nat /\ Cap(n + 1) = Cap(n) + MaxObservations
  /\ \A n, k \in Nat : n <= k => Cap(n) <= Cap(k)
<1>1. MaxObservations \in Nat
  BY StoreAssumption
<1>2. \A n \in Nat : n * MaxObservations \in Nat
                    /\ (n + 1) * MaxObservations = n * MaxObservations + MaxObservations
  BY <1>1
<1>3. \A n, k \in Nat : n <= k => n * MaxObservations <= k * MaxObservations
  <2> SUFFICES ASSUME NEW n \in Nat, NEW k \in Nat, n <= k
               PROVE  n * MaxObservations <= k * MaxObservations
    OBVIOUS
  <2>1. k - n \in Nat /\ k = n + (k - n)
    OBVIOUS
  <2> DEFINE d == k - n
  <2>2. (n + d) * MaxObservations = n * MaxObservations + d * MaxObservations
    BY <1>1
  <2>3. d * MaxObservations \in Nat
    BY <1>2, <2>1
  <2> QED BY <1>1, <2>1, <2>2, <2>3
<1> QED BY <1>2, <1>3 DEF Cap

\* What the transaction of worker w adds to the committed observations.
Pending == IF apc[lock] \in AfterObservations THEN MaxObservations ELSE 0

Bounded ==
  /\ applies \in Nat /\ applies <= MaxApplies
  /\ IsFiniteSet(Busy) /\ Cardinality(Busy) <= applies
  /\ \A u \in Learners : db.obs[u] <= Cap(applies - Cardinality(Busy))
  /\ lock # NoOne => \A u \in Learners : working.obs[u] <= db.obs[u] + Pending
  /\ lock = NoOne => working = EmptyStore
  /\ \A w \in Workers : apc[w] # "idle" => ev[w].observations <= MaxObservations

LoaderOK ==
  /\ loader = [pc |-> loader.pc, at |-> loader.at, weak |-> loader.weak, ids |-> loader.ids,
               todo |-> loader.todo, prerequisites |-> loader.prerequisites, loads |-> loader.loads]
  /\ loader.pc \in {"idle", "ids", "edges", "done"}
  /\ loader.loads \in 0..MaxLoads

TypeInv == WholeInv /\ lock \in Workers \cup {NoOne} /\ Bounded /\ LoaderOK

LEMMA BusyHolds ==
  ASSUME TypeInv, lock # NoOne
  PROVE  lock \in Workers /\ apc[lock] # "idle"
<1>1. lock \in Workers
  BY DEF TypeInv
<1> DEFINE w == lock
           l == lock = w
<1>2. Stands(apc[w], at[w], ev[w], db, Sees(w), read[w], l)
  BY <1>1 DEF TypeInv, WholeInv, Standing
<1>3. l
  OBVIOUS
<1> HIDE DEF l, w
<1>4. apc[w] # "idle"
  BY <1>2, <1>3 DEF Stands
<1> QED BY <1>1, <1>4 DEF w

\* A busy worker that does not finish adds no more than its own observations
\* to what it sees.
LEMMA WorkIsBounded ==
  ASSUME TypeInv, NEW w \in Workers, NEW writes \in BOOLEAN, NEW result,
         Statement(w, writes, result), NEW pc \in Sections, apc[w] # "idle",
         apc' = [apc EXCEPT ![w] = pc],
         NEW add \in Nat, result.obs \in [Learners -> Nat],
         \A u \in Learners : result.obs[u] <= Sees(w).obs[u] + add,
         \/ add = 0 /\ (apc[w] \in AfterObservations => pc \in AfterObservations)
         \/ add <= MaxObservations /\ apc[w] \notin AfterObservations /\ pc \in AfterObservations
  PROVE  lock' \in Workers \cup {NoOne} /\ Bounded' /\ LoaderOK'
<1>1. /\ UNCHANGED <<db, ev, applies, loader>>
      /\ \/ writes /\ lock \in {NoOne, w} /\ lock' = w /\ working' = result
         \/ ~writes /\ lock' = lock /\ working' = working
  BY DEF Statement
<1>2. /\ apc \in [Workers -> Sections \cup {"idle"}] /\ pc # "idle" /\ MaxObservations \in Nat
      /\ Bounded
  BY StoreAssumption DEF TypeInv, WholeInv, Sections, NextSection
<1>3. Busy' = Busy
  BY <1>1, <1>2 DEF Busy
<1>4. /\ db.obs \in [Learners -> Nat] /\ Sees(w).obs \in [Learners -> Nat]
      /\ working.obs \in [Learners -> Nat]
  BY SeesSound DEF TypeInv, WholeInv, StoreInv, Sound, Rows
<1>5. ASSUME lock' # NoOne, NEW u \in Learners
      PROVE  working'.obs[u] <= db.obs[u] + Pending'
  <2>1. CASE writes
    <3>1. lock' = w /\ working' = result /\ lock \in {NoOne, w} /\ apc'[w] = pc
      BY <1>1, <1>2, <2>1
    <3>2. Pending' = IF pc \in AfterObservations THEN MaxObservations ELSE 0
      BY <3>1 DEF Pending
    <3>3. CASE lock = w
      <4>1. working.obs[u] <= db.obs[u] + (IF apc[w] \in AfterObservations THEN MaxObservations ELSE 0)
        BY <1>2, <3>3, NoOneAssumption DEF Bounded, Pending
      <4>2. result.obs[u] <= working.obs[u] + add
        BY <3>3 DEF Sees
      <4>3. db.obs[u] \in Nat /\ working.obs[u] \in Nat /\ result.obs[u] \in Nat
        BY <1>4
      <4>4. result.obs[u] <= db.obs[u] + (IF pc \in AfterObservations THEN MaxObservations ELSE 0)
        BY <1>2, <4>1, <4>2, <4>3
      <4> QED BY <3>1, <3>2, <4>4
    <3>4. CASE lock # w
      <4>1. result.obs[u] <= db.obs[u] + add
        BY <3>4 DEF Sees
      <4>2. db.obs[u] \in Nat /\ result.obs[u] \in Nat
        BY <1>4
      <4>3. result.obs[u] <= db.obs[u] + (IF pc \in AfterObservations THEN MaxObservations ELSE 0)
        BY <1>2, <4>1, <4>2
      <4> QED BY <3>1, <3>2, <4>3
    <3> QED BY <3>3, <3>4
  <2>2. CASE ~writes
    <3>1. lock' = lock /\ working' = working
      BY <1>1, <2>2
    <3>2. lock \in Workers
      BY <1>5, <3>1 DEF TypeInv
    <3>3. Pending <= Pending' /\ Pending \in Nat /\ Pending' \in Nat
      <4>1. apc'[lock] = IF lock = w THEN pc ELSE apc[lock]
        BY <1>2, <3>2
      <4>2. apc[lock] \in AfterObservations => apc'[lock] \in AfterObservations
        BY <4>1
      <4> QED BY <1>2, <3>1, <4>2 DEF Pending
    <3>4. working.obs[u] <= db.obs[u] + Pending
      BY <1>2, <1>5, <3>1 DEF Bounded
    <3>5. db.obs[u] \in Nat /\ working.obs[u] \in Nat
      BY <1>4
    <3> QED BY <3>1, <3>3, <3>4, <3>5
  <2> QED BY <2>1, <2>2
<1>6. lock' = NoOne => working' = EmptyStore
  BY <1>1, <1>2, NoOneAssumption DEF Bounded
<1>7. \A v \in Workers : apc'[v] # "idle" => ev'[v].observations <= MaxObservations
  BY <1>1, <1>2 DEF Bounded
<1>8. lock' \in Workers \cup {NoOne}
  BY <1>1 DEF TypeInv
<1>9. LoaderOK'
  BY <1>1 DEF TypeInv, LoaderOK
<1>10. /\ applies' = applies /\ db' = db
       /\ applies \in Nat /\ applies <= MaxApplies
       /\ IsFiniteSet(Busy) /\ Cardinality(Busy) <= applies
       /\ \A u \in Learners : db.obs[u] <= Cap(applies - Cardinality(Busy))
  BY <1>1, <1>2 DEF Bounded
<1>11. \A u \in Learners : lock' # NoOne => working'.obs[u] <= db'.obs[u] + Pending'
  BY <1>5, <1>10
<1> QED BY <1>3, <1>6, <1>7, <1>8, <1>9, <1>10, <1>11 DEF Bounded

LEMMA MergeKeepsObs ==
  ASSUME NEW s, Sound(s), NEW e, NEW r
  PROVE  MergeTraits(s, e, r).obs = s.obs
<1>1. CASE e.traits = <<>>
  BY <1>1 DEF MergeTraits
<1>2. CASE e.traits # <<>>
  <2> DEFINE row == [s.traits EXCEPT ![e.user] = Merge(r, e.traits)]
  <2>1. MergeTraits(s, e, r) = [s EXCEPT !.traits = row]
    BY <1>2 DEF MergeTraits
  <2> HIDE DEF row
  <2> QED BY <2>1 DEF Sound, Tables, IsStore
<1> QED BY <1>1, <1>2

LEMMA SameObservations ==
  ASSUME NEW s, Sound(s), NEW t, t.obs = s.obs
  PROVE  t.obs \in [Learners -> Nat] /\ \A u \in Learners : t.obs[u] <= s.obs[u] + 0
BY DEF Sound, Rows

LEMMA ApplyConceptsBounded ==
  ASSUME TypeInv, NEW w \in Workers, ApplyConcepts(w)
  PROVE  lock' \in Workers \cup {NoOne} /\ Bounded' /\ LoaderOK'
<1> DEFINE c == ev[w].upserts[at[w] + 1]
           writes == Norm[c.key] # NoKey
           result == Upsert(ev[w], Sees(w), c)
<1>0. apc[w] = "concepts" /\ "concepts" # "idle" /\ StoreInv /\ WholeInv
  BY DEF ApplyConcepts, LoopEnds, LoopRuns, TypeInv, WholeInv
<1>1. CASE LoopEnds(w, "concepts", ev[w].upserts)
  <2>1. Statement(w, FALSE, Sees(w)) /\ apc' = [apc EXCEPT ![w] = "edges"]
    BY <1>1 DEF LoopEnds, Statement, NextSection
  <2>2. "edges" \in Sections /\ ("concepts" \in AfterObservations => "edges" \in AfterObservations)
    BY DEF Sections, NextSection, AfterObservations
  <2>3. Sees(w).obs \in [Learners -> Nat] /\ \A u \in Learners : Sees(w).obs[u] <= Sees(w).obs[u] + 0
    BY <1>0, SeesSound, SameObservations
  <2> QED BY <1>0, <2>1, <2>2, <2>3, WorkIsBounded
<1>2. CASE LoopRuns(w, "concepts", ev[w].upserts) /\ Statement(w, writes, result)
  <2>1. apc' = [apc EXCEPT ![w] = "concepts"] /\ "concepts" \in Sections /\ writes \in BOOLEAN
    <3>1. apc' = apc
      BY <1>2 DEF LoopRuns
    <3> QED BY <1>0, <3>1, Unmoved DEF Sections, NextSection
  <2>2. Sound(Sees(w)) /\ IsApplied(ev[w])
    BY <1>0, SeesSound, AppliedTypes DEF StoreInv
  <2>3. c.name \in Names
    <3>1. c \in [key : RawKeys, name : Names]
      BY <1>0, <1>2, <2>2, LoopItem DEF IsApplied
    <3> QED BY <3>1
  <2> HIDE DEF c
  <2>4. result.obs \in [Learners -> Nat] /\ \A u \in Learners : result.obs[u] <= Sees(w).obs[u] + 0
    <3>1. result.obs = Sees(w).obs
      BY <2>2, <2>3, UpsertIsSound, ZenonT(40) DEF RestSame
    <3> QED BY <2>2, <3>1, SameObservations
  <2> HIDE DEF writes, result
  <2> QED BY <1>0, <1>2, <2>1, <2>4, WorkIsBounded
<1> QED BY <1>1, <1>2 DEF ApplyConcepts

LEMMA ApplyEdgesBounded ==
  ASSUME TypeInv, NEW w \in Workers, ApplyEdges(w)
  PROVE  lock' \in Workers \cup {NoOne} /\ Bounded' /\ LoaderOK'
<1> DEFINE x == ev[w].edges[at[w] + 1]
           writes == Linkable(Sees(w), x)
           result == Link(ev[w], Sees(w), x)
<1>0. apc[w] = "edges" /\ "edges" # "idle" /\ StoreInv /\ WholeInv
  BY DEF ApplyEdges, LoopEnds, LoopRuns, TypeInv, WholeInv
<1>1. CASE LoopEnds(w, "edges", ev[w].edges)
  <2>1. Statement(w, FALSE, Sees(w)) /\ apc' = [apc EXCEPT ![w] = "observations"]
    BY <1>1 DEF LoopEnds, Statement, NextSection
  <2>2. "observations" \in Sections /\ ("edges" \in AfterObservations => "observations" \in AfterObservations)
    BY DEF Sections, NextSection, AfterObservations
  <2>3. Sees(w).obs \in [Learners -> Nat] /\ \A u \in Learners : Sees(w).obs[u] <= Sees(w).obs[u] + 0
    BY <1>0, SeesSound, SameObservations
  <2> QED BY <1>0, <2>1, <2>2, <2>3, WorkIsBounded
<1>2. CASE LoopRuns(w, "edges", ev[w].edges) /\ Statement(w, writes, result)
  <2>1. apc' = [apc EXCEPT ![w] = "edges"] /\ "edges" \in Sections /\ writes \in BOOLEAN
    <3>1. apc' = apc
      BY <1>2 DEF LoopRuns
    <3> QED BY <1>0, <3>1, Unmoved DEF Sections, NextSection, Linkable, Known
  <2>2. Sound(Sees(w)) /\ IsApplied(ev[w])
    BY <1>0, SeesSound, AppliedTypes DEF StoreInv
  <2> HIDE DEF x
  <2>4. result.obs \in [Learners -> Nat] /\ \A u \in Learners : result.obs[u] <= Sees(w).obs[u] + 0
    <3>1. result.obs = Sees(w).obs
      BY <2>2, LinkIsSound DEF RestSame
    <3> QED BY <2>2, <3>1, SameObservations
  <2> HIDE DEF writes, result
  <2> QED BY <1>0, <1>2, <2>1, <2>4, WorkIsBounded
<1> QED BY <1>1, <1>2 DEF ApplyEdges

LEMMA ApplyStateBounded ==
  ASSUME TypeInv, NEW w \in Workers, ApplyState(w)
  PROVE  lock' \in Workers \cup {NoOne} /\ Bounded' /\ LoaderOK'
<1> DEFINE d == ev[w].deltas[at[w] + 1]
           writes == Known(Sees(w), Norm[d.key])
           result == Mark(ev[w], Sees(w), d)
<1>0. apc[w] = "state" /\ "state" # "idle" /\ StoreInv /\ WholeInv
  BY DEF ApplyState, LoopEnds, LoopRuns, TypeInv, WholeInv
<1>1. CASE LoopEnds(w, "state", ev[w].deltas)
  <2>1. Statement(w, FALSE, Sees(w)) /\ apc' = [apc EXCEPT ![w] = "traits"]
    BY <1>1 DEF LoopEnds, Statement, NextSection
  <2>2. "traits" \in Sections /\ ("state" \in AfterObservations => "traits" \in AfterObservations)
    BY DEF Sections, NextSection, AfterObservations
  <2>3. Sees(w).obs \in [Learners -> Nat] /\ \A u \in Learners : Sees(w).obs[u] <= Sees(w).obs[u] + 0
    BY <1>0, SeesSound, SameObservations
  <2> QED BY <1>0, <2>1, <2>2, <2>3, WorkIsBounded
<1>2. CASE LoopRuns(w, "state", ev[w].deltas) /\ Statement(w, writes, result)
  <2>1. apc' = [apc EXCEPT ![w] = "state"] /\ "state" \in Sections /\ writes \in BOOLEAN
    <3>1. apc' = apc
      BY <1>2 DEF LoopRuns
    <3> QED BY <1>0, <3>1, Unmoved DEF Sections, NextSection, Linkable, Known
  <2>2. Sound(Sees(w)) /\ IsApplied(ev[w])
    BY <1>0, SeesSound, AppliedTypes DEF StoreInv
  <2>3. d.mark \in {Weak, Strong}
    <3>1. d \in [key : RawKeys, mark : {Weak, Strong}]
      BY <1>0, <1>2, <2>2, LoopItem DEF IsApplied
    <3> QED BY <3>1
  <2> HIDE DEF d
  <2>4. result.obs \in [Learners -> Nat] /\ \A u \in Learners : result.obs[u] <= Sees(w).obs[u] + 0
    <3>1. result.obs = Sees(w).obs
      BY <2>2, <2>3, MarkIsSound DEF RestSame
    <3> QED BY <2>2, <3>1, SameObservations
  <2> HIDE DEF writes, result
  <2> QED BY <1>0, <1>2, <2>1, <2>4, WorkIsBounded
<1> QED BY <1>1, <1>2 DEF ApplyState

LEMMA ApplyObservationsBounded ==
  ASSUME TypeInv, NEW w \in Workers, ApplyObservations(w)
  PROVE  lock' \in Workers \cup {NoOne} /\ Bounded' /\ LoaderOK'
<1> DEFINE writes == ev[w].observations > 0
           result == Observe(Sees(w), ev[w])
<1>1. /\ apc[w] = "observations" /\ "observations" # "idle" /\ apc' = [apc EXCEPT ![w] = "state"]
      /\ Statement(w, writes, result) /\ writes \in BOOLEAN
  BY DEF ApplyObservations, Section, NextSection, Statement
<1>2. "state" \in Sections /\ "state" \in AfterObservations /\ "observations" \notin AfterObservations
  BY DEF Sections, NextSection, AfterObservations
<1>3. Sound(Sees(w)) /\ IsApplied(ev[w])
  BY SeesSound, AppliedTypes DEF StoreInv, TypeInv, WholeInv
<1>4. /\ ev[w].observations \in Nat /\ ev[w].observations <= MaxObservations
      /\ result.obs \in [Learners -> Nat]
      /\ \A u \in Learners : result.obs[u] <= Sees(w).obs[u] + ev[w].observations
  <2>1. ev[w].observations \in Nat /\ ev[w].observations <= MaxObservations
    BY <1>1, <1>3 DEF IsApplied, TypeInv, Bounded
  <2>2. Sees(w).obs \in [Learners -> Nat]
    BY <1>3 DEF Sound, Rows
  <2>3. result.obs = [Sees(w).obs EXCEPT ![ev[w].user] = Sees(w).obs[ev[w].user] + ev[w].observations]
    BY <1>3, <2>1, ObserveIsSound
  <2>4. result.obs \in [Learners -> Nat]
    BY <1>3, <2>1, ObserveIsSound DEF Sound, Rows
  <2> HIDE DEF result
  <2> QED BY <2>1, <2>2, <2>3, <2>4
<1> HIDE DEF writes, result
<1> QED BY <1>1, <1>2, <1>4, WorkIsBounded

LEMMA ReadTraitsBounded ==
  ASSUME TypeInv, NEW w \in Workers, ReadTraits(w)
  PROVE  lock' \in Workers \cup {NoOne} /\ Bounded' /\ LoaderOK'
<1> DEFINE writes == FALSE
           result == Sees(w)
<1>1. /\ apc[w] = "traits" /\ "traits" # "idle" /\ apc' = [apc EXCEPT ![w] = "merge"]
      /\ Statement(w, writes, result) /\ writes \in BOOLEAN
  BY DEF ReadTraits, Section, NextSection, Statement
<1>2. "merge" \in Sections /\ "merge" \in AfterObservations
  BY DEF Sections, NextSection, AfterObservations
<1>3. Sound(Sees(w)) /\ IsApplied(ev[w])
  BY SeesSound, AppliedTypes DEF StoreInv, TypeInv, WholeInv
<1>4. result.obs \in [Learners -> Nat] /\ \A u \in Learners : result.obs[u] <= Sees(w).obs[u] + 0
  <2>1. result.obs = Sees(w).obs
    OBVIOUS
  <2> QED BY <1>3, <2>1, SameObservations
<1> HIDE DEF writes, result
<1> QED BY <1>1, <1>2, <1>4, WorkIsBounded

LEMMA ApplyTraitsBounded ==
  ASSUME TypeInv, NEW w \in Workers, ApplyTraits(w)
  PROVE  lock' \in Workers \cup {NoOne} /\ Bounded' /\ LoaderOK'
<1> DEFINE writes == ev[w].traits # <<>>
           result == MergeTraits(Sees(w), ev[w], read[w])
<1>1. /\ apc[w] = "merge" /\ "merge" # "idle" /\ apc' = [apc EXCEPT ![w] = "summary"]
      /\ Statement(w, writes, result) /\ writes \in BOOLEAN
  BY DEF ApplyTraits, Section, NextSection, Statement
<1>2. "summary" \in Sections /\ "summary" \in AfterObservations
  BY DEF Sections, NextSection, AfterObservations
<1>3. Sound(Sees(w)) /\ IsApplied(ev[w])
  BY SeesSound, AppliedTypes DEF StoreInv, TypeInv, WholeInv
<1>4. result.obs \in [Learners -> Nat] /\ \A u \in Learners : result.obs[u] <= Sees(w).obs[u] + 0
  <2>1. result.obs = Sees(w).obs
    BY <1>3, MergeKeepsObs
  <2> QED BY <1>3, <2>1, SameObservations
<1> HIDE DEF writes, result
<1> QED BY <1>1, <1>2, <1>4, WorkIsBounded

LEMMA ApplySummaryBounded ==
  ASSUME TypeInv, NEW w \in Workers, ApplySummary(w)
  PROVE  lock' \in Workers \cup {NoOne} /\ Bounded' /\ LoaderOK'
<1> DEFINE writes == ev[w].summary # NoSummary
           result == Summarise(Sees(w), ev[w])
<1>1. /\ apc[w] = "summary" /\ "summary" # "idle" /\ apc' = [apc EXCEPT ![w] = "commit"]
      /\ Statement(w, writes, result) /\ writes \in BOOLEAN
  BY DEF ApplySummary, Section, NextSection, Statement
<1>2. "commit" \in Sections /\ "commit" \in AfterObservations
  BY DEF Sections, NextSection, AfterObservations
<1>3. Sound(Sees(w)) /\ IsApplied(ev[w])
  BY SeesSound, AppliedTypes DEF StoreInv, TypeInv, WholeInv
<1>4. result.obs \in [Learners -> Nat] /\ \A u \in Learners : result.obs[u] <= Sees(w).obs[u] + 0
  <2>1. result.obs = Sees(w).obs
    BY <1>3, SummariseIsSound
  <2> QED BY <1>3, <2>1, SameObservations
<1> HIDE DEF writes, result
<1> QED BY <1>1, <1>2, <1>4, WorkIsBounded

LEMMA BeginBounded ==
  ASSUME TypeInv, NEW w \in Workers, Begin(w)
  PROVE  lock' \in Workers \cup {NoOne} /\ Bounded' /\ LoaderOK'
<1>1. /\ apc[w] = "idle" /\ apc' = [apc EXCEPT ![w] = "concepts"]
      /\ applies < MaxApplies /\ applies' = applies + 1
      /\ UNCHANGED <<db, lock, working, loader>>
  BY DEF Begin
<1>2. PICK e \in Evals : ev' = [ev EXCEPT ![w] = Validated(e)]
  BY DEF Begin
<1>3. /\ apc \in [Workers -> Sections \cup {"idle"}] /\ ev \in [Workers -> Applied]
      /\ Bounded /\ MaxApplies \in Nat /\ MaxObservations \in Nat
  BY StoreAssumption DEF TypeInv, WholeInv, StoreInv
<1>4. Busy' = Busy \cup {w} /\ w \notin Busy
  BY <1>1, <1>3 DEF Busy
<1>5. IsFiniteSet(Busy') /\ Cardinality(Busy') = Cardinality(Busy) + 1 /\ Cardinality(Busy) \in Nat
  BY <1>3, <1>4, FS_AddElement, FS_CardinalityType DEF Bounded
<1>6. /\ applies \in Nat /\ applies' \in Nat /\ applies' <= MaxApplies
      /\ Cardinality(Busy') <= applies'
      /\ applies' - Cardinality(Busy') = applies - Cardinality(Busy)
  BY <1>1, <1>3, <1>5 DEF Bounded
<1>7. \A u \in Learners : db'.obs[u] <= Cap(applies' - Cardinality(Busy'))
  BY <1>1, <1>3, <1>6 DEF Bounded
<1>8. lock' # NoOne => \A u \in Learners : working'.obs[u] <= db'.obs[u] + Pending'
  <2> SUFFICES ASSUME lock # NoOne
               PROVE  \A u \in Learners : working.obs[u] <= db.obs[u] + Pending'
    BY <1>1
  <2>1. lock \in Workers /\ apc[lock] # "idle"
    BY BusyHolds
  <2>2. apc'[lock] = apc[lock]
    BY <1>1, <1>3, <2>1
  <2>3. Pending' = Pending
    BY <1>1, <2>2 DEF Pending
  <2> QED BY <1>3, <2>3 DEF Bounded
<1>9. \A v \in Workers : apc'[v] # "idle" => ev'[v].observations <= MaxObservations
  <2>1. Validated(e).observations = IF e.observations < MaxObservations THEN e.observations
                                   ELSE MaxObservations
    BY EvalsAssumption DEF Validated
  <2>2. e.observations \in Nat
    BY EvalsAssumption
  <2> DEFINE n == Validated(e).observations
  <2>3. n <= MaxObservations
    BY <1>3, <2>1, <2>2
  <2> HIDE DEF n
  <2>4. ev'[w].observations = n
    BY <1>2, <1>3 DEF n
  <2>5. \A v \in Workers : v # w => ev'[v] = ev[v] /\ apc'[v] = apc[v]
    BY <1>1, <1>2, <1>3
  <2> QED BY <1>3, <2>3, <2>4, <2>5 DEF Bounded
<1>10. lock' \in Workers \cup {NoOne} /\ (lock' = NoOne => working' = EmptyStore)
  BY <1>1, <1>3 DEF TypeInv, Bounded
<1>11. LoaderOK'
  BY <1>1 DEF TypeInv, LoaderOK
<1> QED BY <1>5, <1>6, <1>7, <1>8, <1>9, <1>10, <1>11 DEF Bounded

LEMMA LeaveBounded ==
  ASSUME TypeInv, NEW w \in Workers, Commit(w) \/ Rollback(w)
  PROVE  lock' \in Workers \cup {NoOne} /\ Bounded' /\ LoaderOK'
<1>1. /\ apc[w] # "idle" /\ apc' = [apc EXCEPT ![w] = "idle"]
      /\ lock' = IF lock = w THEN NoOne ELSE lock
      /\ working' = IF lock = w THEN EmptyStore ELSE working
      /\ db' = db \/ db' = Sees(w)
      /\ UNCHANGED <<ev, applies, loader>>
  BY DEF Commit, Rollback, Leave, Sections, NextSection
<1>2. /\ apc \in [Workers -> Sections \cup {"idle"}] /\ Bounded /\ MaxObservations \in Nat
      /\ db.obs \in [Learners -> Nat] /\ Sees(w).obs \in [Learners -> Nat]
  BY SeesSound, StoreAssumption DEF TypeInv, WholeInv, StoreInv, Sound, Rows
<1>3. Busy' = Busy \ {w} /\ w \in Busy
  BY <1>1, <1>2 DEF Busy
<1>4. /\ IsFiniteSet(Busy') /\ Cardinality(Busy') = Cardinality(Busy) - 1
      /\ Cardinality(Busy) \in Nat /\ Cardinality(Busy') \in Nat
  <2>1. IsFiniteSet(Busy)
    BY <1>2 DEF Bounded
  <2>2. IsFiniteSet(Busy') /\ Cardinality(Busy') = Cardinality(Busy) - 1
    BY <1>3, <2>1, FS_RemoveElement
  <2> QED BY <2>1, <2>2, FS_CardinalityType
<1> DEFINE n == applies - Cardinality(Busy)
<1>5. /\ n \in Nat /\ applies' - Cardinality(Busy') = n + 1
      /\ applies' \in Nat /\ applies' <= MaxApplies /\ Cardinality(Busy') <= applies'
  BY <1>1, <1>2, <1>4 DEF Bounded
<1>6. ASSUME NEW u \in Learners PROVE db'.obs[u] <= Cap(applies' - Cardinality(Busy'))
  <2>1. db.obs[u] <= Cap(n)
    BY <1>2 DEF Bounded
  <2> HIDE DEF n
  <2>2. Cap(n) \in Nat /\ Cap(n + 1) = Cap(n) + MaxObservations
    BY <1>5, CapGrows
  <2>3. db'.obs[u] <= db.obs[u] + MaxObservations
    <3>1. CASE lock = w
      <4>1. lock # NoOne
        BY <3>1, NoOneAssumption
      <4>2. working.obs[u] <= db.obs[u] + Pending /\ Pending \in Nat /\ Pending <= MaxObservations
        BY <1>2, <4>1 DEF Bounded, Pending
      <4>3. Sees(w) = working
        BY <3>1 DEF Sees
      <4> QED BY <1>1, <1>2, <4>2, <4>3
    <3>2. CASE lock # w
      <4>1. Sees(w) = db
        BY <3>2 DEF Sees
      <4> QED BY <1>1, <1>2, <4>1
    <3> QED BY <3>1, <3>2
  <2>4. db.obs[u] \in Nat /\ db'.obs[u] \in Nat
    BY <1>1, <1>2
  <2>5. db'.obs[u] <= Cap(n + 1)
    BY <1>2, <2>1, <2>2, <2>3, <2>4
  <2> QED BY <1>5, <2>5
<1>7. lock' # NoOne => \A u \in Learners : working'.obs[u] <= db'.obs[u] + Pending'
  <2> SUFFICES ASSUME lock' # NoOne
               PROVE  \A u \in Learners : working'.obs[u] <= db'.obs[u] + Pending'
    OBVIOUS
  <2>1. lock # w /\ lock' = lock /\ working' = working /\ lock # NoOne
    BY <1>1
  <2>2. db' = db
    BY <1>1, <2>1 DEF Sees
  <2>3. lock \in Workers /\ apc'[lock] = apc[lock]
    BY <1>1, <1>2, <2>1 DEF TypeInv
  <2>4. Pending' = Pending
    BY <2>1, <2>3 DEF Pending
  <2> QED BY <1>2, <2>1, <2>2, <2>4 DEF Bounded
<1>8. lock' = NoOne => working' = EmptyStore
  BY <1>1, <1>2 DEF Bounded
<1>9. \A v \in Workers : apc'[v] # "idle" => ev'[v].observations <= MaxObservations
  BY <1>1, <1>2 DEF Bounded
<1>10. lock' \in Workers \cup {NoOne}
  BY <1>1 DEF TypeInv
<1>11. LoaderOK'
  BY <1>1 DEF TypeInv, LoaderOK
<1> QED BY <1>4, <1>5, <1>6, <1>7, <1>8, <1>9, <1>10, <1>11 DEF Bounded

LEMMA LoaderTypes ==
  ASSUME TypeInv, LoadStep
  PROVE  lock' \in Workers \cup {NoOne} /\ Bounded' /\ LoaderOK'
<1>1. UNCHANGED applyVars
  BY DEF LoadStep, LoadWeak, LoadIds, LoadEdges, LoadReturn
<1>2. lock' \in Workers \cup {NoOne} /\ Bounded'
  BY <1>1 DEF applyVars, TypeInv, Bounded, Busy, Pending
<1>3. MaxLoads \in Nat /\ LoaderOK
  BY StoreAssumption DEF TypeInv
<1>4. ASSUME NEW u \in Learners, LoadWeak(u) PROVE LoaderOK'
  <2>1. PICK rows \in SUBSET WeakRows(u) :
          loader' = [loader EXCEPT
            !.pc = IF rows = {} THEN "done" ELSE "ids",
            !.at = db,
            !.weak = {[key |-> k, name |-> db.name[k]] : k \in rows},
            !.loads = @ + 1]
    BY <1>4 DEF LoadWeak
  <2> DEFINE pc == IF rows = {} THEN "done" ELSE "ids"
             found == {[key |-> k, name |-> db.name[k]] : k \in rows}
  <2>2. loader' = [loader EXCEPT !.pc = pc, !.at = db, !.weak = found, !.loads = loader.loads + 1]
    BY <2>1
  <2>3. pc \in {"done", "ids"} /\ loader.loads + 1 \in 0..MaxLoads
    BY <1>3, <1>4 DEF LoadWeak, LoaderOK
  <2> HIDE DEF pc, found
  <2> QED BY <1>3, <2>2, <2>3 DEF LoaderOK
<1>5. ASSUME LoadIds PROVE LoaderOK'
  <2>1. \E ids, found : loader' = [loader EXCEPT !.pc = "edges", !.ids = ids, !.todo = found]
    BY <1>5 DEF LoadIds
  <2> QED BY <1>3, <2>1 DEF LoaderOK
<1>6. ASSUME LoadEdges PROVE LoaderOK'
  <2>1. \/ \E todo, more : loader' = [loader EXCEPT !.todo = todo, !.prerequisites = more]
        \/ loader' = [loader EXCEPT !.pc = "done"]
    BY <1>6 DEF LoadEdges
  <2> QED BY <1>3, <2>1 DEF LoaderOK
<1>7. ASSUME LoadReturn PROVE LoaderOK'
  BY <1>3, <1>7 DEF LoadReturn, LoaderOK, IdleLoader
<1> QED BY <1>2, <1>4, <1>5, <1>6, <1>7 DEF LoadStep

\* The tables, the lock, the workers and the loader keep their types; in
\* particular no learner ever has more observations than the evaluations that
\* were begun may add, in the committed tables and inside every transaction.
THEOREM StoreTyped == Spec => []TypeOK
<1>1. Init => lock \in Workers \cup {NoOne} /\ Bounded /\ LoaderOK
  <2> SUFFICES ASSUME Init PROVE lock \in Workers \cup {NoOne} /\ Bounded /\ LoaderOK
    OBVIOUS
  <2>1. Busy = {}
    BY DEF Init, Busy
  <2>2. IsFiniteSet(Busy) /\ Cardinality(Busy) = 0
    BY <2>1, FS_EmptySet
  <2>3. MaxApplies \in Nat /\ MaxLoads \in Nat
    BY StoreAssumption
  <2>4. Cap(0) \in Nat
    BY CapGrows
  <2>5. applies = 0 /\ applies - Cardinality(Busy) = 0
    BY <2>2 DEF Init
  <2>6. \A u \in Learners : db.obs[u] = 0
    BY DEF Init, EmptyStore
  <2>7. \A w \in Workers : apc[w] = "idle"
    BY DEF Init
  <2>8. Bounded
    BY <2>2, <2>3, <2>4, <2>5, <2>6, <2>7 DEF Init, Bounded
  <2>9. LoaderOK
    BY <2>3 DEF Init, LoaderOK, IdleLoader
  <2> QED BY <2>8, <2>9 DEF Init
<1>2. TypeInv /\ [Next]_storeVars => lock' \in Workers \cup {NoOne} /\ Bounded' /\ LoaderOK'
  <2>1. ASSUME TypeInv, UNCHANGED storeVars
        PROVE  lock' \in Workers \cup {NoOne} /\ Bounded' /\ LoaderOK'
    BY <2>1 DEF storeVars, applyVars, TypeInv, Bounded, Busy, Pending, LoaderOK
  <2>2. ASSUME TypeInv, NEW w \in Workers, ApplyStep(w)
        PROVE  lock' \in Workers \cup {NoOne} /\ Bounded' /\ LoaderOK'
    BY <2>2, BeginBounded, ApplyConceptsBounded, ApplyEdgesBounded, ApplyObservationsBounded,
       ApplyStateBounded, ReadTraitsBounded, ApplyTraitsBounded, ApplySummaryBounded, LeaveBounded
    DEF ApplyStep
  <2> QED BY <2>1, <2>2, LoaderTypes DEF Next
<1>3. Spec => []TypeInv
  <2> DEFINE Rest == lock \in Workers \cup {NoOne} /\ Bounded /\ LoaderOK
  <2>1. Init => Rest
    BY <1>1
  <2>2. WholeInv /\ Rest /\ [Next]_storeVars => Rest'
    BY <1>2 DEF TypeInv
  <2>3. WholeInv /\ Rest => TypeInv
    BY DEF TypeInv
  <2> HIDE DEF Rest
  <2> QED BY <2>1, <2>2, <2>3, WholeInvHolds, PTL DEF Spec
<1>4. TypeInv => TypeOK
  <2> SUFFICES ASSUME TypeInv PROVE TypeOK
    OBVIOUS
  <2>1. Sound(db) /\ Sound(working) /\ Bounded /\ LoaderOK /\ lock \in Workers \cup {NoOne}
        /\ apc \in [Workers -> Sections \cup {"idle"}]
    BY DEF TypeInv, WholeInv, StoreInv
  <2>2. /\ MaxApplies \in Nat /\ MaxObservations \in Nat
        /\ applies \in Nat /\ applies <= MaxApplies /\ Cardinality(Busy) \in Nat
        /\ Cardinality(Busy) <= applies
    BY <2>1, StoreAssumption, FS_CardinalityType DEF Bounded
  <2> DEFINE n == applies - Cardinality(Busy)
  <2>3. n \in Nat /\ n <= MaxApplies /\ (Cardinality(Busy) > 0 => n + 1 \in Nat /\ n + 1 <= MaxApplies)
    BY <2>2
  <2>4. \A u \in Learners : db.obs[u] <= Cap(n)
    BY <2>1 DEF Bounded
  <2> HIDE DEF n
  <2>5. /\ Cap(n) <= Cap(MaxApplies) /\ Cap(n) \in Nat /\ Cap(MaxApplies) \in Nat
        /\ Cardinality(Busy) > 0 => Cap(n) + MaxObservations <= Cap(MaxApplies)
    <3>1. Cap(n) <= Cap(MaxApplies) /\ Cap(n) \in Nat /\ Cap(MaxApplies) \in Nat
      BY <2>2, <2>3, CapGrows
    <3>2. ASSUME Cardinality(Busy) > 0 PROVE Cap(n) + MaxObservations <= Cap(MaxApplies)
      <4>1. Cap(n + 1) <= Cap(MaxApplies)
        BY <2>2, <2>3, <3>2, CapGrows
      <4>2. Cap(n + 1) = Cap(n) + MaxObservations
        BY <2>3, CapGrows
      <4> QED BY <4>1, <4>2
    <3> QED BY <3>1, <3>2
  <2>6. db.obs \in [Learners -> Nat] /\ working.obs \in [Learners -> Nat]
    BY <2>1 DEF Sound, Rows
  <2>7. ASSUME NEW u \in Learners
        PROVE  db.obs[u] \in 0..Cap(MaxApplies) /\ working.obs[u] \in 0..Cap(MaxApplies)
    <3>1. db.obs[u] \in Nat /\ working.obs[u] \in Nat /\ db.obs[u] <= Cap(n)
      BY <2>4, <2>6
    <3>2. working.obs[u] <= Cap(MaxApplies)
      <4>1. CASE lock = NoOne
        <5>1. working.obs[u] = 0
          BY <2>1, <4>1 DEF Bounded, EmptyStore
        <5> QED BY <2>5, <5>1
      <4>2. CASE lock # NoOne
        <5>1. Busy # {}
          BY <4>2, BusyHolds DEF Busy
        <5>2. Cardinality(Busy) > 0
          BY <2>1, <2>2, <5>1, FS_EmptySet DEF Bounded
        <5>3. working.obs[u] <= db.obs[u] + Pending /\ Pending \in Nat /\ Pending <= MaxObservations
          BY <2>1, <2>2, <4>2 DEF Bounded, Pending
        <5> QED BY <2>2, <2>5, <3>1, <5>2, <5>3
      <4> QED BY <4>1, <4>2
    <3> QED BY <2>5, <3>1, <3>2
  <2>8. ASSUME NEW s, Sound(s), \A u \in Learners : s.obs[u] \in 0..Cap(MaxApplies)
        PROVE  StoreOK(s)
    BY <2>8 DEF Sound, Tables, Rows, Linked, Known, StoreOK, Cap
  <2>9. StoreOK(db) /\ StoreOK(working)
    BY <2>1, <2>7, <2>8
  <2> QED BY <2>1, <2>2, <2>9 DEF TypeOK, LoaderOK
<1> QED BY <1>3, <1>4, PTL
=============================================================================
