------------------------------ MODULE MemoryStore -----------------------------
(***************************************************************************)
(* The learner memory of one subject and the two programs that use it:     *)
(* workers that apply an LLM evaluation (memory/jobs/utils.py,             *)
(* _apply_evaluation) and the app that loads the memory context of a       *)
(* prompt (memory/service, load_memory_context).                           *)
(*                                                                         *)
(* _apply_evaluation is one connection block, but sqlite3 begins the       *)
(* transaction at its first INSERT: reads before that see the committed    *)
(* tables without any lock.  From then on the worker holds sqlite's only   *)
(* write lock and works on a copy that the commit publishes.  The loader   *)
(* writes nothing it reads, so each of its SELECTs sees the tables as last *)
(* committed.                                                              *)
(***************************************************************************)
EXTENDS Naturals, FiniteSets, SequencesExt

CONSTANTS
  Workers,
  Learners,        \* user_ids; concepts and edges belong to all of them
  RawKeys,         \* concept keys as the LLM spells them
  Keys,            \* normalised concept keys
  Norm,            \* normalize_concept_key: [RawKeys -> Keys \cup {NoKey}]
  NoKey,           \* the empty string
  Names,           \* display names
  NoName,          \* no such row in concepts
  Weak, Strong,    \* mastery below and above MEMORY_WEAK_MASTERY_THRESHOLD
  NoMark,          \* no such row in learner_concept_state
  NoSummary,       \* the empty string
  Evals,           \* the evaluations the LLM may answer with
  MaxObservations, \* MEMORY_LLM_MAX_OBSERVATIONS
  MaxConcepts,     \* MEMORY_LLM_MAX_CONCEPTS
  WeakLimit,       \* MEMORY_WEAK_CONCEPTS_LIMIT
  MaxApplies,      \* bound: evaluations begun
  MaxLoads         \* bound: contexts loaded

ASSUME StoreAssumption ==
  /\ Norm \in [RawKeys -> Keys \cup {NoKey}] /\ NoKey \notin Keys
  /\ NoName \notin Names /\ NoMark \notin {Weak, Strong}
  /\ MaxObservations \in Nat /\ MaxConcepts \in Nat /\ WeakLimit \in Nat
  /\ MaxApplies \in Nat /\ MaxLoads \in Nat

\* What llm_schema.py accepts.
ASSUME EvalsAssumption ==
  /\ Evals # {}
  /\ Evals \subseteq
       [user : Learners,
        upserts : Seq([key : RawKeys, name : Names]),
        edges : Seq([from : RawKeys, to : RawKeys, relation : {"prerequisite", "related"}]),
        observations : Nat,
        deltas : Seq([key : RawKeys, mark : {Weak, Strong}]),
        traits : {e.traits : e \in Evals},
        summary : {e.summary : e \in Evals}]

NoOne == "no worker"
ASSUME NoOneAssumption == NoOne \notin Workers

VARIABLES
  db,       \* the committed tables
  lock,     \* the worker in a write transaction, or NoOne
  working,  \* the tables as that transaction sees them
  apc,      \* where each worker stands in _apply_evaluation
  ev,       \* the evaluation it applies
  at,       \* concepts, edges or deltas of the current section it has done
  read,     \* the traits it read before merging
  applies,  \* evaluations begun
  loader    \* the app's load_memory_context

applyVars == <<db, lock, working, apc, ev, at, read, applies>>
storeVars == <<applyVars, loader>>

-----------------------------------------------------------------------------
(* What an evaluation does to the tables, section by section.              *)

EmptyStore ==
  [name    |-> [k \in Keys |-> NoName],
   edge    |-> {},
   obs     |-> [u \in Learners |-> 0],
   mark    |-> [u \in Learners |-> [k \in Keys |-> NoMark]],
   traits  |-> [u \in Learners |-> <<>>],
   summary |-> [u \in Learners |-> NoSummary]]

Truncate(s, n) == SubSeq(s, 1, IF Len(s) < n THEN Len(s) ELSE n)

\* Mutant: observations are not capped.
ValidatedUncapped(e) ==
  [e EXCEPT !.upserts = Truncate(@, MaxConcepts), !.edges = Truncate(@, MaxConcepts)]

\* _validate_semantic caps three lists; deltas and traits are not capped.
Validated(e) ==
  [e EXCEPT !.observations = IF @ < MaxObservations THEN @ ELSE MaxObservations,
            !.upserts      = Truncate(@, MaxConcepts),
            !.edges        = Truncate(@, MaxConcepts)]

Known(s, k) == k \in Keys /\ s.name[k] # NoName

\* A key that normalises to nothing is dropped.
Upsert(e, s, c) == IF Norm[c.key] = NoKey THEN s ELSE [s EXCEPT !.name[Norm[c.key]] = c.name]

Upserting == INSTANCE Loop WITH Body <- Upsert

UpsertConcepts(s, e) == Upserting!Loop(e, s, e.upserts)

Stored(x) == [from |-> Norm[x.from], to |-> Norm[x.to], relation |-> x.relation]

\* Mutant: one known endpoint is enough.
LinkableByOne(s, x) == Known(s, Norm[x.from]) \/ Known(s, Norm[x.to])

Linkable(s, x) == Known(s, Norm[x.from]) /\ Known(s, Norm[x.to])

\* An edge with an unknown endpoint is skipped.  Weights are not modelled:
\* nothing reads them.
Link(e, s, x) == IF Linkable(s, x) THEN [s EXCEPT !.edge = @ \cup {Stored(x)}] ELSE s

Linking == INSTANCE Loop WITH Body <- Link

\* Mutant: only the concepts upserted by this evaluation can be linked.
LinkUpserted(s, e) ==
  LET own == {Norm[c.key] : c \in Range(e.upserts)}
  IN Linking!Loop(e, s,
                  SelectSeq(e.edges, LAMBDA x : {Norm[x.from], Norm[x.to]} \subseteq own))

LinkConcepts(s, e) == Linking!Loop(e, s, e.edges)

Observe(s, e) == [s EXCEPT !.obs[e.user] = @ + e.observations]

\* A delta of an unknown concept is skipped.
Mark(e, s, d) ==
  IF Known(s, Norm[d.key]) THEN [s EXCEPT !.mark[e.user][Norm[d.key]] = d.mark] ELSE s

Marking == INSTANCE Loop WITH Body <- Mark

SetMarks(s, e) == Marking!Loop(e, s, e.deltas)

\* Mutant: the row is replaced by the updates.
ReplaceTraits(s, e, existing) ==
  IF e.traits = <<>> THEN s ELSE [s EXCEPT !.traits[e.user] = e.traits]

\* {**existing, **updates}
Merge(existing, updates) ==
  [x \in DOMAIN existing \cup DOMAIN updates |->
     IF x \in DOMAIN updates THEN updates[x] ELSE existing[x]]

MergeTraits(s, e, existing) ==
  IF e.traits = <<>> THEN s ELSE [s EXCEPT !.traits[e.user] = Merge(existing, e.traits)]

Summarise(s, e) ==
  IF e.summary = NoSummary THEN s ELSE [s EXCEPT !.summary[e.user] = e.summary]

\* Mutant: concept state is written before the concepts are upserted.
WholeStateFirst(s, e) ==
  LET t == Observe(LinkConcepts(UpsertConcepts(SetMarks(s, e), e), e), e)
  IN Summarise(MergeTraits(t, e, t.traits[e.user]), e)

\* The six sections in the order of the code.
Whole(s, e) ==
  LET t == SetMarks(Observe(LinkConcepts(UpsertConcepts(s, e), e), e), e)
  IN Summarise(MergeTraits(t, e, t.traits[e.user]), e)

-----------------------------------------------------------------------------
(* _apply_evaluation, one action per section.                              *)

NextSection ==
  [concepts |-> "edges", edges |-> "observations", observations |-> "state",
   state |-> "traits", traits |-> "merge", merge |-> "summary", summary |-> "commit"]

Sections == DOMAIN NextSection \cup {"commit"}

\* What a statement of worker w sees.
Sees(w) == IF lock = w THEN working ELSE db

\* A statement of worker w.  One that writes needs the write lock, which
\* begins the transaction when w does not hold it yet.
Statement(w, writes, result) ==
  /\ \/ /\ writes
        /\ lock \in {NoOne, w}
        /\ lock' = w
        /\ working' = result
     \/ /\ ~writes
        /\ UNCHANGED <<lock, working>>
  /\ UNCHANGED <<db, ev, applies, loader>>

\* Worker w runs the whole of section pc.
Section(w, pc, writes, result) ==
  /\ apc[w] = pc
  /\ apc' = [apc EXCEPT ![w] = NextSection[pc]]
  /\ Statement(w, writes, result)
  /\ UNCHANGED at

\* Worker w runs the loop of section pc over items, of which it has done at[w].
LoopEnds(w, pc, items) ==
  /\ apc[w] = pc /\ at[w] = Len(items)
  /\ apc' = [apc EXCEPT ![w] = NextSection[pc]]
  /\ at' = [at EXCEPT ![w] = 0]
  /\ UNCHANGED <<db, lock, working, ev, read, applies, loader>>

LoopRuns(w, pc, items) ==
  /\ apc[w] = pc /\ at[w] < Len(items)
  /\ at' = [at EXCEPT ![w] = @ + 1]
  /\ UNCHANGED <<apc, read>>

Begin(w) ==
  /\ apc[w] = "idle"
  /\ applies < MaxApplies
  /\ \E e \in Evals : ev' = [ev EXCEPT ![w] = Validated(e)]
  /\ apc' = [apc EXCEPT ![w] = "concepts"]
  /\ applies' = applies + 1
  /\ UNCHANGED <<db, lock, working, at, read, loader>>

ApplyConcepts(w) ==
  \/ LoopEnds(w, "concepts", ev[w].upserts)
  \/ /\ LoopRuns(w, "concepts", ev[w].upserts)
     /\ LET c == ev[w].upserts[at[w] + 1]
        IN Statement(w, Norm[c.key] # NoKey, Upsert(ev[w], Sees(w), c))

\* The lookups of an edge and its INSERT are one step: concepts are never
\* deleted, so an edge that could be linked still can once the lock is there.
ApplyEdges(w) ==
  \/ LoopEnds(w, "edges", ev[w].edges)
  \/ /\ LoopRuns(w, "edges", ev[w].edges)
     /\ LET x == ev[w].edges[at[w] + 1]
        IN Statement(w, Linkable(Sees(w), x), Link(ev[w], Sees(w), x))

ApplyObservations(w) ==
  /\ Section(w, "observations", ev[w].observations > 0, Observe(Sees(w), ev[w]))
  /\ UNCHANGED read

ApplyState(w) ==
  \/ LoopEnds(w, "state", ev[w].deltas)
  \/ /\ LoopRuns(w, "state", ev[w].deltas)
     /\ LET d == ev[w].deltas[at[w] + 1]
        IN Statement(w, Known(Sees(w), Norm[d.key]), Mark(ev[w], Sees(w), d))

\* The SELECT of the traits section takes no lock.
ReadTraits(w) ==
  /\ Section(w, "traits", FALSE, db)
  /\ read' = [read EXCEPT ![w] = Sees(w).traits[ev[w].user]]

ApplyTraits(w) ==
  /\ Section(w, "merge", ev[w].traits # <<>>, MergeTraits(Sees(w), ev[w], read[w]))
  /\ UNCHANGED read

ApplySummary(w) ==
  /\ Section(w, "summary", ev[w].summary # NoSummary, Summarise(Sees(w), ev[w]))
  /\ UNCHANGED read

Leave(w) ==
  /\ apc' = [apc EXCEPT ![w] = "idle"]
  /\ at' = [at EXCEPT ![w] = 0]
  /\ read' = [read EXCEPT ![w] = <<>>]
  /\ lock' = IF lock = w THEN NoOne ELSE lock
  /\ UNCHANGED <<ev, applies, loader>>

\* Leaving the connection block commits.
Commit(w) ==
  /\ apc[w] = "commit"
  /\ db' = Sees(w)
  /\ working' = IF lock = w THEN EmptyStore ELSE working
  /\ Leave(w)

\* Mutant: what was written before the exception stays.
RollbackKeeps(w) ==
  /\ apc[w] \in Sections
  /\ working' = IF lock = w THEN EmptyStore ELSE working
  /\ db' = Sees(w)
  /\ Leave(w)

\* An exception in any section, a busy timeout or the death of the worker
\* rolls the transaction back.
Rollback(w) ==
  /\ apc[w] \in Sections
  /\ working' = IF lock = w THEN EmptyStore ELSE working
  /\ UNCHANGED db
  /\ Leave(w)

ApplyStep(w) ==
  \/ Begin(w) \/ ApplyConcepts(w) \/ ApplyEdges(w) \/ ApplyObservations(w)
  \/ ApplyState(w) \/ ReadTraits(w) \/ ApplyTraits(w) \/ ApplySummary(w)
  \/ Commit(w) \/ Rollback(w)
-----------------------------------------------------------------------------
(* load_memory_context: its SELECTs are separate.  What only goes into the *)
(* text (summary, traits, observations) is left out; what a later SELECT   *)
(* is built from is kept.                                                  *)

IdleLoader == [pc |-> "idle", at |-> EmptyStore, weak |-> {}, ids |-> <<>>, todo |-> {},
               prerequisites |-> {}, loads |-> 0]

WeakRows(u) == {k \in Keys : db.mark[u][k] = Weak}

\* _load_weak_concepts: at most WeakLimit rows, which ones is a matter of
\* mastery values that the model does not tell apart.
LoadWeak(u) ==
  /\ loader.pc = "idle"
  /\ loader.loads < MaxLoads
  /\ \E rows \in SUBSET WeakRows(u) :
       /\ rows = WeakRows(u) \/ Cardinality(rows) = WeakLimit
       /\ Cardinality(rows) <= WeakLimit
       /\ loader' = [loader EXCEPT
            !.pc = IF rows = {} THEN "done" ELSE "ids",
            !.at = db,
            !.weak = {[key |-> k, name |-> db.name[k]] : k \in rows},
            !.loads = @ + 1]
  /\ UNCHANGED applyVars

\* _load_prerequisites first maps names back to ids; of two concepts with one
\* name the dict keeps whichever row comes last.
LoadIds ==
  /\ loader.pc = "ids"
  /\ LET wanted == {r.name : r \in loader.weak}
         found  == {n \in wanted : \E k \in Keys : db.name[k] = n}
     IN \E ids \in [found -> Keys] :
          /\ \A n \in found : db.name[ids[n]] = n
          /\ loader' = [loader EXCEPT !.pc = "edges", !.ids = ids, !.todo = found]
  /\ UNCHANGED applyVars

\* Then one SELECT per name, for the edges into the id it was mapped to.
LoadEdges ==
  /\ loader.pc = "edges"
  /\ \/ \E n \in loader.todo :
          loader' = [loader EXCEPT
            !.todo = @ \ {n},
            !.prerequisites = @ \cup
              {<<db.name[x.from], db.name[x.to]>> :
                 x \in {y \in db.edge : y.to = loader.ids[n] /\ y.relation = "prerequisite"}}]
     \/ /\ loader.todo = {}
        /\ loader' = [loader EXCEPT !.pc = "done"]
  /\ UNCHANGED applyVars

\* The rendered context has been handed out.
LoadReturn ==
  /\ loader.pc = "done"
  /\ loader' = [IdleLoader EXCEPT !.loads = loader.loads]
  /\ UNCHANGED applyVars

LoadStep == (\E u \in Learners : LoadWeak(u)) \/ LoadIds \/ LoadEdges \/ LoadReturn

-----------------------------------------------------------------------------
Init ==
  /\ db = EmptyStore
  /\ lock = NoOne
  /\ working = EmptyStore
  /\ apc = [w \in Workers |-> "idle"]
  /\ ev \in [Workers -> {CHOOSE e \in Evals : TRUE}]
  /\ at = [w \in Workers |-> 0]
  /\ read = [w \in Workers |-> <<>>]
  /\ applies = 0
  /\ loader = IdleLoader

Next == (\E w \in Workers : ApplyStep(w)) \/ LoadStep

Spec == Init /\ [][Next]_storeVars

-----------------------------------------------------------------------------
(* Properties.                                                             *)

StoreOK(s) ==
  /\ s.name \in [Keys -> Names \cup {NoName}]
  /\ \A x \in s.edge : x.from \in Keys \cup {NoKey} /\ x.to \in Keys \cup {NoKey}
  /\ s.obs \in [Learners -> 0..(MaxApplies * MaxObservations)]
  /\ s.mark \in [Learners -> [Keys -> {Weak, Strong, NoMark}]]

TypeOK ==
  /\ StoreOK(db) /\ StoreOK(working)
  /\ lock \in Workers \cup {NoOne}
  /\ apc \in [Workers -> Sections \cup {"idle"}]
  /\ applies \in 0..MaxApplies
  /\ loader.pc \in {"idle", "ids", "edges", "done"} /\ loader.loads \in 0..MaxLoads

\* concept_edges and learner_concept_state only refer to concepts that exist,
\* in the committed tables and inside every transaction: the FOREIGN KEYs
\* never fail an evaluation.
NoDanglingConcept ==
  \A s \in {db, working} :
    /\ \A x \in s.edge : Known(s, x.from) /\ Known(s, x.to)
    /\ \A u \in Learners, k \in Keys : s.mark[u][k] # NoMark => Known(s, k)

\* "Write all LLM-derived updates atomically": whatever ends an application,
\* the committed tables are untouched or what the whole evaluation makes of
\* those very tables, whatever other workers did since it began.  An evaluation that upserts no
\* concept reads before its transaction has begun: it may miss concepts that
\* were added meanwhile, which costs it edges and deltas, and it may merge
\* into traits that are no longer there; the rest it applies in full.
UpsertsFirst(e) == \E c \in Range(e.upserts) : Norm[c.key] # NoKey

AppliedWhole ==
  [][\A w \in Workers :
       apc[w] # "idle" /\ apc'[w] = "idle" /\ db' # db =>
         LET whole == Whole(db, ev[w])
         IN \/ db' = whole
            \/ /\ ~UpsertsFirst(ev[w])
               /\ db.edge \subseteq db'.edge /\ db'.edge \subseteq whole.edge
               /\ \A u \in Learners, k \in Keys :
                    db'.mark[u][k] # whole.mark[u][k] => db.name[k] # NoName
               /\ \A n \in DOMAIN ev[w].traits : db'.traits[ev[w].user][n] = ev[w].traits[n]
               /\ [db' EXCEPT !.edge = whole.edge, !.mark = whole.mark, !.traits = whole.traits]
                  = whole
    ]_storeVars

\* The sections, in the code's order and with the code's lookups, compute the
\* evaluation's meaning: the last spelling of a key wins, an edge or a delta
\* counts when its concepts exist once the upserts are in.
UpsertsOf(e, k) == {i \in DOMAIN e.upserts : Norm[e.upserts[i].key] = k}
DeltasOf(e, k) == {i \in DOMAIN e.deltas : Norm[e.deltas[i].key] = k}

Exists(s, e, k) == k \in Keys /\ (s.name[k] # NoName \/ UpsertsOf(e, k) # {})

Meaning(s, e) ==
  [name |-> [k \in Keys |->
     IF UpsertsOf(e, k) = {} THEN s.name[k] ELSE e.upserts[Max(UpsertsOf(e, k))].name],
   edge |-> s.edge \cup {Stored(x) :
     x \in {y \in Range(e.edges) : Exists(s, e, Norm[y.from]) /\ Exists(s, e, Norm[y.to])}},
   obs |-> [s.obs EXCEPT ![e.user] = @ + e.observations],
   mark |-> [u \in Learners |-> [k \in Keys |->
     IF u = e.user /\ Exists(s, e, k) /\ DeltasOf(e, k) # {}
     THEN e.deltas[Max(DeltasOf(e, k))].mark ELSE s.mark[u][k]]],
   traits |-> [s.traits EXCEPT ![e.user] =
     [x \in DOMAIN @ \cup DOMAIN e.traits |-> IF x \in DOMAIN e.traits THEN e.traits[x] ELSE @[x]]],
   summary |-> [s.summary EXCEPT ![e.user] = IF e.summary = NoSummary THEN @ ELSE e.summary]]

SectionsMeanTheEvaluation ==
  \A e \in Evals : Whole(db, Validated(e)) = Meaning(db, Validated(e))

\* A job that is run again after its first run committed changes nothing but
\* the observations it adds a second time, if the LLM answers the same.
ReplayOnlyRepeatsObservations ==
  \A e \in Evals :
    LET v == Validated(e)
        once == Whole(db, v)
    IN Whole(once, v) = [once EXCEPT !.obs[v.user] = @ + v.observations]

-----------------------------------------------------------------------------
(* What the repository says and the code does not do.                      *)

\* tests/e2e/test_memory_topic_graph.py: context loading "surfaces, for every
\* weak concept (mastery < 0.5), the concepts that point into it via
\* prerequisite edges".  Stated for a load during which nothing committed.
EveryPrerequisiteSurfaces ==
  loader.pc = "done" /\ loader.at = db =>
    \A r \in loader.weak : \A x \in db.edge :
      x.to = r.key /\ x.relation = "prerequisite" =>
        <<db.name[x.from], db.name[x.to]>> \in loader.prerequisites
=============================================================================
