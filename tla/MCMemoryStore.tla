---------------------------- MODULE MCMemoryStore -----------------------------
(* Small instances of MemoryStore for TLC. *)
EXTENDS MemoryStore

\* Two spellings of one concept, a second concept, a third that the cap on
\* concepts cuts off, and a key that normalises to nothing.
MCRawKeys == {"Limits", "limits", "chain-rule", "series", "!!"}
MCKeys == {"limits", "chain_rule", "series"}
MCNorm == ("Limits" :> "limits") @@ ("limits" :> "limits") @@ ("series" :> "series")
          @@ ("chain-rule" :> "chain_rule") @@ ("!!" :> "")

Concept(k, n) == [key |-> k, name |-> n]
Edge(f, t) == [from |-> f, to |-> t, relation |-> "prerequisite"]
Delta(k, m) == [key |-> k, mark |-> m]

Nothing(u) == [user |-> u, upserts |-> <<>>, edges |-> <<>>, observations |-> 0,
               deltas |-> <<>>, traits |-> <<>>, summary |-> ""]

\* Everything at once, with both spellings, and with more concepts and more
\* observations than are kept: an edge and a delta refer to a concept that is
\* cut off.
Full == [Nothing("u1") EXCEPT
  !.upserts = <<Concept("Limits", "n1"), Concept("chain-rule", "n2"), Concept("limits", "n2"),
                Concept("series", "n1")>>,
  !.edges = <<Edge("Limits", "chain-rule"), Edge("!!", "limits"), Edge("limits", "series")>>,
  !.observations = 3,
  !.deltas = <<Delta("chain-rule", "strong"), Delta("series", "strong"),
               Delta("chain-rule", "weak")>>,
  !.traits = "pace" :> "slow",
  !.summary = "s1"]

\* Only traits, which are read before the transaction begins.
TraitsOnly == [Nothing("u1") EXCEPT !.traits = ("style" :> "visual") @@ ("pace" :> "fast")]

\* No upserts: everything depends on concepts of earlier evaluations.
Later == [Nothing("u2") EXCEPT
  !.edges = <<Edge("chain-rule", "limits")>>,
  !.deltas = <<Delta("limits", "weak"), Delta("!!", "weak")>>,
  !.traits = "pace" :> "slow",
  !.summary = "s2"]

MCEvals == {Full, TraitsOnly, Later}

\* A small topic graph in which two leaves share their display name.
Topics == [Nothing("u1") EXCEPT
  !.upserts = <<Concept("limits", "n1"), Concept("chain-rule", "n2"), Concept("Limits", "n2")>>,
  !.edges = <<Edge("chain-rule", "limits")>>,
  !.deltas = <<Delta("limits", "weak"), Delta("chain-rule", "weak")>>]

MCTopicEvals == {Topics}
=============================================================================
