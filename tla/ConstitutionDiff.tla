-------------------------- MODULE ConstitutionDiff --------------------------
(***************************************************************************)
(* yutha-diff: the structural difference of two constitutions, section by  *)
(* section, each section a collection of items keyed by name.  The buckets *)
(* are sets here: their order is for display.                              *)
(***************************************************************************)
EXTENDS Constitution

\* A policy's key: its @id, or a fingerprint of its effect, scope and text.
PolicyKey(p) == IF p.id # None THEN <<"id", p.id>> ELSE <<"print", p.effect, p.when>>

\* lift_policies: the parsed policies as keyed entries.
lift_policies(c) ==
  [i \in DOMAIN c.policies |->
     [name |-> PolicyKey(c.policies[i]), effect |-> c.policies[i].effect,
      source |-> c.policies[i]]]

KeyedItems(items) == Table([i \in DOMAIN items |-> <<items[i].name, items[i]>>])

\* Mutant: items of one name count as equal.
diff_named_items_KeysOnly(left, right) ==
  LET l == KeyedItems(left)  r == KeyedItems(right) IN
  [added    |-> {r[k] : k \in DOMAIN r \ DOMAIN l},
   removed  |-> {l[k] : k \in DOMAIN l \ DOMAIN r},
   modified |-> {}]

\* What is left on the left side once the right side's keys were taken out of it
\* is removed.
diff_named_items(left, right) ==
  LET l == KeyedItems(left)  r == KeyedItems(right) IN
  [added    |-> {r[k] : k \in DOMAIN r \ DOMAIN l},
   removed  |-> {l[k] : k \in DOMAIN l \ DOMAIN r},
   modified |-> {[name |-> k, left |-> l[k], right |-> r[k]] :
                   k \in {x \in DOMAIN l \cap DOMAIN r : l[x] # r[x]}}]

IsEmpty(d) == d.added = {} /\ d.removed = {} /\ d.modified = {}

diff_constitutions(left, right) ==
  [schema |-> IF left.schema_version = right.schema_version THEN <<>>
              ELSE <<left.schema_version, right.schema_version>>,
   cedar_policies |-> diff_named_items(lift_policies(left), lift_policies(right)),
   predicates |-> diff_named_items(left.predicates, right.predicates),
   scoring |-> diff_named_items(left.scoring, right.scoring),
   procedures |-> diff_named_items(left.procedures, right.procedures),
   enforcement |-> diff_named_items(left.enforcement, right.enforcement)]

Sections == {"cedar_policies", "predicates", "scoring", "procedures", "enforcement"}

\* The gate a pull request asks: does anything differ?
is_empty_structurally(d) == d.schema = <<>> /\ \A s \in Sections : IsEmpty(d[s])
=============================================================================
