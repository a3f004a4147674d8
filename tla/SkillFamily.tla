---------------------------- MODULE SkillFamily ----------------------------
(***************************************************************************)
(* What the registry promises to those who read it, without a bucket,      *)
(* requests, calls or faults: skills with a slug of their own, versions    *)
(* that are published once, under a number nobody else has in the skill,   *)
(* with a package that never changes, descents between published versions  *)
(* that lead from older to newer numbers, and reports that come last.      *)
(***************************************************************************)
EXTENDS Naturals

CONSTANTS Id, Slug, NoSlug

VARIABLES
  slugs,      \* the slug of each skill
  family,     \* the versions published, each with what its package is
  descents,   \* <<parent, child>>
  reports     \* versions reported as registered, with the parents asked for

familyVars == <<slugs, family, descents, reports>>

Init ==
  /\ slugs = [s \in Id |-> NoSlug]
  /\ family = {}
  /\ descents = {}
  /\ reports = {}

\* Numbers are compared part by part, from the left.
Older(m, n) ==
  \E i \in 1..3 : m[i] < n[i] /\ \A k \in 1..3 : k < i => m[k] = n[k]

Published(id) == \E v \in family : v.id = id

Found(s, slug) ==
  /\ slugs[s] = NoSlug
  /\ \A t \in Id : slugs[t] # slug
  /\ slugs' = [slugs EXCEPT ![s] = slug]
  /\ UNCHANGED <<family, descents, reports>>

\* The package of a version is the one it was published for.
Publish(v) ==
  /\ slugs[v.skill] # NoSlug
  /\ ~Published(v.id)
  /\ \A w \in family : w.skill = v.skill => w.number # v.number
  /\ v.packages = {v.id}
  /\ family' = family \cup {v}
  /\ UNCHANGED <<slugs, descents, reports>>

Descend(parent, child) ==
  /\ \E v, w \in family :
       /\ v.id = parent /\ w.id = child
       /\ v.skill = w.skill => Older(v.number, w.number)
  /\ descents' = descents \cup {<<parent, child>>}
  /\ UNCHANGED <<slugs, family, reports>>

Report(id, parents) ==
  /\ Published(id)
  /\ parents \X {id} \subseteq descents
  /\ reports' = reports \cup {<<id, parents>>}
  /\ UNCHANGED <<slugs, family, descents>>

Next ==
  \/ \E s \in Id, slug \in Slug : Found(s, slug)
  \/ \E v \in family' : Publish(v)
  \/ \E parent, child \in Id : Descend(parent, child)
  \/ \E id \in Id, parents \in SUBSET Id : Report(id, parents)

Spec == Init /\ [][Next]_familyVars

=============================================================================
