------------------------- MODULE RelationshipClaims -------------------------
(***************************************************************************)
(* packages/relationship-claims: every source of parents, turned into      *)
(* competing claims.  Nothing is decided here, and an input that yields    *)
(* nothing is put on record with the reason.                               *)
(*                                                                         *)
(* subjects: asset -> [explicit, role, family], None where nothing is      *)
(* stated.  opts: the sets manual, lookup, prior and learned of pairs      *)
(* [child, parent] (learned ones with a grade), the set roles of pairs     *)
(* <<parent role, child role>>, the flow edges [from, to, type], and       *)
(* resolve, spelling -> asset, the identity bridge.  A manual pair whose   *)
(* parent is None makes the child a root.                                  *)
(***************************************************************************)
EXTENDS FiniteSets

CONSTANT None

(* An input as it was written, with the assets its two references mean.    *)
Stated(source, childRef, parentRef, child, parent) ==
  [source |-> source, childRef |-> childRef, parentRef |-> parentRef,
   child |-> child, parent |-> parent]
ByAsset(source, pairs)        == {Stated(source, p.child, p.parent, p.child, p.parent) : p \in pairs}
ByTag(source, pairs, resolve) ==
  {Stated(source, p.child, p.parent, resolve[p.child], resolve[p.parent]) : p \in pairs}
Explicit(subjects, resolve) ==
  {Stated("explicit-model", a, subjects[a].explicit, a, resolve[subjects[a].explicit]) :
     a \in {b \in DOMAIN subjects : subjects[b].explicit # None}}

Parenting(opts) == {m \in opts.manual : m.parent # None}
Rooting(opts)   == opts.manual \ Parenting(opts)
(* The inputs that name a pair, but for the learned ones of proposal grade. *)
PairInputs(subjects, opts) ==
  ByAsset("manual", Parenting(opts))
  \cup Explicit(subjects, opts.resolve)
  \cup ByTag("profile-lookup", opts.lookup, opts.resolve)
  \cup ByAsset("learned-description", {l \in opts.learned : l.grade = "claim"})
  \cup ByTag("prior-ssm", opts.prior, opts.resolve)
ProposalInputs(opts) == ByAsset("learned-description", {l \in opts.learned : l.grade = "proposal"})

(* resolvePair and pairIsUsable: why an input is refused, "" when it is not. *)
Refusal(i, known) ==
  IF i.child = None THEN "unresolvable-child-tag"
  ELSE IF i.parent = None THEN "unresolvable-parent-tag"
  ELSE IF i.child \notin known THEN "unknown-child-asset"
  ELSE IF i.parent \notin known THEN "unknown-parent-asset"
  ELSE IF i.child = i.parent THEN "self-parent"
  ELSE ""
Usable(inputs, known) == {i \in inputs : Refusal(i, known) = ""}

EdgeInputs(opts) == ByAsset("flow-family", {[child |-> e.to, parent |-> e.from] : e \in opts.edges})

(* Connectivity is always at least a dependency of the load on its source. *)
DependencyClaims(subjects, opts) ==
  {[subject |-> e.to, target |-> e.from, type |-> e.type] :
     e \in {f \in opts.edges : {f.to, f.from} \subseteq DOMAIN subjects /\ f.to # f.from}}

(* Two assets of one family whose roles a rule pairs; the flow rung takes  *)
(* the pairs an edge anchors, the family rung the rest.                    *)
RolePairs(subjects, opts) ==
  {p \in [child : DOMAIN subjects, parent : DOMAIN subjects] :
     /\ p.child # p.parent
     /\ subjects[p.child].family = subjects[p.parent].family /\ subjects[p.child].family # None
     /\ <<subjects[p.parent].role, subjects[p.child].role>> \in opts.roles}
Anchored(subjects, opts) ==
  {p \in RolePairs(subjects, opts) : \E e \in opts.edges : e.to = p.child /\ e.from = p.parent}

ClaimOf(i) == [subject |-> i.child, target |-> i.parent, source |-> i.source]
StructuralClaims(subjects, opts) ==
  {ClaimOf(i) : i \in Usable(PairInputs(subjects, opts), DOMAIN subjects)
                      \cup ByAsset("flow-family", Anchored(subjects, opts))
                      \cup ByAsset("family-role",
                                   RolePairs(subjects, opts) \ Anchored(subjects, opts))}
MakeRoots(subjects, opts) == {m.child : m \in Rooting(opts)} \cap DOMAIN subjects

Proposals(subjects, opts) ==
  {[kind |-> "nesting-proposal", asset |-> i.child, parent |-> i.parent] :
     i \in Usable(ProposalInputs(opts), DOMAIN subjects)}
Skipped(source, reason, childRef, parentRef) ==
  [kind |-> "dead-claim-rule", source |-> source, reason |-> reason,
   child |-> childRef, parent |-> parentRef]
Skips(subjects, opts) ==
  {Skipped(i.source, Refusal(i, DOMAIN subjects), i.childRef, i.parentRef) :
     i \in (PairInputs(subjects, opts) \cup ProposalInputs(opts) \cup EdgeInputs(opts))
           \ Usable(PairInputs(subjects, opts) \cup ProposalInputs(opts) \cup EdgeInputs(opts),
                    DOMAIN subjects)}
  \cup {Skipped("manual", "unknown-child-asset", m.child, None) :
          m \in {r \in Rooting(opts) : r.child \notin DOMAIN subjects}}
=============================================================================
