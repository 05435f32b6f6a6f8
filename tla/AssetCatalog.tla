---------------------------- MODULE AssetCatalog ----------------------------
(***************************************************************************)
(* packages/asset-catalog and packages/compiler/model-tree: which model    *)
(* objects are assets, what each asset is called and says of itself, and   *)
(* which asset the model tree puts it under.                               *)
(*                                                                         *)
(* A cache is a record of functions on its objects: parent, tag, class,    *)
(* file and, for each mapped property, a value, None where there is none;  *)
(* its sets give the objects each selection set covers.  An object's       *)
(* number is its extraction ordinal, so a parent comes before its children.*)
(* Filters are a record of the sets and switches of AssetFilterConfig.     *)
(***************************************************************************)
EXTENDS Integers, FiniteSets

CONSTANTS Objects, None

(* A selection set nobody made cannot filter: the catalog is refused.      *)
UnknownSets(cache, filters) == filters.sets \ DOMAIN cache.sets

PassesFilters(cache, filters, o) ==
  /\ filters.files # {} => cache.file[o] \in filters.files
  /\ cache.class[o] \notin filters.excluded
  /\ filters.included # {} => cache.class[o] \in filters.included
  /\ filters.sets # {} => \E n \in filters.sets : o \in cache.sets[n]
  /\ filters.requireTag => cache.tag[o] # None
  /\ filters.accepted # {} => cache.tag[o] \in filters.accepted \cup {None}
CandidateObjects(cache, filters) == {o \in Objects : PassesFilters(cache, filters, o)}

(* The objects that o lies in, and the nearest of some of them: a parent   *)
(* comes before its children, so it is the last.                           *)
Around(cache, o) ==
  {p \in Objects \ {o} : \A T \in SUBSET Objects :
     o \in T /\ (\A q \in T : cache.parent[q] \in T \cup {None}) => p \in T}
NearestAncestor(cache, S, o) ==
  LET above == Around(cache, o) \cap S
  IN  IF above = {} THEN None ELSE CHOOSE p \in above : \A q \in above : q <= p

(* Component collapse: a candidate is absorbed by its nearest surviving    *)
(* candidate ancestor; a class commissioned separately is never absorbed,  *)
(* and may absorb.                                                         *)
Survives(cache, filters, o) ==
  \/ ~filters.collapse \/ cache.class[o] \in filters.separate
  \/ Around(cache, o) \cap CandidateObjects(cache, filters) = {}
Owners(cache, filters) ==
  LET candidates == CandidateObjects(cache, filters)
      survivors  == {o \in candidates : Survives(cache, filters, o)}
  IN  [o \in candidates |-> IF o \in survivors THEN o ELSE NearestAncestor(cache, survivors, o)]

(* The objects of the asset that o represents.  It reads a field from the  *)
(* first of them that has it, its own object before the absorbed ones.     *)
ObjectsOf(owner, o) == {p \in DOMAIN owner : owner[p] = o}
ReadField(cache, owner, o, key) ==
  LET stating == {p \in ObjectsOf(owner, o) : cache.values[p][key] # None}
  IN  IF stating = {} THEN None
      ELSE cache.values[CHOOSE p \in stating : \A q \in stating : p <= q][key]

Representatives(owner) == {o \in DOMAIN owner : owner[o] = o}
IsDuplicate(cache, owner, o) ==
  cache.tag[o] # None /\ \E p \in Representatives(owner) \ {o} : cache.tag[p] = cache.tag[o]
(* An asset is named by its tag, by its tag and object when others share   *)
(* it, and by its object alone when it has none.  Tags are multiples of    *)
(* ten and objects smaller, so that ids are ordered as their texts are.    *)
AssetId(cache, owner, o) ==
  IF cache.tag[o] = None THEN o
  ELSE IF IsDuplicate(cache, owner, o) THEN cache.tag[o] + o ELSE cache.tag[o]

(* Faulty: an untagged asset may absorb a tag unseen.                      *)
ReviewsOfTaggedAssets(cache, owner) ==
  {[kind |-> "duplicate-model-tag", tag |-> cache.tag[o]] :
     o \in {p \in Representatives(owner) : IsDuplicate(cache, owner, p)}}
  \cup {[kind |-> "absorbed-tagged-component", tag |-> cache.tag[o], object |-> o] :
          o \in {p \in DOMAIN owner : /\ cache.tag[owner[p]] # None
                                      /\ cache.tag[p] \notin {None, cache.tag[owner[p]]}}}
CatalogReviews(cache, owner) ==
  {[kind |-> "duplicate-model-tag", tag |-> cache.tag[o]] :
     o \in {p \in Representatives(owner) : IsDuplicate(cache, owner, p)}}
  \cup {[kind |-> "absorbed-tagged-component", tag |-> cache.tag[o], object |-> o] :
          o \in {p \in DOMAIN owner : cache.tag[p] \notin {None, cache.tag[owner[p]]}}}

(* The nearest ancestor object that belongs to another asset.              *)
ModelTreeParent(cache, owner, o) ==
  LET up == NearestAncestor(cache, DOMAIN owner \ ObjectsOf(owner, o), o)
  IN  IF up = None THEN None ELSE owner[up]
=============================================================================
