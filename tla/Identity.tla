------------------------------ MODULE Identity ------------------------------
(***************************************************************************)
(* packages/identity: which asset a spelling found outside the model       *)
(* means.  The tiers are tried in a fixed order and the first that reaches *)
(* anything decides: one tag is a match, several a refusal.                *)
(*                                                                         *)
(* Spellings are abstract.  The constants say what the text functions make *)
(* of them: NormalTag their normal form, AnatomyKey the key cut by the tag *)
(* anatomy, Extends the pairs of which one continues the other past a      *)
(* separator, Near the pairs within the edit distance.                     *)
(***************************************************************************)
EXTENDS Integers, FiniteSets

CONSTANTS NormalTag, AnatomyKey, Extends, Near, None

TierOrder == <<"exact", "normalized", "alias", "anatomy", "suffix-unambiguous", "fuzzy-proposal">>
MatchingTiers == 1..5

(* tagOf: the tag of each tagged asset; alias: the spellings the profile   *)
(* renames.                                                                *)
Reached(tagOf, alias, tier, s) ==
  LET tagged(T) == {a \in DOMAIN tagOf : tagOf[a] \in T}
      tags == {tagOf[a] : a \in DOMAIN tagOf}
  IN  CASE tier = "exact"      -> tagged({s})
        [] tier = "normalized" -> tagged({t \in tags : NormalTag[t] = NormalTag[s]})
        [] tier = "alias"      -> IF s \in DOMAIN alias THEN tagged({alias[s]}) ELSE {}
        [] tier = "anatomy"    -> tagged({t \in tags \ {s} :
                                            AnatomyKey[s] # None /\ AnatomyKey[t] = AnatomyKey[s]})
        [] tier = "suffix-unambiguous" ->
             tagged({t \in tags : <<s, t>> \in Extends \/ <<t, s>> \in Extends})

(* A configured alias is a statement about identity, so a dead one ends    *)
(* the search as an ambiguity does.                                        *)
DeadAlias(tagOf, alias, tier, s) ==
  tier = "alias" /\ s \in DOMAIN alias /\ Reached(tagOf, alias, tier, s) = {}

(* Faulty: an ambiguous tier is passed over for one that names a single tag. *)
ResolveOneSearchingOn(tagOf, enabled, alias, s) ==
  LET unique   == {i \in MatchingTiers : TierOrder[i] \in enabled /\
                     Cardinality({tagOf[a] : a \in Reached(tagOf, alias, TierOrder[i], s)}) = 1}
      tier     == CHOOSE i \in unique : \A j \in unique : i <= j
      found    == Reached(tagOf, alias, TierOrder[tier], s)
  IN  IF unique = {} THEN [asset |-> None, tier |-> None, refusal |-> "ambiguous-suffix"]
      ELSE [asset |-> CHOOSE a \in found : \A b \in found : a <= b, tier |-> tier, refusal |-> ""]
(* The outcome: the asset and the tier that found it, or None and the kind *)
(* of the refusal ("" when nothing at all was near).  Of several assets    *)
(* with one tag the first in id order is taken.                            *)
ResolveOne(tagOf, enabled, alias, s) ==
  LET decides(i) == /\ TierOrder[i] \in enabled
                    /\ \/ Reached(tagOf, alias, TierOrder[i], s) # {}
                       \/ DeadAlias(tagOf, alias, TierOrder[i], s)
      deciding == {i \in MatchingTiers : decides(i)}
      tier     == CHOOSE i \in deciding : \A j \in deciding : i <= j
      found    == Reached(tagOf, alias, TierOrder[tier], s)
      refused(kind) == [asset |-> None, tier |-> None, refusal |-> kind]
  IN  IF deciding = {} THEN
        IF "fuzzy-proposal" \in enabled /\ \E a \in DOMAIN tagOf : <<s, tagOf[a]>> \in Near
        THEN refused("fuzzy-identity") ELSE refused("")
      ELSE IF found = {} THEN refused("unresolvable-alias")
      ELSE IF Cardinality({tagOf[a] : a \in found}) > 1 THEN refused("ambiguous-suffix")
      ELSE [asset |-> CHOOSE a \in found : \A b \in found : a <= b, tier |-> tier, refusal |-> ""]

IdentityReviews(outcomes) ==
  {[kind |-> outcomes[s].refusal, spelling |-> s] :
     s \in {t \in DOMAIN outcomes : outcomes[t].refusal # ""}}
=============================================================================
