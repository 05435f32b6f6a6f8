--------------------------- MODULE SystemResolver ---------------------------
(***************************************************************************)
(* packages/system-resolver: the system of one asset, from an ordered      *)
(* chain of components.  Every component that yields makes a claim; what   *)
(* they disagree about is kept and reviewed, never voted on.               *)
(*                                                                         *)
(* The chain is the key chain.  A component is "field" (model-field,       *)
(* direct-column, composite: a value on the asset), "segment" (cut from    *)
(* the tag), "mel-by-tag" and "mel-by-key" (mel-lookup) or "manual".       *)
(* The MEL is a sequence of rows [tag, key, description]; NormalKey is     *)
(* what the profile's normalization steps make of a key.                   *)
(***************************************************************************)
EXTENDS Integers, Sequences, FiniteSets, SequencesExt

CONSTANTS NormalKey, None

MelKeys(mel) == {mel[i].key : i \in DOMAIN mel} \ {None}

(* First row that matches the tag and states a key.                        *)
KeyByTag(mel, tag) ==
  LET rows == {i \in DOMAIN mel : mel[i].tag = tag /\ mel[i].key # None}
  IN  IF tag = None \/ rows = {} THEN None ELSE mel[CHOOSE i \in rows : \A j \in rows : i <= j].key
(* The MEL's own spelling of the key joined on.  Two systems the steps     *)
(* have made indistinguishable are not told apart by a guess.              *)
KeyByKey(mel, joinKey) ==
  LET spellings == {k \in MelKeys(mel) : NormalKey[k] = joinKey}
  IN  IF joinKey # None /\ Cardinality(spellings) = 1 THEN CHOOSE k \in spellings : TRUE ELSE None

(* subject: [tag, field, segment, manual]                                  *)
EvaluateComponent(component, subject, mel, joinKey) ==
  CASE component = "field"      -> subject.field
    [] component = "segment"    -> subject.segment
    [] component = "mel-by-tag" -> KeyByTag(mel, subject.tag)
    [] component = "mel-by-key" -> KeyByKey(mel, joinKey)
    [] component = "manual"     -> subject.manual

(* The claims in chain order.  A lookup by key joins on what the first     *)
(* component above it said; a manual assignment is evaluated even where    *)
(* the chain has no rung for it.                                           *)
RunChain(chain, subject, mel) ==
  LET walked == IF Contains(chain, "manual") \/ subject.manual = None
                THEN chain ELSE Append(chain, "manual")
      visit(claims, component) ==
        LET joinKey == IF claims = <<>> THEN None ELSE claims[1].value
            raw     == EvaluateComponent(component, subject, mel, joinKey)
        IN  IF raw = None THEN claims
            ELSE Append(claims, [component |-> component, value |-> NormalKey[raw]])
  IN  FoldLeft(visit, <<>>, walked)

ClaimedKeys(claims) == {claims[i].value : i \in DOMAIN claims}
ByHand(claims) == {i \in DOMAIN claims : claims[i].component = "manual"}
KeyOf(claims) ==
  IF claims = <<>> THEN None
  ELSE LET best == IF ByHand(claims) = {} THEN DOMAIN claims ELSE ByHand(claims)
       IN  claims[CHOOSE i \in best : \A j \in best : i <= j].value
InConflict(claims, policy) ==
  Cardinality(ClaimedKeys(claims)) > 1 /\ ByHand(claims) = {} /\ policy = "review"

(* Two descriptions of one key, in the catalog made of the MEL.            *)
MelReviews(mel) ==
  {[kind |-> "system-catalog-conflict", key |-> k] :
     k \in {x \in MelKeys(mel) :
              Cardinality({mel[i].description : i \in {j \in DOMAIN mel : mel[j].key = x}} \ {None}) > 1}}
=============================================================================
