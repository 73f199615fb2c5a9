------------------------- MODULE ObjectionExtraction -------------------------
(***************************************************************************)
(* objection_extraction/domain/pipeline.py: the objections found in the    *)
(* evidence about a demo by the deterministic rules, asked again as        *)
(* evidence arrives and permissions are withdrawn.  A text is the set of   *)
(* phrases it contains; an evidence_ref is the item's place.               *)
(***************************************************************************)
EXTENDS Integers, Sequences, SequencesExt

CONSTANTS Phrases,
          ObjectionRules,           \* sequence of FallbackRules
          Taxonomy,
          ImplicitThreshold, ReviewThreshold,  \* per cent
          MaximumEvidenceItems,
          MaxEvidence               \* bound of the evidence

\* The values ObjectionPolicy accepts, and those of the model's bounds.
ObjectionPolicyValid ==
  /\ MaximumEvidenceItems \in Nat \ {0}
  /\ {ImplicitThreshold, ReviewThreshold} \subseteq 0 .. 100
  /\ \A i \in DOMAIN ObjectionRules :
       /\ ObjectionRules[i].category \in Taxonomy
       /\ ObjectionRules[i].confidence \in 0 .. 100
       /\ ObjectionRules[i].phrases # {}

ASSUME ObjectionAssumption == ObjectionPolicyValid

VARIABLE evidence   \* sequence of ObjectionEvidence

EvidenceItems == [phrases : SUBSET Phrases, permitted : BOOLEAN,
                  transcript : BOOLEAN, consent : BOOLEAN]

ObjectionInit == evidence = <<>>

-----------------------------------------------------------------------------
\* The refs of evidence that may be used at all.
UsableRefs(items) ==
  SelectSeq([i \in DOMAIN items |-> i],
            LAMBDA i : items[i].permitted /\ (items[i].transcript => items[i].consent))

\* Mutation: the latest items are kept.
PermittedEvidenceLast(items) ==
  LET refs == UsableRefs(items) IN
  SubSeq(refs, IF Len(refs) > MaximumEvidenceItems
               THEN Len(refs) - MaximumEvidenceItems + 1 ELSE 1, Len(refs))

\* permitted_evidence: the first items, up to the limit.
PermittedEvidence(items) ==
  LET refs == UsableRefs(items) IN
  SubSeq(refs, 1, IF Len(refs) > MaximumEvidenceItems THEN MaximumEvidenceItems
                  ELSE Len(refs))

\* Mutation: an implicit objection is reviewed like any other.
RequiresReviewUniform(rule) == rule.confidence < ReviewThreshold

\* requires_review of deterministic_extract.
RequiresReviewOf(rule) ==
  \/ rule.implicit /\ rule.confidence < ImplicitThreshold
  \/ rule.confidence < ReviewThreshold

Refs(items, rule) ==
  SelectSeq(PermittedEvidence(items), LAMBDA i : items[i].phrases \cap rule.phrases # {})

\* deterministic_extract: the objections by rule.  The objection_id is a hash
\* of the rule and the refs.
DeterministicExtract(items) ==
  {[rule |-> n, category |-> ObjectionRules[n].category,
    implicit |-> ObjectionRules[n].implicit, confidence |-> ObjectionRules[n].confidence,
    refs |-> Refs(items, ObjectionRules[n]), review |-> RequiresReviewOf(ObjectionRules[n])] :
     n \in {m \in DOMAIN ObjectionRules : Refs(items, ObjectionRules[m]) # <<>>}}

\* validate_extracted_objection accepts the objection.
Valid(objection, storedRefs) ==
  /\ objection.category \in Taxonomy
  /\ objection.refs # <<>> /\ ToSet(objection.refs) \subseteq storedRefs
  /\ objection.confidence \in 0 .. 100

\* The objection validate_extracted_objection returns.
ValidateExtractedObjection(objection) ==
  [objection EXCEPT !.review =
     \/ @
     \/ objection.confidence < ReviewThreshold
     \/ objection.implicit /\ objection.confidence < ImplicitThreshold]

-----------------------------------------------------------------------------
EvidenceArrives ==
  /\ Len(evidence) < MaxEvidence
  /\ \E item \in EvidenceItems : evidence' = Append(evidence, item)

\* The permission to use an item, or the consent to its transcript, ends.
PermissionEnds ==
  \E i \in DOMAIN evidence :
    \/ evidence' = [evidence EXCEPT ![i].permitted = FALSE]
    \/ evidence' = [evidence EXCEPT ![i].consent = FALSE]

ObjectionNext == EvidenceArrives \/ PermissionEnds

-----------------------------------------------------------------------------
\* Whatever was permitted and withdrawn before, each objection passes the check
\* made of a model's objections against the usable evidence, and passes it
\* unchanged: the two statements of when a human reviews it agree.
ExtractionValidates ==
  \A objection \in DeterministicExtract(evidence) :
    /\ Valid(objection, ToSet(UsableRefs(evidence)))
    /\ ValidateExtractedObjection(objection) = objection

\* More evidence takes no objection away and no reference out of one, and an
\* objection that gets no new reference keeps its id; once the limit is
\* reached, more evidence changes nothing.
EvidenceOnlyAdds ==
  [][ evidence' # evidence /\ Len(evidence') > Len(evidence) =>
        /\ \A o \in DeterministicExtract(evidence) :
             \E n \in DeterministicExtract(evidence') :
               n.rule = o.rule /\ IsPrefix(o.refs, n.refs)
        /\ Len(PermittedEvidence(evidence)) = MaximumEvidenceItems =>
             DeterministicExtract(evidence') = DeterministicExtract(evidence) ]_evidence

\* What the extraction promises while evidence arrives and permissions end: its
\* objections pass the validation of a model's, and evidence only adds
\* (deterministic_extract, validate_extracted_objection).
ExtractionContract == []ExtractionValidates /\ EvidenceOnlyAdds
=============================================================================
