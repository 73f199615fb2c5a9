--------------------------- MODULE ConversionPolicy ---------------------------
(***************************************************************************)
(* post_demo_conversion/domain/policy.py: the follow-up after a demo and   *)
(* the check of its drafted text, asked again as the facts of the demo, its *)
(* offer and the draft change.  Those changes come from outside.           *)
(***************************************************************************)
EXTENDS Integers, Sequences, FiniteSets, FiniteSetsExt

CONSTANTS FollowUpRules,       \* sequence of rules, the first that applies wins
          FactRefs,
          FollowUpAfterOptOut, \* allowed_after_opt_out
          ProhibitedClaims,    \* prohibited_claim_types
          ClaimTypes, Sources, ApprovedSources,
          NoSource,            \* a claim without source_ref
          MaxClaims            \* bound of a draft

DemoOutcomes ==
  {"completed", "learner_no_show", "tutor_no_show", "technical_failure", "disputed"}
OfferApprovals == {"none", "approved", "pending", "rejected"}

\* The values ConversionPolicy accepts, and those of the model's bounds.
ConversionPolicyValid ==
  /\ ApprovedSources \subseteq Sources /\ NoSource \notin Sources
  /\ DOMAIN FollowUpRules \subseteq Nat
  /\ \A i \in DOMAIN FollowUpRules :
       /\ FollowUpRules[i].outcomes \subseteq DemoOutcomes
       /\ FollowUpRules[i].approvals \subseteq OfferApprovals
       /\ FollowUpRules[i].facts \subseteq FactRefs

ASSUME ConversionAssumption == ConversionPolicyValid

VARIABLES
  context,  \* ConversionContext
  draft     \* sequence of DraftClaims

conversionVars == <<context, draft>>

ConversionInit ==
  /\ context = [outcome |-> "completed", verified |-> FALSE, facts |-> {},
                approval |-> "none", optedOut |-> FALSE, allowed |-> TRUE, highRisk |-> FALSE]
  /\ draft = <<>>

-----------------------------------------------------------------------------
\* Mutation: a rule applies when it needs every fact there is.
AppliesReversed(c, rule) ==
  /\ c.outcome \in rule.outcomes
  /\ c.approval \in rule.approvals
  /\ c.facts \subseteq rule.facts

\* The rules the loop of choose_next_action does not pass over.
Applies(c, rule) ==
  /\ c.outcome \in rule.outcomes
  /\ c.approval \in rule.approvals
  /\ rule.facts \subseteq c.facts

\* choose_next_action: the reason, the rule when one is selected, and whether
\* a human reviews the decision.
ChooseNextAction(c) ==
  LET applying == {i \in DOMAIN FollowUpRules : Applies(c, FollowUpRules[i])}
      first == Min(applying) IN
  IF ~ c.verified THEN [reason |-> "outcome_unverified", rule |-> 0, review |-> TRUE]
  ELSE IF ~ c.allowed
    THEN [reason |-> "communication_not_allowed", rule |-> 0, review |-> FALSE]
  ELSE IF applying = {}
    THEN [reason |-> "no_applicable_rule", rule |-> 0, review |-> c.highRisk]
  ELSE IF c.optedOut /\ FollowUpRules[first].class \notin FollowUpAfterOptOut
    THEN [reason |-> "recipient_opted_out", rule |-> 0, review |-> FALSE]
  ELSE [reason |-> "rule_selected", rule |-> first,
        review |-> FollowUpRules[first].review \/ c.highRisk]

\* Mutation: only the last claim is looked at.
ViolationsOfLast(claims) ==
  IF claims = <<>> THEN {}
  ELSE LET c == claims[Len(claims)] IN
       (IF c.type \in ProhibitedClaims THEN {"prohibited_claim"} ELSE {})
         \cup (IF c.source \notin ApprovedSources THEN {"ungrounded_claim"} ELSE {})

\* The violations validate_draft collects; NoSource is no approved source.
Violations(claims) ==
  UNION {(IF claims[i].type \in ProhibitedClaims THEN {"prohibited_claim"} ELSE {})
           \cup (IF claims[i].source \notin ApprovedSources THEN {"ungrounded_claim"}
                 ELSE {}) : i \in DOMAIN claims}

\* validate_draft.
ValidateDraft(claims) ==
  [approved |-> Violations(claims) = {},
   sources |-> {claims[i].source : i \in DOMAIN claims} \cap ApprovedSources]

-----------------------------------------------------------------------------
\* The outcome is settled or revised, and verified or not.
OutcomeChanges ==
  /\ \E o \in DemoOutcomes, v \in BOOLEAN :
       context' = [context EXCEPT !.outcome = o, !.verified = v]
  /\ UNCHANGED draft

FactArrives ==
  /\ \E f \in FactRefs : context' = [context EXCEPT !.facts = @ \cup {f}]
  /\ UNCHANGED draft

ApprovalChanges ==
  /\ \E a \in OfferApprovals : context' = [context EXCEPT !.approval = a]
  /\ UNCHANGED draft

RecipientChanges ==
  /\ \E o, a, r \in BOOLEAN :
       context' = [context EXCEPT !.optedOut = @ \/ o, !.allowed = a, !.highRisk = r]
  /\ UNCHANGED draft

ClaimDrafted ==
  /\ Len(draft) < MaxClaims
  /\ \E t \in ClaimTypes, s \in Sources \cup {NoSource} :
       draft' = Append(draft, [type |-> t, source |-> s])
  /\ UNCHANGED context

FollowUpNext == OutcomeChanges \/ FactArrives \/ ApprovalChanges \/ RecipientChanges
DraftNext == ClaimDrafted

ConversionSpec == ConversionInit /\ [][FollowUpNext \/ DraftNext]_conversionVars

-----------------------------------------------------------------------------
\* A step that changes no more than the facts leaves the follow-up, or gives it
\* an earlier rule, unless that rule may not be used after an opt-out.
FactsHelp ==
  /\ context' # context
  /\ [context' EXCEPT !.facts = context.facts] = context
  /\ ChooseNextAction(context).reason = "rule_selected"
  => \/ /\ ChooseNextAction(context').reason = "rule_selected"
        /\ ChooseNextAction(context').rule <= ChooseNextAction(context).rule
     \/ context.optedOut /\ ChooseNextAction(context').reason = "recipient_opted_out"

\* A fact that becomes available never takes a follow-up away or replaces its
\* rule by a later one, unless the recipient has opted out: then the rule that
\* applies first ends the search although a later one would be allowed.
FactsOnlyHelp == [][FactsHelp]_conversionVars

\* A step that refuses or approves a draft agrees with the draft before.
RefusalKept ==
  /\ ~ ValidateDraft(draft).approved => ~ ValidateDraft(draft').approved
  /\ ValidateDraft(draft').approved =>
       ValidateDraft(draft').sources = {draft'[i].source : i \in DOMAIN draft'}

\* A draft that was refused stays refused however it is continued, and the
\* sources an approved draft names are the sources of all its claims.
DraftRefusalFinal == [][RefusalKept]_conversionVars

\* What the conversion policy promises while facts arrive and a draft grows:
\* facts take no follow-up away, and a refusal is final (choose_next_action,
\* validate_draft).
ConversionContract == FactsOnlyHelp /\ DraftRefusalFinal
=============================================================================
