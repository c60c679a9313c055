---------------------------- MODULE PolicyAnswers ----------------------------
(***************************************************************************)
(* What the policy gateway decides of a request while the CRM's answer     *)
(* changes: the CRM gives a key another value, or leaves it out.  The keys *)
(* of an answer are its domain.                                            *)
(***************************************************************************)
EXTENDS ContactPolicy

CONSTANTS
  CallerBodies,           \* bodies of the callers
  Values,           \* what the CRM may say under each key
  Claims            \* what a caller may write into the evidence fields of a body

\* The fields of ContactabilityRequest that decide reads.
Fields ==
  {"channel", "purpose", "content_hash", "kill_switch", "frequency_exhausted",
   "local_hour", "template_approved", "conversation_window_open",
   "campaign_approved", "approved_content_hash", "internally_suppressed",
   "consent_active", "repep_enabled", "repep_snapshot_valid", "repep_listed",
   "repep_exemption_type", "repep_exemption_approved", "repep_exemption_evidence_ref"}

ASSUME AnswersAssumption == \A b \in CallerBodies : DOMAIN b = Fields

VARIABLES
  body,             \* the request, as its caller sent it
  answer,           \* what the CRM says now
  verdict           \* the decision taken on that answer

answerVars == <<body, answer, verdict>>

\* decide_contactability: the evidence is resolved, then the engine decides.
Decided(b, evidence) == Outcome(Resolved(b, evidence))

\* The keys EvidenceClient reads.
Keys ==
  {"campaign_approved", "approved_content_hash", "suppressed", "consent_active",
   "repep_enabled", "repep_snapshot_valid", "repep_listed", "repep_exemption_type",
   "repep_exemption_approved", "repep_exemption_evidence_ref"}

AnswersInit ==
  /\ body \in CallerBodies
  /\ answer = [key \in {} |-> NULL]
  /\ verdict = Decided(body, answer)

Says(key, value) ==
  answer' = [k \in DOMAIN answer \union {key} |-> IF k = key THEN value ELSE answer[k]]

LeavesOut(key) == answer' = [k \in DOMAIN answer \ {key} |-> answer[k]]

CrmChanges ==
  /\ \E key \in Keys : LeavesOut(key) \/ \E value \in Values[key] : Says(key, value)
  /\ verdict' = Decided(body, answer')
  /\ UNCHANGED body

AnswersSpec == AnswersInit /\ [][CrmChanges]_answerVars

-----------------------------------------------------------------------------
(* Properties                                                              *)

\* The answer has a value under the key, and it counts for the contact.
Favours(evidence, key) ==
  /\ key \in DOMAIN evidence
  /\ CASE key \in {"suppressed", "repep_listed"} -> evidence[key] = FALSE
       [] key = "approved_content_hash" -> evidence[key] = body.content_hash
       [] key = "repep_exemption_type" -> evidence[key] = "B2B"
       [] key = "repep_exemption_evidence_ref" -> evidence[key] # NULL
       [] OTHER -> evidence[key] = TRUE

\* Losing a favourable fact (the campaign's approval, its content hash, the
\* consent, a REPEP snapshot or exemption, the key itself) can only withdraw an
\* ALLOW, never produce one: "fail-closed contactability policy", the docstring
\* of PolicyEngine.  The campaign's REPEP switch is not a fact for or against
\* the contact: it selects which of the two evidences is asked for.
FailClosed ==
  [][ (\E key \in Keys \ {"repep_enabled"} : Favours(answer, key) /\ ~ Favours(answer', key))
      => (verdict' = "ALLOW" => verdict = "ALLOW") ]_answerVars

\* The body with the caller's own copies of the evidence fields.
Forged(b, claim) ==
  [b EXCEPT !.campaign_approved        = claim.campaign_approved,
            !.approved_content_hash    = claim.approved_content_hash,
            !.internally_suppressed    = claim.internally_suppressed,
            !.consent_active           = claim.consent_active,
            !.repep_enabled            = claim.repep_enabled,
            !.repep_snapshot_valid     = claim.repep_snapshot_valid,
            !.repep_listed             = claim.repep_listed,
            !.repep_exemption_type     = claim.repep_exemption_type,
            !.repep_exemption_approved = claim.repep_exemption_approved,
            !.repep_exemption_evidence_ref = claim.repep_exemption_evidence_ref]

\* What the caller writes into the evidence fields of the body changes no
\* decision: "not a caller-controlled bypass in production because
\* EvidenceClient overwrites these fields from CRM"
\* (shared/atlantis_contracts/models.py:39-42).
CallerCannotOverrideEvidence ==
  \A claim \in Claims : Decided(Forged(body, claim), answer) = verdict

=============================================================================
