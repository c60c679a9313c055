---------------------------- MODULE ContactPolicy ----------------------------
(***************************************************************************)
(* The contactability policy of the policy gateway as pure operators:      *)
(* PolicyEngine.decide (services/policy_gateway/app/policy.py) and         *)
(* EvidenceClient.resolve (services/policy_gateway/app/evidence.py).       *)
(*                                                                         *)
(* A request is a record with the fields of ContactabilityRequest.  The    *)
(* optional fields of the code take NULL for None, so a flag is one of     *)
(* TRUE, FALSE and NULL, and the tests "is True" / "is not True" /         *)
(* "is False" keep their three-valued meaning.  The answer of the CRM is a *)
(* function whose domain is the set of keys it carried: a key the CRM left *)
(* out gets the default EvidenceClient gives it.                           *)
(***************************************************************************)
EXTENDS Integers

CONSTANT NULL       \* Python's None

\* Purposes compare after upper(); the model names them in upper case.
PromotionalPurposes == {"PROMOTIONAL", "MARKETING", "SALES"}

AllowedHours == 9 .. 19

PromotionalVoice(r) ==
  r.channel = "VOICE" /\ r.purpose \in PromotionalPurposes

PromotionalWhatsApp(r) ==
  r.channel = "WHATSAPP" /\ r.purpose \in PromotionalPurposes

\* Promotional calls of a campaign with REPEP enabled need a valid snapshot.
RepepUnproven_Dropped(r) == FALSE       \* mutant: the snapshot is not asked for

RepepUnproven(r) ==
  PromotionalVoice(r) /\ r.repep_enabled /\ r.repep_snapshot_valid # TRUE

\* Every reason code with the condition under which decide appends it.
Objections(r) ==
  [GLOBAL_KILL_SWITCH       |-> r.kill_switch,
   CAMPAIGN_NOT_APPROVED    |-> ~ r.campaign_approved,
   CAMPAIGN_CONTENT_CHANGED |-> r.approved_content_hash # r.content_hash,
   INTERNAL_SUPPRESSION     |-> r.internally_suppressed,
   FREQUENCY_LIMIT          |-> r.frequency_exhausted,
   LOCAL_TIME_UNKNOWN       |-> r.local_hour = NULL,
   OUTSIDE_ALLOWED_HOURS    |-> r.local_hour # NULL /\ r.local_hour \notin AllowedHours,
   REPEP_EVIDENCE_MISSING_OR_STALE |-> RepepUnproven(r),
   REPEP_LISTED_OR_UNKNOWN |->
      /\ PromotionalVoice(r) /\ r.repep_enabled
      /\ r.repep_snapshot_valid = TRUE /\ r.repep_listed # FALSE,
   REPEP_DISABLED_REQUIRES_B2B |->
      PromotionalVoice(r) /\ ~ r.repep_enabled /\ r.repep_exemption_type # "B2B",
   REPEP_B2B_EXCEPTION_NOT_APPROVED |->
      PromotionalVoice(r) /\ ~ r.repep_enabled /\ r.repep_exemption_approved # TRUE,
   REPEP_B2B_EVIDENCE_MISSING |->
      PromotionalVoice(r) /\ ~ r.repep_enabled /\ r.repep_exemption_evidence_ref = NULL,
   WHATSAPP_OPT_IN_MISSING |->
      PromotionalWhatsApp(r) /\ r.consent_active # TRUE,
   WHATSAPP_TEMPLATE_OR_WINDOW_INVALID |->
      /\ PromotionalWhatsApp(r)
      /\ r.conversation_window_open # TRUE /\ r.template_approved # TRUE]

Reasons(r) == {code \in DOMAIN Objections(r) : Objections(r)[code]}

\* mutant: an objection sends the request to a review no reader knows of
Outcome_Review(r) == IF Reasons(r) = {} THEN "ALLOW" ELSE "REVIEW"

Outcome(r) == IF Reasons(r) = {} THEN "ALLOW" ELSE "DENY"

\* dict.get: the answer's value, or the default when the key is missing.
Answered(evidence, key, default) ==
  IF key \in DOMAIN evidence THEN evidence[key] ELSE default

\* mutant: the exemption was added to the request and not to resolve
Resolved_TrustsExemption(body, evidence) ==
  [body EXCEPT
     !.campaign_approved     = Answered(evidence, "campaign_approved", FALSE),
     !.approved_content_hash = Answered(evidence, "approved_content_hash", NULL),
     !.internally_suppressed = Answered(evidence, "suppressed", TRUE),
     !.consent_active        = Answered(evidence, "consent_active", FALSE),
     !.repep_snapshot_valid  = Answered(evidence, "repep_snapshot_valid", FALSE),
     !.repep_listed          = Answered(evidence, "repep_listed", NULL),
     !.repep_enabled         = Answered(evidence, "repep_enabled", FALSE)]

\* The caller's body with every evidence field overwritten from the CRM.
Resolved(body, evidence) ==
  [body EXCEPT
     !.campaign_approved        = Answered(evidence, "campaign_approved", FALSE),
     !.approved_content_hash    = Answered(evidence, "approved_content_hash", NULL),
     !.internally_suppressed    = Answered(evidence, "suppressed", TRUE),
     !.consent_active           = Answered(evidence, "consent_active", FALSE),
     !.repep_snapshot_valid     = Answered(evidence, "repep_snapshot_valid", FALSE),
     !.repep_listed             = Answered(evidence, "repep_listed", NULL),
     !.repep_enabled            = Answered(evidence, "repep_enabled", FALSE),
     !.repep_exemption_type     = Answered(evidence, "repep_exemption_type", NULL),
     !.repep_exemption_approved = Answered(evidence, "repep_exemption_approved", FALSE),
     !.repep_exemption_evidence_ref = Answered(evidence, "repep_exemption_evidence_ref", NULL)]

=============================================================================
