------------------------- MODULE PolicyAnswers_proofs -------------------------
(***************************************************************************)
(* The properties of PolicyAnswers, for all bodies, whatever the CRM may   *)
(* answer and whatever a caller may claim.                                 *)
(***************************************************************************)
EXTENDS PolicyAnswers, TLAPS

\* The verdict is the one on the answer of the moment.
IInv ==
  /\ body \in CallerBodies
  /\ verdict = Decided(body, answer)

\* The evidence fields of a request, from the keys of the answer.
LEMMA ResolvedEvidence ==
  ASSUME NEW b, DOMAIN b = Fields, NEW e
  PROVE  /\ Resolved(b, e).campaign_approved = Answered(e, "campaign_approved", FALSE)
         /\ Resolved(b, e).approved_content_hash = Answered(e, "approved_content_hash", NULL)
         /\ Resolved(b, e).internally_suppressed = Answered(e, "suppressed", TRUE)
         /\ Resolved(b, e).consent_active = Answered(e, "consent_active", FALSE)
         /\ Resolved(b, e).repep_snapshot_valid = Answered(e, "repep_snapshot_valid", FALSE)
         /\ Resolved(b, e).repep_listed = Answered(e, "repep_listed", NULL)
         /\ Resolved(b, e).repep_enabled = Answered(e, "repep_enabled", FALSE)
         /\ Resolved(b, e).repep_exemption_type = Answered(e, "repep_exemption_type", NULL)
         /\ Resolved(b, e).repep_exemption_approved
              = Answered(e, "repep_exemption_approved", FALSE)
         /\ Resolved(b, e).repep_exemption_evidence_ref
              = Answered(e, "repep_exemption_evidence_ref", NULL)
<1> HIDE DEF Answered
<1> QED
  BY DEF Resolved, Fields

\* The other fields are the caller's.
LEMMA ResolvedOwn ==
  ASSUME NEW b, DOMAIN b = Fields, NEW e
  PROVE  /\ Resolved(b, e).channel = b.channel /\ Resolved(b, e).purpose = b.purpose
         /\ Resolved(b, e).content_hash = b.content_hash
         /\ Resolved(b, e).kill_switch = b.kill_switch
         /\ Resolved(b, e).frequency_exhausted = b.frequency_exhausted
         /\ Resolved(b, e).local_hour = b.local_hour
         /\ Resolved(b, e).template_approved = b.template_approved
         /\ Resolved(b, e).conversation_window_open = b.conversation_window_open
<1> HIDE DEF Answered
<1> QED
  BY DEF Resolved, Fields

\* A request is allowed when no objection stands.
LEMMA Allowed ==
  ASSUME NEW r
  PROVE  Outcome(r) = "ALLOW" <=>
    /\ ~ r.kill_switch /\ r.campaign_approved /\ r.approved_content_hash = r.content_hash
    /\ ~ r.internally_suppressed /\ ~ r.frequency_exhausted
    /\ r.local_hour # NULL /\ r.local_hour \in AllowedHours
    /\ PromotionalVoice(r) /\ r.repep_enabled =>
         r.repep_snapshot_valid = TRUE /\ r.repep_listed = FALSE
    /\ PromotionalVoice(r) /\ ~ r.repep_enabled =>
         /\ r.repep_exemption_type = "B2B" /\ r.repep_exemption_approved = TRUE
         /\ r.repep_exemption_evidence_ref # NULL
    /\ PromotionalWhatsApp(r) =>
         /\ r.consent_active = TRUE
         /\ r.conversation_window_open = TRUE \/ r.template_approved = TRUE
<1>1. Outcome(r) = "ALLOW" <=> \A code \in DOMAIN Objections(r) : ~ Objections(r)[code]
  BY DEF Outcome, Reasons
<1>2. DOMAIN Objections(r) =
        {"GLOBAL_KILL_SWITCH", "CAMPAIGN_NOT_APPROVED", "CAMPAIGN_CONTENT_CHANGED",
         "INTERNAL_SUPPRESSION", "FREQUENCY_LIMIT", "LOCAL_TIME_UNKNOWN",
         "OUTSIDE_ALLOWED_HOURS", "REPEP_EVIDENCE_MISSING_OR_STALE",
         "REPEP_LISTED_OR_UNKNOWN", "REPEP_DISABLED_REQUIRES_B2B",
         "REPEP_B2B_EXCEPTION_NOT_APPROVED", "REPEP_B2B_EVIDENCE_MISSING",
         "WHATSAPP_OPT_IN_MISSING", "WHATSAPP_TEMPLATE_OR_WINDOW_INVALID"}
  BY DEF Objections
<1>3. /\ Objections(r).GLOBAL_KILL_SWITCH <=> r.kill_switch
      /\ Objections(r).CAMPAIGN_NOT_APPROVED <=> ~ r.campaign_approved
      /\ Objections(r).CAMPAIGN_CONTENT_CHANGED <=> r.approved_content_hash # r.content_hash
      /\ Objections(r).INTERNAL_SUPPRESSION <=> r.internally_suppressed
      /\ Objections(r).FREQUENCY_LIMIT <=> r.frequency_exhausted
      /\ Objections(r).LOCAL_TIME_UNKNOWN <=> r.local_hour = NULL
      /\ Objections(r).OUTSIDE_ALLOWED_HOURS
           <=> r.local_hour # NULL /\ r.local_hour \notin AllowedHours
  BY DEF Objections
<1>4. /\ Objections(r).REPEP_EVIDENCE_MISSING_OR_STALE <=>
           PromotionalVoice(r) /\ r.repep_enabled /\ r.repep_snapshot_valid # TRUE
      /\ Objections(r).REPEP_LISTED_OR_UNKNOWN <=>
           /\ PromotionalVoice(r) /\ r.repep_enabled
           /\ r.repep_snapshot_valid = TRUE /\ r.repep_listed # FALSE
      /\ Objections(r).REPEP_DISABLED_REQUIRES_B2B <=>
           PromotionalVoice(r) /\ ~ r.repep_enabled /\ r.repep_exemption_type # "B2B"
      /\ Objections(r).REPEP_B2B_EXCEPTION_NOT_APPROVED <=>
           PromotionalVoice(r) /\ ~ r.repep_enabled /\ r.repep_exemption_approved # TRUE
      /\ Objections(r).REPEP_B2B_EVIDENCE_MISSING <=>
           PromotionalVoice(r) /\ ~ r.repep_enabled /\ r.repep_exemption_evidence_ref = NULL
  BY DEF Objections, RepepUnproven
<1>5. /\ Objections(r).WHATSAPP_OPT_IN_MISSING <=>
           PromotionalWhatsApp(r) /\ r.consent_active # TRUE
      /\ Objections(r).WHATSAPP_TEMPLATE_OR_WINDOW_INVALID <=>
           /\ PromotionalWhatsApp(r)
           /\ r.conversation_window_open # TRUE /\ r.template_approved # TRUE
  BY DEF Objections
<1> QED
  BY <1>1, <1>2, <1>3, <1>4, <1>5

-----------------------------------------------------------------------------
LEMMA InitInvariant == AnswersInit => IInv
BY DEF AnswersInit, IInv

LEMMA NextInvariant == IInv /\ [CrmChanges]_answerVars => IInv'
<1> SUFFICES ASSUME IInv, [CrmChanges]_answerVars PROVE IInv'
  OBVIOUS
<1>1. CASE CrmChanges
  BY <1>1 DEF IInv, CrmChanges, Decided
<1>2. CASE UNCHANGED answerVars
  BY <1>2 DEF IInv, answerVars, Decided
<1> QED
  BY <1>1, <1>2

THEOREM AnswersInvariant == AnswersSpec => []IInv
<1> QED
  BY InitInvariant, NextInvariant, PTL DEF AnswersSpec

\* EvidenceClient.resolve overwrites every evidence field of the body, so that two
\* bodies that differ in them only are decided alike, whatever the caller claims.
THEOREM CallerNeverOverrides == AnswersSpec => []CallerCannotOverrideEvidence
<1>1. ASSUME IInv PROVE CallerCannotOverrideEvidence
  <2> SUFFICES ASSUME NEW claim \in Claims
               PROVE  Decided(Forged(body, claim), answer) = verdict
    BY DEF CallerCannotOverrideEvidence
  <2>1. DOMAIN body = Fields
    BY <1>1, AnswersAssumption DEF IInv
  <2>2. Resolved(Forged(body, claim), answer) = Resolved(body, answer)
    BY <2>1 DEF Resolved, Forged, Fields
  <2> QED
    BY <1>1, <2>2 DEF IInv, Decided
<1> QED
  BY <1>1, AnswersInvariant, PTL

\* What an answer that lacks one fact allows, the answer with it allows.
LEMMA FactsOnlyHelp ==
  ASSUME NEW b, DOMAIN b = Fields, NEW e, NEW f,
         NEW key \in Keys \ {"repep_enabled"},
         \A k \in Keys : k # key =>
           /\ k \in DOMAIN e <=> k \in DOMAIN f
           /\ k \in DOMAIN e => e[k] = f[k],
         key \in DOMAIN e,
         key \in {"suppressed", "repep_listed"} => e[key] = FALSE,
         key = "approved_content_hash" => e[key] = b.content_hash,
         key = "repep_exemption_type" => e[key] = "B2B",
         key = "repep_exemption_evidence_ref" => e[key] # NULL,
         key \notin {"suppressed", "repep_listed", "approved_content_hash",
                    "repep_exemption_type", "repep_exemption_evidence_ref"} => e[key] = TRUE,
         Decided(b, f) = "ALLOW"
  PROVE  Decided(b, e) = "ALLOW"
<1> DEFINE r == Resolved(b, e)
           s == Resolved(b, f)
<1>1. \A k \in Keys : \A default : k # key => Answered(e, k, default) = Answered(f, k, default)
  BY DEF Answered
<1>2. \A default : Answered(e, key, default) = e[key]
  BY DEF Answered
<1>3. /\ r.campaign_approved = s.campaign_approved \/ r.campaign_approved = TRUE
      /\ r.approved_content_hash = s.approved_content_hash \/ r.approved_content_hash = b.content_hash
      /\ r.internally_suppressed = s.internally_suppressed \/ r.internally_suppressed = FALSE
      /\ r.consent_active = s.consent_active \/ r.consent_active = TRUE
      /\ r.repep_enabled = s.repep_enabled
      /\ r.repep_snapshot_valid = s.repep_snapshot_valid \/ r.repep_snapshot_valid = TRUE
      /\ r.repep_listed = s.repep_listed \/ r.repep_listed = FALSE
      /\ r.repep_exemption_type = s.repep_exemption_type \/ r.repep_exemption_type = "B2B"
      /\ r.repep_exemption_approved = s.repep_exemption_approved
           \/ r.repep_exemption_approved = TRUE
      /\ r.repep_exemption_evidence_ref = s.repep_exemption_evidence_ref
           \/ r.repep_exemption_evidence_ref # NULL
  <2> HIDE DEF r, s
  <2>1. /\ r.campaign_approved = Answered(e, "campaign_approved", FALSE)
        /\ r.approved_content_hash = Answered(e, "approved_content_hash", NULL)
        /\ r.internally_suppressed = Answered(e, "suppressed", TRUE)
        /\ r.consent_active = Answered(e, "consent_active", FALSE)
        /\ r.repep_snapshot_valid = Answered(e, "repep_snapshot_valid", FALSE)
        /\ r.repep_listed = Answered(e, "repep_listed", NULL)
        /\ r.repep_enabled = Answered(e, "repep_enabled", FALSE)
        /\ r.repep_exemption_type = Answered(e, "repep_exemption_type", NULL)
        /\ r.repep_exemption_approved = Answered(e, "repep_exemption_approved", FALSE)
        /\ r.repep_exemption_evidence_ref = Answered(e, "repep_exemption_evidence_ref", NULL)
    BY ResolvedEvidence DEF r
  <2>2. /\ s.campaign_approved = Answered(f, "campaign_approved", FALSE)
        /\ s.approved_content_hash = Answered(f, "approved_content_hash", NULL)
        /\ s.internally_suppressed = Answered(f, "suppressed", TRUE)
        /\ s.consent_active = Answered(f, "consent_active", FALSE)
        /\ s.repep_snapshot_valid = Answered(f, "repep_snapshot_valid", FALSE)
        /\ s.repep_listed = Answered(f, "repep_listed", NULL)
        /\ s.repep_enabled = Answered(f, "repep_enabled", FALSE)
        /\ s.repep_exemption_type = Answered(f, "repep_exemption_type", NULL)
        /\ s.repep_exemption_approved = Answered(f, "repep_exemption_approved", FALSE)
        /\ s.repep_exemption_evidence_ref = Answered(f, "repep_exemption_evidence_ref", NULL)
    BY ResolvedEvidence DEF s
  <2>3. ASSUME NEW k \in Keys, NEW default
        PROVE  \/ Answered(e, k, default) = Answered(f, k, default)
               \/ k = key /\ Answered(e, k, default) = e[key]
    BY <1>1, <1>2
  <2>4. Answered(e, "repep_enabled", FALSE) = Answered(f, "repep_enabled", FALSE)
    BY <1>1 DEF Keys
  <2>5. \/ Answered(e, "campaign_approved", FALSE) = Answered(f, "campaign_approved", FALSE)
        \/ Answered(e, "campaign_approved", FALSE) = TRUE
    BY <2>3 DEF Keys
  <2>6. \/ Answered(e, "approved_content_hash", NULL) = Answered(f, "approved_content_hash", NULL)
        \/ Answered(e, "approved_content_hash", NULL) = b.content_hash
    BY <2>3 DEF Keys
  <2>7. \/ Answered(e, "suppressed", TRUE) = Answered(f, "suppressed", TRUE)
        \/ Answered(e, "suppressed", TRUE) = FALSE
    BY <2>3 DEF Keys
  <2>8. \/ Answered(e, "consent_active", FALSE) = Answered(f, "consent_active", FALSE)
        \/ Answered(e, "consent_active", FALSE) = TRUE
    BY <2>3 DEF Keys
  <2>9. \/ Answered(e, "repep_snapshot_valid", FALSE) = Answered(f, "repep_snapshot_valid", FALSE)
        \/ Answered(e, "repep_snapshot_valid", FALSE) = TRUE
    BY <2>3 DEF Keys
  <2>10. \/ Answered(e, "repep_listed", NULL) = Answered(f, "repep_listed", NULL)
        \/ Answered(e, "repep_listed", NULL) = FALSE
    BY <2>3 DEF Keys
  <2>11. \/ Answered(e, "repep_exemption_type", NULL) = Answered(f, "repep_exemption_type", NULL)
        \/ Answered(e, "repep_exemption_type", NULL) = "B2B"
    BY <2>3 DEF Keys
  <2>12. \/ Answered(e, "repep_exemption_approved", FALSE) = Answered(f, "repep_exemption_approved", FALSE)
        \/ Answered(e, "repep_exemption_approved", FALSE) = TRUE
    BY <2>3 DEF Keys
  <2>13. \/ Answered(e, "repep_exemption_evidence_ref", NULL) = Answered(f, "repep_exemption_evidence_ref", NULL)
        \/ Answered(e, "repep_exemption_evidence_ref", NULL) # NULL
    BY <2>3 DEF Keys
  <2> QED
    BY <2>1, <2>2, <2>4, <2>5, <2>6, <2>7, <2>8, <2>9, <2>10,
       <2>11, <2>12, <2>13
<1>4. /\ r.channel = s.channel /\ r.purpose = s.purpose
      /\ r.content_hash = s.content_hash /\ r.content_hash = b.content_hash
      /\ r.kill_switch = s.kill_switch /\ r.frequency_exhausted = s.frequency_exhausted
      /\ r.local_hour = s.local_hour /\ r.template_approved = s.template_approved
      /\ r.conversation_window_open = s.conversation_window_open
  <2> HIDE DEF r, s
  <2>1. /\ r.channel = b.channel /\ r.purpose = b.purpose /\ r.content_hash = b.content_hash
        /\ r.kill_switch = b.kill_switch /\ r.frequency_exhausted = b.frequency_exhausted
        /\ r.local_hour = b.local_hour /\ r.template_approved = b.template_approved
        /\ r.conversation_window_open = b.conversation_window_open
    BY ResolvedOwn DEF r
  <2>2. /\ s.channel = b.channel /\ s.purpose = b.purpose /\ s.content_hash = b.content_hash
        /\ s.kill_switch = b.kill_switch /\ s.frequency_exhausted = b.frequency_exhausted
        /\ s.local_hour = b.local_hour /\ s.template_approved = b.template_approved
        /\ s.conversation_window_open = b.conversation_window_open
    BY ResolvedOwn DEF s
  <2> QED
    BY <2>1, <2>2
<1>5. /\ PromotionalVoice(r) <=> PromotionalVoice(s)
      /\ PromotionalWhatsApp(r) <=> PromotionalWhatsApp(s)
  BY <1>4 DEF PromotionalVoice, PromotionalWhatsApp
<1>6. Outcome(s) = "ALLOW"
  BY DEF Decided
<1> HIDE DEF r, s
<1>7. /\ ~ s.kill_switch /\ s.campaign_approved /\ s.approved_content_hash = s.content_hash
      /\ ~ s.internally_suppressed /\ ~ s.frequency_exhausted
      /\ s.local_hour # NULL /\ s.local_hour \in AllowedHours
      /\ PromotionalVoice(s) /\ s.repep_enabled =>
           s.repep_snapshot_valid = TRUE /\ s.repep_listed = FALSE
      /\ PromotionalVoice(s) /\ ~ s.repep_enabled =>
           /\ s.repep_exemption_type = "B2B" /\ s.repep_exemption_approved = TRUE
           /\ s.repep_exemption_evidence_ref # NULL
      /\ PromotionalWhatsApp(s) =>
           /\ s.consent_active = TRUE
           /\ s.conversation_window_open = TRUE \/ s.template_approved = TRUE
  BY <1>6, Allowed
<1>8. /\ ~ r.kill_switch /\ r.campaign_approved /\ r.approved_content_hash = r.content_hash
      /\ ~ r.internally_suppressed /\ ~ r.frequency_exhausted
      /\ r.local_hour # NULL /\ r.local_hour \in AllowedHours
  BY <1>3, <1>4, <1>7
<1>9. /\ PromotionalVoice(r) /\ r.repep_enabled =>
           r.repep_snapshot_valid = TRUE /\ r.repep_listed = FALSE
      /\ PromotionalVoice(r) /\ ~ r.repep_enabled =>
           /\ r.repep_exemption_type = "B2B" /\ r.repep_exemption_approved = TRUE
           /\ r.repep_exemption_evidence_ref # NULL
  BY <1>3, <1>5, <1>7
<1>10. PromotionalWhatsApp(r) =>
         /\ r.consent_active = TRUE
         /\ r.conversation_window_open = TRUE \/ r.template_approved = TRUE
  BY <1>3, <1>4, <1>5, <1>7
<1>11. Outcome(r) = "ALLOW"
  BY <1>8, <1>9, <1>10, Allowed
<1> QED
  BY <1>11 DEF Decided, r

\* PolicyEngine.decide fails closed: when the CRM takes back or leaves out one fact
\* that counted for the contact, what was refused stays refused.
THEOREM AlwaysFailsClosed == AnswersSpec => FailClosed
<1> DEFINE Step == (\E key \in Keys \ {"repep_enabled"} :
                      Favours(answer, key) /\ ~ Favours(answer', key))
                    => (verdict' = "ALLOW" => verdict = "ALLOW")
<1>1. ASSUME IInv, CrmChanges PROVE Step
  <2> SUFFICES ASSUME NEW key \in Keys \ {"repep_enabled"}, Favours(answer, key),
                      ~ Favours(answer', key), verdict' = "ALLOW"
               PROVE  verdict = "ALLOW"
    OBVIOUS
  <2>1. PICK changed \in Keys : LeavesOut(changed) \/ \E value \in Values[changed] : Says(changed, value)
    BY <1>1 DEF CrmChanges
  <2>2. \A k \in Keys : k # changed =>
          /\ k \in DOMAIN answer <=> k \in DOMAIN answer'
          /\ k \in DOMAIN answer => answer[k] = answer'[k]
    BY <2>1 DEF LeavesOut, Says
  <2>3. changed = key
    BY <2>2 DEF Favours
  <2>4. Decided(body, answer') = "ALLOW" /\ DOMAIN body = Fields
    BY <1>1, AnswersAssumption DEF CrmChanges, IInv
  <2>5. PICK e, f : e = answer /\ f = answer'
    OBVIOUS
  <2>6. /\ key \in DOMAIN e
        /\ key \in {"suppressed", "repep_listed"} => e[key] = FALSE
        /\ key = "approved_content_hash" => e[key] = body.content_hash
        /\ key = "repep_exemption_type" => e[key] = "B2B"
        /\ key = "repep_exemption_evidence_ref" => e[key] # NULL
        /\ key \notin {"suppressed", "repep_listed", "approved_content_hash",
                       "repep_exemption_type", "repep_exemption_evidence_ref"} => e[key] = TRUE
    BY <2>5 DEF Favours
  <2>7. /\ Decided(body, f) = "ALLOW" /\ DOMAIN body = Fields
        /\ \A k \in Keys : k # key =>
             /\ k \in DOMAIN e <=> k \in DOMAIN f
             /\ k \in DOMAIN e => e[k] = f[k]
    BY <2>2, <2>3, <2>4, <2>5
  <2>8. Decided(body, e) = "ALLOW"
    BY <2>6, <2>7, FactsOnlyHelp
  <2> QED
    BY <1>1, <2>5, <2>8 DEF IInv
<1>2. IInv /\ [CrmChanges]_answerVars => [Step]_answerVars
  BY <1>1
<1> QED
  BY <1>2, AnswersInvariant, PTL DEF AnswersSpec, FailClosed

=============================================================================
