------------------------ MODULE MCContactAuthorization ------------------------
(***************************************************************************)
(* Instances of ContactAuthorization for TLC: one contact with a voice     *)
(* request that a B2B exemption allows, and one WhatsApp request of the    *)
(* same campaign version.                                                  *)
(***************************************************************************)
EXTENDS ContactAuthorization, TLC

CONSTANTS d1, d2, t1, t2, w1, w2, c1, p1, v1, h1, tenant1

\* A body as a caller sends it: favourable claims, the CRM overwrites them.
Body(channel) ==
  [tenant_id |-> tenant1, contact_id |-> c1, phone_token |-> NULL,
   campaign_version_id |-> v1,
   channel |-> channel, purpose |-> "SALES", content_hash |-> h1,
   kill_switch |-> FALSE, frequency_exhausted |-> FALSE, local_hour |-> 12,
   template_approved |-> TRUE, conversation_window_open |-> NULL,
   campaign_approved |-> TRUE, approved_content_hash |-> h1,
   internally_suppressed |-> FALSE, consent_active |-> TRUE,
   repep_enabled |-> FALSE, repep_snapshot_valid |-> TRUE, repep_listed |-> FALSE,
   repep_exemption_type |-> "B2B", repep_exemption_approved |-> TRUE,
   repep_exemption_evidence_ref |-> "receipt"]

MCManifest ==
  [v \in {v1} |->
     [content_hashes |-> [ch \in {"VOICE", "WHATSAPP"} |-> h1],
      repep_enabled |-> FALSE, repep_exemption_type |-> "B2B",
      repep_exemption_approved |-> TRUE,
      repep_exemption_evidence_ref |-> "receipt"]]

MCPhoneOf == [c \in {c1} |-> p1]
MCRepepCheck == [p \in {p1} |-> NULL]

VoiceBody == {Body("VOICE")}
BothBodies == {Body("VOICE"), Body("WHATSAPP")}
BodiesWithPhone == BothBodies \union {[Body("VOICE") EXCEPT !.phone_token = p1]}

VoiceAdapters == [w \in {w1, w2} |-> "VOICE"]
BothAdapters == [w \in {w1, w2} |-> IF w = w1 THEN "VOICE" ELSE "WHATSAPP"]
Symmetric == Permutations({d1, d2}) \union Permutations({t1, t2})
             \union Permutations({w1, w2})
Endless == {NULL}
EndlessOrBrief == {NULL, 2}
Ahead == 1
Behind == -1
TtlRequests == {0, 2, 3}
=============================================================================
