-------------------------- MODULE MCPolicyAndProgress --------------------------
(* Instances for TLC of the policy, over all answers of the CRM, and of what *)
(* the orchestrator owes its callers in the end: the outbox, and the durable *)
(* workflow under its fairness.  They share no state: a run explores one of  *)
(* them and leaves the others alone.                                         *)
EXTENDS EventOutbox, PolicyAnswers

CONSTANTS Runs, RunEvents, Actions, Hashes, Threads, Sla, MaxTime, h1, h2

VARIABLES now, graph_run, graph_checkpoint, workflow_event, human_action, transaction

VARIABLE part       \* the module that runs

Durable == INSTANCE SalesWorkflow WITH Events <- RunEvents, session <- transaction

durableVars == <<now, graph_run, graph_checkpoint, workflow_event, human_action, transaction>>

allVars == <<part, outboxVars, durableVars, answerVars>>

InOutbox(A) == part = "outbox" /\ A /\ UNCHANGED <<part, durableVars, answerVars>>

InDurable(A) == part = "durable" /\ A /\ UNCHANGED <<part, outboxVars, answerVars>>

InPolicy(A) == part = "policy" /\ A /\ UNCHANGED <<part, outboxVars, durableVars>>

MCInit ==
  /\ part \in {"outbox", "durable", "policy"}
  /\ OutboxInit /\ Durable!Init /\ AnswersInit
  /\ part # "policy" => body = CHOOSE b \in CallerBodies : TRUE

MCNext == InOutbox(OutboxNext) \/ InDurable(Durable!Next) \/ InPolicy(CrmChanges)

\* The fairness of the outbox and of the durable workflow, see OutboxFairness
\* and Fairness there; the policy alone owes no progress.
MCSpec ==
  /\ MCInit /\ [][MCNext]_allVars
  /\ \A p \in Publishers : WF_allVars(InOutbox(PublisherStep(p)))
  /\ WF_allVars(InDurable(Durable!Tick))
  /\ \A w \in Threads : WF_allVars(InDurable(Durable!Release(w)))
  /\ \A r \in Runs, w \in Threads :
       /\ SF_allVars(InDurable(Durable!LockRun(w, r)))
       /\ SF_allVars(InDurable(Durable!LateDecision(w, r)))

\* A run put before a human does not wait for ever (SalesWorkflow).
WaitingEnds == Durable!WaitingEnds

\* Bodies whose evidence fields say what their callers wish.
MCBodies ==
  [channel : {"VOICE", "WHATSAPP"}, purpose : {"SALES", "SERVICE"},
   content_hash : {h1}, kill_switch : {FALSE}, frequency_exhausted : {FALSE},
   local_hour : {NULL, 19},
   template_approved : {TRUE, NULL}, conversation_window_open : {NULL},
   campaign_approved : {TRUE}, approved_content_hash : {h1},
   internally_suppressed : {FALSE}, consent_active : {TRUE},
   repep_enabled : {FALSE}, repep_snapshot_valid : {TRUE}, repep_listed : {FALSE},
   repep_exemption_type : {"B2B"}, repep_exemption_approved : {TRUE},
   repep_exemption_evidence_ref : {"receipt"}]

MCValues ==
  [campaign_approved |-> {TRUE, FALSE}, approved_content_hash |-> {h1, h2},
   suppressed |-> BOOLEAN, consent_active |-> {TRUE}, repep_enabled |-> {TRUE},
   repep_snapshot_valid |-> {TRUE}, repep_listed |-> BOOLEAN,
   repep_exemption_type |-> {"B2B"}, repep_exemption_approved |-> {TRUE},
   repep_exemption_evidence_ref |-> {"receipt"}]

\* All that speaks for the contact, or all against it, with either REPEP switch.
MCClaims ==
  {[campaign_approved |-> f, approved_content_hash |-> IF f THEN h1 ELSE NULL,
    internally_suppressed |-> ~ f, consent_active |-> f, repep_enabled |-> e,
    repep_snapshot_valid |-> f, repep_listed |-> ~ f,
    repep_exemption_type |-> IF f THEN "B2B" ELSE NULL, repep_exemption_approved |-> f,
    repep_exemption_evidence_ref |-> IF f THEN "forged" ELSE NULL]
     : f \in BOOLEAN, e \in BOOLEAN}

================================================================================
