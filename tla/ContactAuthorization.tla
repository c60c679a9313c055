------------------------- MODULE ContactAuthorization -------------------------
(***************************************************************************)
(* The just-in-time authorization of an outbound contact, end to end: the  *)
(* evidence the CRM answers, the decide and authorize handlers of the      *)
(* policy gateway with their in-memory DecisionContextStore, the           *)
(* PostgreSQL ledger of authorizations, and the channel adapters that      *)
(* verify a token, consume it and call the provider.                       *)
(*                                                                         *)
(* Every handler is split where another thread, another process or a crash *)
(* can come between: around a call to the CRM, a database transaction, a   *)
(* call to the provider.  "now" is the clock of the database server; the   *)
(* gateway and the adapters read their own clocks, at fixed offsets.       *)
(***************************************************************************)
EXTENDS ContactPolicy, FiniteSets

CONSTANTS
  Decisions,        \* decision ids (uuid4), one per call of the decide handler
  Tokens,           \* jti (uuid4) of the authorizations
  Workers,          \* threads of the adapters' HTTP servers
  AdapterChannel,   \* the channel of the adapter a worker belongs to
  Bodies,           \* requests the callers send to the decide handler
  Manifest,         \* per campaign version: content hashes and REPEP fields
  PhoneOf,          \* contact.phone_token of every contact, NULL if it has none
  RepepCheck,       \* per phone: result of the latest valid repep_check row
                    \* (external: no code in the repository writes the table)
  MaxDecisionAge,   \* ATLANTIS_DECISION_MAX_AGE_SECONDS
  MaxTtl,           \* 300, the longest life of a token
  Ttls,             \* ttl_seconds values the callers ask for
  MaxContexts,      \* ATLANTIS_DECISION_CONTEXT_MAX_ENTRIES
  ClockLeeway,      \* 30, iat may be this far in the adapter's future
  GatewayOffset,    \* clock of the gateway minus clock of the database
  AdapterOffset     \* clock of the adapters minus clock of the database

CONSTANTS           \* bounds of the model
  Expiries,         \* lifetimes of suppressions and consents, NULL for endless
  MaxRows,          \* rows of suppression and of consent_ledger
  MaxTime           \* ticks of the clock

Channels == {"VOICE", "WHATSAPP"}
Versions == DOMAIN Manifest
Contacts == DOMAIN PhoneOf
Phones == DOMAIN RepepCheck

ASSUME ClockAssumption ==
  /\ MaxDecisionAge \in Nat /\ MaxTtl \in Nat /\ Ttls \subseteq Int
  /\ ClockLeeway \in Nat /\ GatewayOffset \in Int /\ AdapterOffset \in Int
  /\ MaxTime \in Nat

ASSUME StoreAssumption == IsFiniteSet(Decisions) /\ MaxContexts \in Nat

ASSUME NullAssumption ==
  /\ NULL \notin Int /\ NULL \notin Decisions /\ NULL \notin Tokens
  /\ NULL \notin [decision : Decisions, audience : Channels, iat : Int, exp : Int]
  /\ NULL \notin {"ALLOW", "DENY"}

\* A body carries at least the fields the evidence overwrites.
EvidenceFields ==
  {"campaign_approved", "approved_content_hash", "internally_suppressed",
   "consent_active", "repep_snapshot_valid", "repep_listed", "repep_enabled",
   "repep_exemption_type", "repep_exemption_approved",
   "repep_exemption_evidence_ref"}

ASSUME BodyAssumption ==
  \A body \in Bodies : /\ body = [f \in DOMAIN body |-> body[f]]
                       /\ EvidenceFields \subseteq DOMAIN body

VARIABLES
  now,              \* now() of PostgreSQL
  suppressions,     \* rows of suppression: contact, phone, at, expires
  consents,         \* rows of consent_ledger: contact, channel, purpose, expires
  approved,         \* campaign versions APPROVED with a matching approval row
  stage,            \* where the decide handler of each decision stands
  request,          \* the request with the evidence in it
  readAt,           \* when the CRM read that evidence
  decidedAt,        \* decided_at, on the gateway's clock
  outcome,          \* result of the contactability_decision row, NULL if none
  context,          \* DecisionContextStore: place in it (0: absent), expiry
  issuing,          \* contexts taken by an authorize handler still running
  ledger,           \* outbound_authorization: decision, audience, iat, exp
  consumedAt,       \* consumed_at, NULL while unconsumed
  worker,           \* what each adapter thread is doing
  calls,            \* calls the provider received, per token
  sent              \* what those calls carried

crmVars     == <<suppressions, consents, approved>>
decideVars  == <<stage, request, readAt, decidedAt, outcome>>
adapterVars == <<worker, calls, sent>>
vars == <<now, crmVars, decideVars, context, issuing, ledger, consumedAt,
          adapterVars>>

Idle == [pc |-> "idle"]

Absent == [place |-> 0, expires |-> 0]

Init ==
  /\ now = 0
  /\ suppressions = {} /\ consents = {} /\ approved = {}
  /\ stage = [d \in Decisions |-> "new"]
  /\ request = [d \in Decisions |-> NULL]
  /\ readAt = [d \in Decisions |-> NULL]
  /\ decidedAt = [d \in Decisions |-> NULL]
  /\ outcome = [d \in Decisions |-> NULL]
  /\ context = [d \in Decisions |-> Absent]
  /\ issuing = {}
  /\ ledger = [t \in Tokens |-> NULL]
  /\ consumedAt = [t \in Tokens |-> NULL]
  /\ worker = [w \in Workers |-> Idle]
  /\ calls = [t \in Tokens |-> 0]
  /\ sent = {}

GatewayNow == now + GatewayOffset
AdapterNow == now + AdapterOffset

-----------------------------------------------------------------------------
(* The CRM                                                                 *)

\* A row holds at time x unless it has an expiry that x has reached.
InForce(row, x) == row.expires = NULL \/ row.expires > x

\* SQL's equality: NULL, the token of a body that carries none, equals nothing.
Names(row, body) ==
  \/ row.contact = body.contact_id
  \/ row.phone # NULL /\ row.phone = body.phone_token

\* mutant: only rows without an expiry count
Suppressed_ForGood(body) ==
  \E row \in suppressions : Names(row, body) /\ row.expires = NULL

Suppressed(body) ==
  \E row \in suppressions : Names(row, body) /\ InForce(row, now)

RepepResult(phone) == IF phone \in Phones THEN RepepCheck[phone] ELSE NULL

ConsentActive(c, ch, purpose) ==
  \E row \in consents : /\ row.contact = c /\ row.channel = ch
                        /\ row.purpose = purpose /\ InForce(row, now)

\* PostgresCRMRepository.contactability_evidence, read in one transaction.
ContactabilityEvidence(body) ==
  LET m == Manifest[body.campaign_version_id] IN
  [suppressed              |-> Suppressed(body),
   consent_active          |-> ConsentActive(body.contact_id, body.channel, body.purpose),
   campaign_approved       |-> body.campaign_version_id \in approved,
   approved_content_hash   |-> m.content_hashes[body.channel],
   repep_enabled           |-> m.repep_enabled,
   repep_exemption_type    |-> m.repep_exemption_type,
   repep_exemption_approved |-> m.repep_exemption_approved,
   repep_exemption_evidence_ref |-> m.repep_exemption_evidence_ref,
   repep_snapshot_valid    |-> RepepResult(body.phone_token) # NULL,
   repep_listed            |-> IF RepepResult(body.phone_token) = NULL THEN NULL
                               ELSE RepepResult(body.phone_token) # "NOT_LISTED"]

Until(life) == IF life = NULL THEN NULL ELSE now + life

\* A row names a contact, a phone or both; a GLOBAL row, which the role
\* atlantis_suppression_admin writes, names a phone only.
Suppress(c, phone, life) ==
  /\ c # NULL \/ phone # NULL
  /\ Cardinality(suppressions) < MaxRows
  /\ suppressions' = suppressions \union
                       {[contact |-> c, phone |-> phone,
                         at |-> now, expires |-> Until(life)]}
  /\ UNCHANGED <<now, consents, approved, decideVars, context, issuing,
                 ledger, consumedAt, adapterVars>>

GrantConsent(c, ch, purpose, life) ==
  /\ Cardinality(consents) < MaxRows
  /\ consents' = consents \union
       {[contact |-> c, channel |-> ch, purpose |-> purpose, expires |-> Until(life)]}
  /\ UNCHANGED <<now, suppressions, approved, decideVars, context, issuing,
                 ledger, consumedAt, adapterVars>>

\* An approval whose hash is not the artifact's is refused and leaves no trace.
ApproveCampaign(v) ==
  /\ approved' = approved \union {v}
  /\ UNCHANGED <<now, suppressions, consents, decideVars, context, issuing,
                 ledger, consumedAt, adapterVars>>

-----------------------------------------------------------------------------
(* The decide handler of the policy gateway                                *)

\* EvidenceClient.resolve: the CRM answers and the body is overwritten.  Then
\* ContactabilityRequest(**body) raises for a body that carries a phone token,
\* a keyword it does not have, and the handler answers 500.
ResolveEvidence(d, body) ==
  /\ stage[d] = "new"
  /\ stage' = [stage EXCEPT ![d] =
                IF body.phone_token = NULL THEN "resolved" ELSE "refused"]
  /\ request' = [request EXCEPT ![d] = Resolved(body, ContactabilityEvidence(body))]
  /\ readAt' = [readAt EXCEPT ![d] = now]
  /\ UNCHANGED <<now, crmVars, decidedAt, outcome, context, issuing, ledger,
                 consumedAt, adapterVars>>

\* engine.decide stamps decided_at; the decision's rows commit together.
DecideAndPersist(d) ==
  /\ stage[d] = "resolved"
  /\ stage' = [stage EXCEPT ![d] = "persisted"]
  /\ decidedAt' = [decidedAt EXCEPT ![d] = GatewayNow]
  /\ outcome' = [outcome EXCEPT ![d] = Outcome(request[d])]
  /\ UNCHANGED <<now, crmVars, request, readAt, context, issuing, ledger,
                 consumedAt, adapterVars>>

Contexts == {d \in Decisions : context[d].place # 0}

\* Contexts that _prune keeps at the time of a put.
Unexpired == {d \in Contexts : context[d].expires > GatewayNow}

\* Position of e among the entries of S in insertion order.
Position(S, e) == Cardinality({x \in S : context[x].place <= context[e].place})

\* How many entries leave a store that would hold size of them.
Evicted(size) == IF size > MaxContexts THEN size - MaxContexts ELSE 0

\* DecisionContextStore.put: prune, append, then evict the oldest entries
\* while there are more than max_entries.
PutContext(d) ==
  LET size    == Cardinality(Unexpired) + 1
      Entry(pos, expires) == IF pos > Evicted(size)
                             THEN [place |-> pos - Evicted(size), expires |-> expires]
                             ELSE Absent
  IN /\ stage[d] = "persisted"
     /\ stage' = [stage EXCEPT ![d] = "answered"]
     /\ context' = [e \in Decisions |->
          CASE e = d -> Entry(size, GatewayNow + MaxDecisionAge)
            [] e \in Unexpired \ {d} -> Entry(Position(Unexpired, e), context[e].expires)
            [] OTHER -> Absent]
     /\ UNCHANGED <<now, crmVars, request, readAt, decidedAt, outcome, issuing,
                    ledger, consumedAt, adapterVars>>

-----------------------------------------------------------------------------
(* The authorize handler                                                   *)

\* mutant: the context is read and not popped
TakeContext_Peek(d, tenant) ==
  /\ d \in Contexts
  /\ request[d].tenant_id = tenant
  /\ issuing' = IF context[d].expires > GatewayNow THEN issuing \union {d} ELSE issuing
  /\ UNCHANGED <<now, crmVars, decideVars, context, ledger, consumedAt, adapterVars>>

\* DecisionContextStore.take: a tenant other than the request's is refused and
\* leaves the context where it is; otherwise the context is popped, expired or not.
TakeContext(d, tenant) ==
  /\ d \in Contexts
  /\ request[d].tenant_id = tenant
  /\ context' = [context EXCEPT ![d] = Absent]
  /\ issuing' = IF context[d].expires > GatewayNow THEN issuing \union {d} ELSE issuing
  /\ UNCHANGED <<now, crmVars, decideVars, ledger, consumedAt, adapterVars>>

\* mutant: the outcome of the decision is not looked at
MayIssue_Denied(d, audience, ttl) ==
  /\ ttl >= 1 /\ ttl <= MaxTtl
  /\ GatewayNow - decidedAt[d] <= MaxDecisionAge
  /\ decidedAt[d] - GatewayNow <= ClockLeeway
  /\ audience = request[d].channel

\* mutant: the store's expiry is taken for the age of the decision
MayIssue_AnyAge(d, audience, ttl) ==
  /\ outcome[d] = "ALLOW"
  /\ ttl >= 1 /\ ttl <= MaxTtl
  /\ audience = request[d].channel

\* The conditions under which AuthorizationIssuer.issue signs a token.
MayIssue(d, audience, ttl) ==
  /\ outcome[d] = "ALLOW"
  /\ ttl >= 1 /\ ttl <= MaxTtl
  /\ GatewayNow - decidedAt[d] <= MaxDecisionAge
  /\ decidedAt[d] - GatewayNow <= ClockLeeway
  /\ audience = request[d].channel

\* The row PostgresReplayLedger.register inserts, and the claims of the token.
Authorization(d, audience, ttl) ==
  [decision |-> d, audience |-> audience, iat |-> GatewayNow, exp |-> GatewayNow + ttl]

\* issue signs and the ledger's INSERT commits: the token is usable from now on.
Issue(d, t, audience, ttl) ==
  /\ d \in issuing
  /\ ledger[t] = NULL
  /\ MayIssue(d, audience, ttl)
  /\ ledger' = [ledger EXCEPT ![t] = Authorization(d, audience, ttl)]
  /\ issuing' = issuing \ {d}
  /\ UNCHANGED <<now, crmVars, decideVars, context, consumedAt, adapterVars>>

\* issue raises: the answer is 403 or 400 and the popped context is gone.
RefuseToIssue(d, audience, ttl) ==
  /\ d \in issuing
  /\ ~ MayIssue(d, audience, ttl)
  /\ issuing' = issuing \ {d}
  /\ UNCHANGED <<now, crmVars, decideVars, context, ledger, consumedAt, adapterVars>>

-----------------------------------------------------------------------------
(* The channel adapters                                                    *)

\* The part of a request the token's claims repeat and a command must match.
Command(r) == [tenant_id |-> r.tenant_id, contact_id |-> r.contact_id,
               campaign_version_id |-> r.campaign_version_id,
               content_hash |-> r.content_hash]

Claimed(t) == request[ledger[t].decision]

Commands == {Command(r) : r \in Bodies}

\* TokenVerifier.verify_and_consume up to the call of consume_jti.  A token
\* that fails a check is refused with no effect.
Verify(w, t, command) ==
  /\ worker[w] = Idle
  /\ ledger[t] # NULL
  /\ ledger[t].audience = AdapterChannel[w]
  /\ ledger[t].exp > AdapterNow
  /\ ledger[t].iat <= AdapterNow + ClockLeeway
  /\ ledger[t].exp - ledger[t].iat <= MaxTtl
  /\ command = Command(Claimed(t))
  /\ worker' = [worker EXCEPT ![w] =
       [pc |-> "verified", token |-> t, command |-> command]]
  /\ UNCHANGED <<now, crmVars, decideVars, context, issuing, ledger, consumedAt,
                 calls, sent>>

\* PostgresTokenConsumer opens its transaction: now() is fixed here, however
\* long the statements then wait for locks.
BeginConsume(w) ==
  /\ worker[w].pc = "verified"
  /\ worker' = [worker EXCEPT ![w] =
       [pc |-> "consuming", token |-> worker[w].token,
        command |-> worker[w].command, txNow |-> now]]
  /\ UNCHANGED <<now, crmVars, decideVars, context, issuing, ledger, consumedAt,
                 calls, sent>>

\* mutant: the UPDATE does not ask for consumed_at IS NULL
Consumable_Again(t, txNow) == ledger[t].exp > txNow

\* mutant: the UPDATE does not ask for expires_at > now()
Consumable_Late(t, txNow) == consumedAt[t] = NULL

Consumable(t, txNow) == consumedAt[t] = NULL /\ ledger[t].exp > txNow

\* The guarded UPDATE and its audit row commit: this thread is the first user.
Consume(w) ==
  /\ worker[w].pc = "consuming"
  /\ Consumable(worker[w].token, worker[w].txNow)
  /\ consumedAt' = [consumedAt EXCEPT ![worker[w].token] = worker[w].txNow]
  /\ worker' = [worker EXCEPT ![w] =
       [pc |-> "calling", token |-> worker[w].token, command |-> worker[w].command]]
  /\ UNCHANGED <<now, crmVars, decideVars, context, issuing, ledger, calls, sent>>

\* The UPDATE matched no row: TOKEN_REPLAY, answered 409.
Replayed(w) ==
  /\ worker[w].pc = "consuming"
  /\ ~ Consumable(worker[w].token, worker[w].txNow)
  /\ worker' = [worker EXCEPT ![w] = Idle]
  /\ UNCHANGED <<now, crmVars, decideVars, context, issuing, ledger, consumedAt,
                 calls, sent>>

\* The adapter calls the provider; a transport failure leaves open whether the
\* call arrived.  Claims of another channel are refused after the consumption.
CallProvider(w, arrives) ==
  LET t == worker[w].token IN
  /\ worker[w].pc = "calling"
  /\ worker' = [worker EXCEPT ![w] = Idle]
  /\ IF arrives /\ Claimed(t).channel = AdapterChannel[w]
     THEN /\ calls' = [calls EXCEPT ![t] = @ + 1]
          /\ sent' = sent \union {[token |-> t, channel |-> AdapterChannel[w],
                                   command |-> worker[w].command]}
     ELSE UNCHANGED <<calls, sent>>
  /\ UNCHANGED <<now, crmVars, decideVars, context, issuing, ledger, consumedAt>>

-----------------------------------------------------------------------------
(* Crashes and time                                                        *)

\* The gateway's process restarts: its threads and its context store are gone,
\* the rows it committed stay.
RestartGateway ==
  /\ stage' = [d \in Decisions |-> IF stage[d] \in {"resolved", "persisted"}
                                   THEN "lost" ELSE stage[d]]
  /\ context' = [d \in Decisions |-> Absent]
  /\ issuing' = {}
  /\ UNCHANGED <<now, crmVars, request, readAt, decidedAt, outcome, ledger,
                 consumedAt, adapterVars>>

RestartAdapters ==
  /\ worker' = [w \in Workers |-> Idle]
  /\ UNCHANGED <<now, crmVars, decideVars, context, issuing, ledger, consumedAt,
                 calls, sent>>

Tick ==
  /\ now < MaxTime
  /\ now' = now + 1
  /\ UNCHANGED <<crmVars, decideVars, context, issuing, ledger, consumedAt,
                 adapterVars>>

CrmStep ==
  \/ \E c \in Contacts \union {NULL}, phone \in Phones \union {NULL}, life \in Expiries :
       Suppress(c, phone, life)
  \/ \E r \in Bodies, life \in Expiries : GrantConsent(r.contact_id, r.channel, r.purpose, life)
  \/ \E v \in Versions : ApproveCampaign(v)

DecideStep ==
  \/ \E d \in Decisions, body \in Bodies : ResolveEvidence(d, body)
  \/ \E d \in Decisions : DecideAndPersist(d) \/ PutContext(d)

AuthorizeStep ==
  \/ \E d \in Decisions, r \in Bodies : TakeContext(d, r.tenant_id)
  \/ \E d \in Decisions, ch \in Channels, ttl \in Ttls :
       \/ \E t \in Tokens : Issue(d, t, ch, ttl)
       \/ RefuseToIssue(d, ch, ttl)

AdapterStep ==
  \E w \in Workers :
    \/ \E t \in Tokens, command \in Commands : Verify(w, t, command)
    \/ BeginConsume(w) \/ Consume(w) \/ Replayed(w)
    \/ \E arrives \in BOOLEAN : CallProvider(w, arrives)

Next == CrmStep \/ DecideStep \/ AuthorizeStep \/ AdapterStep
        \/ RestartGateway \/ RestartAdapters \/ Tick

Spec == Init /\ [][Next]_vars

-----------------------------------------------------------------------------
(* Properties                                                              *)

Rows == [decision : Decisions, audience : Channels, iat : Int, exp : Int]

\* Types of the state.
TypeOK ==
  /\ now \in Nat
  /\ approved \subseteq Versions
  /\ DOMAIN request = Decisions
  /\ stage \in [Decisions -> {"new", "resolved", "refused", "persisted", "answered",
                          "lost"}]
  /\ decidedAt \in [Decisions -> Int \union {NULL}]
  /\ readAt \in [Decisions -> Nat \union {NULL}]
  /\ outcome \in [Decisions -> {"ALLOW", "DENY", NULL}]
  /\ context \in [Decisions -> [place : Nat, expires : Int]]
  /\ issuing \subseteq Decisions
  /\ ledger \in [Tokens -> Rows \union {NULL}]
  /\ consumedAt \in [Tokens -> Nat \union {NULL}]
  /\ worker \in [Workers -> {Idle}
       \union [pc : {"verified", "calling"}, token : Tokens, command : Commands]
       \union [pc : {"consuming"}, token : Tokens, command : Commands, txNow : Nat]]
  /\ calls \in [Tokens -> Nat]
  /\ sent \subseteq [token : Tokens, channel : Channels, command : Commands]

\* A decision's authorization is one-shot: whatever the retries, restarts,
\* evictions and threads of the gateway, the ledger never holds two tokens of
\* one decision (DecisionContextStore.take pops before issue; nothing in the
\* database forbids a second row).
OneTokenPerDecision ==
  \A t, u \in Tokens :
    ledger[t] # NULL /\ ledger[u] # NULL /\ ledger[t].decision = ledger[u].decision
    => t = u

\* The provider is called at most once for a decision, however often the token
\* is presented, by whichever threads, across restarts of the adapters: the
\* ledger is consumed before the call and never given back.
AtMostOneCallPerDecision ==
  \A t, u \in Tokens :
    calls[t] > 0 /\ calls[u] > 0 /\ ledger[t].decision = ledger[u].decision
    => t = u /\ calls[t] = 1

\* What reached the provider is what was decided: an ALLOW in the database for
\* the same tenant, contact, campaign version and content, over the channel of
\* the request, with the token consumed.
CallsAreAuthorized ==
  \A s \in sent :
    /\ consumedAt[s.token] # NULL
    /\ outcome[ledger[s.token].decision] = "ALLOW"
    /\ s.command = Command(Claimed(s.token))
    /\ s.channel = Claimed(s.token).channel

\* A contact is not called on the strength of evidence read while a suppression
\* already recorded was in force: the CRM's answer, the decision, the token and
\* the call keep the order in which they were made.
NoCallOnSuppressedEvidence ==
  \A s \in sent : \A row \in suppressions :
    LET read == readAt[ledger[s.token].decision] IN
    row.contact = s.command.contact_id /\ row.at < read => ~ InForce(row, read)

\* An authorization is not used long after its decision: on the database's
\* clock, less than the age the issuer accepts plus the longest token, plus the
\* gateway's clock offset, lie between decided_at and the consumption (its
\* transaction's start: the UPDATE itself may come later, after a wait for the row).
ConsumedWhileFresh ==
  \A t \in Tokens : consumedAt[t] # NULL =>
    consumedAt[t] < (decidedAt[ledger[t].decision] - GatewayOffset)
                    + MaxDecisionAge + MaxTtl + GatewayOffset

\* A phone on the suppression list is not called on the strength of evidence
\* read after that: "Las supresiones scope='GLOBAL' ya son visibles a todos los
\* tenants durante la evaluacion de contactabilidad"
\* (CHANGES_SINCE_LAST_ZIP_RC3_TO_RC4.md:14).  A GLOBAL row names a phone only,
\* and a body with a phone token never becomes a request.
NoCallToSuppressedPhone ==
  \A s \in sent : \A row \in suppressions :
    LET read == readAt[ledger[s.token].decision] IN
    /\ row.phone # NULL /\ row.phone = PhoneOf[s.command.contact_id]
    /\ row.at < read
    => ~ InForce(row, read)

\* A recorded suppression prevails over an earlier authorization: a token is
\* not consumed for a contact whose suppression was recorded and in force before.
\* (compliance-governance, "La revocacion SHALL prevalecer sobre una
\* autorizacion anterior"; the code writes no revoked_at.)
RevocationPrevails ==
  [][ \A t \in Tokens : consumedAt[t] = NULL /\ consumedAt'[t] # NULL =>
        ~ \E row \in suppressions :
            /\ row.contact = Claimed(t).contact_id
            /\ row.at < consumedAt'[t] /\ InForce(row, consumedAt'[t]) ]_vars

-----------------------------------------------------------------------------
(* The inductive invariant behind these properties.  It follows a decision  *)
(* through the places that may hold it: the handler, then the store, then an *)
(* authorize thread, then one row of the ledger, then one thread's call.     *)

Busy(w) == worker[w].pc # "idle"

\* A decided request keeps its verdict and its times.
DecidedInv ==
  \A d \in Decisions :
    /\ stage[d] \in {"persisted", "answered"} =>
         outcome[d] = Outcome(request[d]) /\ decidedAt[d] \in Int
    /\ stage[d] = "new" => outcome[d] = NULL /\ decidedAt[d] = NULL
    /\ stage[d] \in {"resolved", "refused"} => outcome[d] = NULL /\ decidedAt[d] = NULL
    /\ stage[d] # "new" => readAt[d] \in Nat /\ readAt[d] <= now

\* The store and the authorize threads hold answered decisions only, and no
\* decision is in both.
OneShotInv ==
  \A d \in Decisions :
    /\ d \in issuing => stage[d] = "answered" /\ context[d].place = 0
    /\ context[d].place # 0 => stage[d] = "answered"

\* A token has left the store and the threads, and its row is as issue made it.
TokenInv ==
  \A t \in Tokens : ledger[t] # NULL =>
    LET d == ledger[t].decision IN
    /\ stage[d] = "answered" /\ d \notin issuing /\ context[d].place = 0
    /\ outcome[d] = "ALLOW"
    /\ ledger[t].audience = request[d].channel
    /\ ledger[t].exp <= ledger[t].iat + MaxTtl
    /\ ledger[t].iat <= decidedAt[d] + MaxDecisionAge

\* A consumed token was in the ledger and had not expired.
ConsumedInv ==
  \A t \in Tokens : consumedAt[t] # NULL =>
    ledger[t] # NULL /\ consumedAt[t] < ledger[t].exp

\* A busy thread works for a token of its own adapter, with the token's command;
\* the thread about to call is the only one and the first.
WorkerInv ==
  /\ \A w \in Workers : Busy(w) =>
       LET t == worker[w].token IN
       /\ ledger[t] # NULL
       /\ ledger[t].audience = AdapterChannel[w]
       /\ worker[w].command = Command(Claimed(t))
       /\ worker[w].pc = "consuming" => worker[w].txNow <= now
       /\ worker[w].pc = "calling" => consumedAt[t] # NULL /\ calls[t] = 0
  /\ \A v, w \in Workers :
       /\ worker[v].pc = "calling" /\ worker[w].pc = "calling"
       /\ worker[v].token = worker[w].token
       => v = w

CallInv ==
  \A t \in Tokens : calls[t] > 0 => consumedAt[t] # NULL /\ calls[t] = 1

\* Evidence read while an earlier suppression was in force says so.
EvidenceInv ==
  \A d \in Decisions : stage[d] # "new" =>
    \A row \in suppressions :
      /\ Names(row, request[d])
      /\ row.at < readAt[d] /\ InForce(row, readAt[d])
      => request[d].internally_suppressed

IInv ==
  /\ TypeOK /\ DecidedInv /\ OneShotInv /\ TokenInv /\ ConsumedInv
  /\ WorkerInv /\ CallInv /\ EvidenceInv
  /\ OneTokenPerDecision /\ CallsAreAuthorized

-----------------------------------------------------------------------------
(* What this implements: the promise of ContactPromise.                    *)

Holders(d) == {t \in Tokens : ledger[t] # NULL /\ ledger[t].decision = d}

\* A second call for a decision has no counterpart in the promise.
PromiseState ==
  [d \in Decisions |->
     IF \E t \in Holders(d) : calls[t] > 1 THEN "contacted again"
     ELSE IF \E t \in Holders(d) : calls[t] = 1 THEN "contacted"
     ELSE IF \E t \in Holders(d) : consumedAt[t] # NULL THEN "claimed"
     ELSE IF outcome[d] = "ALLOW" THEN "allowed"
     ELSE IF outcome[d] = "DENY" THEN "denied"
     ELSE "open"]

PromiseDecided ==
  [d \in Decisions |-> IF decidedAt[d] = NULL THEN NULL
                       ELSE decidedAt[d] - GatewayOffset]

PromiseClaimed ==
  [d \in Decisions |->
     IF \E t \in Holders(d) : consumedAt[t] # NULL
     THEN consumedAt[CHOOSE t \in Holders(d) : consumedAt[t] # NULL]
     ELSE NULL]

Promise == INSTANCE ContactPromise
             WITH None    <- NULL,
                  Window  <- MaxDecisionAge + MaxTtl + GatewayOffset,
                  state   <- PromiseState,
                  decided <- PromiseDecided,
                  claimed <- PromiseClaimed

\* The protocol of tokens, ledger and adapters implements the promise: one
\* claim and one contact per decision, and only within the window.
KeepsPromise == Promise!PSpec

=============================================================================
