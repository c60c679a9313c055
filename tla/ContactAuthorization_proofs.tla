--------------------- MODULE ContactAuthorization_proofs ---------------------
(***************************************************************************)
(* The inductive invariant of ContactAuthorization, and from it the        *)
(* properties of the module for every set of decisions, tokens, threads,   *)
(* requests and manifests and every value of the times and offsets.        *)
(***************************************************************************)
EXTENDS ContactAuthorization, FiniteSetTheorems, TLAPS

\* A request that decide allows is not suppressed (policy.py:26-27).
LEMMA AllowedIsNotSuppressed ==
  ASSUME NEW r, Outcome(r) = "ALLOW" PROVE ~ r.internally_suppressed
<1>1. Reasons(r) = {}
  BY DEF Outcome
<1>2. "INTERNAL_SUPPRESSION" \in DOMAIN Objections(r)
  BY DEF Objections
<1>3. ~ Objections(r)["INTERNAL_SUPPRESSION"]
  BY <1>1, <1>2 DEF Reasons
<1>4. Objections(r)["INTERNAL_SUPPRESSION"] = r.internally_suppressed
  BY DEF Objections
<1> QED BY <1>3, <1>4

\* resolve takes internally_suppressed from the CRM and leaves the subject alone
\* (evidence.py:8-18).
LEMMA ResolvedRequest ==
  ASSUME NEW body \in Bodies
  PROVE  LET r == Resolved(body, ContactabilityEvidence(body)) IN
         /\ r.internally_suppressed = Suppressed(body)
         /\ r.contact_id = body.contact_id
         /\ r.phone_token = body.phone_token
<1> DEFINE e == ContactabilityEvidence(body)
<1>1. Answered(e, "suppressed", TRUE) = Suppressed(body)
  BY DEF Answered, ContactabilityEvidence
<1> HIDE DEF e
<1>2. Resolved(body, e).internally_suppressed = Answered(e, "suppressed", TRUE)
  BY BodyAssumption DEF Resolved, EvidenceFields
<1>3. /\ Resolved(body, e).contact_id = body.contact_id
      /\ Resolved(body, e).phone_token = body.phone_token
  BY BodyAssumption DEF Resolved, EvidenceFields
<1> QED BY <1>1, <1>2, <1>3 DEF e

-----------------------------------------------------------------------------
\* A thread that is not idle carries a token.
LEMMA BusyToken ==
  ASSUME TypeOK, NEW w \in Workers, Busy(w) PROVE worker[w].token \in Tokens
BY DEF TypeOK, Busy, Idle

LEMMA InitInvariant == Init => IInv
<1> SUFFICES ASSUME Init PROVE IInv
  OBVIOUS
<1> USE NullAssumption DEF Init
<1>1. TypeOK
  BY DEF TypeOK, Idle, Absent
<1>2. DecidedInv /\ OneShotInv /\ TokenInv /\ ConsumedInv
  BY DEF DecidedInv, OneShotInv, TokenInv, ConsumedInv, Absent
<1>3. WorkerInv /\ CallInv /\ EvidenceInv
  BY DEF WorkerInv, Busy, CallInv, EvidenceInv, Idle
<1>4. OneTokenPerDecision /\ CallsAreAuthorized
  BY DEF OneTokenPerDecision, CallsAreAuthorized
<1> QED BY <1>1, <1>2, <1>3, <1>4 DEF IInv

\* The CRM adds rows and approvals; a suppression recorded now does not precede
\* any evidence already read.
LEMMA CrmStepKeeps == IInv /\ CrmStep => IInv'
<1> SUFFICES ASSUME IInv, CrmStep PROVE IInv'
  OBVIOUS
<1> USE DEF IInv
<1>u. UNCHANGED <<now, decideVars, context, issuing, ledger, consumedAt, adapterVars>>
  BY DEF CrmStep, Suppress, GrantConsent, ApproveCampaign
<1>1. TypeOK'
  BY <1>u DEF TypeOK, decideVars, adapterVars, CrmStep, Suppress, GrantConsent,
              ApproveCampaign, Versions
<1>2. DecidedInv' /\ OneShotInv' /\ TokenInv' /\ ConsumedInv'
  BY <1>u DEF DecidedInv, OneShotInv, TokenInv, ConsumedInv, decideVars
<1>3. WorkerInv' /\ CallInv'
  BY <1>u DEF WorkerInv, CallInv, Busy, Claimed, decideVars, adapterVars
<1>4. EvidenceInv'
  <2>1. \A row \in suppressions' : row \in suppressions \/ row.at = now
    BY DEF CrmStep, Suppress, GrantConsent, ApproveCampaign
  <2>2. \A d \in Decisions : stage[d] # "new" => readAt[d] \in Nat /\ readAt[d] <= now
    BY DEF DecidedInv
  <2>3. now \in Nat
    BY DEF TypeOK
  <2> QED BY <1>u, <2>1, <2>2, <2>3 DEF EvidenceInv, InForce, Names, decideVars
<1>5. OneTokenPerDecision' /\ CallsAreAuthorized'
  BY <1>u DEF OneTokenPerDecision, CallsAreAuthorized, Claimed, decideVars, adapterVars
<1> QED BY <1>1, <1>2, <1>3, <1>4, <1>5

\* The evidence of a new request is read at one time, from the rows of that time.
LEMMA ResolveEvidenceKeeps ==
  ASSUME NEW d \in Decisions, NEW body \in Bodies, IInv, ResolveEvidence(d, body)
  PROVE  IInv'
<1> USE DEF IInv
<1>u. UNCHANGED <<now, crmVars, decidedAt, outcome, context, issuing, ledger,
                  consumedAt, adapterVars>>
  BY DEF ResolveEvidence
<1>a. /\ stage[d] = "new" /\ readAt' = [readAt EXCEPT ![d] = now]
      /\ \E st \in {"resolved", "refused"} : stage' = [stage EXCEPT ![d] = st]
  BY DEF ResolveEvidence
<1>r. request' = [request EXCEPT ![d] = Resolved(body, ContactabilityEvidence(body))]
  BY DEF ResolveEvidence
<1>o. \A e \in Decisions : e # d => request'[e] = request[e]
  BY <1>r DEF TypeOK
<1>n. \A t \in Tokens : ledger[t] # NULL => ledger[t].decision \in Decisions \ {d}
  BY <1>a DEF TokenInv, TypeOK, Rows
<1>1. TypeOK'
  BY <1>u, <1>a, <1>r DEF TypeOK, crmVars, adapterVars
<1>2. DecidedInv'
  BY <1>u, <1>a, <1>o DEF DecidedInv, TypeOK
<1>3. OneShotInv' /\ ConsumedInv'
  BY <1>u, <1>a DEF OneShotInv, ConsumedInv, TypeOK
<1>4. TokenInv'
  BY <1>u, <1>a, <1>o, <1>n DEF TokenInv, TypeOK
<1>5. WorkerInv' /\ CallInv'
  <2>1. \A w \in Workers : Busy(w) => worker[w].token \in Tokens
    BY BusyToken
  <2>2. \A t \in Tokens : ledger[t] # NULL => Claimed(t)' = Claimed(t)
    BY <1>u, <1>o, <1>n DEF Claimed
  <2> QED BY <1>u, <2>1, <2>2 DEF WorkerInv, CallInv, Busy, adapterVars
<1>6. EvidenceInv'
  <2> SUFFICES ASSUME NEW e \in Decisions, stage'[e] # "new",
                      NEW row \in suppressions,
                      Names(row, request'[e]),
                      row.at < readAt'[e], InForce(row, readAt'[e])
               PROVE  request'[e].internally_suppressed
    BY <1>u DEF EvidenceInv, crmVars, InForce, Names
  <2>1. CASE e = d
    <3>1. request'[d] = Resolved(body, ContactabilityEvidence(body)) /\ readAt'[d] = now
      BY <1>r, <1>a DEF TypeOK
    <3>2. Names(row, body) /\ InForce(row, now)
      BY <2>1, <3>1, ResolvedRequest DEF Names
    <3>3. Suppressed(body)
      BY <3>2 DEF Suppressed
    <3> QED BY <2>1, <3>1, <3>3, ResolvedRequest
  <2>2. CASE e # d
    BY <2>2, <1>a, <1>o DEF EvidenceInv, TypeOK
  <2> QED BY <2>1, <2>2
<1>7. OneTokenPerDecision'
  BY <1>u DEF OneTokenPerDecision
<1>8. CallsAreAuthorized'
  BY <1>u, <1>o, <1>n DEF CallsAreAuthorized, ConsumedInv, Claimed, adapterVars, TypeOK
<1> QED BY <1>1, <1>2, <1>3, <1>4, <1>5, <1>6, <1>7, <1>8

\* The verdict is taken of the request the evidence is in.
LEMMA DecideAndPersistKeeps ==
  ASSUME NEW d \in Decisions, IInv, DecideAndPersist(d) PROVE IInv'
<1> USE DEF IInv
<1>u. UNCHANGED <<now, crmVars, request, readAt, context, issuing, ledger,
                  consumedAt, adapterVars>>
  BY DEF DecideAndPersist
<1>a. /\ stage[d] = "resolved" /\ stage' = [stage EXCEPT ![d] = "persisted"]
      /\ decidedAt' = [decidedAt EXCEPT ![d] = GatewayNow]
      /\ outcome' = [outcome EXCEPT ![d] = Outcome(request[d])]
  BY DEF DecideAndPersist
<1>n. \A t \in Tokens : ledger[t] # NULL => ledger[t].decision \in Decisions \ {d}
  BY <1>a DEF TokenInv, TypeOK, Rows
<1>g. GatewayNow \in Int
  BY ClockAssumption DEF GatewayNow, TypeOK
<1>o. Outcome(request[d]) \in {"ALLOW", "DENY"}
  BY DEF Outcome
<1>1. TypeOK'
  BY <1>u, <1>a, <1>g, <1>o DEF TypeOK, crmVars, adapterVars
<1>2. DecidedInv'
  BY <1>u, <1>a, <1>g DEF DecidedInv, TypeOK
<1>3. OneShotInv' /\ ConsumedInv'
  BY <1>u, <1>a DEF OneShotInv, ConsumedInv, TypeOK
<1>4. TokenInv'
  BY <1>u, <1>a, <1>n DEF TokenInv, TypeOK
<1>5. WorkerInv' /\ CallInv'
  BY <1>u DEF WorkerInv, CallInv, Busy, Claimed, adapterVars
<1>6. EvidenceInv'
  BY <1>u, <1>a DEF EvidenceInv, InForce, Names, crmVars, TypeOK
<1>7. OneTokenPerDecision'
  BY <1>u DEF OneTokenPerDecision
<1>8. CallsAreAuthorized'
  BY <1>u, <1>a, <1>n DEF CallsAreAuthorized, ConsumedInv, Claimed, adapterVars, TypeOK
<1> QED BY <1>1, <1>2, <1>3, <1>4, <1>5, <1>6, <1>7, <1>8

\* A put only ever brings in the decision just persisted, which no token has;
\* pruning and eviction only take entries out.
LEMMA PutContextKeeps ==
  ASSUME NEW d \in Decisions, IInv, PutContext(d) PROVE IInv'
<1> USE DEF IInv
<1>u. UNCHANGED <<now, crmVars, request, readAt, decidedAt, outcome, issuing, ledger,
                  consumedAt, adapterVars>>
  BY DEF PutContext
<1>a. stage[d] = "persisted" /\ stage' = [stage EXCEPT ![d] = "answered"]
  BY DEF PutContext
<1>c. /\ context' \in [Decisions -> [place : Nat, expires : Int]]
      /\ \A e \in Decisions \ {d} : context[e].place = 0 => context'[e].place = 0
  <2> DEFINE size == Cardinality(Unexpired) + 1
             evicted == Evicted(size)
             Entry(pos, expires) == IF pos > evicted
                                    THEN [place |-> pos - evicted, expires |-> expires]
                                    ELSE Absent
             new(e) == CASE e = d -> Entry(size, GatewayNow + MaxDecisionAge)
                         [] e \in Unexpired \ {d} ->
                              Entry(Position(Unexpired, e), context[e].expires)
                         [] OTHER -> Absent
  <2>1. context' = [e \in Decisions |-> new(e)]
    BY DEF PutContext
  <2>2. IsFiniteSet(Unexpired) /\ Unexpired \subseteq Decisions
    BY StoreAssumption, FS_Subset DEF Unexpired, Contexts
  <2>3. Cardinality(Unexpired) \in Nat
    BY <2>2, FS_CardinalityType
  <2>4. ASSUME NEW e \in Decisions PROVE Position(Unexpired, e) \in Nat
    BY <2>2, FS_Subset, FS_CardinalityType DEF Position
  <2>5. size \in Nat /\ evicted \in Nat
    BY <2>3, StoreAssumption DEF Evicted
  <2>6. GatewayNow + MaxDecisionAge \in Int
    BY ClockAssumption DEF GatewayNow, TypeOK
  <2>7. ASSUME NEW e \in Decisions PROVE new(e) \in [place : Nat, expires : Int]
    <3> HIDE DEF size, evicted
    <3>1. ASSUME NEW pos \in Nat, NEW x \in Int
          PROVE  Entry(pos, x) \in [place : Nat, expires : Int]
      BY <2>5 DEF Absent
    <3>2. context[e].expires \in Int
      BY DEF TypeOK
    <3>3. Absent \in [place : Nat, expires : Int]
      BY DEF Absent
    <3> HIDE DEF Entry
    <3> QED BY <2>4, <2>5, <2>6, <3>1, <3>2, <3>3
  <2>8. ASSUME NEW e \in Decisions \ {d}, context[e].place = 0
        PROVE  new(e) = Absent
    <3>1. e # d /\ e \notin Unexpired
      BY <2>8 DEF Unexpired, Contexts
    <3> HIDE DEF Entry
    <3> QED BY <3>1
  <2> HIDE DEF new
  <2> QED BY <2>1, <2>7, <2>8 DEF Absent
<1>n. \A t \in Tokens : ledger[t] # NULL => ledger[t].decision \in Decisions \ {d}
  BY <1>a DEF TokenInv, TypeOK, Rows
<1>1. TypeOK'
  BY <1>u, <1>a, <1>c DEF TypeOK, crmVars, adapterVars
<1>2. DecidedInv'
  BY <1>u, <1>a DEF DecidedInv, TypeOK
<1>3. OneShotInv' /\ ConsumedInv'
  BY <1>u, <1>a, <1>c DEF OneShotInv, ConsumedInv, TypeOK
<1>4. TokenInv'
  BY <1>u, <1>a, <1>n, <1>c DEF TokenInv, TypeOK
<1>5. WorkerInv' /\ CallInv'
  BY <1>u DEF WorkerInv, CallInv, Busy, Claimed, adapterVars
<1>6. EvidenceInv'
  BY <1>u, <1>a DEF EvidenceInv, InForce, Names, crmVars, TypeOK
<1>7. OneTokenPerDecision' /\ CallsAreAuthorized'
  BY <1>u DEF OneTokenPerDecision, CallsAreAuthorized, Claimed, adapterVars
<1> QED BY <1>1, <1>2, <1>3, <1>4, <1>5, <1>6, <1>7

\* take pops before it hands over: a decision is in the store or with a thread.
LEMMA TakeContextKeeps ==
  ASSUME NEW d \in Decisions, NEW tenant, IInv, TakeContext(d, tenant) PROVE IInv'
<1> USE DEF IInv
<1>u. UNCHANGED <<now, crmVars, decideVars, ledger, consumedAt, adapterVars>>
  BY DEF TakeContext
<1>a. /\ context[d].place # 0 /\ context' = [context EXCEPT ![d] = Absent]
      /\ issuing' \in {issuing, issuing \union {d}}
  BY DEF TakeContext, Contexts
<1>1. TypeOK'
  BY <1>u, <1>a DEF TypeOK, crmVars, decideVars, adapterVars, Absent
<1>2. DecidedInv' /\ ConsumedInv'
  BY <1>u DEF DecidedInv, ConsumedInv, decideVars
<1>3. OneShotInv'
  BY <1>u, <1>a DEF OneShotInv, TypeOK, decideVars, Absent
<1>4. TokenInv'
  BY <1>u, <1>a DEF TokenInv, TypeOK, decideVars, Absent, Rows
<1>5. WorkerInv' /\ CallInv'
  BY <1>u DEF WorkerInv, CallInv, Busy, Claimed, adapterVars, decideVars
<1>6. EvidenceInv'
  BY <1>u DEF EvidenceInv, InForce, Names, crmVars, decideVars
<1>7. OneTokenPerDecision' /\ CallsAreAuthorized'
  BY <1>u DEF OneTokenPerDecision, CallsAreAuthorized, Claimed, adapterVars, decideVars
<1> QED BY <1>1, <1>2, <1>3, <1>4, <1>5, <1>6, <1>7

\* The thread that took a decision turns it into one row of the ledger.
LEMMA IssueKeeps ==
  ASSUME NEW d \in Decisions, NEW t \in Tokens, NEW ch \in Channels, NEW ttl \in Ttls,
         IInv, Issue(d, t, ch, ttl)
  PROVE  IInv'
<1> USE DEF IInv
<1> DEFINE row == [decision |-> d, audience |-> ch,
                   iat |-> GatewayNow, exp |-> GatewayNow + ttl]
<1>u. UNCHANGED <<now, crmVars, decideVars, context, consumedAt, adapterVars>>
  BY DEF Issue, Authorization
<1>a. /\ d \in issuing /\ ledger[t] = NULL /\ MayIssue(d, ch, ttl)
      /\ ledger' = [ledger EXCEPT ![t] = row] /\ issuing' = issuing \ {d}
  BY DEF Issue, Authorization
<1>g. GatewayNow \in Int /\ ttl \in Int
  BY ClockAssumption DEF GatewayNow, TypeOK
<1>r. row \in Rows /\ row # NULL
  BY <1>g, NullAssumption DEF Rows
<1>d. stage[d] = "answered" /\ context[d].place = 0
  BY <1>a DEF OneShotInv
<1>f. \A u \in Tokens : ledger[u] # NULL => ledger[u].decision # d
  BY <1>a DEF TokenInv
<1>w. \A w \in Workers : Busy(w) => worker[w].token \in Tokens /\ worker[w].token # t
  BY <1>a, BusyToken DEF WorkerInv
<1>1. TypeOK'
  BY <1>u, <1>a, <1>r DEF TypeOK, crmVars, decideVars, adapterVars
<1>2. DecidedInv' /\ OneShotInv'
  BY <1>u, <1>a DEF DecidedInv, OneShotInv, decideVars
<1>3. TokenInv'
  <2>1. row.exp <= row.iat + MaxTtl /\ row.iat <= decidedAt[d] + MaxDecisionAge
    BY <1>a, <1>g, <1>d, ClockAssumption DEF MayIssue, DecidedInv
  <2>2. outcome[d] = "ALLOW" /\ row.audience = request[d].channel
    BY <1>a DEF MayIssue
  <2> HIDE DEF row
  <2>3. row.decision = d
    BY DEF row
  <2> QED BY <1>u, <1>a, <1>d, <1>f, <2>1, <2>2, <2>3 DEF TokenInv, TypeOK, decideVars
<1>4. ConsumedInv'
  BY <1>u, <1>a DEF ConsumedInv, TypeOK
<1>5. WorkerInv' /\ CallInv'
  BY <1>u, <1>a, <1>w DEF WorkerInv, CallInv, Busy, Claimed, adapterVars, decideVars, TypeOK
<1>6. EvidenceInv'
  BY <1>u DEF EvidenceInv, InForce, Names, crmVars, decideVars
<1>7. OneTokenPerDecision'
  BY <1>a, <1>f, <1>r DEF OneTokenPerDecision, TypeOK
<1>8. CallsAreAuthorized'
  BY <1>u, <1>a DEF CallsAreAuthorized, ConsumedInv, Claimed, adapterVars, decideVars, TypeOK
<1> QED BY <1>1, <1>2, <1>3, <1>4, <1>5, <1>6, <1>7, <1>8

\* A refused thread drops what it took; nobody else can hold it.
LEMMA RefuseKeeps ==
  ASSUME NEW d \in Decisions, NEW ch, NEW ttl, IInv, RefuseToIssue(d, ch, ttl)
  PROVE  IInv'
<1> USE DEF IInv
<1>u. UNCHANGED <<now, crmVars, decideVars, context, ledger, consumedAt, adapterVars>>
      /\ issuing' = issuing \ {d}
  BY DEF RefuseToIssue
<1>1. TypeOK'
  BY <1>u DEF TypeOK, crmVars, decideVars, adapterVars
<1>2. DecidedInv' /\ OneShotInv' /\ TokenInv' /\ ConsumedInv'
  BY <1>u DEF DecidedInv, OneShotInv, TokenInv, ConsumedInv, decideVars
<1>3. WorkerInv' /\ CallInv' /\ EvidenceInv'
  BY <1>u DEF WorkerInv, CallInv, EvidenceInv, InForce, Busy, Claimed, crmVars,
              decideVars, adapterVars
<1>4. OneTokenPerDecision' /\ CallsAreAuthorized'
  BY <1>u DEF OneTokenPerDecision, CallsAreAuthorized, Claimed, decideVars, adapterVars
<1> QED BY <1>1, <1>2, <1>3, <1>4

-----------------------------------------------------------------------------
\* The steps of an adapter's thread leave the gateway alone; what they keep of
\* the invariant follows from the thread's own state and the token's row.
AdapterFrame == UNCHANGED <<now, crmVars, decideVars, context, issuing, ledger>>

LEMMA AdapterFrameKeeps ==
  ASSUME IInv, AdapterFrame
  PROVE  DecidedInv' /\ OneShotInv' /\ TokenInv' /\ EvidenceInv' /\ OneTokenPerDecision'
BY DEF IInv, AdapterFrame, DecidedInv, OneShotInv, TokenInv, EvidenceInv, InForce, Names,
       OneTokenPerDecision, crmVars, decideVars

\* Verification binds the thread to a row of the ledger and to its claims.
LEMMA VerifyKeeps ==
  ASSUME NEW w \in Workers, NEW t \in Tokens, NEW command \in Commands,
         IInv, Verify(w, t, command)
  PROVE  IInv'
<1> USE DEF IInv
<1>u. AdapterFrame /\ UNCHANGED <<consumedAt, calls, sent>>
  BY DEF Verify, AdapterFrame
<1>a. /\ ledger[t] # NULL /\ ledger[t].audience = AdapterChannel[w]
      /\ command = Command(Claimed(t))
      /\ worker' = [worker EXCEPT ![w] =
                      [pc |-> "verified", token |-> t, command |-> command]]
  BY DEF Verify
<1>1. TypeOK'
  BY <1>u, <1>a DEF TypeOK, AdapterFrame, crmVars, decideVars
<1>2. ConsumedInv' /\ CallInv' /\ CallsAreAuthorized'
  BY <1>u DEF ConsumedInv, CallInv, CallsAreAuthorized, Claimed, AdapterFrame, decideVars
<1>3. WorkerInv'
  BY <1>u, <1>a DEF WorkerInv, Busy, Claimed, AdapterFrame, decideVars, TypeOK
<1> QED BY <1>u, <1>1, <1>2, <1>3, AdapterFrameKeeps

\* The transaction begins: the thread keeps its token and fixes its now().
LEMMA BeginConsumeKeeps ==
  ASSUME NEW w \in Workers, IInv, BeginConsume(w) PROVE IInv'
<1> USE DEF IInv
<1>u. AdapterFrame /\ UNCHANGED <<consumedAt, calls, sent>>
  BY DEF BeginConsume, AdapterFrame
<1>a. /\ worker[w].pc = "verified"
      /\ worker' = [worker EXCEPT ![w] =
           [pc |-> "consuming", token |-> worker[w].token,
            command |-> worker[w].command, txNow |-> now]]
  BY DEF BeginConsume
<1>b. worker[w].token \in Tokens /\ worker[w].command \in Commands /\ now \in Nat
  BY <1>a DEF TypeOK, Idle
<1>1. TypeOK'
  BY <1>u, <1>a, <1>b DEF TypeOK, AdapterFrame, crmVars, decideVars
<1>2. ConsumedInv' /\ CallInv' /\ CallsAreAuthorized'
  BY <1>u DEF ConsumedInv, CallInv, CallsAreAuthorized, Claimed, AdapterFrame, decideVars
<1>3. WorkerInv'
  BY <1>u, <1>a DEF WorkerInv, Busy, Claimed, AdapterFrame, decideVars, TypeOK
<1> QED BY <1>u, <1>1, <1>2, <1>3, AdapterFrameKeeps

\* The guarded UPDATE: the thread that finds the token unconsumed is the first,
\* so no other thread is about to call with it and no call was made.
LEMMA ConsumeKeeps ==
  ASSUME NEW w \in Workers, IInv, Consume(w) PROVE IInv'
<1> USE DEF IInv
<1> DEFINE t == worker[w].token
<1>u. AdapterFrame /\ UNCHANGED <<calls, sent>>
  BY DEF Consume, AdapterFrame
<1>a. /\ worker[w].pc = "consuming" /\ consumedAt[t] = NULL
      /\ ledger[t].exp > worker[w].txNow
      /\ consumedAt' = [consumedAt EXCEPT ![t] = worker[w].txNow]
      /\ worker' = [worker EXCEPT ![w] =
           [pc |-> "calling", token |-> t, command |-> worker[w].command]]
  BY DEF Consume, Consumable
<1>b. t \in Tokens /\ worker[w].command \in Commands /\ worker[w].txNow \in Nat
  BY <1>a DEF TypeOK, Idle
<1>l. ledger[t] # NULL
  BY <1>a DEF WorkerInv, Busy
<1>c. calls[t] = 0
  BY <1>a, <1>b DEF CallInv, TypeOK
<1>n. worker[w].txNow # NULL
  BY <1>b, NullAssumption
<1>o. \A v \in Workers : worker[v].pc = "calling" => worker[v].token # t
  BY <1>a DEF WorkerInv, Busy
<1>1. TypeOK'
  BY <1>u, <1>a, <1>b DEF TypeOK, AdapterFrame, crmVars, decideVars
<1>2. ConsumedInv'
  BY <1>u, <1>a, <1>b, <1>l DEF ConsumedInv, AdapterFrame, TypeOK
<1>3. CallInv' /\ CallsAreAuthorized'
  BY <1>u, <1>a, <1>b, <1>n DEF CallInv, CallsAreAuthorized, Claimed, AdapterFrame,
                               decideVars, TypeOK
<1>4. WorkerInv'
  <2>1. \A v \in Workers : Busy(v) => worker[v].token \in Tokens
    BY BusyToken
  <2>2. \A v \in Workers \ {w} : worker'[v] = worker[v]
    BY <1>a DEF TypeOK
  <2>3. worker'[w] = [pc |-> "calling", token |-> t, command |-> worker[w].command]
    BY <1>a DEF TypeOK
  <2>4. worker[w].command = Command(Claimed(t)) /\ ledger[t].audience = AdapterChannel[w]
    BY <1>a DEF WorkerInv, Busy
  <2>5. \A u \in Tokens : consumedAt[u] # NULL \/ u = t => consumedAt'[u] # NULL
    BY <1>a, <1>b, <1>n DEF TypeOK
  <2>6. calls' = calls /\ ledger' = ledger /\ now' = now /\ \A u : Claimed(u)' = Claimed(u)
    BY <1>u DEF AdapterFrame, decideVars, Claimed
  <2>7. ASSUME NEW v \in Workers, Busy(v)'
        PROVE  LET u == worker'[v].token IN
               /\ ledger[u] # NULL
               /\ ledger[u].audience = AdapterChannel[v]
               /\ worker'[v].command = Command(Claimed(u))
               /\ worker'[v].pc = "consuming" => worker'[v].txNow <= now
               /\ worker'[v].pc = "calling" => consumedAt'[u] # NULL /\ calls[u] = 0
    <3>1. CASE v = w
      <4> HIDE DEF t
      <4>1. worker'[v].token = t /\ worker'[v].command = worker[w].command
            /\ worker'[v].pc = "calling"
        BY <3>1, <2>3
      <4> QED BY <4>1, <3>1, <2>4, <2>5, <1>b, <1>l, <1>c
    <3>2. CASE v # w
      <4>1. worker'[v] = worker[v] /\ Busy(v)
        BY <3>2, <2>2, <2>7 DEF Busy
      <4>2. worker[v].token \in Tokens
        BY <4>1, <2>1
      <4> QED BY <4>1, <4>2, <2>5 DEF WorkerInv
    <3> QED BY <3>1, <3>2
  <2>8. ASSUME NEW v \in Workers, NEW x \in Workers,
               worker'[v].pc = "calling", worker'[x].pc = "calling",
               worker'[v].token = worker'[x].token
        PROVE  v = x
    <3>1. v # w => worker'[v] = worker[v]
      BY <2>2
    <3>2. x # w => worker'[x] = worker[x]
      BY <2>2
    <3>3. worker'[w].token = t
      BY <2>3
    <3> HIDE DEF t
    <3> QED BY <2>8, <3>1, <3>2, <3>3, <1>o DEF WorkerInv
  <2> QED BY <2>6, <2>7, <2>8 DEF WorkerInv, Busy
<1> QED BY <1>u, <1>1, <1>2, <1>3, <1>4, AdapterFrameKeeps

\* A replay sends the thread away and changes nothing else.
LEMMA ReplayedKeeps ==
  ASSUME NEW w \in Workers, IInv, Replayed(w) PROVE IInv'
<1> USE DEF IInv
<1>u. AdapterFrame /\ UNCHANGED <<consumedAt, calls, sent>>
      /\ worker' = [worker EXCEPT ![w] = Idle]
  BY DEF Replayed, AdapterFrame
<1>1. TypeOK'
  BY <1>u DEF TypeOK, AdapterFrame, crmVars, decideVars
<1>2. ConsumedInv' /\ CallInv' /\ CallsAreAuthorized'
  BY <1>u DEF ConsumedInv, CallInv, CallsAreAuthorized, Claimed, AdapterFrame, decideVars
<1>3. WorkerInv'
  BY <1>u DEF WorkerInv, Busy, Claimed, AdapterFrame, decideVars, TypeOK, Idle
<1> QED BY <1>u, <1>1, <1>2, <1>3, AdapterFrameKeeps

\* The only thread that may call with a token calls, once, and is done.
LEMMA CallProviderKeeps ==
  ASSUME NEW w \in Workers, NEW arrives \in BOOLEAN, IInv, CallProvider(w, arrives)
  PROVE  IInv'
<1> USE DEF IInv
<1> DEFINE t == worker[w].token
           message == [token |-> t, channel |-> AdapterChannel[w],
                       command |-> worker[w].command]
<1>u. AdapterFrame /\ UNCHANGED consumedAt
  BY DEF CallProvider, AdapterFrame
<1>a. worker[w].pc = "calling" /\ worker' = [worker EXCEPT ![w] = Idle]
  BY DEF CallProvider
<1>b. t \in Tokens /\ worker[w].command \in Commands
  BY <1>a DEF TypeOK, Idle
<1>l. /\ ledger[t] # NULL /\ consumedAt[t] # NULL /\ calls[t] = 0
      /\ worker[w].command = Command(Claimed(t))
      /\ ledger[t].audience = AdapterChannel[w]
  BY <1>a DEF WorkerInv, Busy
<1>s. \/ UNCHANGED <<calls, sent>>
      \/ /\ calls' = [calls EXCEPT ![t] = calls[t] + 1]
         /\ sent' = sent \union {message}
         /\ Claimed(t).channel = AdapterChannel[w]
  BY DEF CallProvider
<1>m. message \in [token : Tokens, channel : Channels, command : Commands]
  BY <1>b, <1>l DEF TypeOK, Rows
<1>d. outcome[ledger[t].decision] = "ALLOW"
  BY <1>b, <1>l DEF TokenInv
<1>o. \A v \in Workers \ {w} : worker[v].pc = "calling" => worker[v].token # t
  BY <1>a DEF WorkerInv
<1>1. TypeOK'
  BY <1>u, <1>a, <1>b, <1>s, <1>m DEF TypeOK, AdapterFrame, crmVars, decideVars
<1>2. ConsumedInv'
  BY <1>u DEF ConsumedInv, AdapterFrame
<1>3. CallInv'
  BY <1>u, <1>b, <1>l, <1>s DEF CallInv, AdapterFrame, TypeOK
<1>4. CallsAreAuthorized'
  <2>1. outcome' = outcome /\ ledger' = ledger /\ \A u : Claimed(u)' = Claimed(u)
    BY <1>u DEF AdapterFrame, decideVars, Claimed
  <2> HIDE DEF t
  <2>2. message.token = t /\ message.command = worker[w].command
        /\ message.channel = AdapterChannel[w]
    OBVIOUS
  <2> HIDE DEF message
  <2> QED BY <2>1, <2>2, <1>u, <1>l, <1>s, <1>d DEF CallsAreAuthorized
<1>5. WorkerInv'
  <2>1. \A v \in Workers \ {w} : worker'[v] = worker[v]
    BY <1>a DEF TypeOK
  <2>2. worker'[w].pc = "idle"
    BY <1>a DEF TypeOK, Idle
  <2>3. /\ consumedAt' = consumedAt /\ ledger' = ledger /\ now' = now
        /\ \A u : Claimed(u)' = Claimed(u)
    BY <1>u DEF AdapterFrame, decideVars, Claimed
  <2>4. \A u \in Tokens : u # t => calls'[u] = calls[u]
    BY <1>b, <1>s DEF TypeOK
  <2>5. \A v \in Workers : Busy(v) => worker[v].token \in Tokens
    BY BusyToken
  <2>6. ASSUME NEW v \in Workers, Busy(v)'
        PROVE  LET u == worker'[v].token IN
               /\ ledger[u] # NULL
               /\ ledger[u].audience = AdapterChannel[v]
               /\ worker'[v].command = Command(Claimed(u))
               /\ worker'[v].pc = "consuming" => worker'[v].txNow <= now
               /\ worker'[v].pc = "calling" => consumedAt[u] # NULL /\ calls'[u] = 0
    <3>1. v # w /\ worker'[v] = worker[v] /\ Busy(v)
      BY <2>1, <2>2, <2>6 DEF Busy
    <3> HIDE DEF t
    <3> QED BY <3>1, <2>4, <2>5, <1>o DEF WorkerInv
  <2>7. ASSUME NEW v \in Workers, NEW x \in Workers,
               worker'[v].pc = "calling", worker'[x].pc = "calling",
               worker'[v].token = worker'[x].token
        PROVE  v = x
    BY <2>1, <2>2, <2>7 DEF WorkerInv
  <2> QED BY <2>3, <2>6, <2>7 DEF WorkerInv, Busy
<1> QED BY <1>u, <1>1, <1>2, <1>3, <1>4, <1>5, AdapterFrameKeeps

-----------------------------------------------------------------------------
\* A restart of the gateway only takes decisions out of its memory.
LEMMA RestartGatewayKeeps == ASSUME IInv, RestartGateway PROVE IInv'
<1> USE DEF IInv
<1>u. UNCHANGED <<now, crmVars, request, readAt, decidedAt, outcome, ledger, consumedAt,
                  adapterVars>>
  BY DEF RestartGateway
<1>a. /\ stage' = [d \in Decisions |-> IF stage[d] \in {"resolved", "persisted"}
                                      THEN "lost" ELSE stage[d]]
      /\ context' = [d \in Decisions |-> Absent] /\ issuing' = {}
  BY DEF RestartGateway
<1>1. TypeOK'
  BY <1>u, <1>a DEF TypeOK, crmVars, adapterVars, Absent
<1>2. DecidedInv'
  BY <1>u, <1>a DEF DecidedInv, TypeOK
<1>3. OneShotInv' /\ ConsumedInv'
  BY <1>u, <1>a DEF OneShotInv, ConsumedInv, Absent
<1>4. TokenInv'
  BY <1>u, <1>a DEF TokenInv, TypeOK, Absent, Rows
<1>5. WorkerInv' /\ CallInv'
  BY <1>u DEF WorkerInv, CallInv, Busy, Claimed, adapterVars
<1>6. EvidenceInv'
  BY <1>u, <1>a DEF EvidenceInv, InForce, Names, crmVars
<1>7. OneTokenPerDecision' /\ CallsAreAuthorized'
  BY <1>u DEF OneTokenPerDecision, CallsAreAuthorized, Claimed, adapterVars
<1> QED BY <1>1, <1>2, <1>3, <1>4, <1>5, <1>6, <1>7

\* A restart of the adapters forgets the threads; the ledger remembers the tokens.
LEMMA RestartAdaptersKeeps == ASSUME IInv, RestartAdapters PROVE IInv'
<1> USE DEF IInv
<1>u. AdapterFrame /\ UNCHANGED <<consumedAt, calls, sent>>
      /\ worker' = [w \in Workers |-> Idle]
  BY DEF RestartAdapters, AdapterFrame
<1>1. TypeOK'
  BY <1>u DEF TypeOK, AdapterFrame, crmVars, decideVars
<1>2. ConsumedInv' /\ CallInv' /\ CallsAreAuthorized'
  BY <1>u DEF ConsumedInv, CallInv, CallsAreAuthorized, Claimed, AdapterFrame, decideVars
<1>3. WorkerInv'
  BY <1>u DEF WorkerInv, Busy, Idle
<1> QED BY <1>u, <1>1, <1>2, <1>3, AdapterFrameKeeps

\* Time only makes evidence older.
LEMMA TickKeeps == ASSUME IInv, Tick PROVE IInv'
<1> USE DEF IInv
<1>u. UNCHANGED <<crmVars, decideVars, context, issuing, ledger, consumedAt, adapterVars>>
      /\ now' = now + 1
  BY DEF Tick
<1>1. TypeOK'
  BY <1>u DEF TypeOK, crmVars, decideVars, adapterVars
<1>2. DecidedInv'
  BY <1>u DEF DecidedInv, decideVars, TypeOK
<1>3. OneShotInv' /\ TokenInv' /\ ConsumedInv'
  BY <1>u DEF OneShotInv, TokenInv, ConsumedInv, decideVars
<1>4. WorkerInv' /\ CallInv' /\ EvidenceInv'
  <2>1. \A w \in Workers : worker[w].pc = "consuming" => worker[w].txNow \in Nat
    BY DEF TypeOK, Idle
  <2>2. now \in Nat
    BY DEF TypeOK
  <2> QED BY <1>u, <2>1, <2>2 DEF WorkerInv, CallInv, EvidenceInv, InForce, Busy,
              Claimed, crmVars, decideVars, adapterVars
<1>5. OneTokenPerDecision' /\ CallsAreAuthorized'
  BY <1>u DEF OneTokenPerDecision, CallsAreAuthorized, Claimed, decideVars, adapterVars
<1> QED BY <1>1, <1>2, <1>3, <1>4, <1>5

\* Nothing happens.
LEMMA StutterKeeps == ASSUME IInv, UNCHANGED vars PROVE IInv'
BY DEF vars, crmVars, decideVars, adapterVars, IInv, TypeOK, DecidedInv, OneShotInv,
       TokenInv, ConsumedInv, WorkerInv, CallInv, EvidenceInv, InForce, Busy, Claimed,
       OneTokenPerDecision, CallsAreAuthorized

LEMMA StepKeepsInvariant == IInv /\ [Next]_vars => IInv'
<1> SUFFICES ASSUME IInv, [Next]_vars PROVE IInv'
  OBVIOUS
<1>1. CASE CrmStep
  BY <1>1, CrmStepKeeps
<1>2. CASE DecideStep
  BY <1>2, ResolveEvidenceKeeps, DecideAndPersistKeeps, PutContextKeeps DEF DecideStep
<1>3. CASE AuthorizeStep
  BY <1>3, TakeContextKeeps, IssueKeeps, RefuseKeeps DEF AuthorizeStep
<1>4. CASE AdapterStep
  BY <1>4, VerifyKeeps, BeginConsumeKeeps, ConsumeKeeps, ReplayedKeeps,
     CallProviderKeeps DEF AdapterStep
<1>5. CASE RestartGateway
  BY <1>5, RestartGatewayKeeps
<1>6. CASE RestartAdapters
  BY <1>6, RestartAdaptersKeeps
<1>7. CASE Tick
  BY <1>7, TickKeeps
<1>8. CASE UNCHANGED vars
  BY <1>8, StutterKeeps
<1> QED BY <1>1, <1>2, <1>3, <1>4, <1>5, <1>6, <1>7, <1>8 DEF Next

\* The inductive invariant holds in every state the services can reach.
THEOREM InvariantHolds == Spec => []IInv
<1> QED BY InitInvariant, StepKeepsInvariant, PTL DEF Spec

\* Type correctness of the state.
THEOREM TypeCorrect == Spec => []TypeOK
<1>1. IInv => TypeOK
  BY DEF IInv
<1> QED BY <1>1, InvariantHolds, PTL

\* take is one-shot, so a decision has one row in the ledger.
THEOREM OneToken == Spec => []OneTokenPerDecision
<1>1. IInv => OneTokenPerDecision
  BY DEF IInv
<1> QED BY <1>1, InvariantHolds, PTL

\* One row, consumed before the call and never given back: one call per decision.
THEOREM AtMostOneCall == Spec => []AtMostOneCallPerDecision
<1>1. IInv => AtMostOneCallPerDecision
  BY DEF IInv, CallInv, ConsumedInv, OneTokenPerDecision, AtMostOneCallPerDecision
<1> QED BY <1>1, InvariantHolds, PTL

\* What reaches the provider was allowed, for the same command and channel.
THEOREM CallsAuthorized == Spec => []CallsAreAuthorized
<1>1. IInv => CallsAreAuthorized
  BY DEF IInv
<1> QED BY <1>1, InvariantHolds, PTL

\* The order evidence, decision, token, call keeps a recorded suppression effective.
THEOREM SuppressionRespected == Spec => []NoCallOnSuppressedEvidence
<1>1. ASSUME IInv PROVE NoCallOnSuppressedEvidence
  <2> SUFFICES ASSUME NEW s \in sent, NEW row \in suppressions,
                      row.contact = s.command.contact_id,
                      row.at < readAt[ledger[s.token].decision],
                      InForce(row, readAt[ledger[s.token].decision])
               PROVE  FALSE
    BY DEF NoCallOnSuppressedEvidence
  <2> DEFINE d == ledger[s.token].decision
  <2>1. s.token \in Tokens /\ consumedAt[s.token] # NULL
    <3>1. s \in [token : Tokens, channel : Channels, command : Commands]
      BY <1>1 DEF IInv, TypeOK
    <3> QED BY <1>1, <3>1 DEF IInv, CallsAreAuthorized
  <2>2. ledger[s.token] # NULL
    BY <1>1, <2>1 DEF IInv, ConsumedInv
  <2>3. d \in Decisions
    <3>1. ledger[s.token] \in Rows
      BY <1>1, <2>1, <2>2 DEF IInv, TypeOK
    <3> QED BY <3>1 DEF Rows
  <2>4. stage[d] = "answered" /\ outcome[d] = "ALLOW"
    BY <1>1, <2>1, <2>2 DEF IInv, TokenInv
  <2>5. Outcome(request[d]) = "ALLOW"
    BY <1>1, <2>3, <2>4 DEF IInv, DecidedInv
  <2>6. s.command.contact_id = request[d].contact_id
    <3>1. s.command = Command(request[d])
      BY <1>1 DEF IInv, CallsAreAuthorized, Claimed
    <3> QED BY <3>1 DEF Command
  <2>7. request[d].internally_suppressed
    BY <1>1, <2>3, <2>4, <2>6 DEF IInv, EvidenceInv, Names
  <2> QED BY <2>5, <2>7, AllowedIsNotSuppressed
<1> QED BY <1>1, InvariantHolds, PTL

\* The ages add up: decision to issue, issue to expiry, expiry after consumption.
THEOREM ConsumptionIsFresh == Spec => []ConsumedWhileFresh
<1>1. ASSUME IInv PROVE ConsumedWhileFresh
  <2> SUFFICES ASSUME NEW t \in Tokens, consumedAt[t] # NULL
               PROVE  consumedAt[t] < (decidedAt[ledger[t].decision] - GatewayOffset)
                                      + MaxDecisionAge + MaxTtl + GatewayOffset
    BY DEF ConsumedWhileFresh
  <2> DEFINE d == ledger[t].decision
  <2>1. ledger[t] # NULL /\ consumedAt[t] < ledger[t].exp
    BY <1>1 DEF IInv, ConsumedInv
  <2>2. ledger[t] \in Rows /\ consumedAt[t] \in Nat
    BY <1>1, <2>1 DEF IInv, TypeOK
  <2>3. ledger[t].exp \in Int /\ ledger[t].iat \in Int /\ d \in Decisions
    BY <2>2 DEF Rows
  <2>4. /\ ledger[t].exp <= ledger[t].iat + MaxTtl
        /\ ledger[t].iat <= decidedAt[d] + MaxDecisionAge
        /\ decidedAt[d] \in Int
    BY <1>1, <2>1, <2>3 DEF IInv, TokenInv, DecidedInv
  <2> QED BY <2>1, <2>2, <2>3, <2>4, ClockAssumption
<1> QED BY <1>1, InvariantHolds, PTL

-----------------------------------------------------------------------------
(* The refinement.  A decision has at most one token, so its place in the   *)
(* promise is read off that token, or off its verdict while it has none.    *)

PlaceByToken(t) == IF calls[t] = 1 THEN "contacted"
                   ELSE IF consumedAt[t] # NULL THEN "claimed" ELSE "allowed"

PlaceByVerdict(d) == IF outcome[d] = "ALLOW" THEN "allowed"
                     ELSE IF outcome[d] = "DENY" THEN "denied" ELSE "open"

Mapping ==
  /\ PromiseState = [d \in Decisions |-> PromiseState[d]]
  /\ PromiseClaimed = [d \in Decisions |-> PromiseClaimed[d]]
  /\ PromiseDecided = [d \in Decisions |-> PromiseDecided[d]]
  /\ \A d \in Decisions : \A t \in Holders(d) :
       PromiseState[d] = PlaceByToken(t) /\ PromiseClaimed[d] = consumedAt[t]
  /\ \A d \in Decisions : Holders(d) = {} =>
       PromiseState[d] = PlaceByVerdict(d) /\ PromiseClaimed[d] = NULL

\* One token per decision makes the mapping a function of that token.
LEMMA MappingHolds == IInv => Mapping
<1> SUFFICES ASSUME IInv PROVE Mapping
  OBVIOUS
<1>1. ASSUME NEW d \in Decisions, NEW t \in Holders(d)
      PROVE  PromiseState[d] = PlaceByToken(t) /\ PromiseClaimed[d] = consumedAt[t]
  <2>1. Holders(d) = {t} /\ t \in Tokens /\ ledger[t] # NULL /\ ledger[t].decision = d
    BY DEF IInv, OneTokenPerDecision, Holders
  <2>2. outcome[d] = "ALLOW" /\ calls[t] \in Nat
    BY <2>1 DEF IInv, TokenInv, TypeOK
  <2>3. calls[t] <= 1
    BY <2>1, <2>2 DEF IInv, CallInv
  <2>4. PromiseState[d] = PlaceByToken(t)
    <3>1. /\ ~ \E u \in Holders(d) : calls[u] > 1
          /\ (\E u \in Holders(d) : calls[u] = 1) <=> calls[t] = 1
          /\ (\E u \in Holders(d) : consumedAt[u] # NULL) <=> consumedAt[t] # NULL
      BY <2>1, <2>2, <2>3
    <3> QED BY <2>2, <3>1 DEF PromiseState, PlaceByToken
  <2>5. CASE consumedAt[t] = NULL
    BY <2>1, <2>4, <2>5 DEF PromiseClaimed
  <2>6. CASE consumedAt[t] # NULL
    <3>1. (CHOOSE u \in Holders(d) : consumedAt[u] # NULL) = t
      BY <2>1, <2>6
    <3> QED BY <2>1, <2>4, <2>6, <3>1 DEF PromiseClaimed
  <2> QED BY <2>5, <2>6
<1>2. ASSUME NEW d \in Decisions, Holders(d) = {}
      PROVE  PromiseState[d] = PlaceByVerdict(d) /\ PromiseClaimed[d] = NULL
  BY <1>2 DEF PromiseState, PromiseClaimed, PlaceByVerdict
<1>3. /\ PromiseState = [d \in Decisions |-> PromiseState[d]]
      /\ PromiseClaimed = [d \in Decisions |-> PromiseClaimed[d]]
      /\ PromiseDecided = [d \in Decisions |-> PromiseDecided[d]]
  BY DEF PromiseState, PromiseClaimed, PromiseDecided
<1> QED BY <1>1, <1>2, <1>3 DEF Mapping

LEMMA PromiseInit == Init => Promise!PInit
<1> SUFFICES ASSUME Init PROVE Promise!PInit
  OBVIOUS
<1>1. \A d \in Decisions : Holders(d) = {} /\ PlaceByVerdict(d) = "open"
  BY NullAssumption DEF Init, Holders, PlaceByVerdict
<1>2. Mapping
  BY InitInvariant, MappingHolds
<1>3. PromiseState = [d \in Decisions |-> "open"]
      /\ PromiseClaimed = [d \in Decisions |-> NULL]
  BY <1>1, <1>2 DEF Mapping
<1>4. PromiseDecided = [d \in Decisions |-> NULL]
  BY DEF Init, PromiseDecided
<1> QED BY <1>3, <1>4 DEF Promise!PInit, Init

\* A step that leaves ledger, consumptions, calls and verdicts alone is no step
\* of the promise.
LEMMA UnmappedStutters ==
  ASSUME UNCHANGED <<ledger, consumedAt, calls, outcome, decidedAt>>
  PROVE  UNCHANGED <<PromiseState, PromiseDecided, PromiseClaimed>>
BY DEF PromiseState, PromiseDecided, PromiseClaimed, Holders

\* The verdict: PDecide.
LEMMA DecidePromised ==
  ASSUME NEW d \in Decisions, IInv, IInv', DecideAndPersist(d)
  PROVE  Promise!PDecide(d)
<1>1. Mapping /\ Mapping'
  BY MappingHolds, PTL
<1>2. UNCHANGED <<now, ledger, consumedAt, calls>>
  BY DEF DecideAndPersist, adapterVars
<1>3. /\ stage[d] = "resolved"
      /\ outcome' = [outcome EXCEPT ![d] = Outcome(request[d])]
      /\ decidedAt' = [decidedAt EXCEPT ![d] = now + GatewayOffset]
  BY DEF DecideAndPersist, GatewayNow
<1>4. Holders(d) = {} /\ \A e \in Decisions : Holders(e)' = Holders(e)
  BY <1>2, <1>3 DEF IInv, TokenInv, Holders
<1>5. outcome[d] = NULL /\ Outcome(request[d]) \in {"ALLOW", "DENY"}
  BY <1>3 DEF IInv, DecidedInv, Outcome
<1>6. PromiseState[d] = "open" /\ PromiseState'[d] \in {"allowed", "denied"}
  <2>1. PlaceByVerdict(d) = "open"
    BY <1>5, NullAssumption DEF PlaceByVerdict
  <2>2. outcome'[d] = Outcome(request[d])
    BY <1>3 DEF IInv, TypeOK
  <2>3. PlaceByVerdict(d)' \in {"allowed", "denied"}
    BY <1>5, <2>2 DEF PlaceByVerdict
  <2> QED BY <1>1, <1>4, <2>1, <2>3 DEF Mapping
<1>7. ASSUME NEW e \in Decisions, e # d
      PROVE  PromiseState'[e] = PromiseState[e] /\ PromiseClaimed'[e] = PromiseClaimed[e]
  <2>1. outcome'[e] = outcome[e]
    BY <1>3, <1>7 DEF IInv, TypeOK
  <2>2. PlaceByVerdict(e)' = PlaceByVerdict(e) /\ \A t : PlaceByToken(t)' = PlaceByToken(t)
    BY <1>2, <2>1 DEF PlaceByVerdict, PlaceByToken
  <2> QED BY <1>1, <1>2, <1>4, <2>2 DEF Mapping
<1>8. PromiseClaimed'[d] = PromiseClaimed[d]
  BY <1>1, <1>4 DEF Mapping
<1>9. PromiseState' = [PromiseState EXCEPT ![d] = PromiseState'[d]]
      /\ PromiseClaimed' = PromiseClaimed
  BY <1>1, <1>7, <1>8 DEF Mapping
<1>10. PromiseDecided' = [PromiseDecided EXCEPT ![d] = now]
  <2>1. now + GatewayOffset # NULL /\ (now + GatewayOffset) - GatewayOffset = now
    BY NullAssumption, ClockAssumption DEF IInv, TypeOK
  <2>2. decidedAt \in [Decisions -> Int \union {NULL}]
    BY DEF IInv, TypeOK
  <2> QED BY <1>3, <2>1, <2>2 DEF PromiseDecided
<1> QED BY <1>2, <1>6, <1>9, <1>10 DEF Promise!PDecide

\* A token that nobody consumed yet does not move its decision.
LEMMA IssuePromised ==
  ASSUME NEW d \in Decisions, NEW t \in Tokens, NEW ch \in Channels, NEW ttl \in Ttls,
         IInv, IInv', Issue(d, t, ch, ttl)
  PROVE  UNCHANGED <<now, PromiseState, PromiseDecided, PromiseClaimed>>
<1> DEFINE row == [decision |-> d, audience |-> ch,
                   iat |-> GatewayNow, exp |-> GatewayNow + ttl]
<1>1. Mapping /\ Mapping'
  BY MappingHolds, PTL
<1>2. UNCHANGED <<now, outcome, decidedAt, consumedAt, calls>>
  BY DEF Issue, Authorization, decideVars, adapterVars
<1>3. ledger[t] = NULL /\ ledger' = [ledger EXCEPT ![t] = row] /\ outcome[d] = "ALLOW"
  BY DEF Issue, Authorization, MayIssue
<1>4. row # NULL /\ row.decision = d
  <2>1. row \in Rows
    BY ClockAssumption DEF Rows, GatewayNow, IInv, TypeOK
  <2> QED BY <2>1, NullAssumption DEF Rows
<1> HIDE DEF row
<1>5. Holders(d) = {}
  <2>1. d \in issuing
    BY DEF Issue, Authorization
  <2> QED BY <2>1 DEF IInv, TokenInv, Holders
<1>6. t \in Holders(d)' /\ \A e \in Decisions \ {d} : Holders(e)' = Holders(e)
  BY <1>3, <1>4 DEF Holders, IInv, TypeOK
<1>7. consumedAt[t] = NULL /\ calls[t] = 0
  BY <1>3 DEF IInv, ConsumedInv, CallInv, TypeOK
<1>8. PromiseState'[d] = PromiseState[d] /\ PromiseClaimed'[d] = PromiseClaimed[d]
  <2>1. PlaceByToken(t)' = "allowed" /\ PlaceByVerdict(d) = "allowed"
    BY <1>2, <1>3, <1>7 DEF PlaceByToken, PlaceByVerdict
  <2> QED BY <1>1, <1>2, <1>5, <1>6, <1>7, <2>1 DEF Mapping
<1>9. ASSUME NEW e \in Decisions, e # d
      PROVE  PromiseState'[e] = PromiseState[e] /\ PromiseClaimed'[e] = PromiseClaimed[e]
  <2>1. PlaceByVerdict(e)' = PlaceByVerdict(e) /\ \A u : PlaceByToken(u)' = PlaceByToken(u)
    BY <1>2 DEF PlaceByVerdict, PlaceByToken
  <2> QED BY <1>1, <1>2, <1>6, <1>9, <2>1 DEF Mapping
<1>10. PromiseDecided' = PromiseDecided
  BY <1>2 DEF PromiseDecided
<1> QED BY <1>1, <1>2, <1>8, <1>9, <1>10 DEF Mapping

\* The guarded UPDATE is the claim: PClaim, at the transaction's now().
LEMMA ConsumePromised ==
  ASSUME NEW w \in Workers, IInv, IInv', Consume(w)
  PROVE  \E d \in Decisions : Promise!PClaim(d)
<1>1. Mapping /\ Mapping'
  BY MappingHolds, PTL
<1>2. UNCHANGED <<now, ledger, outcome, decidedAt, calls>>
  BY DEF Consume, decideVars
<1>a. PICK t \in Tokens, at \in Nat : t = worker[w].token /\ at = worker[w].txNow
  <2>1. worker[w] \in {Idle}
          \union [pc : {"verified", "calling"}, token : Tokens, command : Commands]
          \union [pc : {"consuming"}, token : Tokens, command : Commands, txNow : Nat]
    BY DEF IInv, TypeOK
  <2>2. worker[w].pc = "consuming"
    BY DEF Consume
  <2> QED BY <2>1, <2>2 DEF Idle
<1>3. /\ worker[w].pc = "consuming" /\ consumedAt[t] = NULL /\ ledger[t].exp > at
      /\ consumedAt' = [consumedAt EXCEPT ![t] = at]
  BY <1>a DEF Consume, Consumable
<1>4. t \in Tokens /\ at \in Nat
  OBVIOUS
<1>5. ledger[t] # NULL
  BY <1>3, <1>a DEF IInv, WorkerInv, Busy
<1>6. ledger[t] \in Rows
  BY <1>4, <1>5 DEF IInv, TypeOK
<1>b. PICK d \in Decisions : d = ledger[t].decision
  BY <1>6 DEF Rows
<1>7. ledger[t].exp \in Int /\ ledger[t].iat \in Int
  BY <1>6 DEF Rows
<1>8. t \in Holders(d) /\ \A e \in Decisions : Holders(e)' = Holders(e)
  BY <1>2, <1>4, <1>5, <1>b DEF Holders
<1>9. calls[t] = 0
  BY <1>3, <1>4 DEF IInv, CallInv, TypeOK
<1>10. consumedAt'[t] = at /\ \A u \in Tokens \ {t} : consumedAt'[u] = consumedAt[u]
  BY <1>3, <1>4 DEF IInv, TypeOK
<1>11. PromiseState[d] = "allowed" /\ PromiseState'[d] = "claimed" /\ PromiseClaimed'[d] = at
  <2>1. PlaceByToken(t) = "allowed"
    BY <1>3, <1>9 DEF PlaceByToken
  <2>2. PlaceByToken(t)' = "claimed"
    BY <1>2, <1>4, <1>9, <1>10, NullAssumption DEF PlaceByToken
  <2> QED BY <1>1, <1>8, <1>10, <2>1, <2>2 DEF Mapping
<1>12. ASSUME NEW e \in Decisions, e # d
       PROVE  PromiseState'[e] = PromiseState[e] /\ PromiseClaimed'[e] = PromiseClaimed[e]
  <2>1. \A u \in Holders(e) : u \in Tokens \ {t}
    BY <1>12, <1>b DEF Holders
  <2>2. \A u \in Holders(e) : PlaceByToken(u)' = PlaceByToken(u)
    BY <1>2, <1>10, <2>1 DEF PlaceByToken
  <2>3. PlaceByVerdict(e)' = PlaceByVerdict(e)
    BY <1>2 DEF PlaceByVerdict
  <2> QED BY <1>1, <1>8, <1>10, <2>1, <2>2, <2>3 DEF Mapping
<1>13. PromiseDecided' = PromiseDecided
  BY <1>2 DEF PromiseDecided
<1>14. at - PromiseDecided[d] < MaxDecisionAge + MaxTtl + GatewayOffset
  <2>1. /\ ledger[t].exp <= ledger[t].iat + MaxTtl
        /\ ledger[t].iat <= decidedAt[d] + MaxDecisionAge
        /\ stage[d] = "answered"
    BY <1>4, <1>5, <1>b DEF IInv, TokenInv
  <2>2. decidedAt[d] \in Int
    BY <2>1 DEF IInv, DecidedInv
  <2>3. PromiseDecided[d] = decidedAt[d] - GatewayOffset
    BY <2>2, NullAssumption DEF PromiseDecided
  <2> QED BY <1>3, <1>4, <1>7, <2>1, <2>2, <2>3, ClockAssumption
<1>15. PromiseState' = [PromiseState EXCEPT ![d] = "claimed"]
       /\ PromiseClaimed' = [PromiseClaimed EXCEPT ![d] = at]
  BY <1>1, <1>11, <1>12 DEF Mapping
<1>16. at \in 0 .. now
  BY <1>a, <1>3 DEF IInv, TypeOK, WorkerInv, Busy
<1>17. Promise!PClaim(d)
  BY <1>2, <1>11, <1>13, <1>14, <1>15, <1>16 DEF Promise!PClaim
<1> QED BY <1>17

\* The one call of the thread that consumed: PContact, when it arrives.
LEMMA CallPromised ==
  ASSUME NEW w \in Workers, NEW arrives \in BOOLEAN, IInv, IInv', CallProvider(w, arrives)
  PROVE  \/ \E d \in Decisions : Promise!PContact(d)
         \/ UNCHANGED <<now, PromiseState, PromiseDecided, PromiseClaimed>>
<1>1. UNCHANGED <<now, ledger, outcome, decidedAt, consumedAt>>
  BY DEF CallProvider, decideVars
<1>2. CASE UNCHANGED calls
  BY <1>1, <1>2, UnmappedStutters
<1>3. CASE calls' # calls
  <2>1. PICK t \in Tokens : t = worker[w].token
    BY BusyToken DEF CallProvider, Busy, IInv
  <2>2. worker[w].pc = "calling" /\ calls' = [calls EXCEPT ![t] = calls[t] + 1]
    BY <1>3, <2>1 DEF CallProvider
  <2>3. ledger[t] # NULL /\ consumedAt[t] # NULL /\ calls[t] = 0
    BY <2>1, <2>2 DEF IInv, WorkerInv, Busy
  <2>4. calls'[t] = 1 /\ \A u \in Tokens \ {t} : calls'[u] = calls[u]
    BY <2>2, <2>3 DEF IInv, TypeOK
  <2>5. ledger[t] \in Rows
    BY <2>3 DEF IInv, TypeOK
  <2>6. PICK d \in Decisions : d = ledger[t].decision
    BY <2>5 DEF Rows
  <2>7. t \in Holders(d) /\ \A e \in Decisions : Holders(e)' = Holders(e)
    BY <1>1, <2>3, <2>6 DEF Holders
  <2>8. Mapping /\ Mapping'
    BY MappingHolds, PTL
  <2>9. PromiseState[d] = "claimed" /\ PromiseState'[d] = "contacted"
    <3>1. PlaceByToken(t) = "claimed" /\ PlaceByToken(t)' = "contacted"
      BY <2>3, <2>4 DEF PlaceByToken
    <3> QED BY <2>7, <2>8, <3>1 DEF Mapping
  <2>10. ASSUME NEW e \in Decisions, e # d PROVE PromiseState'[e] = PromiseState[e]
    <3>1. \A u \in Holders(e) : u \in Tokens \ {t}
      BY <2>6, <2>10 DEF Holders
    <3>2. \A u \in Holders(e) : PlaceByToken(u)' = PlaceByToken(u)
      BY <1>1, <2>4, <3>1 DEF PlaceByToken
    <3>3. PlaceByVerdict(e)' = PlaceByVerdict(e)
      BY <1>1 DEF PlaceByVerdict
    <3> QED BY <2>7, <2>8, <3>2, <3>3 DEF Mapping
  <2>11. PromiseState' = [PromiseState EXCEPT ![d] = "contacted"]
    BY <2>8, <2>9, <2>10 DEF Mapping
  <2>12. UNCHANGED <<PromiseDecided, PromiseClaimed>>
    BY <1>1 DEF PromiseDecided, PromiseClaimed, Holders
  <2> QED BY <1>1, <2>9, <2>11, <2>12 DEF Promise!PContact
<1> QED BY <1>2, <1>3

\* Every step of the services is a step of the promise or none.
LEMMA StepKeepsPromise == IInv /\ IInv' /\ [Next]_vars => [Promise!PNext]_(Promise!promise)
<1> SUFFICES ASSUME IInv, IInv', [Next]_vars
             PROVE  Promise!PNext \/ UNCHANGED Promise!promise
  OBVIOUS
<1> USE DEF Promise!PNext, Promise!promise
<1>1. CASE CrmStep
  <2>1. UNCHANGED <<now, ledger, consumedAt, calls, outcome, decidedAt>>
    BY <1>1 DEF CrmStep, Suppress, GrantConsent, ApproveCampaign, decideVars, adapterVars
  <2> QED BY <2>1, UnmappedStutters
<1>2. CASE DecideStep
  <2>1. ASSUME NEW d \in Decisions, NEW body \in Bodies, ResolveEvidence(d, body)
        PROVE  UNCHANGED Promise!promise
    <3>1. UNCHANGED <<now, ledger, consumedAt, calls, outcome, decidedAt>>
      BY <2>1 DEF ResolveEvidence, adapterVars
    <3> QED BY <3>1, UnmappedStutters
  <2>2. ASSUME NEW d \in Decisions, PutContext(d) PROVE UNCHANGED Promise!promise
    <3>1. UNCHANGED <<now, ledger, consumedAt, calls, outcome, decidedAt>>
      BY <2>2 DEF PutContext, adapterVars
    <3> QED BY <3>1, UnmappedStutters
  <2> QED BY <1>2, <2>1, <2>2, DecidePromised DEF DecideStep
<1>3. CASE AuthorizeStep
  <2>1. ASSUME NEW d \in Decisions, NEW tenant, TakeContext(d, tenant)
        PROVE  UNCHANGED Promise!promise
    <3>1. UNCHANGED <<now, ledger, consumedAt, calls, outcome, decidedAt>>
      BY <2>1 DEF TakeContext, decideVars, adapterVars
    <3> QED BY <3>1, UnmappedStutters
  <2>2. ASSUME NEW d \in Decisions, NEW ch, NEW ttl, RefuseToIssue(d, ch, ttl)
        PROVE  UNCHANGED Promise!promise
    <3>1. UNCHANGED <<now, ledger, consumedAt, calls, outcome, decidedAt>>
      BY <2>2 DEF RefuseToIssue, decideVars, adapterVars
    <3> QED BY <3>1, UnmappedStutters
  <2> QED BY <1>3, <2>1, <2>2, IssuePromised DEF AuthorizeStep
<1>4. CASE AdapterStep
  <2>1. ASSUME NEW w \in Workers, NEW t \in Tokens, NEW command \in Commands,
               Verify(w, t, command)
        PROVE  UNCHANGED Promise!promise
    <3>1. UNCHANGED <<now, ledger, consumedAt, calls, outcome, decidedAt>>
      BY <2>1 DEF Verify, decideVars
    <3> QED BY <3>1, UnmappedStutters
  <2>2. ASSUME NEW w \in Workers, BeginConsume(w) \/ Replayed(w)
        PROVE  UNCHANGED Promise!promise
    <3>1. UNCHANGED <<now, ledger, consumedAt, calls, outcome, decidedAt>>
      BY <2>2 DEF BeginConsume, Replayed, decideVars
    <3> QED BY <3>1, UnmappedStutters
  <2> QED BY <1>4, <2>1, <2>2, ConsumePromised, CallPromised DEF AdapterStep
<1>5. CASE RestartGateway \/ RestartAdapters
  <2>1. UNCHANGED <<now, ledger, consumedAt, calls, outcome, decidedAt>>
    BY <1>5 DEF RestartGateway, RestartAdapters, decideVars, adapterVars
  <2> QED BY <2>1, UnmappedStutters
<1>6. CASE Tick
  <2>1. UNCHANGED <<ledger, consumedAt, calls, outcome, decidedAt>> /\ now' = now + 1
    BY <1>6 DEF Tick, decideVars, adapterVars
  <2> QED BY <2>1, UnmappedStutters DEF Promise!PTick
<1>7. CASE UNCHANGED vars
  <2>1. UNCHANGED <<now, ledger, consumedAt, calls, outcome, decidedAt>>
    BY <1>7 DEF vars, decideVars, adapterVars
  <2> QED BY <2>1, UnmappedStutters
<1> QED BY <1>1, <1>2, <1>3, <1>4, <1>5, <1>6, <1>7 DEF Next

\* Tokens, ledger, store and adapters implement the promise of ContactPromise.
THEOREM ImplementsPromise == Spec => KeepsPromise
<1> QED BY InvariantHolds, PromiseInit, StepKeepsPromise, PTL
       DEF Spec, KeepsPromise, Promise!PSpec

=============================================================================
