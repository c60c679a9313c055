---------------------------- MODULE AuditedWrites ----------------------------
(***************************************************************************)
(* Transactions that change a row and append to the audit chain of their   *)
(* tenant: campaign versions and approvals (PostgresCRMRepository), rows   *)
(* with a counter of their own (opportunities, runs of the orchestrator),  *)
(* and app.append_audit_event of migration 008.                            *)
(*                                                                         *)
(* A transaction locks its row, writes, locks the head of the chain, and   *)
(* appends one event or two; what it wrote is seen by nobody until it      *)
(* commits, and is gone if it rolls back.  PostgreSQL runs it at READ      *)
(* COMMITTED: each statement sees what is committed when it begins.  An    *)
(* INSERT ... ON CONFLICT and the SELECT ... FOR UPDATE after it wait for  *)
(* the same transactions and are one step.  The hash of an event covers    *)
(* its number, its predecessor's hash and the time, and stands for the     *)
(* event: here it is the event's id.                                       *)
(***************************************************************************)
EXTENDS Integers, FiniteSets, Sequences

CONSTANTS
  Sessions,         \* connections of the services
  Tenants,
  Campaigns,        \* campaign ids, which callers choose
  Versions,         \* ids of campaign versions (uuid4)
  Hashes,           \* hashes of manifests
  Entities,         \* opportunities and runs
  Ids,              \* ids of audit events; their number bounds the chains
  NULL

Rows == Campaigns \union Versions \union Entities

\* What a transaction is asked to do: create_campaign_version, approve_campaign,
\* an insert or update of an entity, a transition that asks a human.
Operations ==
  [kind : {"create"}, row : Campaigns, version : Versions, hash : Hashes]
    \union [kind : {"approve"}, row : Versions, hash : Hashes]
    \union [kind : {"write", "ask"}, row : Entities]

\* Rows of the tables, an event and the head of a chain.
VersionRows == [tenant : Tenants, campaign : Campaigns, no : Nat, hash : Hashes]

EntityRows == [tenant : Tenants, no : Nat]

Events == [id : Ids, tenant : Tenants, no : Nat, prev : Ids \union {NULL},
           action : {"CREATED", "APPROVED", "WRITTEN", "ASKED"}, about : Versions \union Entities]

Heads == [no : Nat, last : Ids \union {NULL}]

ASSUME AuditAssumption ==
  /\ Tenants \intersect Rows = {}
  /\ Campaigns \intersect Versions = {} /\ Entities \intersect (Campaigns \union Versions) = {}
  /\ NULL \notin Tenants \union Ids \union VersionRows \union EntityRows \union Heads \union Operations

VARIABLES
  campaign,         \* tenant of a campaign
  version,          \* rows of campaign_version
  approvals,        \* number of rows of approval about a version
  entity,           \* rows with a counter: opportunity.version, checkpoint_no of a run
  audit,            \* rows of audit_event
  head,             \* rows of audit_chain_head, [0, NULL] before the first
  session           \* open transactions

vars == <<campaign, version, approvals, entity, audit, head, session>>

Idle == [pc |-> "idle", tenant |-> NULL, op |-> NULL, no |-> 0, head |-> NULL, log |-> <<>>]

Init ==
  /\ campaign = [c \in Campaigns |-> NULL]
  /\ version = [v \in Versions |-> NULL]
  /\ approvals = [v \in Versions |-> 0]
  /\ entity = [x \in Entities |-> NULL]
  /\ audit = {}
  /\ head = [t \in Tenants |-> [no |-> 0, last |-> NULL]]
  /\ session = [s \in Sessions |-> Idle]

Open(s) == session[s].pc # "idle"

\* The row of the tables, and the head of the chain, that s has locked.
Holds(s, row) ==
  \/ session[s].pc \in {"locked", "numbered", "written"} /\ row = session[s].op.row
  \/ session[s].head # NULL /\ row = session[s].tenant

\* mutant: the SELECTs are not FOR UPDATE
LockedByOther_Never(s, row) == FALSE

LockedByOther(s, row) == \E o \in Sessions \ {s} : Holds(o, row)

-----------------------------------------------------------------------------
(* Begin, lock the row                                                     *)

\* A version gets a fresh id.
Begin(s, t, op) ==
  /\ ~ Open(s)
  /\ op.kind = "create" =>
       /\ version[op.version] = NULL
       /\ \A o \in Sessions : Open(o) /\ session[o].op.kind = "create" =>
            session[o].op.version # op.version
  /\ session' = [session EXCEPT ![s] =
       [pc |-> "begun", tenant |-> t, op |-> op, no |-> 0, head |-> NULL, log |-> <<>>]]
  /\ UNCHANGED <<campaign, version, approvals, entity, audit, head>>

\* Whether the row lets the tenant do this: otherwise the transaction raises.
Acceptable(t, op) ==
  \/ op.kind = "create" /\ campaign[op.row] \in {NULL, t}
  \/ op.kind = "write" /\ (entity[op.row] # NULL => entity[op.row].tenant = t)
  \/ op.kind = "ask" /\ entity[op.row] # NULL /\ entity[op.row].tenant = t
  \/ /\ op.kind = "approve" /\ version[op.row] # NULL
     /\ version[op.row].tenant = t /\ version[op.row].hash = op.hash

LockRow(s) ==
  LET op == session[s].op IN
  /\ session[s].pc = "begun"
  /\ ~ LockedByOther(s, op.row)
  /\ Acceptable(session[s].tenant, op)
  /\ session' = [session EXCEPT ![s].pc = IF op.kind = "create" THEN "locked" ELSE "written"]
  /\ UNCHANGED <<campaign, version, approvals, entity, audit, head>>

VersionsOf(c) == {v \in Versions : version[v] # NULL /\ version[v].campaign = c}

\* mutant: the tenant's campaigns count their versions together
Numbers_AllCampaigns(c) == {0} \union {version[v].no : v \in {w \in Versions : version[w] # NULL}}

\* The numbers of a campaign's versions, 0 if there is none: COALESCE(MAX(...), 0).
Numbers(c) == {0} \union {version[v].no : v \in VersionsOf(c)}

Highest(c) == CHOOSE n \in Numbers(c) : \A m \in Numbers(c) : m <= n

NumberVersion(s) ==
  /\ session[s].pc = "locked"
  /\ session' = [session EXCEPT ![s].pc = "numbered", ![s].no = Highest(session[s].op.row) + 1]
  /\ UNCHANGED <<campaign, version, approvals, entity, audit, head>>

\* UNIQUE (campaign_id, version_no), UNIQUE (campaign_id, artifact_hash)
Duplicates(s, no, hash) == session[s].no = no \/ session[s].op.hash = hash

\* The INSERT waits for another transaction that inserted a duplicate.
WaitsForVersion(s) ==
  /\ session[s].pc = "numbered"
  /\ \E o \in Sessions \ {s} :
       /\ session[o].pc = "written" /\ session[o].op.kind = "create"
       /\ session[o].op.row = session[s].op.row
       /\ Duplicates(s, session[o].no, session[o].op.hash)

\* With a duplicate committed it raises.
InsertVersion(s) ==
  /\ session[s].pc = "numbered"
  /\ ~ WaitsForVersion(s)
  /\ \A v \in VersionsOf(session[s].op.row) : ~ Duplicates(s, version[v].no, version[v].hash)
  /\ session' = [session EXCEPT ![s].pc = "written"]
  /\ UNCHANGED <<campaign, version, approvals, entity, audit, head>>

-----------------------------------------------------------------------------
(* append_audit_event                                                      *)

\* The events of an operation.
Actions(op) ==
  CASE op.kind = "create" -> <<"CREATED">>
    [] op.kind = "approve" -> <<"APPROVED">>
    [] op.kind = "write" -> <<"WRITTEN">>
    [] op.kind = "ask" -> <<"ASKED", "WRITTEN">>

\* mutant: the event of a new version is about its campaign
About_Row(op) == op.row

About(op) == IF op.kind = "create" THEN op.version ELSE op.row

\* mutant: the audit comes first
LockHead_First(s) ==
  /\ Open(s)
  /\ session[s].head = NULL
  /\ ~ LockedByOther(s, session[s].tenant)
  /\ session' = [session EXCEPT ![s].head = head[session[s].tenant]]
  /\ UNCHANGED <<campaign, version, approvals, entity, audit, head>>

\* INSERT of a first head, SELECT ... FOR UPDATE.
LockHead(s) ==
  /\ session[s].pc = "written"
  /\ session[s].head = NULL
  /\ ~ LockedByOther(s, session[s].tenant)
  /\ session' = [session EXCEPT ![s].head = head[session[s].tenant]]
  /\ UNCHANGED <<campaign, version, approvals, entity, audit, head>>

\* The event with a fresh id that s appends next.
NextEvent(s, id) ==
  LET x == session[s] IN
  [id |-> id, tenant |-> x.tenant, no |-> x.head.no + 1, prev |-> x.head.last,
   action |-> Actions(x.op)[Len(x.log) + 1], about |-> About(x.op)]

\* mutant: the UPDATE of the head keeps the hash that was read
NewHead_OldHash(s, id) == [no |-> session[s].head.no + 1, last |-> session[s].head.last]

\* The head as s has updated it.
NewHead(s, id) == [no |-> session[s].head.no + 1, last |-> id]

\* The events s has inserted and not committed.
Appended(s) == {session[s].log[i] : i \in 1 .. Len(session[s].log)}

\* INSERT of the event, UPDATE of the head.  UNIQUE (tenant_id, sequence_no)
\* refuses a number taken; the second append of s sees the head that the first
\* one updated.
AppendEvent(s, id) ==
  /\ session[s].pc = "written" /\ session[s].head # NULL
  /\ Len(session[s].log) < Len(Actions(session[s].op))
  /\ \A e \in audit \union UNION {Appended(o) : o \in Sessions} :
       e.id # id /\ ~ (e.tenant = session[s].tenant /\ e.no = session[s].head.no + 1)
  /\ session' = [session EXCEPT ![s].log = Append(@, NextEvent(s, id)), ![s].head = NewHead(s, id)]
  /\ UNCHANGED <<campaign, version, approvals, entity, audit, head>>

-----------------------------------------------------------------------------
(* Commit, rollback                                                        *)

Commit(s) ==
  LET x == session[s]
      row == x.op.row
  IN
  /\ x.pc = "written" /\ Len(x.log) = Len(Actions(x.op))
  /\ campaign' = IF x.op.kind = "create" THEN [campaign EXCEPT ![row] = x.tenant] ELSE campaign
  /\ version' = IF x.op.kind # "create" THEN version
                ELSE [version EXCEPT ![x.op.version] =
                        [tenant |-> x.tenant, campaign |-> row, no |-> x.no, hash |-> x.op.hash]]
  /\ approvals' = IF x.op.kind = "approve" THEN [approvals EXCEPT ![row] = @ + 1] ELSE approvals
  /\ entity' = IF x.op.kind \notin {"write", "ask"} THEN entity
               ELSE [entity EXCEPT ![row] =
                       [tenant |-> x.tenant, no |-> IF @ = NULL THEN 1 ELSE @.no + 1]]
  /\ audit' = audit \union Appended(s)
  /\ head' = [head EXCEPT ![x.tenant] = x.head]
  /\ session' = [session EXCEPT ![s] = Idle]

\* mutant: the events are committed by a transaction of their own
Rollback_KeepsEvents(s) ==
  /\ Open(s)
  /\ session' = [session EXCEPT ![s] = Idle]
  /\ audit' = audit \union Appended(s)
  /\ head' = IF session[s].head = NULL THEN head
             ELSE [head EXCEPT ![session[s].tenant] = session[s].head]
  /\ UNCHANGED <<campaign, version, approvals, entity>>

\* An exception, a lost connection, a process that dies.
Rollback(s) ==
  /\ Open(s)
  /\ session' = [session EXCEPT ![s] = Idle]
  /\ UNCHANGED <<campaign, version, approvals, entity, audit, head>>

WriteStep(s) == LockRow(s) \/ NumberVersion(s) \/ InsertVersion(s)

AuditStep(s) == LockHead(s) \/ \E id \in Ids : AppendEvent(s, id)

Next ==
  \E s \in Sessions :
    \/ \E t \in Tenants, op \in Operations : Begin(s, t, op)
    \/ WriteStep(s) \/ AuditStep(s)
    \/ Commit(s) \/ Rollback(s)

Spec == Init /\ [][Next]_vars

-----------------------------------------------------------------------------
(* Properties                                                              *)

SessionTypes ==
  [pc : {"begun", "locked", "numbered", "written"}, tenant : Tenants, op : Operations,
   no : Nat, head : Heads \union {NULL}, log : Seq(Events)]

\* Types of the tables and of the open transactions.
TypeOK ==
  /\ campaign \in [Campaigns -> Tenants \union {NULL}]
  /\ version \in [Versions -> VersionRows \union {NULL}]
  /\ approvals \in [Versions -> Nat]
  /\ entity \in [Entities -> EntityRows \union {NULL}]
  /\ audit \subseteq Events
  /\ head \in [Tenants -> Heads]
  /\ session \in [Sessions -> SessionTypes \union {Idle}]

\* The chain of a tenant has one event for each number up to the head's, each
\* linked to the one before it: no gap, no fork, whoever appends at the same time
\* (spec/AUDIT_REPORT.md:42).
ChainIntact ==
  \A t \in Tenants :
    LET chain == {e \in audit : e.tenant = t} IN
    /\ \A e \in chain : e.no \in 1 .. head[t].no
    /\ \A n \in 1 .. head[t].no : \E e \in chain : e.no = n
    /\ \A e, f \in chain : e.no = f.no => e = f
    /\ \A e \in chain : IF e.no = 1 THEN e.prev = NULL
                        ELSE \E f \in chain : f.no = e.no - 1 /\ f.id = e.prev
    /\ IF head[t].no = 0 THEN head[t].last = NULL
       ELSE \E e \in chain : e.no = head[t].no /\ e.id = head[t].last

\* A number that a transaction has computed, of a version or of an event, is still
\* free when it inserts: no caller is refused because of another's number.
NumbersStayFree ==
  \A s \in Sessions :
    /\ session[s].pc = "numbered" =>
         \A v \in VersionsOf(session[s].op.row) : version[v].no # session[s].no
    /\ session[s].head # NULL =>
         \A e \in audit : e.tenant = session[s].tenant => e.no <= session[s].head.no

\* The versions of a campaign are numbered from 1 without gap or repetition, and
\* belong to the campaign's tenant.
VersionsGapless ==
  \A c \in Campaigns :
    /\ \A v \in VersionsOf(c) : version[v].tenant = campaign[c] /\ version[v].no >= 1
    /\ \A v, w \in VersionsOf(c) : version[v].no = version[w].no => v = w
    /\ \A v \in VersionsOf(c) : version[v].no > 1 =>
         \E w \in VersionsOf(c) : version[w].no = version[v].no - 1

EventsAbout(row, action) == {e \in audit : e.about = row /\ e.action = action}

\* Every change of a row is in the chain and nothing else is: one event for each
\* version, each approval and each change of an entity, and a question to a human
\* is followed at once by the change that made the run wait.
EveryChangeAudited ==
  /\ \A v \in Versions :
       /\ Cardinality(EventsAbout(v, "CREATED")) = (IF version[v] = NULL THEN 0 ELSE 1)
       /\ Cardinality(EventsAbout(v, "APPROVED")) = approvals[v]
  /\ \A x \in Entities :
       /\ Cardinality(EventsAbout(x, "WRITTEN")) = (IF entity[x] = NULL THEN 0 ELSE entity[x].no)
       /\ \A e \in EventsAbout(x, "ASKED") :
            \E f \in EventsAbout(x, "WRITTEN") : f.tenant = e.tenant /\ f.no = e.no + 1

\* A transaction waits for a lock or for a duplicate that another one holds.
Waits(s) ==
  \/ session[s].pc = "begun" /\ LockedByOther(s, session[s].op.row)
  \/ WaitsForVersion(s)
  \/ session[s].pc = "written" /\ session[s].head = NULL /\ LockedByOther(s, session[s].tenant)

\* The open transactions never all wait for each other: none has to be aborted by
\* the database's deadlock detection.
SomeoneProceeds ==
  (\E s \in Sessions : Open(s)) => \E s \in Sessions : Open(s) /\ ~ Waits(s)

=============================================================================
