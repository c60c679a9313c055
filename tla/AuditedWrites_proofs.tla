------------------------- MODULE AuditedWrites_proofs -------------------------
(***************************************************************************)
(* Proofs about AuditedWrites, for all sets of sessions, tenants,          *)
(* campaigns, versions, entities and events.                               *)
(***************************************************************************)
EXTENDS AuditedWrites, FiniteSetTheorems, TLAPS

\* s holds the lock of its row.
Locked(s) == session[s].pc \in {"locked", "numbered", "written"}

\* s is creating a version.
Creates(s) == Open(s) /\ session[s].op.kind = "create"

\* A lock has one holder; a transaction locks the chain after everything else.
LockInv ==
  /\ \A s \in Sessions :
       /\ session[s].head # NULL => session[s].pc = "written"
       /\ session[s].pc \in {"locked", "numbered"} => session[s].op.kind = "create"
  /\ \A s, o \in Sessions : s # o =>
       /\ Locked(s) /\ Locked(o) => session[s].op.row # session[o].op.row
       /\ session[s].head # NULL /\ session[o].head # NULL => session[s].tenant # session[o].tenant

\* The number that transaction x computed for a version is the next one of its
\* campaign; its version has no row yet.
Numbered(x, camp, ver) ==
  x.pc # "idle" /\ x.op.kind = "create" =>
    /\ ver[x.op.version] = NULL
    /\ x.pc \in {"locked", "numbered", "written"} => camp[x.op.row] \in {NULL, x.tenant}
    /\ x.pc \in {"numbered", "written"} =>
         /\ x.no >= 1
         /\ \A v \in Versions : ver[v] # NULL /\ ver[v].campaign = x.op.row => ver[v].no < x.no
         /\ x.no > 1 => \E w \in Versions : /\ ver[w] # NULL /\ ver[w].campaign = x.op.row
                                            /\ ver[w].no = x.no - 1

NumberInv ==
  /\ \A s \in Sessions : Numbered(session[s], campaign, version)
  /\ \A s, o \in Sessions : s # o /\ Creates(s) /\ Creates(o) =>
       session[s].op.version # session[o].op.version

\* What transaction x has appended continues the chain with head h.
Continues(x, h) ==
  /\ x.head = NULL => x.log = <<>>
  /\ x.head # NULL =>
       /\ Len(x.log) <= Len(Actions(x.op))
       /\ x.head.no = h.no + Len(x.log)
       /\ x.head.last = IF Len(x.log) = 0 THEN h.last ELSE x.log[Len(x.log)].id
       /\ \A i \in 1 .. Len(x.log) :
            /\ x.log[i].tenant = x.tenant /\ x.log[i].no = h.no + i
            /\ x.log[i].action = Actions(x.op)[i] /\ x.log[i].about = About(x.op)
            /\ x.log[i].prev = IF i = 1 THEN h.last ELSE x.log[i - 1].id

LogInv == \A s \in Sessions : Continues(session[s], head[session[s].tenant])

\* The numbers of a campaign's versions have a greatest one.
HighestInv == \A c \in Campaigns : \E n \in Numbers(c) : \A m \in Numbers(c) : m <= n

\* The inductive invariant.
IInv ==
  /\ TypeOK /\ LockInv /\ NumberInv /\ LogInv /\ HighestInv
  /\ ChainIntact /\ VersionsGapless /\ EveryChangeAudited
  /\ IsFiniteSet(audit)

-----------------------------------------------------------------------------
(* Facts about the operators                                               *)

\* The fields of an operation, by kind.
LEMMA OpCases ==
  ASSUME NEW op \in Operations
  PROVE  \/ op.kind = "create" /\ op.row \in Campaigns /\ op.version \in Versions /\ op.hash \in Hashes
         \/ op.kind = "approve" /\ op.row \in Versions /\ op.hash \in Hashes
         \/ op.kind = "write" /\ op.row \in Entities
         \/ op.kind = "ask" /\ op.row \in Entities
BY DEF Operations

\* The events of an operation, by kind, and what they are about.
LEMMA ActionCases ==
  ASSUME NEW op \in Operations
  PROVE  /\ op.kind = "create" => Actions(op) = <<"CREATED">> /\ About(op) = op.version
         /\ op.kind = "approve" => Actions(op) = <<"APPROVED">> /\ About(op) = op.row
         /\ op.kind = "write" => Actions(op) = <<"WRITTEN">> /\ About(op) = op.row
         /\ op.kind = "ask" => Actions(op) = <<"ASKED", "WRITTEN">> /\ About(op) = op.row
BY DEF Actions, About

\* Every event is about a version or an entity, and has a known action.
LEMMA ActionTypes ==
  ASSUME NEW op \in Operations, NEW n \in Nat, n < Len(Actions(op))
  PROVE  /\ Actions(op)[n + 1] \in {"CREATED", "APPROVED", "WRITTEN", "ASKED"}
         /\ About(op) \in Versions \union Entities
<1>1. CASE op.kind = "create"
  BY <1>1, OpCases, ActionCases
<1>2. CASE op.kind = "approve"
  BY <1>2, OpCases, ActionCases
<1>3. CASE op.kind = "write"
  BY <1>3, OpCases, ActionCases
<1>4. CASE op.kind = "ask"
  <2>1. n \in {0, 1}
    BY <1>4, ActionCases
  <2>. QED BY <1>4, <2>1, OpCases, ActionCases
<1>. QED BY <1>1, <1>2, <1>3, <1>4, OpCases

\* A transaction that is not idle has a tenant, an operation and a log.
LEMMA OpenTypes ==
  ASSUME TypeOK, NEW s \in Sessions, Open(s)
  PROVE  /\ session[s] \in SessionTypes
         /\ session[s].tenant \in Tenants /\ session[s].op \in Operations
         /\ session[s].no \in Nat /\ session[s].head \in Heads \union {NULL}
         /\ session[s].log \in Seq(Events)
BY DEF TypeOK, Open, Idle, SessionTypes

-----------------------------------------------------------------------------
(* Types                                                                   *)

\* Types hold initially.
LEMMA InitTypeOK == Init => TypeOK
<1>1. ASSUME Init PROVE TypeOK
  <2>1. <<>> \in Seq(Events)
    OBVIOUS
  <2>. QED BY <1>1 DEF Init, TypeOK, Heads
<1>. QED BY <1>1

\* The highest number of a campaign's versions, which is 0 without versions.
LEMMA HighestNo ==
  ASSUME TypeOK, HighestInv, NEW c \in Campaigns
  PROVE  /\ Highest(c) \in Nat
         /\ \A v \in VersionsOf(c) : version[v].no <= Highest(c)
         /\ Highest(c) # 0 => \E v \in VersionsOf(c) : version[v].no = Highest(c)
<1>1. PICK n \in Numbers(c) : \A m \in Numbers(c) : m <= n
  BY DEF HighestInv
<1>2. Highest(c) \in Numbers(c) /\ \A m \in Numbers(c) : m <= Highest(c)
  BY <1>1 DEF Highest
<1>3. \A v \in VersionsOf(c) : version[v].no \in Nat
  BY DEF VersionsOf, TypeOK, VersionRows
<1>. QED BY <1>2, <1>3 DEF Numbers

\* A transaction that can commit has locked the chain and appended all its events.
LEMMA CommitHasHead ==
  ASSUME TypeOK, LogInv, NEW s \in Sessions, Commit(s)
  PROVE  session[s].head # NULL /\ Len(session[s].log) \in {1, 2}
<1>1. session[s].op \in Operations
  BY OpenTypes DEF Commit, Open
<1>2. Len(Actions(session[s].op)) \in {1, 2}
  BY <1>1, OpCases, ActionCases
<1>3. Len(session[s].log) \in {1, 2}
  BY <1>2 DEF Commit
<1>. QED BY <1>3 DEF LogInv, Continues

\* Types are kept by every step, given what makes Highest and the logs well defined.
LEMMA NextTypeOK ==
  ASSUME TypeOK, LockInv, LogInv, HighestInv, Next
  PROVE  TypeOK'
<1>. SUFFICES ASSUME NEW s \in Sessions,
                     \/ \E t \in Tenants, op \in Operations : Begin(s, t, op)
                     \/ WriteStep(s) \/ AuditStep(s) \/ Commit(s) \/ Rollback(s)
              PROVE  TypeOK'
  BY DEF Next
<1>1. ASSUME NEW t \in Tenants, NEW op \in Operations, Begin(s, t, op) PROVE TypeOK'
  <2>1. [pc |-> "begun", tenant |-> t, op |-> op, no |-> 0, head |-> NULL, log |-> <<>>] \in SessionTypes
    BY DEF SessionTypes
  <2>. QED BY <1>1, <2>1 DEF Begin, TypeOK
<1>2. CASE LockRow(s)
  <2>1. session[s] \in SessionTypes
    BY <1>2, OpenTypes DEF LockRow, Open
  <2>2. session'[s] \in SessionTypes
    BY <1>2, <2>1 DEF LockRow, SessionTypes, TypeOK
  <2>. QED BY <1>2, <2>2 DEF LockRow, TypeOK
<1>3. CASE NumberVersion(s)
  <2>1. session[s] \in SessionTypes
    BY <1>3, OpenTypes DEF NumberVersion, Open
  <2>2. session[s].op \in Operations /\ session[s].op.kind = "create"
    BY <1>3, <2>1 DEF NumberVersion, LockInv, SessionTypes
  <2>3. session[s].op.row \in Campaigns
    BY <2>2, OpCases
  <2>4. Highest(session[s].op.row) + 1 \in Nat
    BY <2>3, HighestNo
  <2>5. session'[s] = [session[s] EXCEPT !.pc = "numbered", !.no = Highest(session[s].op.row) + 1]
    BY <1>3 DEF NumberVersion, TypeOK
  <2>6. session'[s] \in SessionTypes
    BY <2>1, <2>4, <2>5 DEF SessionTypes
  <2>. QED BY <1>3, <2>6 DEF NumberVersion, TypeOK
<1>4. CASE InsertVersion(s)
  <2>1. session[s] \in SessionTypes
    BY <1>4, OpenTypes DEF InsertVersion, Open
  <2>2. session'[s] \in SessionTypes
    BY <1>4, <2>1 DEF InsertVersion, SessionTypes, TypeOK
  <2>. QED BY <1>4, <2>2 DEF InsertVersion, TypeOK
<1>5. CASE LockHead(s)
  <2>1. session[s] \in SessionTypes
    BY <1>5, OpenTypes DEF LockHead, Open
  <2>2. session'[s] \in SessionTypes
    BY <1>5, <2>1 DEF LockHead, SessionTypes, TypeOK
  <2>. QED BY <1>5, <2>2 DEF LockHead, TypeOK
<1>6. ASSUME NEW id \in Ids, AppendEvent(s, id) PROVE TypeOK'
  <2>1. session[s] \in SessionTypes
    BY <1>6, OpenTypes DEF AppendEvent, Open
  <2> DEFINE x == session[s]
  <2>2. /\ x.tenant \in Tenants /\ x.op \in Operations /\ x.log \in Seq(Events)
        /\ x.head \in Heads /\ x.head.no + 1 \in Nat /\ x.head.last \in Ids \union {NULL}
    BY <1>6, <2>1 DEF AppendEvent, SessionTypes, Heads
  <2>3. Len(x.log) \in Nat /\ Len(x.log) < Len(Actions(x.op))
    BY <1>6, <2>2 DEF AppendEvent
  <2>4. /\ Actions(x.op)[Len(x.log) + 1] \in {"CREATED", "APPROVED", "WRITTEN", "ASKED"}
        /\ About(x.op) \in Versions \union Entities
    BY <2>2, <2>3, ActionTypes
  <2>5. NextEvent(s, id) \in Events
    BY <2>2, <2>4 DEF NextEvent, Events
  <2>6. NewHead(s, id) \in Heads
    BY <2>2 DEF NewHead, Heads
  <2>7. Append(x.log, NextEvent(s, id)) \in Seq(Events)
    BY <2>2, <2>5
  <2>8. session'[s] = [x EXCEPT !.log = Append(x.log, NextEvent(s, id)), !.head = NewHead(s, id)]
    BY <1>6 DEF AppendEvent, TypeOK
  <2>9. session'[s] \in SessionTypes
    BY <2>1, <2>6, <2>7, <2>8 DEF SessionTypes
  <2>. QED BY <1>6, <2>9 DEF AppendEvent, TypeOK
<1>7. CASE Commit(s)
  <2> DEFINE x == session[s]
  <2>1. /\ x \in SessionTypes /\ x.pc = "written" /\ x.tenant \in Tenants /\ x.op \in Operations
        /\ x.no \in Nat /\ x.log \in Seq(Events) /\ x.head \in Heads \union {NULL}
    BY <1>7, OpenTypes DEF Commit, Open
  <2>2. x.head \in Heads
    BY <1>7, <2>1, CommitHasHead
  <2>3. campaign' \in [Campaigns -> Tenants \union {NULL}]
    BY <1>7, <2>1, OpCases DEF Commit, TypeOK
  <2>4. version' \in [Versions -> VersionRows \union {NULL}]
    <3>1. CASE x.op.kind = "create"
      <4>1. [tenant |-> x.tenant, campaign |-> x.op.row, no |-> x.no, hash |-> x.op.hash] \in VersionRows
        BY <2>1, <3>1, OpCases DEF VersionRows
      <4>. QED BY <1>7, <3>1, <4>1 DEF Commit, TypeOK
    <3>2. CASE x.op.kind # "create"
      BY <1>7, <3>2 DEF Commit, TypeOK
    <3>. QED BY <3>1, <3>2
  <2>5. approvals' \in [Versions -> Nat]
    BY <1>7, <2>1, OpCases DEF Commit, TypeOK
  <2>6. entity' \in [Entities -> EntityRows \union {NULL}]
    <3>1. CASE x.op.kind \in {"write", "ask"}
      <4>1. x.op.row \in Entities /\ entity[x.op.row] \in EntityRows \union {NULL}
        BY <2>1, <3>1, OpCases DEF TypeOK
      <4>2. [tenant |-> x.tenant, no |-> IF entity[x.op.row] = NULL THEN 1 ELSE entity[x.op.row].no + 1]
              \in EntityRows
        BY <2>1, <4>1 DEF EntityRows
      <4>. QED BY <1>7, <3>1, <4>1, <4>2 DEF Commit, TypeOK
    <3>2. CASE x.op.kind \notin {"write", "ask"}
      BY <1>7, <3>2 DEF Commit, TypeOK
    <3>. QED BY <3>1, <3>2
  <2>7. audit' \subseteq Events
    BY <1>7, <2>1 DEF Commit, Appended, TypeOK
  <2>8. head' \in [Tenants -> Heads]
    BY <1>7, <2>2 DEF Commit, TypeOK
  <2>9. session' \in [Sessions -> SessionTypes \union {Idle}]
    BY <1>7 DEF Commit, TypeOK
  <2>. QED BY <2>3, <2>4, <2>5, <2>6, <2>7, <2>8, <2>9 DEF TypeOK
<1>8. CASE Rollback(s)
  BY <1>8 DEF Rollback, TypeOK
<1>. QED BY <1>1, <1>2, <1>3, <1>4, <1>5, <1>6, <1>7, <1>8 DEF WriteStep, AuditStep

-----------------------------------------------------------------------------
(* Steps of a transaction before it ends                                   *)

\* Everything but the open transactions.
tables == <<campaign, version, approvals, entity, audit, head>>

\* What s does until it commits or rolls back: the tables stay as they are.
Works(s) ==
  \/ \E t \in Tenants, op \in Operations : Begin(s, t, op)
  \/ LockRow(s) \/ NumberVersion(s) \/ InsertVersion(s)
  \/ LockHead(s) \/ \E id \in Ids : AppendEvent(s, id)

\* A step changes one transaction and, if that commits, the tables.
LEMMA StepCases ==
  ASSUME TypeOK, NEW s \in Sessions, Works(s) \/ Rollback(s)
  PROVE  UNCHANGED tables /\ \A o \in Sessions \ {s} : session'[o] = session[o]
BY DEF Works, Rollback, tables, TypeOK, Begin, LockRow, NumberVersion, InsertVersion, LockHead,
       AppendEvent

\* What is said of the tables alone holds as long as they stay as they are.
LEMMA TablesInv ==
  ASSUME ChainIntact, VersionsGapless, EveryChangeAudited, HighestInv, IsFiniteSet(audit),
         UNCHANGED tables
  PROVE  (ChainIntact /\ VersionsGapless /\ EveryChangeAudited /\ HighestInv /\ IsFiniteSet(audit))'
<1>1. ChainIntact'
  BY DEF tables, ChainIntact
<1>2. VersionsGapless'
  BY DEF tables, VersionsGapless, VersionsOf
<1>3. EveryChangeAudited'
  BY DEF tables, EveryChangeAudited, EventsAbout
<1>4. HighestInv'
  BY DEF tables, HighestInv, Numbers, VersionsOf
<1>. QED BY <1>1, <1>2, <1>3, <1>4 DEF tables

\* Nobody else holds a row that s may lock.
LEMMA NotHeld ==
  ASSUME NEW s \in Sessions, NEW row, ~ LockedByOther(s, row), NEW o \in Sessions \ {s}
  PROVE  /\ Locked(o) => session[o].op.row # row
         /\ session[o].head # NULL => session[o].tenant # row
BY DEF LockedByOther, Holds, Locked

\* A lock is taken only when nobody has it.
LEMMA WorksLockInv ==
  ASSUME TypeOK, LockInv, NEW s \in Sessions, Works(s) \/ Rollback(s)
  PROVE  LockInv'
<1> USE DEF LockInv, Locked
<1>1. \A o \in Sessions \ {s} : session'[o] = session[o]
  BY StepCases
<1>2. ASSUME NEW t \in Tenants, NEW op \in Operations, Begin(s, t, op) PROVE LockInv'
  <2>1. session'[s].pc = "begun" /\ session'[s].head = NULL
    BY <1>2 DEF Begin, TypeOK
  <2>. QED BY <1>1, <2>1
<1>3. CASE LockRow(s)
  <2>1. /\ session'[s].pc = (IF session[s].op.kind = "create" THEN "locked" ELSE "written")
        /\ session'[s].op = session[s].op /\ session'[s].head = session[s].head
        /\ session'[s].tenant = session[s].tenant /\ session[s].pc = "begun"
    BY <1>3, OpenTypes DEF LockRow, TypeOK, Open, SessionTypes
  <2>2. \A o \in Sessions \ {s} : Locked(o) => session[o].op.row # session[s].op.row
    BY <1>3, NotHeld DEF LockRow
  <2>. QED BY <1>1, <2>1, <2>2
<1>4. CASE NumberVersion(s) \/ InsertVersion(s)
  <2>1. /\ session'[s].pc \in {"numbered", "written"}
        /\ session'[s].op = session[s].op /\ session'[s].head = session[s].head
        /\ session'[s].tenant = session[s].tenant /\ session[s].pc \in {"locked", "numbered"}
    BY <1>4, OpenTypes DEF NumberVersion, InsertVersion, TypeOK, Open, SessionTypes
  <2>. QED BY <1>1, <2>1
<1>5. CASE LockHead(s)
  <2>1. /\ session'[s].pc = "written" /\ session[s].pc = "written"
        /\ session'[s].op = session[s].op /\ session'[s].tenant = session[s].tenant
    BY <1>5, OpenTypes DEF LockHead, TypeOK, Open, SessionTypes
  <2>2. \A o \in Sessions \ {s} : session[o].head # NULL => session[o].tenant # session[s].tenant
    BY <1>5, NotHeld DEF LockHead
  <2>. QED BY <1>1, <2>1, <2>2
<1>6. ASSUME NEW id \in Ids, AppendEvent(s, id) PROVE LockInv'
  <2>1. /\ session'[s].pc = "written" /\ session[s].pc = "written" /\ session[s].head # NULL
        /\ session'[s].op = session[s].op /\ session'[s].tenant = session[s].tenant
    BY <1>6, OpenTypes DEF AppendEvent, TypeOK, Open, SessionTypes
  <2>. QED BY <1>1, <2>1
<1>7. CASE Rollback(s)
  <2>1. session'[s].pc = "idle" /\ session'[s].head = NULL
    BY <1>7 DEF Rollback, TypeOK, Idle
  <2>. QED BY <1>1, <2>1
<1>. QED BY <1>2, <1>3, <1>4, <1>5, <1>6, <1>7 DEF Works

\* A number stays right while its transaction works: the row of its campaign is locked.
LEMMA WorksNumberInv ==
  ASSUME TypeOK, LockInv, NumberInv, HighestInv, NEW s \in Sessions, Works(s) \/ Rollback(s)
  PROVE  NumberInv'
<1>1. /\ campaign' = campaign /\ version' = version
      /\ \A o \in Sessions \ {s} : session'[o] = session[o]
  BY StepCases DEF tables
<1>2. SUFFICES /\ Numbered(session'[s], campaign, version)
               /\ Creates(s)' => \A o \in Sessions \ {s} :
                    Creates(o) => session[o].op.version # session'[s].op.version
  <2>1. \A o \in Sessions : Numbered(session'[o], campaign, version)
    BY <1>1, <1>2 DEF NumberInv
  <2>2. \A o \in Sessions \ {s} : Creates(o)' <=> Creates(o)
    BY <1>1 DEF Creates, Open
  <2>3. \A p, o \in Sessions : p # o /\ Creates(p)' /\ Creates(o)' =>
          session'[p].op.version # session'[o].op.version
    BY <1>1, <1>2, <2>2 DEF NumberInv
  <2>. QED BY <1>1, <2>1, <2>3 DEF NumberInv
<1>3. ASSUME Creates(s)' => Creates(s) /\ session'[s].op = session[s].op
      PROVE  Creates(s)' => \A o \in Sessions \ {s} :
               Creates(o) => session[o].op.version # session'[s].op.version
  BY <1>3 DEF NumberInv
<1>4. CASE \E t \in Tenants, op \in Operations : Begin(s, t, op)
  <2>1. PICK t \in Tenants, op \in Operations : Begin(s, t, op)
    BY <1>4
  <2>2. session'[s].pc = "begun" /\ session'[s].op = op
    BY <2>1 DEF Begin, TypeOK
  <2>3. op.kind = "create" =>
          /\ version[op.version] = NULL
          /\ \A o \in Sessions : Creates(o) => session[o].op.version # op.version
    BY <2>1 DEF Begin, Creates
  <2>. QED BY <2>2, <2>3 DEF Numbered, Creates
<1>5. CASE LockRow(s)
  <2>1. /\ session[s].pc = "begun" /\ session'[s].op = session[s].op
        /\ session'[s].tenant = session[s].tenant
        /\ session'[s].pc = (IF session[s].op.kind = "create" THEN "locked" ELSE "written")
    BY <1>5 DEF LockRow, TypeOK, SessionTypes, Idle
  <2>2. session[s].op.kind = "create" =>
          /\ campaign[session[s].op.row] \in {NULL, session[s].tenant}
          /\ version[session[s].op.version] = NULL
    BY <1>5, <2>1, OpenTypes, OpCases DEF LockRow, Acceptable, NumberInv, Numbered, Open
  <2>3. Numbered(session'[s], campaign, version)
    BY <2>1, <2>2 DEF Numbered
  <2>. QED BY <1>3, <2>1, <2>3 DEF Creates, Open
<1>6. CASE NumberVersion(s)
  <2>1. /\ session[s].pc = "locked" /\ session'[s].op = session[s].op
        /\ session'[s].tenant = session[s].tenant /\ session'[s].pc = "numbered"
        /\ session'[s].no = Highest(session[s].op.row) + 1
    BY <1>6 DEF NumberVersion, TypeOK, SessionTypes, Idle
  <2>2. session[s].op.row \in Campaigns /\ session[s].op.kind = "create"
    BY <2>1, OpenTypes, OpCases DEF Open, LockInv
  <2> DEFINE c == session[s].op.row
             top == Highest(c)
  <2>3. /\ top \in Nat
        /\ \A v \in VersionsOf(c) : version[v].no <= top
        /\ top # 0 => \E v \in VersionsOf(c) : version[v].no = top
    BY <2>2, HighestNo
  <2>4. \A v \in VersionsOf(c) : version[v].no \in Nat
    BY DEF VersionsOf, TypeOK, VersionRows
  <2> HIDE DEF top
  <2>5. top + 1 >= 1 /\ (top + 1 > 1 => top # 0) /\ (top + 1) - 1 = top
    BY <2>3
  <2>6. \A v \in VersionsOf(c) : version[v].no < top + 1
    BY <2>3, <2>4
  <2>7. /\ version[session[s].op.version] = NULL
        /\ campaign[c] \in {NULL, session[s].tenant}
    BY <2>1, <2>2 DEF NumberInv, Numbered
  <2>8. session'[s].no = top + 1
    BY <2>1 DEF top
  <2>9. Numbered(session'[s], campaign, version)
    BY <2>1, <2>3, <2>5, <2>6, <2>7, <2>8 DEF Numbered, VersionsOf
  <2>. QED BY <1>3, <2>1, <2>2, <2>9 DEF Creates, Open
<1>7. CASE InsertVersion(s) \/ LockHead(s) \/ \E id \in Ids : AppendEvent(s, id)
  <2>1. session[s].pc \in {"numbered", "written"}
    BY <1>7 DEF InsertVersion, LockHead, AppendEvent
  <2>2. session[s] \in SessionTypes
    BY <2>1, OpenTypes DEF Open
  <2>3. /\ session'[s].pc = "written" /\ session'[s].op = session[s].op
        /\ session'[s].no = session[s].no /\ session'[s].tenant = session[s].tenant
    <3>1. CASE InsertVersion(s)
      BY <2>2, <3>1 DEF InsertVersion, TypeOK, SessionTypes
    <3>2. CASE LockHead(s)
      BY <2>2, <3>2 DEF LockHead, TypeOK, SessionTypes
    <3>3. ASSUME NEW id \in Ids, AppendEvent(s, id)
          PROVE  /\ session'[s].pc = "written" /\ session'[s].op = session[s].op
                 /\ session'[s].no = session[s].no /\ session'[s].tenant = session[s].tenant
      BY <2>2, <3>3 DEF AppendEvent, TypeOK, SessionTypes
    <3>. QED BY <1>7, <3>1, <3>2, <3>3
  <2>4. Numbered(session[s], campaign, version)
    BY DEF NumberInv
  <2>5. Numbered(session'[s], campaign, version)
    BY <2>1, <2>3, <2>4 DEF Numbered
  <2>. QED BY <1>3, <2>1, <2>3, <2>5 DEF Creates, Open
<1>8. CASE Rollback(s)
  <2>1. session'[s].pc = "idle"
    BY <1>8 DEF Rollback, TypeOK, Idle
  <2>. QED BY <2>1 DEF Creates, Open, Numbered
<1>. QED BY <1>4, <1>5, <1>6, <1>7, <1>8 DEF Works

\* Each append continues the one before it, the first one the committed chain.
LEMMA WorksLogInv ==
  ASSUME TypeOK, LockInv, LogInv, NEW s \in Sessions, Works(s) \/ Rollback(s)
  PROVE  LogInv'
<1>1. head' = head /\ \A o \in Sessions \ {s} : session'[o] = session[o]
  BY StepCases DEF tables
<1>2. \A o \in Sessions \ {s} : Continues(session'[o], head[session'[o].tenant])
  BY <1>1 DEF LogInv
<1>3. Continues(session'[s], head[session'[s].tenant])
  <2>1. CASE \E t \in Tenants, op \in Operations : Begin(s, t, op)
    <3>1. session'[s].head = NULL /\ session'[s].log = <<>>
      BY <2>1 DEF Begin, TypeOK
    <3>. QED BY <3>1 DEF Continues
  <2>2. CASE LockRow(s) \/ NumberVersion(s) \/ InsertVersion(s)
    <3>1. /\ session[s].pc # "written" /\ session'[s].head = session[s].head
          /\ session'[s].log = session[s].log
      BY <2>2 DEF LockRow, NumberVersion, InsertVersion, TypeOK, SessionTypes, Idle
    <3>2. session[s].head = NULL /\ Continues(session[s], head[session[s].tenant])
      BY <3>1 DEF LogInv, LockInv
    <3>. QED BY <3>1, <3>2 DEF Continues
  <2>3. CASE LockHead(s)
    <3>1. /\ session[s].head = NULL /\ session'[s].head = head[session[s].tenant]
          /\ session'[s].log = session[s].log /\ session'[s].op = session[s].op
          /\ session'[s].tenant = session[s].tenant
      BY <2>3, OpenTypes DEF LockHead, TypeOK, SessionTypes, Open
    <3>2. session'[s].log = <<>>
      BY <3>1 DEF LogInv, Continues
    <3>3. session[s].op \in Operations /\ Len(Actions(session[s].op)) >= 0
      BY <2>3, OpenTypes, OpCases, ActionCases DEF LockHead, Open
    <3>4. head[session[s].tenant] \in Heads
      BY <2>3, OpenTypes DEF LockHead, Open, TypeOK
    <3>5. head[session[s].tenant].no = head[session[s].tenant].no + 0
      BY <3>4 DEF Heads
    <3>. QED BY <3>1, <3>2, <3>3, <3>5 DEF Continues
  <2>4. ASSUME NEW id \in Ids, AppendEvent(s, id) PROVE Continues(session'[s], head[session'[s].tenant])
    <3> DEFINE x == session[s]
               n == Len(x.log)
    <3>1. /\ x.log \in Seq(Events) /\ n \in Nat /\ x.head \in Heads /\ x.head # NULL /\ n < Len(Actions(x.op))
          /\ x.op \in Operations /\ x.tenant \in Tenants /\ head[x.tenant] \in Heads
      BY <2>4, OpenTypes DEF AppendEvent, Open, TypeOK
    <3>2. /\ session'[s].op = x.op /\ session'[s].tenant = x.tenant
          /\ session'[s].log = Append(x.log, NextEvent(s, id)) /\ session'[s].head = NewHead(s, id)
      BY <2>4, OpenTypes DEF AppendEvent, Open, TypeOK, SessionTypes
    <3>3. /\ x.head.no = head[x.tenant].no + n
          /\ x.head.last = IF n = 0 THEN head[x.tenant].last ELSE x.log[n].id
          /\ \A i \in 1 .. n :
               /\ x.log[i].tenant = x.tenant /\ x.log[i].no = head[x.tenant].no + i
               /\ x.log[i].action = Actions(x.op)[i] /\ x.log[i].about = About(x.op)
               /\ x.log[i].prev = IF i = 1 THEN head[x.tenant].last ELSE x.log[i - 1].id
      BY <3>1 DEF LogInv, Continues
    <3> DEFINE log == Append(x.log, NextEvent(s, id))
    <3>4. NextEvent(s, id) \in Events
      <4>1. x.head.no + 1 \in Nat /\ x.head.last \in Ids \union {NULL}
        BY <3>1 DEF Heads
      <4>2. /\ Actions(x.op)[n + 1] \in {"CREATED", "APPROVED", "WRITTEN", "ASKED"}
            /\ About(x.op) \in Versions \union Entities
        BY <3>1, ActionTypes
      <4>. QED BY <3>1, <4>1, <4>2 DEF NextEvent, Events
    <3>5. Len(log) = n + 1 /\ log[n + 1] = NextEvent(s, id) /\ \A i \in 1 .. n : log[i] = x.log[i]
      BY <3>1, <3>4
    <3>6. /\ NextEvent(s, id).tenant = x.tenant /\ NextEvent(s, id).no = head[x.tenant].no + (n + 1)
          /\ NextEvent(s, id).action = Actions(x.op)[n + 1] /\ NextEvent(s, id).about = About(x.op)
          /\ NextEvent(s, id).prev = IF n = 0 THEN head[x.tenant].last ELSE x.log[n].id
          /\ NextEvent(s, id).id = id
      BY <3>1, <3>3 DEF NextEvent, Heads
    <3>7. \A i \in 1 .. n + 1 :
            /\ log[i].tenant = x.tenant /\ log[i].no = head[x.tenant].no + i
            /\ log[i].action = Actions(x.op)[i] /\ log[i].about = About(x.op)
            /\ log[i].prev = IF i = 1 THEN head[x.tenant].last ELSE log[i - 1].id
      <4> TAKE i \in 1 .. n + 1
      <4>1. CASE i = n + 1
        BY <3>1, <3>5, <3>6, <4>1
      <4>2. CASE i \in 1 .. n
        <5>1. i # 1 => i - 1 \in 1 .. n
          BY <3>1, <4>2
        <5>. QED BY <3>3, <3>5, <4>2, <5>1
      <4>. QED BY <3>1, <4>1, <4>2
    <3>8. NewHead(s, id) = [no |-> head[x.tenant].no + (n + 1), last |-> id]
      BY <3>1, <3>3 DEF NewHead, Heads
    <3>9. n + 1 <= Len(Actions(x.op))
      <4>1. Len(Actions(x.op)) \in Nat
        BY <3>1, OpCases, ActionCases
      <4>. QED BY <3>1, <4>1
    <3>10. session'[s].head # NULL /\ n + 1 # 0
      <4>1. NewHead(s, id) \in Heads
        BY <3>1 DEF NewHead, Heads
      <4>. QED BY <3>1, <3>2, <4>1, AuditAssumption
    <3> HIDE DEF log
    <3>11. session'[s].log = log
      BY <3>2 DEF log
    <3>12. log[n + 1].id = id
      BY <3>5, <3>6
    <3>13. /\ session'[s].head.no = head[x.tenant].no + (n + 1)
           /\ session'[s].head.last = id
      BY <3>2, <3>8
    <3>. QED BY <3>2, <3>5, <3>7, <3>9, <3>10, <3>11, <3>12, <3>13 DEF Continues
  <2>5. CASE Rollback(s)
    <3>1. session'[s].head = NULL /\ session'[s].log = <<>>
      BY <2>5 DEF Rollback, TypeOK, Idle
    <3>. QED BY <3>1 DEF Continues
  <2>. QED BY <2>1, <2>2, <2>3, <2>4, <2>5 DEF Works
<1>. QED BY <1>1, <1>2, <1>3 DEF LogInv

-----------------------------------------------------------------------------
(* Commits                                                                 *)

\* What a commit reads of its transaction: it holds its row and the chain, and has
\* appended all its events.
LEMMA Committing ==
  ASSUME IInv, NEW s \in Sessions, Commit(s)
  PROVE  /\ session[s].pc = "written" /\ session[s] \in SessionTypes
         /\ session[s].tenant \in Tenants /\ session[s].op \in Operations
         /\ session[s].no \in Nat /\ session[s].log \in Seq(Events)
         /\ session[s].head # NULL /\ session[s].head \in Heads
         /\ Len(session[s].log) = Len(Actions(session[s].op)) /\ Len(session[s].log) \in {1, 2}
         /\ Continues(session[s], head[session[s].tenant])
         /\ session'[s] = Idle
         /\ \A o \in Sessions \ {s} : session'[o] = session[o]
<1>1. session[s] \in SessionTypes
  BY OpenTypes DEF Commit, Open, IInv
<1>2. session[s].head # NULL /\ Len(session[s].log) \in {1, 2}
  BY CommitHasHead DEF IInv
<1>3. Continues(session[s], head[session[s].tenant])
  BY DEF IInv, LogInv
<1>. QED BY <1>1, <1>2, <1>3 DEF Commit, IInv, TypeOK, SessionTypes

\* A commit gives up the locks.
LEMMA CommitLockInv ==
  ASSUME IInv, NEW s \in Sessions, Commit(s)
  PROVE  LockInv'
<1>1. /\ session'[s].pc = "idle" /\ session'[s].head = NULL
      /\ \A o \in Sessions \ {s} : session'[o] = session[o]
  BY Committing DEF Idle
<1>. QED BY <1>1 DEF IInv, LockInv, Locked

\* The other transactions hold other rows, and their numbers are of other campaigns.
LEMMA CommitNumberInv ==
  ASSUME IInv, NEW s \in Sessions, Commit(s)
  PROVE  NumberInv'
<1> DEFINE x == session[s]
<1>1. /\ x.pc = "written" /\ x.op \in Operations /\ session'[s].pc = "idle"
      /\ \A o \in Sessions \ {s} : session'[o] = session[o]
  BY Committing DEF Idle
<1>2. \A o \in Sessions : Creates(o)' => o # s /\ Creates(o)
  BY <1>1 DEF Creates, Open
<1>3. ASSUME NEW o \in Sessions PROVE Numbered(session'[o], campaign', version')
  <2>1. CASE o = s
    BY <1>1, <2>1 DEF Numbered
  <2>2. CASE o # s /\ ~ Creates(o)
    BY <1>1, <2>2 DEF Numbered, Creates, Open
  <2>3. CASE o # s /\ Creates(o) /\ x.op.kind # "create"
    <3>1. campaign' = campaign /\ version' = version
      BY <2>3 DEF Commit
    <3>. QED BY <1>1, <2>3, <3>1 DEF IInv, NumberInv
  <2>4. CASE o # s /\ Creates(o) /\ x.op.kind = "create"
    <3> DEFINE y == session[o]
    <3>1. x.op.row \in Campaigns /\ x.op.version \in Versions
      BY <1>1, <2>4, OpCases
    <3>2. y.op.version # x.op.version /\ version[x.op.version] = NULL
      BY <1>1, <2>4 DEF IInv, NumberInv, Numbered, Creates, Open
    <3>3. /\ version'[x.op.version].campaign = x.op.row
          /\ \A v \in Versions \ {x.op.version} : version'[v] = version[v]
      BY <2>4, <3>1 DEF Commit, IInv, TypeOK
    <3>4. \A c \in Campaigns \ {x.op.row} : campaign'[c] = campaign[c]
      BY <2>4, <3>1 DEF Commit, IInv, TypeOK
    <3>5. y.op \in Operations /\ y.op.row \in Campaigns /\ y.op.version \in Versions
      BY <2>4, OpenTypes, OpCases DEF Creates, IInv
    <3>6. Locked(o) => y.op.row # x.op.row
      BY <1>1, <2>4 DEF IInv, LockInv, Locked
    <3>7. Numbered(y, campaign, version)
      BY DEF IInv, NumberInv
    <3>8. y.pc \in {"locked", "numbered", "written"} => \A v \in Versions :
            /\ version'[v] # NULL /\ version'[v].campaign = y.op.row
                 <=> version[v] # NULL /\ version[v].campaign = y.op.row
            /\ version'[v] # NULL /\ version'[v].campaign = y.op.row => version'[v] = version[v]
      BY <3>2, <3>3, <3>6 DEF Locked
    <3>9. Numbered(y, campaign', version')
      BY <2>4, <3>2, <3>3, <3>4, <3>5, <3>6, <3>7, <3>8 DEF Numbered, Locked
    <3>. QED BY <1>1, <2>4, <3>9
  <2>. QED BY <2>1, <2>2, <2>3, <2>4
<1>4. \A p, o \in Sessions : p # o /\ Creates(p)' /\ Creates(o)' =>
        session'[p].op.version # session'[o].op.version
  BY <1>1, <1>2 DEF IInv, NumberInv
<1>. QED BY <1>3, <1>4 DEF NumberInv

\* The other transactions that hold a chain hold another tenant's.
LEMMA CommitLogInv ==
  ASSUME IInv, NEW s \in Sessions, Commit(s)
  PROVE  LogInv'
<1> DEFINE x == session[s]
<1>1. /\ x.head # NULL /\ x.tenant \in Tenants /\ session'[s] = Idle
      /\ \A o \in Sessions \ {s} : session'[o] = session[o]
  BY Committing
<1>2. \A t \in Tenants \ {x.tenant} : head'[t] = head[t]
  BY <1>1 DEF Commit, IInv, TypeOK
<1>3. ASSUME NEW o \in Sessions
      PROVE  Continues(session'[o], head'[session'[o].tenant])
  <2>1. CASE o = s
    BY <1>1, <2>1 DEF Continues, Idle
  <2>2. CASE o # s /\ session[o].head = NULL
    <3>1. Continues(session[o], head[session[o].tenant])
      BY DEF IInv, LogInv
    <3>. QED BY <1>1, <2>2, <3>1 DEF Continues
  <2>3. CASE o # s /\ session[o].head # NULL
    <3>1. session[o].tenant \in Tenants \ {x.tenant}
      BY <1>1, <2>3, OpenTypes DEF IInv, LockInv, Open
    <3>2. Continues(session[o], head[session[o].tenant])
      BY DEF IInv, LogInv
    <3>. QED BY <1>1, <1>2, <2>3, <3>1, <3>2
  <2>. QED BY <2>1, <2>2, <2>3
<1>. QED BY <1>3 DEF LogInv

\* The version that a commit makes visible has the next number of its campaign.
LEMMA CommitVersions ==
  ASSUME IInv, NEW s \in Sessions, Commit(s)
  PROVE  VersionsGapless' /\ HighestInv'
<1> DEFINE x == session[s]
<1>1. x.pc = "written" /\ x.op \in Operations /\ x.tenant \in Tenants /\ x.no \in Nat
  BY Committing
<1>2. CASE x.op.kind # "create"
  <2>1. campaign' = campaign /\ version' = version
    BY <1>2 DEF Commit
  <2>2. VersionsGapless'
    BY <2>1 DEF IInv, VersionsGapless, VersionsOf
  <2>3. HighestInv'
    BY <2>1 DEF IInv, HighestInv, Numbers, VersionsOf
  <2>. QED BY <2>2, <2>3
<1>3. CASE x.op.kind = "create"
  <2>1. PICK c \in Campaigns, new \in Versions, hash \in Hashes :
          c = x.op.row /\ new = x.op.version /\ hash = x.op.hash
    BY <1>1, <1>3, OpCases
  <2> DEFINE row == [tenant |-> x.tenant, campaign |-> c, no |-> x.no, hash |-> hash]
  <2>2. /\ version[new] = NULL /\ campaign[c] \in {NULL, x.tenant} /\ x.no >= 1
        /\ \A v \in VersionsOf(c) : version[v].no < x.no
        /\ x.no > 1 => \E w \in VersionsOf(c) : version[w].no = x.no - 1
    BY <1>1, <1>3, <2>1 DEF IInv, NumberInv, Numbered, VersionsOf
  <2>3. /\ campaign' = [campaign EXCEPT ![c] = x.tenant]
        /\ version' = [version EXCEPT ![new] = row]
    BY <1>3, <2>1 DEF Commit
  <2>4. campaign'[c] = x.tenant /\ \A d \in Campaigns \ {c} : campaign'[d] = campaign[d]
    BY <2>1, <2>3 DEF IInv, TypeOK
  <2>5. row # NULL
    <3>1. row \in VersionRows
      BY <1>1, <2>1 DEF VersionRows
    <3>. QED BY <3>1, AuditAssumption
  <2>6. version'[new] = row /\ \A v \in Versions \ {new} : version'[v] = version[v]
    BY <2>1, <2>3 DEF IInv, TypeOK
  <2>7. /\ VersionsOf(c)' = VersionsOf(c) \union {new} /\ new \notin VersionsOf(c)
        /\ \A d \in Campaigns \ {c} : VersionsOf(d)' = VersionsOf(d) /\ new \notin VersionsOf(d)
    BY <2>1, <2>2, <2>5, <2>6 DEF VersionsOf
  <2>8. \A d : \A v \in VersionsOf(d) : version[v].no \in Nat /\ version[v].tenant # NULL
    BY AuditAssumption DEF IInv, TypeOK, VersionsOf, VersionRows
  <2>9. ASSUME NEW d \in Campaigns
        PROVE  /\ \A v \in VersionsOf(d)' : version'[v].tenant = campaign'[d] /\ version'[v].no >= 1
               /\ \A v, w \in VersionsOf(d)' : version'[v].no = version'[w].no => v = w
               /\ \A v \in VersionsOf(d)' : version'[v].no > 1 =>
                    \E w \in VersionsOf(d)' : version'[w].no = version'[v].no - 1
    <3>1. /\ \A v \in VersionsOf(d) : version[v].tenant = campaign[d] /\ version[v].no >= 1
          /\ \A v, w \in VersionsOf(d) : version[v].no = version[w].no => v = w
          /\ \A v \in VersionsOf(d) : version[v].no > 1 =>
               \E w \in VersionsOf(d) : version[w].no = version[v].no - 1
      BY DEF IInv, VersionsGapless
    <3>2. \A v \in VersionsOf(d) : version'[v] = version[v] /\ v # new
      BY <2>6, <2>7 DEF VersionsOf
    <3>3. CASE d # c
      BY <2>4, <2>7, <3>1, <3>2, <3>3
    <3>4. CASE d = c
      <4>1. \A v \in VersionsOf(c) : version[v].tenant = x.tenant
        BY <2>2, <2>8, <3>1, <3>4
      <4>2. version'[new].tenant = x.tenant /\ version'[new].no = x.no
        BY <2>6
      <4>3. \A v \in VersionsOf(c) : version'[v].no = version[v].no /\ version[v].no # x.no
        BY <1>1, <2>2, <2>8, <3>2, <3>4
      <4>4. \A v \in VersionsOf(c)' : version'[v].tenant = campaign'[c] /\ version'[v].no >= 1
        BY <2>2, <2>4, <2>7, <3>1, <3>2, <3>4, <4>1, <4>2
      <4>5. \A v, w \in VersionsOf(c)' : version'[v].no = version'[w].no => v = w
        BY <2>7, <3>1, <3>4, <4>2, <4>3
      <4>6. \A v \in VersionsOf(c)' : version'[v].no > 1 =>
              \E w \in VersionsOf(c)' : version'[w].no = version'[v].no - 1
        BY <2>2, <2>7, <3>1, <3>4, <4>2, <4>3
      <4>. QED BY <3>4, <4>4, <4>5, <4>6
    <3>. QED BY <3>3, <3>4
  <2>10. VersionsGapless'
    BY <2>9 DEF VersionsGapless
  <2>11. ASSUME NEW d \in Campaigns
         PROVE  \E n \in Numbers(d)' : \A m \in Numbers(d)' : m <= n
    <3>1. \A v \in VersionsOf(d) : version'[v] = version[v]
      BY <2>6, <2>7 DEF VersionsOf
    <3>2. CASE d # c
      <4>1. Numbers(d)' = Numbers(d)
        BY <2>7, <3>1, <3>2 DEF Numbers
      <4>. QED BY <4>1 DEF IInv, HighestInv
    <3>3. CASE d = c
      <4>1. x.no \in Numbers(c)'
        BY <2>6, <2>7 DEF Numbers
      <4>2. \A m \in Numbers(c)' : m <= x.no
        BY <1>1, <2>2, <2>6, <2>7, <2>8, <3>1, <3>3 DEF Numbers
      <4>. QED BY <3>3, <4>1, <4>2
    <3>. QED BY <3>2, <3>3
  <2>. QED BY <2>10, <2>11 DEF HighestInv
<1>. QED BY <1>2, <1>3

\* The events of a commit extend the chain of its tenant; no other chain changes.
LEMMA CommitChain ==
  ASSUME IInv, NEW s \in Sessions, Commit(s)
  PROVE  ChainIntact'
<1> DEFINE x == session[s]
           log == x.log
           n == Len(log)
           h == head[x.tenant]
           Chain(t) == {e \in audit : e.tenant = t}
<1>1. /\ x.tenant \in Tenants /\ log \in Seq(Events) /\ x.head # NULL /\ x.head \in Heads /\ n \in {1, 2}
      /\ Continues(x, h)
  BY Committing
<1>2. /\ x.head.no = h.no + n /\ x.head.last = log[n].id
      /\ \A i \in 1 .. n :
           /\ log[i].tenant = x.tenant /\ log[i].no = h.no + i
           /\ log[i].prev = IF i = 1 THEN h.last ELSE log[i - 1].id
  <2>1. /\ x.head.no = h.no + n /\ x.head.last = IF n = 0 THEN h.last ELSE log[n].id
        /\ \A i \in 1 .. n :
             /\ log[i].tenant = x.tenant /\ log[i].no = h.no + i
             /\ log[i].prev = IF i = 1 THEN h.last ELSE log[i - 1].id
    BY <1>1 DEF Continues
  <2>2. n # 0
    <3> HIDE DEF n
    <3>1. n \in {1, 2}
      BY <1>1
    <3>. QED BY <3>1
  <2>. QED BY <2>1, <2>2
<1>3. h \in Heads /\ h.no \in Nat
  BY <1>1 DEF IInv, TypeOK, Heads
<1>4. audit' = audit \union {log[i] : i \in 1 .. n} /\ head' = [head EXCEPT ![x.tenant] = x.head]
  BY DEF Commit, Appended
<1>5. head'[x.tenant] = x.head /\ \A t \in Tenants \ {x.tenant} : head'[t] = head[t]
  BY <1>1, <1>4 DEF IInv, TypeOK
<1>6. ASSUME NEW t \in Tenants
      PROVE  /\ \A e \in Chain(t) : e.no \in 1 .. head[t].no
             /\ \A m \in 1 .. head[t].no : \E e \in Chain(t) : e.no = m
             /\ \A e, f \in Chain(t) : e.no = f.no => e = f
             /\ \A e \in Chain(t) : IF e.no = 1 THEN e.prev = NULL
                                   ELSE \E f \in Chain(t) : f.no = e.no - 1 /\ f.id = e.prev
             /\ IF head[t].no = 0 THEN head[t].last = NULL
                ELSE \E e \in Chain(t) : e.no = head[t].no /\ e.id = head[t].last
  BY DEF IInv, ChainIntact
<1> DEFINE Grown(t) == {e \in audit' : e.tenant = t}
<1>7. SUFFICES ASSUME NEW t \in Tenants
               PROVE  /\ \A e \in Grown(t) : e.no \in 1 .. head'[t].no
                      /\ \A m \in 1 .. head'[t].no : \E e \in Grown(t) : e.no = m
                      /\ \A e, f \in Grown(t) : e.no = f.no => e = f
                      /\ \A e \in Grown(t) : IF e.no = 1 THEN e.prev = NULL
                                            ELSE \E f \in Grown(t) : f.no = e.no - 1 /\ f.id = e.prev
                      /\ IF head'[t].no = 0 THEN head'[t].last = NULL
                         ELSE \E e \in Grown(t) : e.no = head'[t].no /\ e.id = head'[t].last
  BY DEF ChainIntact
<1>8. CASE t # x.tenant
  <2>1. Grown(t) = Chain(t)
    BY <1>2, <1>4, <1>8
  <2>. QED BY <1>5, <1>6, <1>8, <2>1
<1>9. CASE t = x.tenant
  <2> DEFINE Old == Chain(x.tenant)
             Ours == Grown(x.tenant)
  <2>1. Ours = Old \union {log[i] : i \in 1 .. n}
    BY <1>2, <1>4
  <2>2. /\ \A e \in Old : e.no \in 1 .. h.no
        /\ \A m \in 1 .. h.no : \E e \in Old : e.no = m
        /\ \A e, f \in Old : e.no = f.no => e = f
        /\ \A e \in Old : IF e.no = 1 THEN e.prev = NULL
                          ELSE \E f \in Old : f.no = e.no - 1 /\ f.id = e.prev
        /\ IF h.no = 0 THEN h.last = NULL ELSE \E e \in Old : e.no = h.no /\ e.id = h.last
    BY <1>1, <1>6
  <2>3. head'[t] = x.head /\ x.head.no = h.no + n /\ x.head.last = log[n].id
    BY <1>2, <1>5, <1>9
  <2> HIDE DEF n, h, log, Old, Ours
  <2>4. \A e \in Ours : e.no \in 1 .. h.no + n
    <3>1. \A e \in Old : e.no \in 1 .. h.no + n
      BY <1>1, <1>3, <2>2
    <3>2. \A i \in 1 .. n : log[i].no \in 1 .. h.no + n
      BY <1>1, <1>2, <1>3
    <3>. QED BY <2>1, <3>1, <3>2
  <2>5. \A m \in 1 .. h.no + n : \E e \in Ours : e.no = m
    <3> TAKE m \in 1 .. h.no + n
    <3>1. CASE m \in 1 .. h.no
      BY <2>1, <2>2, <3>1
    <3>2. CASE m \notin 1 .. h.no
      <4>1. m - h.no \in 1 .. n /\ h.no + (m - h.no) = m
        BY <1>1, <1>3, <3>2
      <4>2. log[m - h.no] \in Ours /\ log[m - h.no].no = m
        BY <1>2, <2>1, <4>1
      <4>. QED BY <4>2
    <3>. QED BY <3>1, <3>2
  <2>6. \A e, f \in Ours : e.no = f.no => e = f
    <3>1. \A e \in Old : \A i \in 1 .. n : e.no # log[i].no
      BY <1>1, <1>2, <1>3, <2>2
    <3>2. \A i, j \in 1 .. n : log[i].no = log[j].no => i = j
      BY <1>1, <1>2, <1>3
    <3>. QED BY <2>1, <2>2, <3>1, <3>2
  <2>7. \A e \in Ours : IF e.no = 1 THEN e.prev = NULL
                        ELSE \E f \in Ours : f.no = e.no - 1 /\ f.id = e.prev
    <3>1. \A e \in Old : IF e.no = 1 THEN e.prev = NULL
                         ELSE \E f \in Ours : f.no = e.no - 1 /\ f.id = e.prev
      BY <2>1, <2>2
    <3>2. IF log[1].no = 1 THEN log[1].prev = NULL
          ELSE \E f \in Ours : f.no = log[1].no - 1 /\ f.id = log[1].prev
      <4>1. 1 \in 1 .. n /\ log[1].no = h.no + 1 /\ log[1].prev = h.last
        BY <1>1, <1>2
      <4>2. log[1].no = 1 <=> h.no = 0
        BY <1>3, <4>1
      <4>3. log[1].no - 1 = h.no
        BY <1>3, <4>1
      <4>. QED BY <2>1, <2>2, <4>1, <4>2, <4>3
    <3>3. \A i \in 1 .. n : i # 1 =>
            /\ log[i].no # 1 /\ log[i - 1] \in Ours
            /\ log[i - 1].no = log[i].no - 1 /\ log[i - 1].id = log[i].prev
      <4> TAKE i \in 1 .. n
      <4> HAVE i # 1
      <4>1. i - 1 \in 1 .. n /\ i = 2
        BY <1>1
      <4>2. /\ log[i].no = h.no + i /\ log[i - 1].no = h.no + (i - 1)
            /\ log[i].prev = log[i - 1].id
        BY <1>2, <4>1
      <4>. QED BY <1>3, <2>1, <4>1, <4>2
    <3>. QED BY <2>1, <3>1, <3>2, <3>3
  <2>8. h.no + n # 0 /\ log[n] \in Ours /\ log[n].no = h.no + n
    <3>1. n \in 1 .. n
      BY <1>1
    <3>. QED BY <1>1, <1>2, <1>3, <2>1, <3>1
  <2>. QED BY <1>9, <2>3, <2>4, <2>5, <2>6, <2>7, <2>8 DEF Ours
<1>. QED BY <1>8, <1>9

\* The events of S about a row with an action.
Of(S, row, action) == {e \in S : e.about = row /\ e.action = action}

\* T is S with an event that is not in it.
Added(S, e, T) == T = S \union {e} /\ e \notin S

\* How many there are when an event is added.
LEMMA Counting ==
  ASSUME NEW S, IsFiniteSet(S), NEW e, NEW T, Added(S, e, T)
  PROVE  /\ IsFiniteSet(T)
         /\ \A row, action :
              /\ Of(S, row, action) \subseteq Of(T, row, action)
              /\ e.about = row /\ e.action = action =>
                   /\ Of(T, row, action) = Of(S, row, action) \union {e}
                   /\ Cardinality(Of(T, row, action)) = Cardinality(Of(S, row, action)) + 1
              /\ e.about # row \/ e.action # action => Of(T, row, action) = Of(S, row, action)
<1>1. IsFiniteSet(T) /\ T = S \union {e} /\ e \notin S
  BY FS_AddElement DEF Added
<1>2. SUFFICES ASSUME NEW row, NEW action
               PROVE  /\ Of(S, row, action) \subseteq Of(T, row, action)
                      /\ e.about = row /\ e.action = action =>
                           /\ Of(T, row, action) = Of(S, row, action) \union {e}
                           /\ Cardinality(Of(T, row, action)) = Cardinality(Of(S, row, action)) + 1
                      /\ e.about # row \/ e.action # action => Of(T, row, action) = Of(S, row, action)
  BY <1>1
<1>3. Of(S, row, action) \subseteq S /\ e \notin Of(S, row, action)
  BY <1>1 DEF Of
<1>4. IsFiniteSet(Of(S, row, action))
  BY <1>3, FS_Subset
<1>5. e.about = row /\ e.action = action => Of(T, row, action) = Of(S, row, action) \union {e}
  BY <1>1 DEF Of
<1>6. Cardinality(Of(S, row, action) \union {e}) = Cardinality(Of(S, row, action)) + 1
  BY <1>3, <1>4, FS_AddElement
<1>7. e.about # row \/ e.action # action => Of(T, row, action) = Of(S, row, action)
  BY <1>1 DEF Of
<1>. QED BY <1>1, <1>3, <1>5, <1>6, <1>7

\* A commit adds the events it has appended, which are new, one for each change it
\* makes.
LEMMA CommitAudited ==
  ASSUME IInv, NEW s \in Sessions, Commit(s)
  PROVE  EveryChangeAudited' /\ IsFiniteSet(audit')
<1> DEFINE x == session[s]
<1>1. /\ x.pc = "written" /\ x.op \in Operations /\ x.tenant \in Tenants /\ x.no \in Nat
      /\ x.head # NULL /\ Len(x.log) = Len(Actions(x.op)) /\ Continues(x, head[x.tenant])
  BY Committing
<1>2. \A i \in 1 .. Len(x.log) :
        /\ x.log[i].tenant = x.tenant /\ x.log[i].no = head[x.tenant].no + i
        /\ x.log[i].action = Actions(x.op)[i] /\ x.log[i].about = About(x.op)
  BY <1>1 DEF Continues
<1>3. head[x.tenant].no \in Nat
  BY <1>1 DEF IInv, TypeOK, Heads
<1>4. \A e \in audit : e.tenant = x.tenant => e.no \in 1 .. head[x.tenant].no
  BY <1>1 DEF IInv, ChainIntact
<1>5. \A i \in 1 .. Len(x.log) : x.log[i] \notin audit
  <2> TAKE i \in 1 .. Len(x.log)
  <2>1. x.log[i].tenant = x.tenant /\ x.log[i].no = head[x.tenant].no + i
    BY <1>2
  <2>2. head[x.tenant].no + i \notin 1 .. head[x.tenant].no
    BY <1>3
  <2>. QED BY <1>4, <2>1, <2>2
<1>6. /\ \A v \in Versions :
           /\ Cardinality(Of(audit, v, "CREATED")) = (IF version[v] = NULL THEN 0 ELSE 1)
           /\ Cardinality(Of(audit, v, "APPROVED")) = approvals[v]
      /\ \A z \in Entities :
           /\ Cardinality(Of(audit, z, "WRITTEN")) = (IF entity[z] = NULL THEN 0 ELSE entity[z].no)
           /\ \A e \in Of(audit, z, "ASKED") :
                \E f \in Of(audit, z, "WRITTEN") : f.tenant = e.tenant /\ f.no = e.no + 1
  BY DEF IInv, EveryChangeAudited, EventsAbout, Of
<1>7. SUFFICES
        /\ IsFiniteSet(audit')
        /\ \A v \in Versions :
             /\ Cardinality(Of(audit', v, "CREATED")) = (IF version'[v] = NULL THEN 0 ELSE 1)
             /\ Cardinality(Of(audit', v, "APPROVED")) = approvals'[v]
        /\ \A z \in Entities :
             /\ Cardinality(Of(audit', z, "WRITTEN")) = (IF entity'[z] = NULL THEN 0 ELSE entity'[z].no)
             /\ \A e \in Of(audit', z, "ASKED") :
                  \E f \in Of(audit', z, "WRITTEN") : f.tenant = e.tenant /\ f.no = e.no + 1
  BY DEF EveryChangeAudited, EventsAbout, Of
<1>8. IsFiniteSet(audit) /\ \A v \in Versions, z \in Entities : v # z
  BY AuditAssumption DEF IInv, Rows
<1>9. ASSUME x.op.kind \in {"create", "approve", "write"}
      PROVE  \E e : /\ Added(audit, e, audit')
                    /\ e.about = About(x.op) /\ e.action = Actions(x.op)[1]
  <2>1. Len(x.log) = 1
    BY <1>1, <1>9, ActionCases
  <2>2. audit' = audit \union {x.log[1]}
    BY <2>1 DEF Commit, Appended
  <2>. QED BY <1>2, <1>5, <2>1, <2>2 DEF Added
<1>10. CASE x.op.kind = "create"
  <2>1. PICK new \in Versions : new = x.op.version
    BY <1>1, <1>10, OpCases
  <2>2. PICK e : /\ Added(audit, e, audit')
                 /\ e.about = new /\ e.action = "CREATED"
    BY <1>1, <1>9, <1>10, <2>1, ActionCases
  <2>3. approvals' = approvals /\ entity' = entity /\ version[new] = NULL
    BY <1>1, <1>10, <2>1 DEF Commit, IInv, NumberInv, Numbered
  <2>4. version'[new] # NULL /\ \A v \in Versions \ {new} : version'[v] = version[v]
    <3>1. [tenant |-> x.tenant, campaign |-> x.op.row, no |-> x.no, hash |-> x.op.hash] \in VersionRows
      BY <1>1, <1>10, OpCases DEF VersionRows
    <3>. QED BY <1>10, <2>1, <3>1, AuditAssumption DEF Commit, IInv, TypeOK
  <2>5. /\ IsFiniteSet(audit')
        /\ Cardinality(Of(audit', new, "CREATED")) = Cardinality(Of(audit, new, "CREATED")) + 1
        /\ \A r, a : /\ Of(audit, r, a) \subseteq Of(audit', r, a)
                     /\ r # new \/ a # "CREATED" => Of(audit', r, a) = Of(audit, r, a)
    <3>1. /\ IsFiniteSet(audit')
          /\ \A r, a :
               /\ Of(audit, r, a) \subseteq Of(audit', r, a)
               /\ e.about = r /\ e.action = a =>
                    /\ Of(audit', r, a) = Of(audit, r, a) \union {e}
                    /\ Cardinality(Of(audit', r, a)) = Cardinality(Of(audit, r, a)) + 1
               /\ e.about # r \/ e.action # a => Of(audit', r, a) = Of(audit, r, a)
      BY <1>8, <2>2, Counting
    <3>. QED BY <2>2, <3>1
  <2>6. ASSUME NEW v \in Versions
        PROVE  Cardinality(Of(audit', v, "CREATED")) = (IF version'[v] = NULL THEN 0 ELSE 1)
    <3>1. CASE v = new
      BY <1>6, <2>3, <2>4, <2>5, <3>1
    <3>2. CASE v # new
      BY <1>6, <2>4, <2>5, <3>2
    <3>. QED BY <3>1, <3>2
  <2>7. \A r : /\ Of(audit', r, "APPROVED") = Of(audit, r, "APPROVED")
               /\ Of(audit', r, "WRITTEN") = Of(audit, r, "WRITTEN")
               /\ Of(audit', r, "ASKED") = Of(audit, r, "ASKED")
    BY <2>5
  <2>. QED BY <1>6, <2>3, <2>5, <2>6, <2>7
<1>11. CASE x.op.kind = "approve"
  <2>1. PICK row \in Versions : row = x.op.row
    BY <1>1, <1>11, OpCases
  <2>2. PICK e : /\ Added(audit, e, audit')
                 /\ e.about = row /\ e.action = "APPROVED"
    BY <1>1, <1>9, <1>11, <2>1, ActionCases
  <2>3. version' = version /\ entity' = entity
    BY <1>11 DEF Commit
  <2>4. approvals'[row] = approvals[row] + 1 /\ \A v \in Versions \ {row} : approvals'[v] = approvals[v]
    BY <1>11, <2>1 DEF Commit, IInv, TypeOK
  <2>5. /\ IsFiniteSet(audit')
        /\ Cardinality(Of(audit', row, "APPROVED")) = Cardinality(Of(audit, row, "APPROVED")) + 1
        /\ \A r, a : /\ Of(audit, r, a) \subseteq Of(audit', r, a)
                     /\ r # row \/ a # "APPROVED" => Of(audit', r, a) = Of(audit, r, a)
    <3>1. /\ IsFiniteSet(audit')
          /\ \A r, a :
               /\ Of(audit, r, a) \subseteq Of(audit', r, a)
               /\ e.about = r /\ e.action = a =>
                    /\ Of(audit', r, a) = Of(audit, r, a) \union {e}
                    /\ Cardinality(Of(audit', r, a)) = Cardinality(Of(audit, r, a)) + 1
               /\ e.about # r \/ e.action # a => Of(audit', r, a) = Of(audit, r, a)
      BY <1>8, <2>2, Counting
    <3>. QED BY <2>2, <3>1
  <2>6. ASSUME NEW v \in Versions
        PROVE  Cardinality(Of(audit', v, "APPROVED")) = approvals'[v]
    <3>1. CASE v = row
      BY <1>6, <2>4, <2>5, <3>1
    <3>2. CASE v # row
      BY <1>6, <2>4, <2>5, <3>2
    <3>. QED BY <3>1, <3>2
  <2>7. \A r : /\ Of(audit', r, "CREATED") = Of(audit, r, "CREATED")
               /\ Of(audit', r, "WRITTEN") = Of(audit, r, "WRITTEN")
               /\ Of(audit', r, "ASKED") = Of(audit, r, "ASKED")
    BY <2>5
  <2>. QED BY <1>6, <2>3, <2>5, <2>6, <2>7
<1>12. ASSUME x.op.kind \in {"write", "ask"}
       PROVE  \E row \in Entities :
                /\ row = x.op.row /\ row = About(x.op)
                /\ entity'[row] # NULL /\ \A z \in Entities \ {row} : entity'[z] = entity[z]
                /\ entity'[row].no = (IF entity[row] = NULL THEN 0 ELSE entity[row].no) + 1
                /\ version' = version /\ approvals' = approvals
  <2>1. PICK row \in Entities : row = x.op.row /\ row = About(x.op)
    BY <1>1, <1>12, OpCases, ActionCases
  <2> DEFINE new == [tenant |-> x.tenant, no |-> IF entity[row] = NULL THEN 1 ELSE entity[row].no + 1]
  <2>2. entity' = [entity EXCEPT ![row] = new]
    BY <1>12, <2>1 DEF Commit, IInv, TypeOK
  <2>3. new \in EntityRows
    BY <1>1, <2>1 DEF EntityRows, IInv, TypeOK
  <2>4. entity'[row] = new /\ new # NULL /\ \A z \in Entities \ {row} : entity'[z] = entity[z]
    BY <2>2, <2>3, AuditAssumption DEF IInv, TypeOK
  <2>5. version' = version /\ approvals' = approvals
    BY <1>12 DEF Commit
  <2>6. new.no = (IF entity[row] = NULL THEN 0 ELSE entity[row].no) + 1
    OBVIOUS
  <2>. QED BY <2>1, <2>4, <2>5, <2>6
<1>13. CASE x.op.kind = "write"
  <2>1. PICK row \in Entities :
          /\ row = x.op.row /\ row = About(x.op)
          /\ entity'[row] # NULL /\ \A z \in Entities \ {row} : entity'[z] = entity[z]
          /\ entity'[row].no = (IF entity[row] = NULL THEN 0 ELSE entity[row].no) + 1
          /\ version' = version /\ approvals' = approvals
    BY <1>12, <1>13
  <2>2. PICK e : /\ Added(audit, e, audit')
                 /\ e.about = row /\ e.action = "WRITTEN"
    BY <1>1, <1>9, <1>13, <2>1, ActionCases
  <2>3. /\ IsFiniteSet(audit')
        /\ Cardinality(Of(audit', row, "WRITTEN")) = Cardinality(Of(audit, row, "WRITTEN")) + 1
        /\ \A r, a : /\ Of(audit, r, a) \subseteq Of(audit', r, a)
                     /\ r # row \/ a # "WRITTEN" => Of(audit', r, a) = Of(audit, r, a)
    <3>1. /\ IsFiniteSet(audit')
          /\ \A r, a :
               /\ Of(audit, r, a) \subseteq Of(audit', r, a)
               /\ e.about = r /\ e.action = a =>
                    /\ Of(audit', r, a) = Of(audit, r, a) \union {e}
                    /\ Cardinality(Of(audit', r, a)) = Cardinality(Of(audit, r, a)) + 1
               /\ e.about # r \/ e.action # a => Of(audit', r, a) = Of(audit, r, a)
      BY <1>8, <2>2, Counting
    <3>. QED BY <2>2, <3>1
  <2>4. ASSUME NEW z \in Entities
        PROVE  /\ Cardinality(Of(audit', z, "WRITTEN")) = (IF entity'[z] = NULL THEN 0 ELSE entity'[z].no)
               /\ Of(audit, z, "WRITTEN") \subseteq Of(audit', z, "WRITTEN")
    <3>1. CASE z = row
      BY <1>6, <1>8, <2>1, <2>3, <3>1
    <3>2. CASE z # row
      BY <1>6, <1>8, <2>1, <2>3, <3>2
    <3>. QED BY <3>1, <3>2
  <2>5. \A r : /\ Of(audit', r, "APPROVED") = Of(audit, r, "APPROVED")
               /\ Of(audit', r, "CREATED") = Of(audit, r, "CREATED")
               /\ Of(audit', r, "ASKED") = Of(audit, r, "ASKED")
    BY <2>3
  <2>. QED BY <1>6, <2>1, <2>3, <2>4, <2>5
<1>14. CASE x.op.kind = "ask"
  <2>1. PICK row \in Entities :
          /\ row = x.op.row /\ row = About(x.op)
          /\ entity'[row] # NULL /\ \A z \in Entities \ {row} : entity'[z] = entity[z]
          /\ entity'[row].no = (IF entity[row] = NULL THEN 0 ELSE entity[row].no) + 1
          /\ version' = version /\ approvals' = approvals
    BY <1>12, <1>14
  <2>2. Len(x.log) = 2 /\ Actions(x.op) = <<"ASKED", "WRITTEN">>
    BY <1>1, <1>14, ActionCases
  <2>3. PICK q, e :
          /\ q = x.log[1] /\ e = x.log[2]
          /\ q.about = row /\ q.action = "ASKED" /\ e.about = row /\ e.action = "WRITTEN"
          /\ e.tenant = q.tenant /\ e.no = q.no + 1
    <3>1. 1 \in 1 .. Len(x.log) /\ 2 \in 1 .. Len(x.log)
      BY <2>2
    <3>. QED BY <1>2, <1>3, <2>1, <2>2, <3>1
  <2>4. audit' = (audit \union {q}) \union {e}
    <3>1. 1 .. 2 = {1, 2}
      OBVIOUS
    <3>. QED BY <2>2, <2>3, <3>1 DEF Commit, Appended
  <2>5. q \notin audit /\ e \notin audit \union {q}
    BY <1>5, <2>2, <2>3
  <2>6. PICK mid : Added(audit, q, mid) /\ Added(mid, e, audit')
    BY <2>4, <2>5 DEF Added
  <2>7. /\ IsFiniteSet(mid)
        /\ \A r, a : /\ r = row /\ a = "ASKED" => Of(mid, r, a) = Of(audit, r, a) \union {q}
                     /\ r # row \/ a # "ASKED" => Of(mid, r, a) = Of(audit, r, a)
    <3>1. /\ IsFiniteSet(mid)
          /\ \A r, a :
               /\ Of(audit, r, a) \subseteq Of(mid, r, a)
               /\ q.about = r /\ q.action = a =>
                    /\ Of(mid, r, a) = Of(audit, r, a) \union {q}
                    /\ Cardinality(Of(mid, r, a)) = Cardinality(Of(audit, r, a)) + 1
               /\ q.about # r \/ q.action # a => Of(mid, r, a) = Of(audit, r, a)
      BY <1>8, <2>6, Counting
    <3>. QED BY <2>3, <3>1
  <2>8. /\ IsFiniteSet(audit')
        /\ e \in Of(audit', row, "WRITTEN")
        /\ Cardinality(Of(audit', row, "WRITTEN")) = Cardinality(Of(mid, row, "WRITTEN")) + 1
        /\ \A r, a : /\ Of(mid, r, a) \subseteq Of(audit', r, a)
                     /\ r # row \/ a # "WRITTEN" => Of(audit', r, a) = Of(mid, r, a)
    <3>1. /\ IsFiniteSet(audit')
          /\ \A r, a :
               /\ Of(mid, r, a) \subseteq Of(audit', r, a)
               /\ e.about = r /\ e.action = a =>
                    /\ Of(audit', r, a) = Of(mid, r, a) \union {e}
                    /\ Cardinality(Of(audit', r, a)) = Cardinality(Of(mid, r, a)) + 1
               /\ e.about # r \/ e.action # a => Of(audit', r, a) = Of(mid, r, a)
      BY <2>6, <2>7, Counting
    <3>. QED BY <2>3, <3>1
  <2>9. \A r : /\ Of(audit', r, "APPROVED") = Of(audit, r, "APPROVED")
               /\ Of(audit', r, "CREATED") = Of(audit, r, "CREATED")
               /\ Of(audit', r, "ASKED") = Of(audit, r, "ASKED") \union (IF r = row THEN {q} ELSE {})
    BY <2>7, <2>8
  <2>10. ASSUME NEW z \in Entities
         PROVE  /\ Cardinality(Of(audit', z, "WRITTEN")) = (IF entity'[z] = NULL THEN 0 ELSE entity'[z].no)
                /\ Of(audit, z, "WRITTEN") \subseteq Of(audit', z, "WRITTEN")
                /\ z = row => e \in Of(audit', z, "WRITTEN")
    <3>1. CASE z = row
      BY <1>6, <2>1, <2>7, <2>8, <3>1
    <3>2. CASE z # row
      BY <1>6, <2>1, <2>7, <2>8, <3>2
    <3>. QED BY <3>1, <3>2
  <2>11. ASSUME NEW z \in Entities, NEW a \in Of(audit', z, "ASKED")
         PROVE  \E f \in Of(audit', z, "WRITTEN") : f.tenant = a.tenant /\ f.no = a.no + 1
    <3>1. CASE a \in Of(audit, z, "ASKED")
      BY <1>6, <2>10, <3>1
    <3>2. CASE a = q /\ z = row
      BY <2>3, <2>10, <3>2
    <3>. QED BY <2>9, <3>1, <3>2
  <2>. QED BY <1>6, <2>1, <2>8, <2>9, <2>10, <2>11
<1>. QED BY <1>1, <1>10, <1>11, <1>13, <1>14, OpCases

-----------------------------------------------------------------------------
(* The invariant                                                           *)

\* Nothing is open, no row exists, every chain is empty.
LEMMA InitIInv == Init => IInv
<1>. SUFFICES ASSUME Init PROVE IInv
  OBVIOUS
<1>1. /\ \A s \in Sessions : session[s] = Idle
      /\ \A v \in Versions : version[v] = NULL /\ approvals[v] = 0
      /\ \A x \in Entities : entity[x] = NULL
      /\ audit = {} /\ \A t \in Tenants : head[t] = [no |-> 0, last |-> NULL]
  BY DEF Init
<1>2. LockInv /\ NumberInv /\ LogInv
  BY <1>1 DEF LockInv, NumberInv, LogInv, Idle, Locked, Creates, Open, Numbered, Continues
<1>3. \A c : VersionsOf(c) = {}
  BY <1>1 DEF VersionsOf
<1>4. HighestInv
  BY <1>3 DEF HighestInv, Numbers
<1>5. VersionsGapless
  BY <1>3 DEF VersionsGapless
<1>6. ChainIntact
  BY <1>1 DEF ChainIntact
<1>7. EveryChangeAudited /\ IsFiniteSet(audit)
  <2>1. \A row, action : EventsAbout(row, action) = {}
    BY <1>1 DEF EventsAbout
  <2>. QED BY <1>1, <2>1, FS_EmptySet DEF EveryChangeAudited
<1>. QED BY <1>2, <1>4, <1>5, <1>6, <1>7, InitTypeOK DEF IInv

\* Every step keeps the invariant.
LEMMA NextIInv == IInv /\ [Next]_vars => IInv'
<1>. SUFFICES ASSUME IInv, [Next]_vars PROVE IInv'
  OBVIOUS
<1>1. CASE UNCHANGED vars
  <2>1. UNCHANGED tables /\ session' = session
    BY <1>1 DEF vars, tables
  <2>2. TypeOK'
    BY <2>1 DEF tables, IInv, TypeOK
  <2>3. LockInv'
    BY <2>1 DEF IInv, LockInv, Locked
  <2>4. NumberInv' /\ LogInv'
    BY <2>1 DEF tables, IInv, NumberInv, LogInv, Creates, Open
  <2>. QED BY <2>1, <2>2, <2>3, <2>4, TablesInv DEF IInv
<1>2. CASE Next
  <2>1. TypeOK'
    BY <1>2, NextTypeOK DEF IInv
  <2>2. PICK s \in Sessions : Works(s) \/ Rollback(s) \/ Commit(s)
    BY <1>2 DEF Next, Works, WriteStep, AuditStep
  <2>3. CASE Works(s) \/ Rollback(s)
    <3>1. LockInv' /\ NumberInv' /\ LogInv'
      BY <2>3, WorksLockInv, WorksNumberInv, WorksLogInv DEF IInv
    <3>2. UNCHANGED tables
      BY <2>3, StepCases DEF IInv
    <3>. QED BY <2>1, <3>1, <3>2, TablesInv DEF IInv
  <2>4. CASE Commit(s)
    BY <2>1, <2>4, CommitLockInv, CommitNumberInv, CommitLogInv, CommitVersions, CommitChain,
       CommitAudited DEF IInv
  <2>. QED BY <2>2, <2>3, <2>4
<1>. QED BY <1>1, <1>2

\* The invariant holds in every reachable state.
THEOREM InvariantHolds == Spec => []IInv
BY InitIInv, NextIInv, PTL DEF Spec

\* Tables and transactions keep their types.
THEOREM TypeCorrect == Spec => []TypeOK
<1>1. IInv => TypeOK
  BY DEF IInv
<1>. QED BY <1>1, InvariantHolds, PTL

\* append_audit_event never forks a chain or leaves a gap in it.
THEOREM ChainHolds == Spec => []ChainIntact
<1>1. IInv => ChainIntact
  BY DEF IInv
<1>. QED BY <1>1, InvariantHolds, PTL

\* The versions of a campaign are numbered without gap, and in its tenant.
THEOREM VersionsNumbered == Spec => []VersionsGapless
<1>1. IInv => VersionsGapless
  BY DEF IInv
<1>. QED BY <1>1, InvariantHolds, PTL

\* A change and its event are committed together or not at all.
THEOREM ChangesAudited == Spec => []EveryChangeAudited
<1>1. IInv => EveryChangeAudited
  BY DEF IInv
<1>. QED BY <1>1, InvariantHolds, PTL

\* No number computed under a lock is taken before it is used.
THEOREM NumbersFree == Spec => []NumbersStayFree
<1>1. ASSUME IInv PROVE NumbersStayFree
  <2>1. ASSUME NEW s \in Sessions, session[s].pc = "numbered"
        PROVE  \A v \in VersionsOf(session[s].op.row) : version[v].no # session[s].no
    <3>1. session[s].op.kind = "create" /\ session[s].no \in Nat
      BY <1>1, <2>1, OpenTypes DEF IInv, LockInv, Open
    <3>2. \A v \in VersionsOf(session[s].op.row) : version[v].no < session[s].no
      BY <1>1, <2>1, <3>1 DEF IInv, NumberInv, Numbered, VersionsOf
    <3>3. \A v \in VersionsOf(session[s].op.row) : version[v].no \in Nat
      BY <1>1 DEF IInv, TypeOK, VersionsOf, VersionRows
    <3>. QED BY <3>1, <3>2, <3>3
  <2>2. ASSUME NEW s \in Sessions, session[s].head # NULL
        PROVE  \A e \in audit : e.tenant = session[s].tenant => e.no <= session[s].head.no
    <3>1. session[s].tenant \in Tenants /\ session[s].log \in Seq(Events)
      BY <1>1, <2>2, OpenTypes DEF IInv, Open, LockInv
    <3>2. Len(session[s].log) \in Nat /\ head[session[s].tenant].no \in Nat
      BY <1>1, <3>1 DEF IInv, TypeOK, Heads
    <3>3. session[s].head.no = head[session[s].tenant].no + Len(session[s].log)
      BY <1>1, <2>2 DEF IInv, LogInv, Continues
    <3>4. \A e \in audit : e.tenant = session[s].tenant => e.no \in 1 .. head[session[s].tenant].no
      BY <1>1, <3>1 DEF IInv, ChainIntact
    <3>. QED BY <3>2, <3>3, <3>4
  <2>. QED BY <2>1, <2>2 DEF NumbersStayFree
<1>. QED BY <1>1, InvariantHolds, PTL

\* Locks are taken in one order, the chain's last: whoever has the most waits for
\* nobody.
THEOREM NoCircularWait == Spec => []SomeoneProceeds
<1>1. ASSUME IInv PROVE SomeoneProceeds
  <2>. SUFFICES ASSUME NEW s \in Sessions, Open(s)
                PROVE  \E o \in Sessions : Open(o) /\ ~ Waits(o)
    BY DEF SomeoneProceeds
  <2>1. \A o \in Sessions : Open(o) => session[o].op.row \in Rows /\ session[o].tenant \in Tenants
    BY <1>1, OpenTypes, OpCases DEF IInv, Rows
  <2>2. \A o \in Sessions : session[o].head # NULL => session[o].pc = "written"
    BY <1>1 DEF IInv, LockInv
  <2>3. CASE \E o \in Sessions : session[o].head # NULL
    <3>1. PICK o \in Sessions : session[o].head # NULL
      BY <2>3
    <3>2. Open(o) /\ ~ Waits(o)
      BY <2>2, <3>1 DEF Open, Waits, WaitsForVersion
    <3>. QED BY <3>2
  <2>4. CASE (\A p \in Sessions : session[p].head = NULL) /\ \E o \in Sessions : session[o].pc = "written"
    <3>1. PICK o \in Sessions : session[o].pc = "written"
      BY <2>4
    <3>2. Open(o) /\ session[o].tenant \notin Rows
      BY <2>1, <3>1, AuditAssumption DEF Open
    <3>3. ~ LockedByOther(o, session[o].tenant)
      BY <2>1, <2>4, <3>2 DEF LockedByOther, Holds, Open
    <3>. QED BY <3>1, <3>2, <3>3 DEF Waits, WaitsForVersion
  <2>5. CASE (\A p \in Sessions : session[p].pc # "written")
             /\ \E o \in Sessions : session[o].pc \in {"locked", "numbered"}
    <3>1. PICK o \in Sessions : session[o].pc \in {"locked", "numbered"}
      BY <2>5
    <3>2. Open(o) /\ ~ Waits(o)
      BY <2>5, <3>1 DEF Open, Waits, WaitsForVersion
    <3>. QED BY <3>2
  <2>6. CASE \A p \in Sessions : session[p].pc \notin {"written", "locked", "numbered"}
    <3>1. \A p \in Sessions : session[p].head = NULL
      BY <2>2, <2>6
    <3>2. ~ Waits(s)
      BY <2>6, <3>1 DEF Waits, WaitsForVersion, LockedByOther, Holds
    <3>. QED BY <3>2
  <2>. QED BY <2>2, <2>3, <2>4, <2>5, <2>6
<1>. QED BY <1>1, InvariantHolds, PTL

=============================================================================
