------------------------- MODULE SalesWorkflow_proofs -------------------------
(***************************************************************************)
(* The inductive invariant of SalesWorkflow, and from it the properties of *)
(* the module for every set of runs, events, actions and sessions, and the *)
(* refinement of SalesRun.                                                 *)
(***************************************************************************)
EXTENDS SalesWorkflow, FiniteSetTheorems, TLAPS

\* The state a session may write: the first one, or the next after the latest.
Follows(r, state) ==
  \/ graph_run[r] = NULL /\ state.no = 0
  \/ graph_run[r] # NULL /\ state.no = Latest(r).no

Numbered(state) == [state EXCEPT !.no = state.no + 1]

\* A checkpoint numbered after the latest becomes the latest, and leaves the
\* checkpoints of its run without gap or repetition (_checkpoint).
LEMMA CheckpointAppends ==
  ASSUME TypeOK, CheckpointsRestorable, LatestInv, PhaseInv,
         NEW r \in Runs, NEW state \in States, Follows(r, state),
         Checkpoint(r, state)
  PROVE  /\ graph_checkpoint' \in [Runs -> SUBSET States]
         /\ graph_checkpoint'[r] = graph_checkpoint[r] \union {Numbered(state)}
         /\ Numbered(state) \in States
         /\ Numbered(state) \notin graph_checkpoint[r]
         /\ Latest(r)' = Numbered(state)
         /\ \A b \in graph_checkpoint'[r] : b.no <= Numbered(state).no
         /\ Restorable(r)'
<1> DEFINE n == Numbered(state)
<1>1. /\ n \in States /\ n.no = state.no + 1 /\ state.no \in Nat
      /\ n.stage = state.stage /\ n.status = state.status
  BY DEF States, Numbered
<1>2. /\ graph_checkpoint'[r] = graph_checkpoint[r] \union {n}
      /\ graph_run'[r] = [stage |-> state.stage, status |-> state.status]
      /\ graph_checkpoint' \in [Runs -> SUBSET States]
  BY <1>1 DEF Checkpoint, TypeOK, Numbered
<1>3. \A b \in graph_checkpoint[r] : b.no \in Nat /\ b.no >= 1 /\ b.no <= state.no
  <2>1. CASE graph_run[r] = NULL
    BY <2>1 DEF PhaseInv, Phase
  <2>2. CASE graph_run[r] # NULL
    BY <2>2 DEF Follows, LatestInv, CheckpointsRestorable, Restorable, TypeOK, States
  <2> QED BY <2>1, <2>2
<1>4. n \notin graph_checkpoint[r]
  BY <1>1, <1>3
<1>5. \A b \in graph_checkpoint'[r] : b.no <= n.no
  BY <1>1, <1>2, <1>3
<1>6. \A c \in graph_checkpoint'[r] :
        (\A b \in graph_checkpoint'[r] : b.no <= c.no) => c = n
  BY <1>1, <1>2, <1>3
<1>7. Latest(r)' = n
  BY <1>2, <1>5, <1>6 DEF Latest
<1>8. Restorable(r)'
  <2>1. \A b, c \in graph_checkpoint'[r] : b.no = c.no => b = c
    BY <1>1, <1>2, <1>3 DEF CheckpointsRestorable, Restorable
  <2>2. ASSUME NEW c \in graph_checkpoint'[r]
        PROVE  c.no >= 1 /\ (c.no > 1 => c.no - 1 \in Numbers(r)')
    <3>1. CASE c \in graph_checkpoint[r]
      BY <1>2, <3>1 DEF CheckpointsRestorable, Restorable, Numbers
    <3>2. CASE c = n /\ graph_run[r] # NULL
      BY <1>1, <1>2, <3>2 DEF LatestInv, Follows, Numbers
    <3>3. CASE c = n /\ graph_run[r] = NULL
      BY <1>1, <3>3, NullAssumption DEF Follows
    <3> QED BY <1>2, <3>1, <3>2, <3>3
  <2>3. /\ graph_checkpoint'[r] # {}
        /\ graph_run'[r].stage = Latest(r)'.stage
        /\ graph_run'[r].status = Latest(r)'.status
    BY <1>1, <1>2, <1>7
  <2> QED BY <2>1, <2>2, <2>3 DEF Restorable
<1> QED BY <1>1, <1>2, <1>4, <1>5, <1>7, <1>8

\* What a step does not touch of a run keeps what is true of it.
LEMMA Elsewhere ==
  ASSUME IInv, NEW q \in Runs,
         graph_run'[q] = graph_run[q], graph_checkpoint'[q] = graph_checkpoint[q],
         OfRun(q)' = OfRun(q), Applied(q)' = Applied(q),
         \A a \in OfRun(q) : human_action'[a] = human_action[a]
  PROVE  /\ Latest(q)' = Latest(q)
         /\ Restorable(q)' /\ Agrees(q)' /\ Phase(q)'
         /\ PastApproval(q)' => Approved(q)'
<1>1. Latest(q)' = Latest(q)
  BY DEF Latest
<1>2. Restorable(q)'
  BY <1>1 DEF IInv, CheckpointsRestorable, Restorable, Numbers
<1>3. Agrees(q)'
  BY <1>1 DEF IInv, WaitingHasItsAction, Agrees
<1>4. Approved(q)' <=> Approved(q)
  BY DEF Approved
<1>5. PastApproval(q)' => Approved(q)'
  BY <1>4 DEF IInv, HumanGate, PastApproval
<1>6. Phase(q)'
  BY <1>1, <1>4 DEF IInv, PhaseInv, Phase
<1> QED BY <1>1, <1>2, <1>3, <1>5, <1>6

\* An open session has a run and a state of it.
LEMMA OpenSession ==
  ASSUME IInv, NEW w \in Threads, session[w].open
  PROVE  session[w].run \in Runs /\ session[w].state \in States
<1>1. session[w] \in {NoSession} \union [open : {TRUE}, run : Runs, state : States]
  BY DEF IInv, TypeOK
<1>2. session[w] # NoSession
  BY DEF NoSession
<1> QED BY <1>1, <1>2

\* A transaction that ends with its run's state changed, or unchanged, leaves
\* the others with what they read: they locked other runs.
LEMMA SessionEnds ==
  ASSUME IInv, NEW w \in Threads, session[w].open, Close(w),
         \A q \in Runs \ {session[w].run} :
           graph_run'[q] = graph_run[q] /\ Latest(q)' = Latest(q)
  PROVE  /\ SessionInv'
         /\ session' \in [Threads -> {NoSession}
                           \union [open : {TRUE}, run : Runs, state : States]]
<1>1. /\ session' = [session EXCEPT ![w] = NoSession]
      /\ ~ session'[w].open
      /\ \A v \in Threads \ {w} : session'[v] = session[v]
  BY DEF Close, NoSession, IInv, TypeOK
<1>2. session' \in [Threads -> {NoSession}
                     \union [open : {TRUE}, run : Runs, state : States]]
  BY DEF Close, IInv, TypeOK
<1>3. ASSUME NEW v \in Threads, NEW r \in Runs, session'[v].open, session'[v].run = r
      PROVE  graph_run'[r] # NULL /\ session'[v].state = Latest(r)'
  <2>1. v # w /\ session'[v] = session[v]
    BY <1>1, <1>3
  <2>2. r # session[w].run /\ graph_run[r] # NULL /\ session[v].state = Latest(r)
    BY <1>3, <2>1 DEF IInv, SessionInv
  <2> QED BY <2>1, <2>2
<1>4. \A u, v \in Threads :
        session'[u].open /\ session'[v].open /\ session'[u].run = session'[v].run => u = v
  BY <1>1 DEF IInv, SessionInv
<1> QED BY <1>2, <1>3, <1>4 DEF SessionInv

\* A commit writes one checkpoint of the run its session locked, and what it
\* does to that run is all it does.
LEMMA Commit ==
  ASSUME IInv, NEW w \in Threads, session[w].open, NEW r \in Runs,
         r = session[w].run, Close(w),
         NEW state \in States, state.no = session[w].state.no, Checkpoint(r, state),
         now' = now,
         human_action' \in [Actions -> Rows \union {NULL}],
         workflow_event' \subseteq Runs \X Events,
         \A q \in Runs \ {r} :
           /\ OfRun(q)' = OfRun(q) /\ Applied(q)' = Applied(q)
           /\ \A a \in OfRun(q) : human_action'[a] = human_action[a],
         Latest(r)' = Numbered(state) => 
           Agrees(r)' /\ Phase(r)' /\ (PastApproval(r)' => Approved(r)')
  PROVE  IInv'
<1>1. graph_run[r] # NULL /\ session[w].state = Latest(r)
  BY DEF IInv, SessionInv
<1>2. Follows(r, state)
  BY <1>1 DEF Follows
<1>3. /\ graph_checkpoint' \in [Runs -> SUBSET States]
      /\ graph_checkpoint'[r] = graph_checkpoint[r] \union {Numbered(state)}
      /\ Latest(r)' = Numbered(state)
      /\ \A b \in graph_checkpoint'[r] : b.no <= Numbered(state).no
      /\ Restorable(r)'
  BY <1>2, CheckpointAppends DEF IInv
<1>4. graph_run' \in [Runs -> RunRows \union {NULL}]
  BY DEF Checkpoint, IInv, TypeOK, States, RunRows
<1>5. ASSUME NEW q \in Runs \ {r}
      PROVE  graph_run'[q] = graph_run[q] /\ graph_checkpoint'[q] = graph_checkpoint[q]
  BY DEF Checkpoint, IInv, TypeOK
<1>6. ASSUME NEW q \in Runs \ {r}
      PROVE  /\ Latest(q)' = Latest(q)
             /\ Restorable(q)' /\ Agrees(q)' /\ Phase(q)'
             /\ PastApproval(q)' => Approved(q)'
  BY <1>5, Elsewhere
<1>7. SessionInv' /\ session' \in [Threads -> {NoSession}
                           \union [open : {TRUE}, run : Runs, state : States]]
  BY <1>5, <1>6, SessionEnds
<1>8. TypeOK'
  BY <1>3, <1>4, <1>7 DEF IInv, TypeOK
<1>9. LatestInv'
  BY <1>3, <1>5, <1>6 DEF IInv, LatestInv
<1>10. CheckpointsRestorable' /\ WaitingHasItsAction' /\ HumanGate' /\ PhaseInv'
  BY <1>3, <1>6 DEF CheckpointsRestorable, WaitingHasItsAction, HumanGate, PhaseInv
<1> QED BY <1>7, <1>8, <1>9, <1>10 DEF IInv

-----------------------------------------------------------------------------
LEMMA InitInvariant == Init => IInv
<1> SUFFICES ASSUME Init PROVE IInv
  OBVIOUS
<1> USE DEF Init
<1>1. TypeOK
  BY DEF TypeOK, NoSession
<1>2. \A r \in Runs : graph_run[r] = NULL /\ graph_checkpoint[r] = {} /\ OfRun(r) = {}
                      /\ Applied(r) = {}
  BY DEF OfRun, Applied
<1>3. CheckpointsRestorable /\ LatestInv /\ WaitingHasItsAction
  BY <1>2 DEF CheckpointsRestorable, Restorable, LatestInv, WaitingHasItsAction, Agrees
<1>4. HumanGate /\ PhaseInv
  BY <1>2 DEF HumanGate, PastApproval, PhaseInv, Phase
<1>5. SessionInv
  BY DEF SessionInv, NoSession
<1> QED BY <1>1, <1>3, <1>4, <1>5 DEF IInv

\* Steps that write no row keep what is true of the rows.
LEMMA RowsUnchanged ==
  ASSUME IInv, UNCHANGED <<graph_run, graph_checkpoint, workflow_event, human_action>>
  PROVE  /\ CheckpointsRestorable' /\ LatestInv' /\ WaitingHasItsAction'
         /\ HumanGate' /\ PhaseInv'
         /\ \A q \in Runs : Latest(q)' = Latest(q)
<1>1. ASSUME NEW q \in Runs
      PROVE  /\ Latest(q)' = Latest(q)
             /\ Restorable(q)' /\ Agrees(q)' /\ Phase(q)'
             /\ PastApproval(q)' => Approved(q)'
  <2>1. OfRun(q)' = OfRun(q) /\ Applied(q)' = Applied(q)
    BY DEF OfRun, Applied
  <2> QED BY <2>1, Elsewhere
<1>2. LatestInv'
  BY <1>1 DEF IInv, LatestInv
<1> QED BY <1>1, <1>2 DEF CheckpointsRestorable, WaitingHasItsAction, HumanGate, PhaseInv

LEMMA LockRunStep ==
  ASSUME IInv, NEW w \in Threads, NEW r \in Runs, LockRun(w, r) PROVE IInv'
<1> USE DEF LockRun
<1>1. Latest(r) \in States
  BY DEF IInv, LatestInv, TypeOK
<1>2. TypeOK'
  BY <1>1 DEF IInv, TypeOK
<1>3. ASSUME NEW v \in Threads, NEW q \in Runs, session'[v].open, session'[v].run = q
      PROVE  graph_run'[q] # NULL /\ session'[v].state = Latest(q)'
  BY <1>3, RowsUnchanged DEF IInv, SessionInv, TypeOK
<1>4. \A u, v \in Threads :
        session'[u].open /\ session'[v].open /\ session'[u].run = session'[v].run => u = v
  BY DEF Locked, IInv, SessionInv, TypeOK
<1> QED BY <1>2, <1>3, <1>4, RowsUnchanged DEF IInv, SessionInv

LEMMA ReleaseStep ==
  ASSUME IInv, NEW w \in Threads, Release(w) PROVE IInv'
<1> USE DEF Release
<1>1. SessionInv' /\ session' \in [Threads -> {NoSession}
                      \union [open : {TRUE}, run : Runs, state : States]]
  BY RowsUnchanged, SessionEnds
<1>2. TypeOK'
  BY <1>1 DEF IInv, TypeOK
<1> QED BY <1>1, <1>2, RowsUnchanged DEF IInv

LEMMA TickStep == ASSUME IInv, Tick PROVE IInv'
<1> USE DEF Tick
<1>. now' \in Nat
  BY DEF IInv, TypeOK
<1>1. TypeOK'
  BY DEF IInv, TypeOK
<1>2. SessionInv'
  BY RowsUnchanged DEF IInv, SessionInv
<1> QED BY <1>1, <1>2, RowsUnchanged DEF IInv

LEMMA StutterStep == ASSUME IInv, UNCHANGED vars PROVE IInv'
<1> USE DEF vars
<1>1. TypeOK'
  BY DEF IInv, TypeOK
<1>2. SessionInv'
  BY RowsUnchanged DEF IInv, SessionInv
<1> QED BY <1>1, <1>2, RowsUnchanged DEF IInv

LEMMA StartStep == ASSUME IInv, NEW r \in Runs, Start(r) PROVE IInv'
<1> USE DEF Start
<1>1. Fresh \in States /\ Follows(r, Fresh)
  BY DEF Fresh, States, Stages, After, Statuses, Follows
<1>2. /\ graph_checkpoint' \in [Runs -> SUBSET States]
      /\ graph_checkpoint'[r] = graph_checkpoint[r] \union {Numbered(Fresh)}
      /\ Latest(r)' = Numbered(Fresh)
      /\ \A b \in graph_checkpoint'[r] : b.no <= Numbered(Fresh).no
      /\ Restorable(r)'
  BY <1>1, CheckpointAppends DEF IInv
<1>3. graph_run' \in [Runs -> RunRows \union {NULL}]
  BY <1>1 DEF Checkpoint, IInv, TypeOK, States, RunRows
<1>4. ASSUME NEW q \in Runs \ {r}
      PROVE  graph_run'[q] = graph_run[q] /\ graph_checkpoint'[q] = graph_checkpoint[q]
  BY DEF Checkpoint, IInv, TypeOK
<1>5. \A q \in Runs : OfRun(q)' = OfRun(q) /\ Applied(q)' = Applied(q)
  BY DEF OfRun, Applied
<1>6. ASSUME NEW q \in Runs \ {r}
      PROVE  /\ Latest(q)' = Latest(q)
             /\ Restorable(q)' /\ Agrees(q)' /\ Phase(q)'
             /\ PastApproval(q)' => Approved(q)'
  BY <1>4, <1>5, Elsewhere
<1>7. TypeOK'
  BY <1>2, <1>3 DEF IInv, TypeOK
<1>8. LatestInv'
  BY <1>2, <1>4, <1>6 DEF IInv, LatestInv
<1>9. SessionInv'
  <2>1. ASSUME NEW v \in Threads, NEW q \in Runs, session[v].open, session[v].run = q
        PROVE  graph_run'[q] # NULL /\ session[v].state = Latest(q)'
    <3>1. q # r
      BY <2>1 DEF IInv, SessionInv
    <3> QED BY <2>1, <3>1, <1>4, <1>6 DEF IInv, SessionInv
  <2> QED BY <2>1 DEF IInv, SessionInv
<1>10. OfRun(r)' = {} /\ graph_checkpoint[r] = {}
  BY <1>5 DEF IInv, PhaseInv, Phase
<1>11. /\ Numbered(Fresh).status = "RUNNING" /\ Numbered(Fresh).stage = "QUALIFY"
       /\ graph_run'[r].status = "RUNNING"
  BY DEF Numbered, Fresh, Checkpoint, IInv, TypeOK
<1>12. Agrees(r)'
  BY <1>10, <1>11 DEF Agrees
<1>13. ~ PastApproval(r)'
  BY <1>2, <1>10, <1>11 DEF PastApproval, AfterApproval
<1>14. Phase(r)'
  <2>1. graph_run'[r] # NULL
    BY <1>1, NullAssumption DEF Checkpoint, IInv, TypeOK, RunRows, States
  <2> QED BY <1>2, <1>10, <1>11, <2>1 DEF Phase, AfterApproval
<1>15. CheckpointsRestorable' /\ WaitingHasItsAction' /\ HumanGate' /\ PhaseInv'
  BY <1>2, <1>6, <1>12, <1>13, <1>14
     DEF CheckpointsRestorable, WaitingHasItsAction, HumanGate, PhaseInv
<1> QED BY <1>7, <1>8, <1>9, <1>15 DEF IInv

\* The run of an open session: its row says what the session read.
LEMMA LockedRun ==
  ASSUME IInv, NEW w \in Threads, session[w].open, NEW r \in Runs, r = session[w].run
  PROVE  /\ session[w].state = Latest(r) /\ session[w].state \in States
         /\ graph_run[r] # NULL
         /\ graph_run[r].stage = session[w].state.stage
         /\ graph_run[r].status = session[w].state.status
         /\ Phase(r) /\ Agrees(r)
BY OpenSession DEF IInv, SessionInv, CheckpointsRestorable, Restorable, PhaseInv,
   WaitingHasItsAction

\* What a commit of run r leaves of the row and the checkpoints of r.
LEMMA RowAfter ==
  ASSUME IInv, NEW r \in Runs, NEW state \in States, Checkpoint(r, state)
  PROVE  /\ graph_run'[r].status = state.status /\ graph_run'[r].stage = state.stage
         /\ graph_run'[r] # NULL
         /\ Numbered(state).stage = state.stage /\ Numbered(state).status = state.status
         /\ Numbered(state).pending = state.pending
         /\ PastApproval(r)' => PastApproval(r) \/ state.stage \in AfterApproval
<1>1. graph_run'[r] = [stage |-> state.stage, status |-> state.status]
  BY DEF Checkpoint, IInv, TypeOK
<1>2. graph_run'[r] \in RunRows
  BY <1>1 DEF RunRows, States
<1>3. /\ Numbered(state).stage = state.stage /\ Numbered(state).status = state.status
      /\ Numbered(state).pending = state.pending
  BY DEF Numbered, States
<1>4. graph_checkpoint'[r] = graph_checkpoint[r] \union {Numbered(state)}
  BY DEF Checkpoint, IInv, TypeOK, Numbered
<1> QED BY <1>1, <1>2, <1>3, <1>4, NullAssumption DEF PastApproval

LEMMA AdvanceStep ==
  ASSUME IInv, NEW w \in Threads, NEW e \in Events, Advance(w, e) PROVE IInv'
<1>1. PICK r \in Runs, s \in States : r = session[w].run /\ s = session[w].state
  BY OpenSession DEF Advance, RecordEvent
<1> DEFINE n == [s EXCEPT !.stage = After[s.stage], !.last_event = e]
<1>2. /\ session[w].open /\ Close(w) /\ Checkpoint(r, n)
      /\ workflow_event' = workflow_event \union {<<r, e>>}
      /\ now' = now /\ human_action' = human_action
      /\ s.status = "RUNNING" /\ s.stage # "APPROVE"
  BY <1>1 DEF Advance, RecordEvent
<1>3. /\ s = Latest(r) /\ graph_run[r] # NULL /\ graph_run[r].status = "RUNNING"
      /\ Phase(r) /\ Agrees(r)
  BY <1>1, <1>2, LockedRun
<1>4. s.stage \in Stages /\ After[s.stage] \in Stages
  BY DEF States, Stages, After
<1>5. n \in States /\ n.no = s.no /\ n.stage = After[s.stage] /\ n.status = "RUNNING"
  BY <1>2, <1>4 DEF States
<1>6. s.stage \in AfterApproval <=> n.stage \in AfterApproval
  BY <1>2, <1>4, <1>5 DEF Stages, After, AfterApproval
<1> HIDE DEF n
<1>7. \A q \in Runs : OfRun(q)' = OfRun(q) /\ (Approved(q)' <=> Approved(q))
  BY <1>2 DEF OfRun, Approved
<1>8. \A q \in Runs \ {r} : Applied(q)' = Applied(q)
  BY <1>2 DEF Applied
<1>9. /\ workflow_event' \subseteq Runs \X Events
      /\ human_action' \in [Actions -> Rows \union {NULL}]
  BY <1>2 DEF IInv, TypeOK
<1>10. ASSUME Latest(r)' = Numbered(n)
       PROVE  Agrees(r)' /\ Phase(r)' /\ (PastApproval(r)' => Approved(r)')
  <2>1. /\ graph_run'[r].status = "RUNNING" /\ graph_run'[r] # NULL
        /\ Numbered(n).stage = n.stage /\ Numbered(n).status = "RUNNING"
        /\ PastApproval(r)' => PastApproval(r) \/ n.stage \in AfterApproval
    BY <1>2, <1>5, RowAfter
  <2>2. \A a \in OfRun(r) : human_action[a].status # "PENDING"
    BY <1>3 DEF Agrees
  <2>3. Agrees(r)'
    BY <1>2, <1>3, <1>7, <2>1, <2>2 DEF Agrees
  <2>4. IF n.stage \in AfterApproval THEN Approved(r) ELSE OfRun(r) = {}
    BY <1>2, <1>3, <1>6 DEF Phase
  <2>5. Phase(r)'
    BY <1>7, <1>10, <2>1, <2>4 DEF Phase
  <2>6. PastApproval(r)' => Approved(r)'
    BY <1>7, <2>1, <2>4 DEF IInv, HumanGate
  <2> QED BY <2>3, <2>5, <2>6
<1> QED BY <1>1, <1>2, <1>5, <1>7, <1>8, <1>9, <1>10, Commit

LEMMA AskHumanStep ==
  ASSUME IInv, NEW w \in Threads, NEW e \in Events, NEW a \in Actions,
         NEW hash \in Hashes, AskHuman(w, e, a, hash)
  PROVE  IInv'
<1>1. PICK r \in Runs, s \in States : r = session[w].run /\ s = session[w].state
  BY OpenSession DEF AskHuman, RecordEvent
<1> DEFINE n == [s EXCEPT !.status = "WAITING_HUMAN", !.pending = a, !.last_event = e]
           row == [run |-> r, hash |-> hash, status |-> "PENDING",
                   expires |-> now + Sla, decided |-> NULL]
<1>2. /\ session[w].open /\ Close(w) /\ Checkpoint(r, n)
      /\ workflow_event' = workflow_event \union {<<r, e>>}
      /\ now' = now
      /\ human_action' = [human_action EXCEPT ![a] = row]
      /\ human_action[a] = NULL
      /\ s.status = "RUNNING" /\ s.stage = "APPROVE"
  BY <1>1 DEF AskHuman, RecordEvent
<1>3. /\ s = Latest(r) /\ graph_run[r] # NULL /\ Phase(r) /\ Agrees(r)
  BY <1>1, <1>2, LockedRun
<1>4. OfRun(r) = {} /\ ~ Approved(r)
  BY <1>2, <1>3 DEF Phase, AfterApproval, Approved
<1>5. /\ n \in States /\ n.no = s.no /\ n.stage = "APPROVE"
      /\ n.status = "WAITING_HUMAN" /\ n.pending = a
  BY <1>2 DEF States, Statuses
<1>6. row \in Rows /\ row # NULL /\ row.run = r /\ row.status = "PENDING"
  BY NullAssumption, WorkflowAssumption DEF Rows, IInv, TypeOK
<1> HIDE DEF n, row
<1>7. /\ human_action' \in [Actions -> Rows \union {NULL}]
      /\ human_action'[a] = row
      /\ \A b \in Actions \ {a} : human_action'[b] = human_action[b]
  BY <1>2, <1>6 DEF IInv, TypeOK
<1>8. \A q \in Runs \ {r} :
        /\ OfRun(q)' = OfRun(q)
        /\ \A b \in OfRun(q) : human_action'[b] = human_action[b]
  BY <1>2, <1>6, <1>7 DEF OfRun
<1>9. OfRun(r)' = {a}
  BY <1>4, <1>6, <1>7 DEF OfRun
<1>10. \A q \in Runs \ {r} : Applied(q)' = Applied(q)
  BY <1>2 DEF Applied
<1>11. workflow_event' \subseteq Runs \X Events
  BY <1>2 DEF IInv, TypeOK
<1>12. ASSUME Latest(r)' = Numbered(n)
       PROVE  Agrees(r)' /\ Phase(r)' /\ (PastApproval(r)' => Approved(r)')
  <2>1. /\ graph_run'[r].status = "WAITING_HUMAN" /\ graph_run'[r] # NULL
        /\ Numbered(n).stage = "APPROVE" /\ Numbered(n).status = "WAITING_HUMAN"
        /\ Numbered(n).pending = a
        /\ PastApproval(r)' => PastApproval(r) \/ n.stage \in AfterApproval
    BY <1>2, <1>5, RowAfter
  <2>2. Agrees(r)'
    BY <1>6, <1>7, <1>9, <1>12, <2>1 DEF Agrees
  <2>3. Phase(r)'
    BY <1>12, <2>1 DEF Phase
  <2>4. ~ PastApproval(r)'
    BY <1>4, <1>5, <2>1 DEF IInv, HumanGate, AfterApproval
  <2> QED BY <2>2, <2>3, <2>4
<1> QED BY <1>1, <1>2, <1>5, <1>7, <1>8, <1>10, <1>11, <1>12, Commit

\* What is common to a decision and to an expiry: the undecided action of a
\* run is the one it waits for, and the only one it has.
LEMMA TheAction ==
  ASSUME IInv, NEW w \in Threads, NEW a \in Actions, Undecided(w, a),
         NEW r \in Runs, r = session[w].run
  PROVE  /\ OfRun(r) = {a} /\ human_action[a] \in Rows
         /\ ~ Approved(r) /\ ~ PastApproval(r)
         /\ session[w].state.stage = "APPROVE"
         /\ session[w].state.status = "WAITING_HUMAN"
<1>1. /\ graph_run[r] # NULL /\ Phase(r) /\ Agrees(r)
      /\ session[w].state = Latest(r) /\ graph_run[r].status = session[w].state.status
  BY LockedRun DEF Undecided
<1>2. a \in OfRun(r) /\ human_action[a].status = "PENDING" /\ human_action[a] \in Rows
  BY DEF Undecided, OfRun, IInv, TypeOK
<1>3. OfRun(r) = {a} /\ graph_run[r].status = "WAITING_HUMAN"
  BY <1>1, <1>2 DEF Agrees, OfRun
<1>4. ~ Approved(r)
  BY <1>2, <1>3 DEF Approved
<1>5. ~ PastApproval(r)
  BY <1>4 DEF IInv, HumanGate
<1> QED BY <1>1, <1>2, <1>3, <1>4, <1>5 DEF Phase

\* The rest of a decision or an expiry: the action leaves PENDING, the run waits
\* no more, and it may pass APPROVE if the action is approved in time.
LEMMA ActionCloses ==
  ASSUME IInv, NEW w \in Threads, NEW a \in Actions, Undecided(w, a), Close(w),
         NEW r \in Runs, r = session[w].run,
         NEW n \in States, n.no = session[w].state.no, Checkpoint(r, n),
         NEW row \in Rows, row.run = r, row.status # "PENDING",
         human_action' = [human_action EXCEPT ![a] = row],
         \/ n.status = "BLOCKED" /\ n.stage = "APPROVE"
         \/ /\ n.status = "RUNNING" /\ n.stage = "CONTACT"
            /\ row.status = "APPROVED" /\ row.decided < row.expires,
         UNCHANGED <<now, workflow_event>>
  PROVE  IInv'
<1>1. /\ OfRun(r) = {a} /\ ~ Approved(r) /\ ~ PastApproval(r) /\ session[w].open
  BY TheAction DEF Undecided
<1>2. /\ human_action' \in [Actions -> Rows \union {NULL}]
      /\ human_action'[a] = row /\ row # NULL
      /\ \A b \in Actions \ {a} : human_action'[b] = human_action[b]
  BY NullAssumption DEF IInv, TypeOK
<1>3. /\ OfRun(r)' = {a}
      /\ \A q \in Runs \ {r} :
           /\ OfRun(q)' = OfRun(q)
           /\ \A b \in OfRun(q) : human_action'[b] = human_action[b]
  BY <1>1, <1>2 DEF OfRun
<1>4. /\ \A q \in Runs : Applied(q)' = Applied(q)
      /\ workflow_event' \subseteq Runs \X Events
  BY DEF Applied, IInv, TypeOK
<1>5. ASSUME Latest(r)' = Numbered(n)
      PROVE  Agrees(r)' /\ Phase(r)' /\ (PastApproval(r)' => Approved(r)')
  <2>1. /\ graph_run'[r].status = n.status /\ graph_run'[r] # NULL
        /\ Numbered(n).stage = n.stage /\ Numbered(n).status = n.status
        /\ PastApproval(r)' => PastApproval(r) \/ n.stage \in AfterApproval
    BY RowAfter
  <2>2. Agrees(r)'
    BY <1>2, <1>3, <2>1 DEF Agrees
  <2>3. n.stage \in AfterApproval => Approved(r)'
    BY <1>2, <1>3 DEF Approved, AfterApproval
  <2>4. n.status = "RUNNING" => n.stage \in AfterApproval
    BY DEF AfterApproval
  <2>5. Phase(r)'
    BY <1>5, <2>1, <2>3, <2>4 DEF Phase
  <2> QED BY <1>1, <2>1, <2>2, <2>3, <2>5
<1> QED BY <1>1, <1>2, <1>3, <1>4, <1>5, Commit

LEMMA ExpireActionStep ==
  ASSUME IInv, NEW w \in Threads, NEW a \in Actions, ExpireAction(w, a) PROVE IInv'
<1>1. PICK r \in Runs, s \in States : r = session[w].run /\ s = session[w].state
  BY OpenSession DEF ExpireAction, Undecided
<1> DEFINE n == [s EXCEPT !.status = "BLOCKED", !.pending = NULL]
           row == [human_action[a] EXCEPT !.status = "EXPIRED"]
<1>2. /\ Undecided(w, a) /\ Close(w) /\ Checkpoint(r, n)
      /\ human_action' = [human_action EXCEPT ![a] = row]
      /\ UNCHANGED <<now, workflow_event>>
  BY <1>1 DEF ExpireAction
<1>3. human_action[a] \in Rows /\ human_action[a].run = r /\ s.stage = "APPROVE"
  BY <1>1, <1>2, TheAction DEF Undecided
<1>4. /\ n \in States /\ n.no = s.no /\ n.status = "BLOCKED" /\ n.stage = "APPROVE"
  BY <1>3 DEF States, Statuses
<1>5. row \in Rows /\ row.run = r /\ row.status # "PENDING"
  BY <1>3 DEF Rows
<1> HIDE DEF n
<1> QED
  <2>1. PICK x \in Rows : x = row
    BY <1>5
  <2> HIDE DEF row
  <2> QED BY <1>1, <1>2, <1>4, <1>5, <2>1, ActionCloses

LEMMA DecideActionStep ==
  ASSUME IInv, NEW w \in Threads, NEW a \in Actions, NEW approved \in BOOLEAN,
         NEW hash \in Hashes, DecideAction(w, a, approved, hash)
  PROVE  IInv'
<1>1. PICK r \in Runs, s \in States : r = session[w].run /\ s = session[w].state
  BY OpenSession DEF DecideAction, Undecided
<1> DEFINE n == IF approved
                THEN [s EXCEPT !.status = "RUNNING", !.stage = "CONTACT", !.pending = NULL]
                ELSE [s EXCEPT !.status = "BLOCKED", !.pending = NULL]
           row == [human_action[a] EXCEPT
                     !.status = IF approved THEN "APPROVED" ELSE "REJECTED",
                     !.decided = now]
<1>2. /\ Undecided(w, a) /\ Close(w) /\ Checkpoint(r, n)
      /\ human_action' = [human_action EXCEPT ![a] = row]
      /\ UNCHANGED <<now, workflow_event>>
      /\ now < human_action[a].expires
  <2>1. human_action[a] \in Rows
    BY <1>1, TheAction DEF DecideAction
  <2> QED BY <1>1, <2>1 DEF DecideAction, Rows, IInv, TypeOK
<1>3. human_action[a] \in Rows /\ human_action[a].run = r /\ s.stage = "APPROVE"
  BY <1>1, <1>2, TheAction DEF Undecided
<1>4. /\ n \in States /\ n.no = s.no
      /\ \/ ~ approved /\ n.status = "BLOCKED" /\ n.stage = "APPROVE"
         \/ approved /\ n.status = "RUNNING" /\ n.stage = "CONTACT"
  BY <1>3 DEF States, Statuses, Stages, After
<1>5. /\ row \in Rows /\ row.run = r /\ row.status # "PENDING"
      /\ approved => row.status = "APPROVED" /\ row.decided < row.expires
  BY <1>2, <1>3 DEF Rows, IInv, TypeOK
<1> HIDE DEF n
<1> QED
  <2>1. PICK x \in Rows : x = row
    BY <1>5
  <2> HIDE DEF row
  <2> QED BY <1>1, <1>2, <1>4, <1>5, <2>1, ActionCloses

-----------------------------------------------------------------------------
LEMMA NextInvariant == IInv /\ [Next]_vars => IInv'
BY StartStep, LockRunStep, ReleaseStep, AdvanceStep, AskHumanStep, ExpireActionStep,
   DecideActionStep, TickStep, StutterStep DEF Next, TransitionStep, DecideStep

\* The inductive invariant holds in every reachable state: checkpoints, rows,
\* actions and open transactions agree whatever the sessions do.
THEOREM InvariantHolds == Spec => []IInv
BY InitInvariant, NextInvariant, PTL DEF Spec

\* The state stays within its types.
THEOREM TypeCorrect == Spec => []TypeOK
BY InvariantHolds, PTL DEF IInv

\* No run reaches the contact unless a human approved it in time
\* (postgres_workflow.py, transition and decide_human_action).
THEOREM GateHolds == Spec => []HumanGate
BY InvariantHolds, PTL DEF IInv

\* The checkpoints of every run pass the test of WorkflowEngine.restore.
THEOREM Restores == Spec => []CheckpointsRestorable
BY InvariantHolds, PTL DEF IInv

\* A run waits exactly when it has an undecided action, the one it names.
THEOREM WaitsForItsAction == Spec => []WaitingHasItsAction
BY InvariantHolds, PTL DEF IInv

-----------------------------------------------------------------------------
(* What each commit does to its run, without sessions: the three results   *)
(* that follow, NeverBack, EveryCheckpointExplained and the refinement,    *)
(* rest on this alone.                                                     *)

\* The actions of the other runs are left alone.
OthersKept(r) ==
  \A q \in Runs \ {r} : /\ OfRun(q)' = OfRun(q)
                        /\ \A a \in OfRun(q) : human_action'[a] = human_action[a]

Started(r, n) ==
  /\ graph_run[r] = NULL /\ n = Fresh
  /\ UNCHANGED <<now, workflow_event, human_action>>

Records(r, e) ==
  /\ <<r, e>> \notin workflow_event
  /\ workflow_event' = workflow_event \union {<<r, e>>}
  /\ now' = now
  /\ graph_run[r] # NULL /\ Latest(r).status = "RUNNING"

Advanced(r, n, e) ==
  /\ Records(r, e) /\ human_action' = human_action
  /\ Latest(r).stage \in Stages \ {"APPROVE"}
  /\ n.stage = After[Latest(r).stage] /\ n.status = "RUNNING"

Asked(r, n, e, a) ==
  /\ Records(r, e) /\ OthersKept(r)
  /\ Latest(r).stage = "APPROVE"
  /\ n.stage = "APPROVE" /\ n.status = "WAITING_HUMAN" /\ n.pending = a
  /\ OfRun(r) = {} /\ OfRun(r)' = {a}
  /\ human_action'[a].status = "PENDING" /\ human_action'[a].expires = now + Sla

Closed(r, n, a) ==
  /\ UNCHANGED <<now, workflow_event>> /\ OthersKept(r)
  /\ graph_run[r] # NULL
  /\ Latest(r).status = "WAITING_HUMAN" /\ Latest(r).stage = "APPROVE"
  /\ Latest(r).pending = a
  /\ OfRun(r) = {a} /\ OfRun(r)' = {a}
  /\ human_action[a].status = "PENDING" /\ human_action'[a].status # "PENDING"
  /\ \/ n.status = "BLOCKED" /\ n.stage = "APPROVE"
     \/ n.status = "RUNNING" /\ n.stage = "CONTACT" /\ now < human_action[a].expires

Committed(r, n) ==
  /\ Follows(r, n) /\ Checkpoint(r, n)
  /\ \/ Started(r, n)
     \/ \E e \in Events : Advanced(r, n, e) \/ \E a \in Actions : Asked(r, n, e, a)
     \/ \E a \in Actions : Closed(r, n, a)

NoCommit == UNCHANGED <<graph_run, graph_checkpoint, workflow_event, human_action>>

LEMMA StartCommits ==
  ASSUME IInv, NEW r \in Runs, Start(r) PROVE \E n \in States : Committed(r, n)
<1>1. Fresh \in States /\ Fresh.no = 0
  BY DEF Fresh, States, Stages, After, Statuses
<1>2. Started(r, Fresh) /\ Follows(r, Fresh) /\ Checkpoint(r, Fresh)
  BY <1>1 DEF Start, Started, Follows
<1> QED BY <1>1, <1>2 DEF Committed

LEMMA AdvanceCommits ==
  ASSUME IInv, NEW w \in Threads, NEW e \in Events, Advance(w, e)
  PROVE  \E r \in Runs, n \in States : Committed(r, n)
<1>1. PICK r \in Runs, s \in States : r = session[w].run /\ s = session[w].state
  BY OpenSession DEF Advance, RecordEvent
<1> DEFINE n == [s EXCEPT !.stage = After[s.stage], !.last_event = e]
<1>2. /\ session[w].open /\ Checkpoint(r, n)
      /\ <<r, e>> \notin workflow_event
      /\ workflow_event' = workflow_event \union {<<r, e>>}
      /\ now' = now /\ human_action' = human_action
      /\ s.status = "RUNNING" /\ s.stage # "APPROVE"
  BY <1>1 DEF Advance, RecordEvent
<1>3. s = Latest(r) /\ graph_run[r] # NULL
  BY <1>1, <1>2, LockedRun
<1>4. s.stage \in Stages /\ After[s.stage] \in Stages
  BY DEF States, Stages, After
<1>5. n \in States /\ n.no = s.no /\ n.stage = After[s.stage] /\ n.status = "RUNNING"
  BY <1>2, <1>4 DEF States
<1> HIDE DEF n
<1>6. Advanced(r, n, e) /\ Follows(r, n)
  BY <1>2, <1>3, <1>4, <1>5 DEF Advanced, Records, Follows
<1> QED BY <1>2, <1>5, <1>6 DEF Committed

LEMMA AskHumanCommits ==
  ASSUME IInv, NEW w \in Threads, NEW e \in Events, NEW a \in Actions,
         NEW hash \in Hashes, AskHuman(w, e, a, hash)
  PROVE  \E r \in Runs, n \in States : Committed(r, n)
<1>1. PICK r \in Runs, s \in States : r = session[w].run /\ s = session[w].state
  BY OpenSession DEF AskHuman, RecordEvent
<1> DEFINE n == [s EXCEPT !.status = "WAITING_HUMAN", !.pending = a, !.last_event = e]
           row == [run |-> r, hash |-> hash, status |-> "PENDING",
                   expires |-> now + Sla, decided |-> NULL]
<1>2. /\ session[w].open /\ Checkpoint(r, n)
      /\ <<r, e>> \notin workflow_event
      /\ workflow_event' = workflow_event \union {<<r, e>>}
      /\ now' = now
      /\ human_action' = [human_action EXCEPT ![a] = row]
      /\ human_action[a] = NULL
      /\ s.status = "RUNNING" /\ s.stage = "APPROVE"
  BY <1>1 DEF AskHuman, RecordEvent
<1>3. s = Latest(r) /\ graph_run[r] # NULL /\ Phase(r)
  BY <1>1, <1>2, LockedRun
<1>4. OfRun(r) = {}
  BY <1>2, <1>3 DEF Phase, AfterApproval
<1>5. /\ n \in States /\ n.no = s.no /\ n.stage = "APPROVE"
      /\ n.status = "WAITING_HUMAN" /\ n.pending = a
  BY <1>2 DEF States, Statuses
<1>6. /\ row # NULL /\ row.run = r /\ row.status = "PENDING" /\ row.expires = now + Sla
  <2>1. row \in Rows
    BY WorkflowAssumption DEF Rows, IInv, TypeOK
  <2> QED BY <2>1, NullAssumption
<1> HIDE DEF n, row
<1>7. /\ human_action'[a] = row
      /\ \A b \in Actions \ {a} : human_action'[b] = human_action[b]
  BY <1>2 DEF IInv, TypeOK
<1>8. OfRun(r)' = {a} /\ OthersKept(r)
  BY <1>2, <1>4, <1>6, <1>7 DEF OfRun, OthersKept
<1>9. Asked(r, n, e, a) /\ Follows(r, n)
  BY <1>2, <1>3, <1>4, <1>5, <1>6, <1>7, <1>8 DEF Asked, Records, Follows
<1> QED BY <1>2, <1>5, <1>9 DEF Committed

\* What an expiry and a decision have in common.
LEMMA Closes ==
  ASSUME IInv, NEW w \in Threads, NEW a \in Actions, Undecided(w, a),
         NEW r \in Runs, r = session[w].run,
         NEW n \in States, n.no = session[w].state.no, Checkpoint(r, n),
         NEW row \in Rows, row.run = r, row.status # "PENDING",
         human_action' = [human_action EXCEPT ![a] = row],
         \/ n.status = "BLOCKED" /\ n.stage = "APPROVE"
         \/ n.status = "RUNNING" /\ n.stage = "CONTACT" /\ now < human_action[a].expires,
         UNCHANGED <<now, workflow_event>>
  PROVE  Committed(r, n)
<1>1. /\ OfRun(r) = {a} /\ human_action[a].status = "PENDING"
      /\ session[w].state.stage = "APPROVE" /\ session[w].state.status = "WAITING_HUMAN"
  BY TheAction DEF Undecided
<1>2. /\ session[w].state = Latest(r) /\ graph_run[r] # NULL /\ Agrees(r)
      /\ graph_run[r].status = session[w].state.status
  BY LockedRun DEF Undecided
<1>3. Latest(r).pending = a
  BY <1>1, <1>2 DEF Agrees
<1>4. /\ human_action'[a] = row /\ row # NULL
      /\ \A b \in Actions \ {a} : human_action'[b] = human_action[b]
  BY NullAssumption DEF IInv, TypeOK
<1>5. OfRun(r)' = {a} /\ OthersKept(r)
  BY <1>1, <1>4 DEF OfRun, OthersKept
<1>6. Closed(r, n, a) /\ Follows(r, n)
  BY <1>1, <1>2, <1>3, <1>4, <1>5 DEF Closed, Follows
<1> QED BY <1>6 DEF Committed

LEMMA ExpireActionCommits ==
  ASSUME IInv, NEW w \in Threads, NEW a \in Actions, ExpireAction(w, a)
  PROVE  \E r \in Runs, n \in States : Committed(r, n)
<1>1. PICK r \in Runs, s \in States : r = session[w].run /\ s = session[w].state
  BY OpenSession DEF ExpireAction, Undecided
<1> DEFINE n == [s EXCEPT !.status = "BLOCKED", !.pending = NULL]
           row == [human_action[a] EXCEPT !.status = "EXPIRED"]
<1>2. /\ Undecided(w, a) /\ Checkpoint(r, n)
      /\ human_action' = [human_action EXCEPT ![a] = row]
      /\ UNCHANGED <<now, workflow_event>>
  BY <1>1 DEF ExpireAction
<1>3. human_action[a] \in Rows /\ human_action[a].run = r /\ s.stage = "APPROVE"
  BY <1>1, <1>2, TheAction DEF Undecided
<1>4. /\ n \in States /\ n.no = s.no /\ n.status = "BLOCKED" /\ n.stage = "APPROVE"
  BY <1>3 DEF States, Statuses
<1>5. row \in Rows /\ row.run = r /\ row.status # "PENDING"
  BY <1>3 DEF Rows
<1>6. PICK x \in Rows : x = row
  BY <1>5
<1> HIDE DEF n, row
<1> QED BY <1>1, <1>2, <1>4, <1>5, <1>6, Closes

LEMMA DecideActionCommits ==
  ASSUME IInv, NEW w \in Threads, NEW a \in Actions, NEW approved \in BOOLEAN,
         NEW hash \in Hashes, DecideAction(w, a, approved, hash)
  PROVE  \E r \in Runs, n \in States : Committed(r, n)
<1>1. PICK r \in Runs, s \in States : r = session[w].run /\ s = session[w].state
  BY OpenSession DEF DecideAction, Undecided
<1> DEFINE n == IF approved
                THEN [s EXCEPT !.status = "RUNNING", !.stage = "CONTACT", !.pending = NULL]
                ELSE [s EXCEPT !.status = "BLOCKED", !.pending = NULL]
           row == [human_action[a] EXCEPT
                     !.status = IF approved THEN "APPROVED" ELSE "REJECTED",
                     !.decided = now]
<1>2. human_action[a] \in Rows /\ human_action[a].run = r /\ s.stage = "APPROVE"
  BY <1>1, TheAction DEF DecideAction, Undecided
<1>3. /\ Undecided(w, a) /\ Checkpoint(r, n)
      /\ human_action' = [human_action EXCEPT ![a] = row]
      /\ UNCHANGED <<now, workflow_event>>
      /\ now < human_action[a].expires
  BY <1>1, <1>2 DEF DecideAction, Rows, IInv, TypeOK
<1>4. /\ n \in States /\ n.no = s.no
      /\ \/ n.status = "BLOCKED" /\ n.stage = "APPROVE"
         \/ n.status = "RUNNING" /\ n.stage = "CONTACT"
  BY <1>2 DEF States, Statuses, Stages, After
<1>5. row \in Rows /\ row.run = r /\ row.status # "PENDING"
  BY <1>2 DEF Rows, IInv, TypeOK
<1>6. PICK x \in Rows : x = row
  BY <1>5
<1> HIDE DEF n, row
<1> QED BY <1>1, <1>3, <1>4, <1>5, <1>6, Closes

\* Every step commits for one run, or writes nothing.
LEMMA StepCommits ==
  ASSUME IInv, Next
  PROVE  NoCommit \/ \E r \in Runs, n \in States : Committed(r, n)
BY StartCommits, AdvanceCommits, AskHumanCommits, ExpireActionCommits,
   DecideActionCommits
   DEF Next, TransitionStep, DecideStep, LockRun, Release, Tick, NoCommit

-----------------------------------------------------------------------------
\* NeverBack, for one step.
NoWayBack ==
  \A r \in Runs : graph_run[r] # NULL =>
    /\ graph_run'[r].stage \in {graph_run[r].stage, After[graph_run[r].stage]}
    /\ graph_run[r].status = "BLOCKED" => graph_run'[r] = graph_run[r]

LEMMA NextNeverGoesBack == ASSUME IInv, Next PROVE NoWayBack
<1>1. CASE NoCommit
  BY <1>1 DEF NoWayBack, NoCommit
<1>2. ASSUME NEW r \in Runs, NEW n \in States, Committed(r, n) PROVE NoWayBack
  <2>1. graph_run[r] # NULL =>
          /\ n.stage \in {graph_run[r].stage, After[graph_run[r].stage]}
          /\ graph_run[r].status # "BLOCKED"
    <3>1. graph_run[r] # NULL => /\ graph_run[r].stage = Latest(r).stage
                                 /\ graph_run[r].status = Latest(r).status
      BY DEF IInv, CheckpointsRestorable, Restorable
    <3>2. After["APPROVE"] = "CONTACT"
      BY DEF After
    <3> QED BY <1>2, <3>1, <3>2
               DEF Committed, Started, Advanced, Asked, Closed, Records
  <2>2. \A q \in Runs \ {r} : graph_run'[q] = graph_run[q]
    BY <1>2 DEF Committed, Checkpoint, IInv, TypeOK
  <2>3. graph_run'[r].stage = n.stage
    BY <1>2, RowAfter DEF Committed
  <2> QED BY <2>1, <2>2, <2>3 DEF NoWayBack
<1> QED BY <1>1, <1>2, StepCommits

\* A run never goes back to an earlier stage, nor from BLOCKED to life.
THEOREM NeverGoesBack == Spec => NeverBack
<1>1. IInv /\ [Next]_vars => [NoWayBack]_vars
  BY NextNeverGoesBack
<1> QED BY <1>1, InvariantHolds, PTL DEF Spec, NeverBack, NoWayBack

-----------------------------------------------------------------------------
(* EveryCheckpointExplained: a checkpoint comes with an event or a decision. *)

CountInv ==
  \A r \in Runs : /\ IsFiniteSet(graph_checkpoint[r])
                  /\ graph_run[r] # NULL => Explained(r)

LEMMA Finite ==
  ASSUME NEW r \in Runs PROVE IsFiniteSet(Applied(r)) /\ IsFiniteSet(Decided(r))
<1>1. Applied(r) \subseteq Events /\ Decided(r) \subseteq Actions
  BY DEF Applied, Decided, OfRun
<1> QED BY <1>1, FS_Subset, WorkflowAssumption

\* The run of a commit has one checkpoint more, and one event applied or one
\* action decided more, unless it is the run's start.
LEMMA CountsUp ==
  ASSUME IInv, CountInv, NEW r \in Runs, NEW n \in States, Committed(r, n)
  PROVE  IsFiniteSet(graph_checkpoint'[r]) /\ Explained(r)'
<1>1. /\ graph_checkpoint'[r] = graph_checkpoint[r] \union {Numbered(n)}
      /\ Numbered(n) \notin graph_checkpoint[r]
  BY CheckpointAppends DEF IInv, Committed
<1>2. /\ IsFiniteSet(graph_checkpoint'[r])
      /\ Cardinality(graph_checkpoint'[r]) = Cardinality(graph_checkpoint[r]) + 1
  BY <1>1, FS_AddElement DEF CountInv
<1>3. /\ Cardinality(Applied(r)) \in Nat /\ Cardinality(Decided(r)) \in Nat
      /\ Cardinality(graph_checkpoint[r]) \in Nat
  BY Finite, FS_CardinalityType DEF CountInv
<1>4. CASE Started(r, n)
  <2>1. graph_checkpoint[r] = {} /\ Applied(r) = {} /\ Decided(r) = {}
    BY <1>4 DEF Started, IInv, PhaseInv, Phase, Decided
  <2>2. Applied(r)' = {} /\ Decided(r)' = {}
    BY <1>4, <2>1 DEF Started, Applied, Decided, OfRun
  <2> QED BY <1>2, <2>1, <2>2, FS_EmptySet DEF Explained
<1>5. ASSUME NEW e \in Events, Records(r, e), Decided(r)' = Decided(r)
      PROVE  Explained(r)'
  <2>1. Applied(r)' = Applied(r) \union {e} /\ e \notin Applied(r)
    BY <1>5 DEF Records, Applied
  <2>2. Cardinality(Applied(r)') = Cardinality(Applied(r)) + 1
    BY <2>1, Finite, FS_AddElement
  <2>3. Explained(r)
    BY <1>5 DEF CountInv, Records
  <2> QED BY <1>2, <1>3, <1>5, <2>2, <2>3 DEF Explained
<1>6. ASSUME NEW e \in Events, Advanced(r, n, e) PROVE Explained(r)'
  <2>1. Decided(r)' = Decided(r)
    BY <1>6 DEF Advanced, Decided, OfRun
  <2> QED BY <1>5, <1>6, <2>1 DEF Advanced
<1>7. ASSUME NEW e \in Events, NEW a \in Actions, Asked(r, n, e, a)
      PROVE  Explained(r)'
  <2>1. Decided(r)' = Decided(r)
    BY <1>7 DEF Asked, Decided
  <2> QED BY <1>5, <1>7, <2>1 DEF Asked
<1>8. ASSUME NEW a \in Actions, Closed(r, n, a) PROVE Explained(r)'
  <2>1. Decided(r) = {} /\ Decided(r)' = {a} /\ Applied(r)' = Applied(r)
    BY <1>8 DEF Closed, Decided, Applied
  <2>2. Cardinality(Decided(r)) = 0 /\ Cardinality(Decided(r)') = 1
    BY <2>1, FS_EmptySet, FS_Singleton
  <2>3. Explained(r)
    BY <1>8 DEF CountInv, Closed
  <2> QED BY <1>2, <1>3, <2>1, <2>2, <2>3 DEF Explained
<1> QED BY <1>2, <1>4, <1>6, <1>7, <1>8 DEF Committed

LEMMA CountStep == ASSUME IInv, CountInv, [Next]_vars PROVE CountInv'
<1>1. CASE UNCHANGED vars \/ NoCommit
  <2>1. \A q \in Runs : Applied(q)' = Applied(q) /\ Decided(q)' = Decided(q)
    BY <1>1 DEF NoCommit, vars, Applied, Decided, OfRun
  <2> QED BY <1>1, <2>1 DEF NoCommit, vars, CountInv, Explained
<1>2. ASSUME NEW r \in Runs, NEW n \in States, Committed(r, n) PROVE CountInv'
  <2>1. ASSUME NEW q \in Runs \ {r}
        PROVE  /\ graph_run'[q] = graph_run[q]
               /\ graph_checkpoint'[q] = graph_checkpoint[q]
               /\ Applied(q)' = Applied(q) /\ Decided(q)' = Decided(q)
    <3>1. Applied(q)' = Applied(q)
      BY <1>2 DEF Committed, Started, Advanced, Asked, Closed, Records, Applied
    <3>2. Decided(q)' = Decided(q)
      BY <1>2 DEF Committed, Started, Advanced, Asked, Closed, Records, OthersKept,
                  Decided, OfRun
    <3> QED BY <1>2, <3>1, <3>2 DEF Committed, Checkpoint, IInv, TypeOK
  <2>2. \A q \in Runs \ {r} : Explained(q)' <=> Explained(q)
    BY <2>1 DEF Explained
  <2> QED BY <1>2, <2>1, <2>2, CountsUp DEF CountInv
<1> QED BY <1>1, <1>2, StepCommits

\* An event is recorded exactly when it took effect, and took effect once.
THEOREM CheckpointsExplained == Spec => []EveryCheckpointExplained
<1>1. Init => CountInv
  BY FS_EmptySet DEF Init, CountInv
<1>2. IInv /\ CountInv /\ [Next]_vars => CountInv'
  BY CountStep
<1>3. CountInv => EveryCheckpointExplained
  BY DEF CountInv, EveryCheckpointExplained
<1> QED BY <1>1, <1>2, <1>3, InvariantHolds, PTL DEF Spec

-----------------------------------------------------------------------------
(* The refinement of SalesRun.                                             *)

\* A commit changes the phase and the deadline of its run only.
LEMMA MappedCommit ==
  ASSUME IInv, NEW r \in Runs, NEW n \in States, Committed(r, n)
  PROVE  /\ RunPhase' = [RunPhase EXCEPT ![r] = PhaseOf(n)]
         /\ RunDeadline' = [RunDeadline EXCEPT ![r] =
              IF PhaseOf(n) = "waiting" THEN human_action'[n.pending].expires ELSE NULL]
<1>1. /\ Latest(r)' = Numbered(n) /\ graph_run'[r] # NULL
      /\ Numbered(n).stage = n.stage /\ Numbered(n).status = n.status
      /\ Numbered(n).pending = n.pending
  BY CheckpointAppends, RowAfter DEF IInv, Committed
<1>2. ASSUME NEW q \in Runs \ {r}
      PROVE  graph_run'[q] = graph_run[q] /\ Latest(q)' = Latest(q)
  <2>1. graph_run'[q] = graph_run[q] /\ graph_checkpoint'[q] = graph_checkpoint[q]
    BY DEF Committed, Checkpoint, IInv, TypeOK
  <2> QED BY <2>1 DEF Latest
<1>3. RunPhase'[r] = PhaseOf(n)
  BY <1>1 DEF RunPhase, PhaseOf
<1>4. \A q \in Runs \ {r} : RunPhase'[q] = RunPhase[q]
  BY <1>2 DEF RunPhase, PhaseOf
<1>5. RunPhase' = [RunPhase EXCEPT ![r] = PhaseOf(n)]
  BY <1>3, <1>4 DEF RunPhase
<1>6. RunDeadline'[r] =
        IF PhaseOf(n) = "waiting" THEN human_action'[n.pending].expires ELSE NULL
  BY <1>1, <1>3 DEF RunDeadline
<1>7. ASSUME NEW q \in Runs \ {r} PROVE RunDeadline'[q] = RunDeadline[q]
  <2>1. CASE RunPhase[q] # "waiting"
    BY <1>4, <2>1 DEF RunDeadline
  <2>2. CASE RunPhase[q] = "waiting"
    <3>1. Latest(q).pending \in OfRun(q)
      <4>1. graph_run[q] # NULL /\ PhaseOf(Latest(q)) = "waiting"
        BY <2>2 DEF RunPhase
      <4>2. Latest(q).status \in Statuses /\ Latest(q).stage \in Stages
        BY <4>1 DEF IInv, LatestInv, TypeOK, States
      <4>3. Latest(q).status = "WAITING_HUMAN"
        BY <4>1, <4>2 DEF PhaseOf, Statuses, Stages, After
      <4> QED BY <4>1, <4>3 DEF IInv, CheckpointsRestorable, Restorable,
                                WaitingHasItsAction, Agrees
    <3>2. human_action'[Latest(q).pending] = human_action[Latest(q).pending]
      BY <3>1 DEF Committed, Started, Advanced, Asked, Closed, OthersKept
    <3> QED BY <1>2, <1>4, <3>2 DEF RunDeadline
  <2> QED BY <2>1, <2>2
<1>8. RunDeadline' = [RunDeadline EXCEPT ![r] =
        IF PhaseOf(n) = "waiting" THEN human_action'[n.pending].expires ELSE NULL]
  BY <1>6, <1>7 DEF RunDeadline
<1> QED BY <1>5, <1>8

\* How the phase and the deadline of a run follow from its latest state.
LEMMA MappedState ==
  ASSUME IInv, NEW r \in Runs, graph_run[r] # NULL
  PROVE  /\ Latest(r).status = "RUNNING" => RunPhase[r] = Latest(r).stage
         /\ Latest(r).status = "RUNNING" => RunDeadline[r] = NULL
         /\ Latest(r).status = "WAITING_HUMAN" =>
              /\ RunPhase[r] = "waiting"
              /\ RunDeadline[r] = human_action[Latest(r).pending].expires
<1>1. Latest(r).stage \in Stages
  BY DEF IInv, LatestInv, TypeOK, States
<1>2. RunPhase[r] = PhaseOf(Latest(r))
  BY DEF RunPhase
<1>3. Latest(r).status = "RUNNING" => RunPhase[r] = Latest(r).stage
  BY <1>2 DEF PhaseOf
<1>4. Latest(r).status = "WAITING_HUMAN" => RunPhase[r] = "waiting"
  BY <1>2 DEF PhaseOf
<1>5. "waiting" \notin Stages
  BY DEF Stages, After
<1> QED BY <1>1, <1>3, <1>4, <1>5 DEF RunDeadline

LEMMA MappedStep ==
  ASSUME IInv, NEW r \in Runs, NEW n \in States, Committed(r, n)
  PROVE  Promise!RNext \/ UNCHANGED <<now, RunPhase, RunDeadline>>
<1> DEFINE deadline == IF PhaseOf(n) = "waiting"
                       THEN human_action'[n.pending].expires ELSE NULL
<1>1. /\ RunPhase' = [RunPhase EXCEPT ![r] = PhaseOf(n)]
      /\ RunDeadline' = [RunDeadline EXCEPT ![r] = deadline]
  BY MappedCommit
<1>2. /\ n.status = "WAITING_HUMAN" => PhaseOf(n) = "waiting"
      /\ n.status = "BLOCKED" => PhaseOf(n) = "blocked"
      /\ n.status = "RUNNING" => PhaseOf(n) = n.stage
  BY DEF PhaseOf
<1>3. n.status # "WAITING_HUMAN" => PhaseOf(n) # "waiting"
  <2>1. n.status \in Statuses /\ n.stage \in Stages
    BY DEF States
  <2> QED BY <2>1, <1>2 DEF Statuses, Stages, After
<1>4. /\ RunPhase = [q \in Runs |-> RunPhase[q]]
      /\ RunDeadline = [q \in Runs |-> RunDeadline[q]]
  BY DEF RunPhase, RunDeadline
<1>5. CASE Started(r, n)
  <2>1. RunPhase[r] = "none" /\ RunDeadline[r] = NULL
    BY <1>5 DEF Started, RunPhase, RunDeadline
  <2>2. PhaseOf(n) = "QUALIFY" /\ deadline = NULL
    BY <1>2, <1>3, <1>5 DEF Started, Fresh
  <2>3. RunDeadline' = RunDeadline
    BY <1>1, <1>4, <2>1, <2>2
  <2>4. Promise!RStart(r)
    BY <1>1, <1>5, <2>1, <2>2, <2>3 DEF Promise!RStart, Started
  <2> QED BY <2>4 DEF Promise!RNext
<1>6. ASSUME NEW e \in Events, Advanced(r, n, e)
      PROVE  Promise!RNext \/ UNCHANGED <<now, RunPhase, RunDeadline>>
  <2>1. /\ RunPhase[r] = Latest(r).stage /\ RunDeadline[r] = NULL
        /\ PhaseOf(n) = After[RunPhase[r]] /\ deadline = NULL /\ now' = now
    BY <1>2, <1>3, <1>6, MappedState DEF Advanced, Records
  <2>2. RunDeadline' = RunDeadline
    BY <1>1, <1>4, <2>1
  <2>3. CASE RunPhase[r] = "CLOSE"
    <3>1. PhaseOf(n) = RunPhase[r]
      BY <2>1, <2>3 DEF After
    <3> QED BY <1>1, <1>4, <2>1, <2>2, <3>1
  <2>4. CASE RunPhase[r] # "CLOSE"
    <3>1. /\ RunPhase[r] \in DOMAIN Promise!Successor
          /\ After[RunPhase[r]] = Promise!Successor[RunPhase[r]]
      BY <1>6, <2>1, <2>4 DEF Advanced, Stages, After, Promise!Successor
    <3>2. Promise!RAdvance(r)
      BY <1>1, <2>1, <2>2, <3>1 DEF Promise!RAdvance
    <3> QED BY <3>2 DEF Promise!RNext
  <2> QED BY <2>3, <2>4
<1>7. ASSUME NEW e \in Events, NEW a \in Actions, Asked(r, n, e, a)
      PROVE  Promise!RNext
  <2>1. /\ RunPhase[r] = "APPROVE" /\ PhaseOf(n) = "waiting"
        /\ deadline = now + Sla /\ now' = now
    BY <1>2, <1>7, MappedState DEF Asked, Records
  <2>2. Promise!RAsk(r)
    BY <1>1, <2>1 DEF Promise!RAsk
  <2> QED BY <2>2 DEF Promise!RNext
<1>8. ASSUME NEW a \in Actions, Closed(r, n, a) PROVE Promise!RNext
  <2>1. /\ RunPhase[r] = "waiting" /\ RunDeadline[r] = human_action[a].expires
        /\ deadline = NULL /\ now' = now
    BY <1>2, <1>3, <1>8, MappedState DEF Closed
  <2>2. CASE n.status = "BLOCKED"
    <3>1. Promise!RBlock(r)
      BY <1>1, <1>2, <2>1, <2>2 DEF Promise!RBlock
    <3> QED BY <3>1 DEF Promise!RNext
  <2>3. CASE n.status = "RUNNING" /\ n.stage = "CONTACT" /\ now < human_action[a].expires
    <3>1. Promise!RGrant(r)
      BY <1>1, <1>2, <2>1, <2>3 DEF Promise!RGrant
    <3> QED BY <3>1 DEF Promise!RNext
  <2> QED BY <1>8, <2>2, <2>3 DEF Closed
<1> QED BY <1>5, <1>6, <1>7, <1>8 DEF Committed

LEMMA MappedNext ==
  ASSUME IInv, [Next]_vars PROVE [Promise!RNext]_<<now, RunPhase, RunDeadline>>
<1>1. CASE NoCommit
  <2>1. \A r \in Runs : Latest(r)' = Latest(r)
    BY <1>1 DEF NoCommit, Latest
  <2>2. RunPhase' = RunPhase
    BY <1>1, <2>1 DEF NoCommit, RunPhase, PhaseOf
  <2>3. RunDeadline' = RunDeadline
    BY <1>1, <2>1, <2>2 DEF NoCommit, RunDeadline
  <2>4. now' = now \/ now' = now + 1
    <3>1. CASE UNCHANGED vars
      BY <3>1 DEF vars
    <3>2. CASE Next
      BY <3>2 DEF Next, Start, LockRun, Release, TransitionStep, DecideStep, Advance,
                  AskHuman, ExpireAction, DecideAction, Tick
    <3> QED BY <3>1, <3>2
  <2> QED BY <2>2, <2>3, <2>4 DEF Promise!RNext, Promise!RTick
<1>2. CASE UNCHANGED vars
  BY <1>1, <1>2 DEF vars, NoCommit
<1> QED BY <1>1, <1>2, MappedStep, StepCommits

\* The workflow implements the run of SalesRun: what a run's rows, checkpoints
\* and actions say of it moves as a run that waits for its human and no longer.
THEOREM ImplementsSalesRun == Spec => ImplementsRun
<1>1. Init => Promise!RInit
  BY DEF Init, Promise!RInit, RunPhase, RunDeadline
<1>2. IInv /\ [Next]_vars => [Promise!RNext]_<<now, RunPhase, RunDeadline>>
  BY MappedNext
<1> QED BY <1>1, <1>2, InvariantHolds, PTL
           DEF Spec, ImplementsRun, Promise!RSpec, Promise!promised
=============================================================================
