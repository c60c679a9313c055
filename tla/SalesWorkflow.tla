---------------------------- MODULE SalesWorkflow ----------------------------
(***************************************************************************)
(* The durable workflow of the orchestrator: PostgresWorkflowRepository    *)
(* (services/orchestrator/app/postgres_workflow.py) under any number of    *)
(* threads and processes, with redelivered events, crashes and rollbacks.  *)
(*                                                                         *)
(* A transaction locks the row of its run, reads the latest checkpoint and *)
(* then either commits everything it writes or leaves no trace; so it is   *)
(* two steps here, LockRun and one of the commits or Release.  Whatever    *)
(* ends without a commit is a Release: an event already recorded, every    *)
(* ValueError, a plain get, a lost connection, a crash of the process.     *)
(* A run stands for a tenant's run: another tenant finds no row.           *)
(***************************************************************************)
EXTENDS Integers, FiniteSets

CONSTANTS
  Runs,             \* run ids (uuid4)
  Events,           \* event ids the callers send, each as often as they like
  Actions,          \* ids of human actions (uuid4)
  Hashes,           \* subject hashes of 64 characters
  Threads,          \* database sessions of the orchestrator's processes
  NULL,             \* None
  Sla               \* 24 hours, the life of a human action

CONSTANT MaxTime    \* bound of the model: ticks of the clock, which outlives
                    \* every action created

ASSUME WorkflowAssumption ==
  /\ Sla \in Nat /\ MaxTime \in Nat
  /\ IsFiniteSet(Events) /\ IsFiniteSet(Actions)

VARIABLES
  now,              \* the clock
  graph_run,        \* stage and status of a run's row, NULL before start
  graph_checkpoint, \* the set of a run's checkpoints
  workflow_event,   \* pairs (run, event) already applied
  human_action,     \* rows of human_action, NULL for an unused id
  session           \* open transactions: the run locked and the state read

vars == <<now, graph_run, graph_checkpoint, workflow_event, human_action, session>>

\* WorkflowEngine.order: the stage after each, the last one after itself.
After ==
  [QUALIFY |-> "PREPARE", PREPARE |-> "APPROVE", APPROVE |-> "CONTACT",
   CONTACT |-> "CONVERSE", CONVERSE |-> "HANDOFF", HANDOFF |-> "CLOSE",
   CLOSE |-> "CLOSE"]

Stages == DOMAIN After

Statuses == {"RUNNING", "WAITING_HUMAN", "BLOCKED"}

\* SalesRunState: what of it changes after the start.
States == [stage : Stages, status : Statuses, pending : Actions \union {NULL},
           last_event : Events \union {NULL}, no : Nat]

\* Rows of graph_run and of human_action.
RunRows == [stage : Stages, status : Statuses]

Rows == [run : Runs, hash : Hashes, expires : Int, decided : Nat \union {NULL},
         status : {"PENDING", "APPROVED", "REJECTED", "EXPIRED"}]

ASSUME NullAssumption ==
  NULL \notin Int /\ NULL \notin Actions /\ NULL \notin RunRows /\ NULL \notin Rows

\* mutant: a run is born in a status the engine does not know
Fresh_Pending == [stage |-> "QUALIFY", status |-> "PENDING", pending |-> NULL,
                  last_event |-> NULL, no |-> 0]

Fresh == [stage |-> "QUALIFY", status |-> "RUNNING", pending |-> NULL,
          last_event |-> NULL, no |-> 0]

NoSession == [open |-> FALSE]

Init ==
  /\ now = 0
  /\ graph_run = [r \in Runs |-> NULL]
  /\ graph_checkpoint = [r \in Runs |-> {}]
  /\ workflow_event = {}
  /\ human_action = [a \in Actions |-> NULL]
  /\ session = [w \in Threads |-> NoSession]

\* ORDER BY checkpoint_no DESC LIMIT 1
Latest(r) ==
  CHOOSE c \in graph_checkpoint[r] : \A b \in graph_checkpoint[r] : b.no <= c.no

\* _checkpoint: number the state, store it and update the run's row with it.
Checkpoint(r, state) ==
  LET numbered == [state EXCEPT !.no = state.no + 1] IN
  /\ graph_checkpoint' = [graph_checkpoint EXCEPT ![r] = @ \union {numbered}]
  /\ graph_run' = [graph_run EXCEPT ![r] = [stage |-> state.stage, status |-> state.status]]

Start(r) ==
  /\ graph_run[r] = NULL
  /\ Checkpoint(r, Fresh)
  /\ UNCHANGED <<now, workflow_event, human_action, session>>

\* mutant: the SELECT is not FOR UPDATE
Locked_Never(r) == FALSE

Locked(r) == \E w \in Threads : session[w].open /\ session[w].run = r

\* _locked_state: SELECT ... FOR UPDATE of the run, then its latest checkpoint.
LockRun(w, r) ==
  /\ ~ session[w].open
  /\ graph_run[r] # NULL
  /\ ~ Locked(r)
  /\ session' = [session EXCEPT ![w] = [open |-> TRUE, run |-> r, state |-> Latest(r)]]
  /\ UNCHANGED <<now, graph_run, graph_checkpoint, workflow_event, human_action>>

\* The transaction ends: its lock goes with it.
Close(w) == session' = [session EXCEPT ![w] = NoSession]

Release(w) ==
  /\ session[w].open
  /\ Close(w)
  /\ UNCHANGED <<now, graph_run, graph_checkpoint, workflow_event, human_action>>

\* mutant: the conflict on workflow_event goes unnoticed
RecordEvent_Repeats(w, e) ==
  /\ session[w].open
  /\ session[w].state.status = "RUNNING"
  /\ workflow_event' = workflow_event \union {<<session[w].run, e>>}

\* transition records the event of an active run, unless it is recorded already.
RecordEvent(w, e) ==
  /\ session[w].open
  /\ <<session[w].run, e>> \notin workflow_event
  /\ session[w].state.status = "RUNNING"
  /\ workflow_event' = workflow_event \union {<<session[w].run, e>>}

\* mutant: APPROVE is a stage like the others
Advance_PastApproval(w, e) ==
  LET s == session[w].state IN
  /\ RecordEvent(w, e)
  /\ Checkpoint(session[w].run, [s EXCEPT !.stage = After[s.stage], !.last_event = e])
  /\ Close(w)
  /\ UNCHANGED <<now, human_action>>

\* transition, in any stage but APPROVE.
Advance(w, e) ==
  LET s == session[w].state IN
  /\ RecordEvent(w, e)
  /\ s.stage # "APPROVE"
  /\ Checkpoint(session[w].run, [s EXCEPT !.stage = After[s.stage], !.last_event = e])
  /\ Close(w)
  /\ UNCHANGED <<now, human_action>>

\* transition in APPROVE: the run waits for a human from here on.  A payload
\* without a hash of 64 characters rolls everything back, the event included.
AskHuman(w, e, a, hash) ==
  LET s == session[w].state IN
  /\ RecordEvent(w, e)
  /\ s.stage = "APPROVE"
  /\ human_action[a] = NULL
  /\ now + Sla <= MaxTime
  /\ human_action' = [human_action EXCEPT ![a] =
       [run |-> session[w].run, hash |-> hash, status |-> "PENDING",
        expires |-> now + Sla, decided |-> NULL]]
  /\ Checkpoint(session[w].run, [s EXCEPT !.status = "WAITING_HUMAN", !.pending = a,
                                          !.last_event = e])
  /\ Close(w)
  /\ UNCHANGED now

\* mutant: an action may be decided again
Undecided_Again(w, a) ==
  /\ session[w].open
  /\ human_action[a] # NULL
  /\ human_action[a].run = session[w].run

\* decide_human_action finds the action of this run, not decided yet.
Undecided(w, a) ==
  /\ session[w].open
  /\ human_action[a] # NULL
  /\ human_action[a].run = session[w].run
  /\ human_action[a].status = "PENDING"

\* mutant: the action expires and its run is forgotten
ExpireAction_LeavesRun(w, a) ==
  /\ Undecided(w, a)
  /\ human_action[a].expires <= now
  /\ human_action' = [human_action EXCEPT ![a].status = "EXPIRED"]
  /\ Close(w)
  /\ UNCHANGED <<now, graph_run, graph_checkpoint, workflow_event>>

\* decide_human_action comes too late, whatever it says: the run is blocked.
ExpireAction(w, a) ==
  /\ Undecided(w, a)
  /\ human_action[a].expires <= now
  /\ human_action' = [human_action EXCEPT ![a].status = "EXPIRED"]
  /\ Checkpoint(session[w].run,
                [session[w].state EXCEPT !.status = "BLOCKED", !.pending = NULL])
  /\ Close(w)
  /\ UNCHANGED <<now, workflow_event>>

\* mutant: the expiry is not looked at
DecideAction_Overdue(w, a, approved, hash) ==
  LET s == session[w].state IN
  /\ Undecided(w, a)
  /\ human_action[a].hash = hash
  /\ human_action' = [human_action EXCEPT
       ![a].status = IF approved THEN "APPROVED" ELSE "REJECTED",
       ![a].decided = now]
  /\ Checkpoint(session[w].run,
       IF approved
       THEN [s EXCEPT !.status = "RUNNING", !.stage = "CONTACT", !.pending = NULL]
       ELSE [s EXCEPT !.status = "BLOCKED", !.pending = NULL])
  /\ Close(w)
  /\ UNCHANGED <<now, workflow_event>>

\* decide_human_action in time and for the subject the human was shown.
DecideAction(w, a, approved, hash) ==
  LET s == session[w].state IN
  /\ Undecided(w, a)
  /\ human_action[a].expires > now
  /\ human_action[a].hash = hash
  /\ human_action' = [human_action EXCEPT
       ![a].status = IF approved THEN "APPROVED" ELSE "REJECTED",
       ![a].decided = now]
  /\ Checkpoint(session[w].run,
       IF approved
       THEN [s EXCEPT !.status = "RUNNING", !.stage = "CONTACT", !.pending = NULL]
       ELSE [s EXCEPT !.status = "BLOCKED", !.pending = NULL])
  /\ Close(w)
  /\ UNCHANGED <<now, workflow_event>>

Tick ==
  /\ now < MaxTime
  /\ now' = now + 1
  /\ UNCHANGED <<graph_run, graph_checkpoint, workflow_event, human_action, session>>

TransitionStep(w) ==
  \E e \in Events : \/ Advance(w, e)
                    \/ \E a \in Actions, hash \in Hashes : AskHuman(w, e, a, hash)

DecideStep(w) ==
  \E a \in Actions :
    \/ ExpireAction(w, a)
    \/ \E approved \in BOOLEAN, hash \in Hashes : DecideAction(w, a, approved, hash)

Next ==
  \/ \E r \in Runs : Start(r) \/ \E w \in Threads : LockRun(w, r)
  \/ \E w \in Threads : Release(w) \/ TransitionStep(w) \/ DecideStep(w)
  \/ Tick

Spec == Init /\ [][Next]_vars

-----------------------------------------------------------------------------
(* Properties                                                              *)

\* Types of the state.
TypeOK ==
  /\ now \in Nat
  /\ graph_run \in [Runs -> RunRows \union {NULL}]
  /\ graph_checkpoint \in [Runs -> SUBSET States]
  /\ workflow_event \subseteq Runs \X Events
  /\ human_action \in [Actions -> Rows \union {NULL}]
  /\ session \in [Threads -> {NoSession}
                  \union [open : {TRUE}, run : Runs, state : States]]

Numbers(r) == {c.no : c \in graph_checkpoint[r]}

Restorable(r) ==
  /\ \A b, c \in graph_checkpoint[r] : b.no = c.no => b = c
  /\ \A c \in graph_checkpoint[r] : c.no >= 1 /\ (c.no > 1 => c.no - 1 \in Numbers(r))
  /\ graph_run[r] # NULL =>
       /\ graph_checkpoint[r] # {}
       /\ graph_run[r].stage = Latest(r).stage
       /\ graph_run[r].status = Latest(r).status

\* The checkpoints of a run pass the test of WorkflowEngine.restore, numbers
\* from 1 without a gap or a repetition, whatever threads wrote them; and the
\* run's row says what the last of them says.
CheckpointsRestorable == \A r \in Runs : Restorable(r)

OfRun(r) == {a \in Actions : human_action[a] # NULL /\ human_action[a].run = r}

Agrees(r) ==
  graph_run[r] # NULL =>
    /\ \A a \in OfRun(r) :
         human_action[a].status = "PENDING" <=>
           /\ graph_run[r].status = "WAITING_HUMAN"
           /\ Latest(r).pending = a
    /\ graph_run[r].status = "WAITING_HUMAN" => Latest(r).pending \in OfRun(r)
    /\ \A a, b \in OfRun(r) : a = b

\* The run and the table of human actions never disagree: a run waits exactly
\* when it has an undecided action, the one its checkpoint names; and a run is
\* put before a human once, whatever became of that (see OverdueAskedAgain).
WaitingHasItsAction == \A r \in Runs : Agrees(r)

AfterApproval == {"CONTACT", "CONVERSE", "HANDOFF", "CLOSE"}

Approved(r) ==
  \E a \in OfRun(r) : /\ human_action[a].status = "APPROVED"
                      /\ human_action[a].decided < human_action[a].expires

PastApproval(r) == \E c \in graph_checkpoint[r] : c.stage \in AfterApproval

\* No run reaches the contact, however its events are repeated or interleaved,
\* unless a human approved it before the action expired.
HumanGate == \A r \in Runs : PastApproval(r) => Approved(r)

Decided(r) == {a \in OfRun(r) : human_action[a].status # "PENDING"}

Applied(r) == {e \in Events : <<r, e>> \in workflow_event}

Explained(r) ==
  Cardinality(graph_checkpoint[r]) =
    1 + Cardinality(Applied(r)) + Cardinality(Decided(r))

\* An event is recorded exactly when it took effect, and took effect once: every
\* checkpoint but the first is due to one recorded event or one decided action.
EveryCheckpointExplained == \A r \in Runs : graph_run[r] # NULL => Explained(r)

\* A run never goes back: not to an earlier stage, not from BLOCKED to life.  The code
\* treats a run whose review was overdue so as well, and a test of the engine in memory
\* expects it (test_expired_human_action_blocks_run); the specification of the
\* workflow asks for something else, OverdueAskedAgain.
NeverBack ==
  [][ \A r \in Runs : graph_run[r] # NULL =>
        /\ graph_run'[r].stage \in {graph_run[r].stage, After[graph_run[r].stage]}
        /\ graph_run[r].status = "BLOCKED" => graph_run'[r] = graph_run[r] ]_vars

\* An overdue review does not end its run, which is put before a human again:
\* "invalida el contexto anterior, repite preflight y solicita una nueva decision"
\* (workflow-orchestration/spec.md:24-27, of a review whose campaign has changed; the
\* code does not look whether it has).
OverdueAskedAgain ==
  [][ \A a \in Actions :
        (/\ human_action[a] # NULL /\ human_action[a].status = "PENDING"
         /\ human_action'[a].status = "EXPIRED")
          => graph_run'[human_action[a].run].status # "BLOCKED" ]_vars

-----------------------------------------------------------------------------
(* The inductive invariant: an open transaction holds its run's lock and   *)
(* the state it read is still the latest.                                  *)

SessionInv ==
  /\ \A w \in Threads, r \in Runs : session[w].open /\ session[w].run = r =>
       graph_run[r] # NULL /\ session[w].state = Latest(r)
  /\ \A v, w \in Threads :
       session[v].open /\ session[w].open /\ session[v].run = session[w].run => v = w

\* The state of a started run says how far it is with its human.
Phase(r) ==
  IF graph_run[r] = NULL
  THEN graph_checkpoint[r] = {} /\ OfRun(r) = {} /\ Applied(r) = {}
  ELSE /\ Latest(r).status = "RUNNING" =>
            IF Latest(r).stage \in AfterApproval THEN Approved(r) ELSE OfRun(r) = {}
       /\ Latest(r).status # "RUNNING" => Latest(r).stage = "APPROVE"

PhaseInv == \A r \in Runs : Phase(r)

\* The checkpoint numbered highest exists, and is the one Latest chooses.
LatestInv ==
  \A r \in Runs : graph_run[r] # NULL =>
    /\ Latest(r) \in graph_checkpoint[r]
    /\ \A b \in graph_checkpoint[r] : b.no <= Latest(r).no

IInv == /\ TypeOK /\ CheckpointsRestorable /\ LatestInv /\ WaitingHasItsAction
        /\ HumanGate /\ SessionInv /\ PhaseInv

-----------------------------------------------------------------------------
(* What this implements: the runs of SalesRun.                             *)

PhaseOf(state) ==
  CASE state.status = "WAITING_HUMAN" -> "waiting"
    [] state.status = "BLOCKED" -> "blocked"
    [] OTHER -> state.stage

RunPhase ==
  [r \in Runs |-> IF graph_run[r] = NULL THEN "none" ELSE PhaseOf(Latest(r))]

RunDeadline ==
  [r \in Runs |->
     IF RunPhase[r] = "waiting" THEN human_action[Latest(r).pending].expires
     ELSE NULL]

Promise == INSTANCE SalesRun
             WITH None <- NULL, phase <- RunPhase, deadline <- RunDeadline

\* Checkpoints, events, actions and locks implement the run of the promise.
ImplementsRun == Promise!RSpec

-----------------------------------------------------------------------------
(* Liveness.  No part of the program decides an overdue action by itself:  *)
(* an action waits for a call of decide_human_action, which blocks an      *)
(* overdue run whatever it says.  The fairness is that such calls keep     *)
(* coming, each gets its turn at the lock, and time passes.                *)

LateDecision(w, r) ==
  /\ session[w].open /\ session[w].run = r
  /\ \E a \in Actions : ExpireAction(w, a)

Fairness ==
  /\ WF_vars(Tick)
  /\ \A w \in Threads : WF_vars(Release(w))
  /\ \A r \in Runs, w \in Threads : SF_vars(LockRun(w, r)) /\ SF_vars(LateDecision(w, r))

FairSpec == Spec /\ Fairness

Waits(r) == graph_run[r] # NULL /\ graph_run[r].status = "WAITING_HUMAN"

\* A run put before a human does not wait for ever, even if every answer is for
\* another subject, comes too late, or is rolled back again and again.
WaitingEnds == \A r \in Runs : Waits(r) ~> ~ Waits(r)

=============================================================================
