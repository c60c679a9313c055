---------------------------- MODULE MemoryWorkflow ----------------------------
(***************************************************************************)
(* The orchestrator without a database: WorkflowEngine and the map of runs *)
(* its server keeps.  The engine works under a lock of its own, but the    *)
(* server reads the run before it and stores the result after it, each in  *)
(* a step of the thread that serves the request.                           *)
(***************************************************************************)
EXTENDS Integers, Sequences, FiniteSets, SequencesExt

CONSTANTS
  RunIds,           \* identities of runs
  EventIds,         \* event ids the callers send, again after an error
  ActionIds,        \* identities of human actions
  Handlers,         \* threads of the HTTP server
  MaxRunContexts,   \* max_entries of the map of runs
  MaxCheckpoints    \* bound of the model: checkpoints of a run

ASSUME MemoryWorkflowAssumption ==
  /\ IsFiniteSet(RunIds) /\ IsFiniteSet(ActionIds)
  /\ MaxRunContexts \in Nat \ {0} /\ MaxCheckpoints \in Nat \ {0}

VARIABLES
  runs,             \* the map of runs: their states, the last stored at the end
  checkpoints,      \* WorkflowEngine.checkpoints
  processed_events, \* WorkflowEngine.processed_events, of all the runs
  human_actions,    \* WorkflowEngine.human_actions: their status
  serving,          \* what each thread holds of the run it serves
  burnt,            \* events used up without effect (no code reads it, nor the next)
  raced             \* runs two requests were served for at a time

memoryVars == <<runs, checkpoints, processed_events, human_actions, serving, burnt, raced>>

Idle == [pc |-> "idle"]

\* QUALIFY to CLOSE, in the order the events go through.  APPROVE is left by a
\* decision.
NextStage ==
  [QUALIFY |-> "PREPARE", PREPARE |-> "APPROVE", CONTACT |-> "CONVERSE",
   CONVERSE |-> "HANDOFF", HANDOFF |-> "CLOSE", CLOSE |-> "CLOSE"]

Stages == DOMAIN NextStage \union {"APPROVE"}

MemoryInit ==
  /\ runs = <<>>
  /\ checkpoints = [r \in RunIds |-> <<>>]
  /\ processed_events = {}
  /\ human_actions = <<>>
  /\ serving = [t \in Handlers |-> Idle]
  /\ burnt = {} /\ raced = {}

Holders(r) == {t \in Handlers : serving[t].pc # "idle" /\ serving[t].state.run = r}

-----------------------------------------------------------------------------
(* BoundedTTLMap.  All entries live as long, so that they expire in the    *)
(* order in which they were stored: at any access, some first ones have.   *)

Unexpired == {SubSeq(runs, n, Len(runs)) : n \in 1 .. Len(runs) + 1}

Has(entries, r) == \E i \in DOMAIN entries : entries[i].run = r

Without(entries, r) ==
  IF Has(entries, r)
  THEN RemoveAt(entries, CHOOSE i \in DOMAIN entries : entries[i].run = r) ELSE entries

\* mutant: the map grows one past its limit
WithRoom_Late(entries, r) ==
  IF ~ Has(entries, r) /\ Len(entries) > MaxRunContexts
  THEN Tail(entries) ELSE Without(entries, r)

\* Only a run that is not there needs room.
WithRoom(entries, r) ==
  IF ~ Has(entries, r) /\ Len(entries) >= MaxRunContexts
  THEN Tail(entries) ELSE Without(entries, r)

-----------------------------------------------------------------------------
(* WorkflowEngine                                                          *)

Numbered(state) == [state EXCEPT !.no = @ + 1]

\* The engine writes the checkpoint; the thread goes on to store the state.
Checkpoint(t, state) ==
  /\ Len(checkpoints[state.run]) < MaxCheckpoints
  /\ checkpoints' = [checkpoints EXCEPT ![state.run] = Append(@, Numbered(state))]
  /\ serving' = [serving EXCEPT ![t] = [pc |-> "store", state |-> Numbered(state)]]

StartMemoryRun(t) ==
  /\ serving[t].pc = "idle"
  /\ \E r \in RunIds :
       /\ checkpoints[r] = <<>>
       /\ Checkpoint(t, [run |-> r, stage |-> "QUALIFY", status |-> "RUNNING", no |-> 0])
  /\ UNCHANGED <<runs, processed_events, human_actions, burnt, raced>>

\* runs.get, before the engine is called.  RUN_NOT_FOUND ends the request.
ReadRun(t) ==
  /\ serving[t].pc = "idle"
  /\ \E r \in RunIds, left \in Unexpired :
       /\ runs' = left
       /\ \/ ~ Has(left, r) /\ UNCHANGED <<serving, raced>>
          \/ \E i \in DOMAIN left :
               /\ left[i].run = r
               /\ serving' = [serving EXCEPT ![t] = [pc |-> "read", state |-> left[i]]]
               /\ raced' = IF Holders(r) = {} THEN raced ELSE raced \union {r}
  /\ UNCHANGED <<checkpoints, processed_events, human_actions, burnt>>

\* mutant: an event a caller sends again is applied again
Processed_Ignored(e) == FALSE /\ e \in processed_events

Processed(e) == e \in processed_events

\* The answer to an event that was processed is the state the thread has read.
RepeatEvent(t) ==
  /\ serving[t].pc = "read"
  /\ \E e \in EventIds : Processed(e)
  /\ serving' = [serving EXCEPT ![t].pc = "store"]
  /\ UNCHANGED <<runs, checkpoints, processed_events, human_actions, burnt, raced>>

ApplyEvent(t) ==
  /\ serving[t].pc = "read"
  /\ serving[t].state.status = "RUNNING"
  /\ \E e \in EventIds : ~ Processed(e) /\ processed_events' = processed_events \union {e}
  /\ LET state == serving[t].state IN
     IF state.stage # "APPROVE"
     THEN /\ Checkpoint(t, [state EXCEPT !.stage = NextStage[@]])
          /\ UNCHANGED human_actions
     ELSE \E a \in ActionIds \ DOMAIN human_actions :
            /\ human_actions' = [x \in DOMAIN human_actions \union {a} |->
                 IF x = a THEN "PENDING" ELSE human_actions[x]]
            /\ Checkpoint(t, [state EXCEPT !.status = "WAITING_HUMAN"])
  /\ UNCHANGED <<runs, burnt, raced>>

\* At APPROVE the event is entered before its payload is read: one that is no object
\* raises, and what it leaves is the event, which is answered as processed from here on.
BurnEvent(t) ==
  /\ serving[t].pc = "read"
  /\ serving[t].state.status = "RUNNING" /\ serving[t].state.stage = "APPROVE"
  /\ \E e \in EventIds :
       /\ ~ Processed(e)
       /\ processed_events' = processed_events \union {e}
       /\ burnt' = burnt \union {e}
  /\ serving' = [serving EXCEPT ![t] = Idle]
  /\ UNCHANGED <<runs, checkpoints, human_actions, raced>>

\* mutant: the lock of the engine does not cover the check of the action
Decidable_Any(a) == human_actions[a] \in {"PENDING", "APPROVED"}

Decidable(a) == human_actions[a] = "PENDING"

\* Any pending action, of this run or another, whose subject_hash the caller has;
\* whatever the stage and status of the run, and whether or not it has expired.
DecideHumanAction(t) ==
  /\ serving[t].pc = "read"
  /\ \E a \in DOMAIN human_actions, approved \in BOOLEAN :
       /\ Decidable(a)
       /\ human_actions' = [human_actions EXCEPT ![a] =
            IF approved THEN "APPROVED" ELSE "REJECTED"]
       /\ LET state == serving[t].state IN
          Checkpoint(t, IF approved
                        THEN [state EXCEPT !.status = "RUNNING", !.stage = "CONTACT"]
                        ELSE [state EXCEPT !.status = "BLOCKED"])
  /\ UNCHANGED <<runs, processed_events, burnt, raced>>

\* RUN_NOT_ACTIVE, HUMAN_ACTION_NOT_PENDING, HUMAN_ACTION_HASH_MISMATCH.
RefuseRequest(t) ==
  /\ serving[t].pc = "read"
  /\ serving' = [serving EXCEPT ![t] = Idle]
  /\ UNCHANGED <<runs, checkpoints, processed_events, human_actions, burnt, raced>>

\* mutant: a state is not stored again while the map still has one of the run
Stored_First(left, state) ==
  IF Has(left, state.run) THEN left
  ELSE Append(WithRoom(left, state.run), state)

Stored(left, state) == Append(WithRoom(left, state.run), state)

StoreRun(t) ==
  /\ serving[t].pc = "store"
  /\ \E left \in Unexpired : runs' = Stored(left, serving[t].state)
  /\ serving' = [serving EXCEPT ![t] = Idle]
  /\ UNCHANGED <<checkpoints, processed_events, human_actions, burnt, raced>>

ServeStep(t) ==
  \/ StartMemoryRun(t) \/ ReadRun(t) \/ StoreRun(t)
  \/ RepeatEvent(t) \/ ApplyEvent(t) \/ BurnEvent(t)
  \/ DecideHumanAction(t) \/ RefuseRequest(t)

MemoryNext == \E t \in Handlers : ServeStep(t)

MemorySpec == MemoryInit /\ [][MemoryNext]_memoryVars

-----------------------------------------------------------------------------
(* Properties                                                              *)

States == [run : RunIds, stage : Stages, no : 0 .. MaxCheckpoints,
           status : {"RUNNING", "WAITING_HUMAN", "BLOCKED"}]

\* Types of the state; the map of runs keeps within its limit and has one entry
\* for a run.
MemoryTypeOK ==
  /\ runs \in Seq(States) /\ Len(runs) <= MaxRunContexts
  /\ \A i, j \in DOMAIN runs : runs[i].run = runs[j].run => i = j
  /\ checkpoints \in [RunIds -> Seq(States)]
  /\ burnt \subseteq processed_events /\ processed_events \subseteq EventIds
  /\ DOMAIN human_actions \subseteq ActionIds
  /\ \A a \in DOMAIN human_actions : human_actions[a] \in {"PENDING", "APPROVED", "REJECTED"}
  /\ serving \in [Handlers -> {Idle} \union [pc : {"read", "store"}, state : States]]
  /\ raced \subseteq RunIds

\* What WorkflowEngine.restore asks of the checkpoints of a run.
Restorable(list) == list # <<>> /\ \A i \in DOMAIN list : list[i].no = i

\* A run whose requests never overlapped has checkpoints that restore accepts, and
\* while no thread serves it the map, if it still has it, has its last state: no
\* eviction, repeated event or request of another run takes it back.  Two requests
\* that overlap may number two checkpoints alike, which restore refuses.
SerialRunsRestore ==
  \A r \in RunIds \ raced :
    /\ checkpoints[r] # <<>> => Restorable(checkpoints[r])
    /\ Holders(r) = {} =>
         \A i \in DOMAIN runs : runs[i].run = r => runs[i] = Last(checkpoints[r])

\* The checkpoints by run and number, and those at which a run enters CONTACT.
Written == {w \in RunIds \X (1 .. MaxCheckpoints) : w[2] <= Len(checkpoints[w[1]])}

Enters(state) == state.stage = "CONTACT" /\ state.status = "RUNNING"

Contacts == {w \in Written : Enters(checkpoints[w[1]][w[2]])}

InStatus(statuses) == {a \in DOMAIN human_actions : human_actions[a] \in statuses}

Applied == processed_events \ burnt

\* However the requests of a run overlap, each start, each decision and each event
\* that was not burnt makes one checkpoint, and the runs enter CONTACT as many times
\* as actions were approved: an event or an approval sent again is not applied twice,
\* a burnt one not at all, and no event takes a run past APPROVE.
OneCheckpointPerCause ==
  /\ Cardinality(Written) =
       Cardinality({r \in RunIds : checkpoints[r] # <<>>}) + Cardinality(Applied)
         + Cardinality(InStatus({"APPROVED", "REJECTED"}))
  /\ Cardinality(Contacts) = Cardinality(InStatus({"APPROVED"}))

=============================================================================
