------------------------------- MODULE SalesRun -------------------------------
(***************************************************************************)
(* What the orchestrator promises of a sales run, with no checkpoint,      *)
(* event, row or transaction in sight: a run is prepared, waits for a      *)
(* human for a limited time, and is carried on only if the human granted   *)
(* it in that time; a refused or overdue run is blocked for good.  (That   *)
(* an overdue one is not asked about again is the code's promise and its   *)
(* tests', not that of workflow-orchestration/spec.md:24-27.)              *)
(***************************************************************************)
EXTENDS Integers

CONSTANTS Runs,
          None,       \* no deadline
          Sla         \* the time a human has

VARIABLES now,        \* time
          phase,      \* [Runs -> phases]
          deadline    \* until when a waiting run may be granted

promised == <<now, phase, deadline>>

Successor ==
  [QUALIFY |-> "PREPARE", PREPARE |-> "APPROVE", CONTACT |-> "CONVERSE",
   CONVERSE |-> "HANDOFF", HANDOFF |-> "CLOSE"]

RInit ==
  /\ now = 0
  /\ phase = [r \in Runs |-> "none"]
  /\ deadline = [r \in Runs |-> None]

RStart(r) ==
  /\ phase[r] = "none"
  /\ phase' = [phase EXCEPT ![r] = "QUALIFY"]
  /\ UNCHANGED <<now, deadline>>

RAdvance(r) ==
  /\ phase[r] \in DOMAIN Successor
  /\ phase' = [phase EXCEPT ![r] = Successor[phase[r]]]
  /\ UNCHANGED <<now, deadline>>

RAsk(r) ==
  /\ phase[r] = "APPROVE"
  /\ phase' = [phase EXCEPT ![r] = "waiting"]
  /\ deadline' = [deadline EXCEPT ![r] = now + Sla]
  /\ UNCHANGED now

RGrant(r) ==
  /\ phase[r] = "waiting" /\ now < deadline[r]
  /\ phase' = [phase EXCEPT ![r] = "CONTACT"]
  /\ deadline' = [deadline EXCEPT ![r] = None]
  /\ UNCHANGED now

RBlock(r) ==
  /\ phase[r] = "waiting"
  /\ phase' = [phase EXCEPT ![r] = "blocked"]
  /\ deadline' = [deadline EXCEPT ![r] = None]
  /\ UNCHANGED now

RTick == now' = now + 1 /\ UNCHANGED <<phase, deadline>>

RNext ==
  \/ RTick
  \/ \E r \in Runs : RStart(r) \/ RAdvance(r) \/ RAsk(r) \/ RGrant(r) \/ RBlock(r)

RSpec == RInit /\ [][RNext]_promised

=============================================================================
