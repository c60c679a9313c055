------------------------------ MODULE MCRequests ------------------------------
(* Instances of RequestAdmission, IdempotentHttp and MemoryWorkflow for TLC: *)
(* what stands before a handler, and the one handler that keeps its state in *)
(* the server.  They share no state: a run explores one of them and leaves   *)
(* the others alone.                                                         *)
EXTENDS IdempotentHttp, RequestAdmission, MemoryWorkflow, TLC

CONSTANTS s1, s2, w1, w2, e1, e2

VARIABLE part       \* the module that runs, and for which kind of messages

\* Two messages of each kind, the first of which arrives twice.
MCKind == [m \in Messages |-> CASE m \in {w1, w2} -> "generic"
                                [] m \in {e1, e2} -> "meta"
                                [] OTHER -> "workload"]

MCDeliveries == Messages \X {1, 2} \ {s2, w2, e2} \X {2}

MCMessageOf == [d \in Deliveries |-> d[1]]

MCMaxSkew == [kind \in Kinds |-> 1]
MCKeepFor == [kind \in Kinds |-> IF kind = "workload" THEN 2 ELSE 3]
MCMaxEntries == [kind \in Kinds |-> 1]

MCInit ==
  /\ part \in {"http", "engine"} \union Kinds
  /\ Init /\ AdmissionInit /\ MemoryInit
  /\ part \notin Kinds => ~ database /\ \A m \in Messages : stamp[m] = 1
  /\ part # "http" => ~ durable

MCNext ==
  /\ UNCHANGED part
  /\ \/ part = "http" /\ Next /\ UNCHANGED <<admissionVars, memoryVars>>
     \/ part = "engine" /\ MemoryNext /\ UNCHANGED <<vars, admissionVars>>
     \/ /\ part \in Kinds /\ UNCHANGED <<vars, memoryVars>>
        /\ \/ \E d \in Deliveries : KindOf(d) = part /\ ThreadStep(d)
           \/ StopService
           \/ Pass

MCSpec == MCInit /\ [][MCNext]_<<part, vars, admissionVars, memoryVars>>

Symmetric ==
  Permutations(Requests) \union Permutations(Keys) \union Permutations(Bodies)
=============================================================================
