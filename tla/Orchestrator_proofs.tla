-------------------------- MODULE Orchestrator_proofs --------------------------
(***************************************************************************)
(* Two inductive invariants of the orchestrator.                           *)
(*                                                                         *)
(* That of MemoryWorkflow, and from it that runs whose requests do not     *)
(* overlap can be restored, and that each start, decision and event that   *)
(* was not burnt makes one checkpoint however they overlap, for all sets   *)
(* of runs, events, actions and threads and every size of the map.         *)
(*                                                                         *)
(* That of EventOutbox, and from it the account of the deliveries for      *)
(* every set of events and publishers, every Limit, every choice of        *)
(* refused events and of payloads, and any number of faults.               *)
(***************************************************************************)
EXTENDS MemoryWorkflow, EventOutbox, FiniteSetTheorems, SequenceTheorems, TLAPS

-----------------------------------------------------------------------------
(* MemoryWorkflow                                                          *)

\* A list of states that has one of a run.
Distinct(list) == \A i, j \in DOMAIN list : list[i].run = list[j].run => i = j

\* A state that was numbered is no newer than the checkpoints of its run.
Numbered1(state) == state.no \in 1 .. Len(checkpoints[state.run])

Busy(t) == serving[t].pc # "idle"

NumbersInv ==
  /\ \A i \in DOMAIN runs : Numbered1(runs[i])
  /\ \A t \in Handlers : Busy(t) => Numbered1(serving[t].state)
  /\ \A r \in RunIds : Len(checkpoints[r]) <= MaxCheckpoints

\* Without an overlap, the thread that serves a run has its last state, and so has
\* the map, until the thread makes another.
AloneInv ==
  \A r \in RunIds \ raced :
    /\ \A t, u \in Holders(r) : t = u
    /\ \A t \in Holders(r) : serving[t].state = Last(checkpoints[r])
    /\ \A i \in DOMAIN checkpoints[r] : checkpoints[r][i].no = i
    /\ (\A t \in Holders(r) : serving[t].pc = "read") =>
         \A i \in DOMAIN runs : runs[i].run = r => runs[i] = Last(checkpoints[r])

CountInv == IsFiniteSet(processed_events) /\ OneCheckpointPerCause

MemoryInv == MemoryTypeOK /\ NumbersInv /\ AloneInv /\ CountInv

-----------------------------------------------------------------------------
\* The last ones of a list.
LEMMA SomeLast ==
  ASSUME NEW list \in Seq(States), Distinct(list), NEW n \in 1 .. Len(list) + 1
  PROVE  LET left == SubSeq(list, n, Len(list)) IN
         /\ left \in Seq(States) /\ Len(left) <= Len(list) /\ Distinct(left)
         /\ \A i \in DOMAIN left : \E j \in DOMAIN list : left[i] = list[j]
<1> DEFINE left == SubSeq(list, n, Len(list))
<1>1. Len(list) \in Nat /\ DOMAIN list = 1 .. Len(list)
  BY LenProperties
<1>2. \A i \in n .. Len(list) : list[i] \in States
  BY <1>1, ElementOfSeq
<1>3. /\ left \in Seq(States)
      /\ Len(left) = IF n <= Len(list) THEN Len(list) - n + 1 ELSE 0
      /\ \A i \in 1 .. Len(list) - n + 1 : left[i] = list[n + i - 1]
  BY <1>1, <1>2, SubSeqProperties
<1> HIDE DEF left
<1>4. DOMAIN left = 1 .. Len(left) /\ Len(left) \in Nat
  BY <1>3, LenProperties
<1>5. Len(left) <= Len(list)
  BY <1>1, <1>3
<1>6. \A i \in DOMAIN left : n + i - 1 \in DOMAIN list /\ left[i] = list[n + i - 1]
  BY <1>1, <1>3, <1>4
<1>7. Distinct(left)
  <2> SUFFICES ASSUME NEW i \in DOMAIN left, NEW j \in DOMAIN left, left[i].run = left[j].run
               PROVE  i = j
    BY DEF Distinct
  <2>1. n + i - 1 = n + j - 1
    BY <1>6 DEF Distinct
  <2> QED
    BY <1>1, <1>4, <2>1
<1> QED
  BY <1>3, <1>5, <1>6, <1>7 DEF left

\* A list without the entry at a place.
LEMMA OneRemoved ==
  ASSUME NEW list \in Seq(States), Distinct(list), NEW k \in DOMAIN list
  PROVE  LET left == RemoveAt(list, k) IN
         /\ left \in Seq(States) /\ Len(left) = Len(list) - 1 /\ Distinct(left)
         /\ \A i \in DOMAIN left : \E j \in DOMAIN list : j # k /\ left[i] = list[j]
<1> DEFINE left == RemoveAt(list, k)
           front == SubSeq(list, 1, k - 1)
           back == SubSeq(list, k + 1, Len(list))
<1>1. Len(list) \in Nat /\ DOMAIN list = 1 .. Len(list) /\ k \in 1 .. Len(list)
  BY LenProperties
<1>2. \A i \in 1 .. Len(list) : list[i] \in States
  BY ElementOfSeq
<1>3. /\ front \in Seq(States) /\ Len(front) = k - 1
      /\ \A i \in 1 .. k - 1 : front[i] = list[i]
  <2>1. \A i \in 1 .. k - 1 : list[i] \in States
    BY <1>1, <1>2
  <2>2. /\ front \in Seq(States) /\ Len(front) = IF 1 <= k - 1 THEN k - 1 - 1 + 1 ELSE 0
        /\ \A i \in 1 .. k - 1 - 1 + 1 : front[i] = list[1 + i - 1]
    BY <1>1, <2>1, SubSeqProperties
  <2> HIDE DEF front
  <2> QED
    BY <1>1, <2>2
<1>4. /\ back \in Seq(States) /\ Len(back) = Len(list) - k
      /\ \A i \in 1 .. Len(list) - k : back[i] = list[k + i]
  <2>1. \A i \in k + 1 .. Len(list) : list[i] \in States
    BY <1>1, <1>2
  <2>2. /\ back \in Seq(States)
        /\ Len(back) = IF k + 1 <= Len(list) THEN Len(list) - (k + 1) + 1 ELSE 0
        /\ \A i \in 1 .. Len(list) - (k + 1) + 1 : back[i] = list[(k + 1) + i - 1]
    BY <1>1, <2>1, SubSeqProperties
  <2> HIDE DEF back
  <2>3. Len(back) = Len(list) - k /\ Len(list) - (k + 1) + 1 = Len(list) - k
    BY <1>1, <2>2
  <2>4. \A i \in 1 .. Len(list) - k : (k + 1) + i - 1 = k + i
    BY <1>1
  <2> QED
    BY <2>2, <2>3, <2>4
<1>5. left = front \o back
  BY DEF RemoveAt
<1> HIDE DEF front, back, left
<1>6. /\ left \in Seq(States) /\ Len(left) = Len(front) + Len(back)
      /\ \A i \in 1 .. Len(front) + Len(back) :
           left[i] = IF i <= Len(front) THEN front[i] ELSE back[i - Len(front)]
  BY <1>3, <1>4, <1>5, ConcatProperties
<1>7. Len(left) = Len(list) - 1 /\ DOMAIN left = 1 .. Len(list) - 1
  BY <1>1, <1>3, <1>4, <1>6, LenProperties
<1> DEFINE old(i) == IF i < k THEN i ELSE i + 1
<1>8. \A i \in DOMAIN left :
        old(i) \in DOMAIN list /\ old(i) # k /\ left[i] = list[old(i)]
  <2> SUFFICES ASSUME NEW i \in DOMAIN left
               PROVE  old(i) \in DOMAIN list /\ old(i) # k /\ left[i] = list[old(i)]
    OBVIOUS
  <2>1. i \in 1 .. Len(list) - 1
    BY <1>7
  <2>2. CASE i < k
    BY <1>1, <1>3, <1>4, <1>6, <2>1, <2>2
  <2>3. CASE ~ (i < k)
    <3>1. left[i] = back[i - (k - 1)] /\ i - (k - 1) \in 1 .. Len(list) - k
      BY <1>1, <1>3, <1>4, <1>6, <2>1, <2>3
    <3>2. left[i] = list[k + (i - (k - 1))] /\ k + (i - (k - 1)) = i + 1
      BY <1>1, <1>4, <2>1, <3>1
    <3> QED
      BY <1>1, <2>1, <2>3, <3>2
  <2> QED
    BY <2>2, <2>3
<1>9. Distinct(left)
  <2> SUFFICES ASSUME NEW i \in DOMAIN left, NEW j \in DOMAIN left, left[i].run = left[j].run
               PROVE  i = j
    BY DEF Distinct
  <2>1. old(i) = old(j)
    BY <1>8 DEF Distinct
  <2> QED
    BY <1>1, <1>7, <2>1
<1> HIDE DEF old
<1> QED
  BY <1>6, <1>7, <1>8, <1>9 DEF left

\* What Stored leaves: the state itself, and entries of other runs, within the limit.
LEMMA StoredFacts ==
  ASSUME NEW list \in Seq(States), Distinct(list), Len(list) <= MaxRunContexts,
         NEW state \in States
  PROVE  LET new == Stored(list, state) IN
         /\ new \in Seq(States) /\ Len(new) <= MaxRunContexts /\ Distinct(new)
         /\ \A i \in DOMAIN new :
              \/ new[i] = state
              \/ \E j \in DOMAIN list : list[j].run # state.run /\ new[i] = list[j]
<1> DEFINE room == WithRoom(list, state.run)
<1>1. Len(list) \in Nat /\ DOMAIN list = 1 .. Len(list) /\ MaxRunContexts \in Nat \ {0}
  BY LenProperties, MemoryWorkflowAssumption
<1>2. /\ room \in Seq(States) /\ Len(room) < MaxRunContexts /\ Distinct(room)
      /\ \A i \in DOMAIN room :
           \E j \in DOMAIN list : list[j].run # state.run /\ room[i] = list[j]
  <2>1. CASE Has(list, state.run)
    <3> DEFINE k == CHOOSE i \in DOMAIN list : list[i].run = state.run
    <3>1. k \in DOMAIN list /\ list[k].run = state.run
      BY <2>1 DEF Has
    <3>2. room = RemoveAt(list, k)
      BY <2>1 DEF WithRoom, Without
    <3> HIDE DEF k, room
    <3>3. /\ room \in Seq(States) /\ Len(room) = Len(list) - 1 /\ Distinct(room)
          /\ \A i \in DOMAIN room : \E j \in DOMAIN list : j # k /\ room[i] = list[j]
      BY <3>1, <3>2, OneRemoved
    <3>4. \A j \in DOMAIN list : j # k => list[j].run # state.run
      BY <3>1 DEF Distinct
    <3> QED
      BY <1>1, <3>3, <3>4
  <2>2. CASE ~ Has(list, state.run) /\ Len(list) >= MaxRunContexts
    <3>0. list # <<>> /\ Len(list) >= 1
      BY <1>1, <2>2
    <3>1. room = Tail(list)
      BY <2>2 DEF WithRoom
    <3>2. Tail(list) = SubSeq(list, 2, Len(list)) /\ Len(Tail(list)) = Len(list) - 1
      BY <3>0, TailIsSubSeq, HeadTailProperties
    <3>3. 2 \in 1 .. Len(list) + 1
      BY <1>1, <2>2
    <3> HIDE DEF room
    <3>a. room = SubSeq(list, 2, Len(list))
      BY <3>1, <3>2
    <3>b. LET left == SubSeq(list, 2, Len(list)) IN
          /\ left \in Seq(States) /\ Distinct(left)
          /\ \A i \in DOMAIN left : \E j \in DOMAIN list : left[i] = list[j]
      BY <3>3, SomeLast
    <3>4. /\ room \in Seq(States) /\ Distinct(room)
          /\ \A i \in DOMAIN room : \E j \in DOMAIN list : room[i] = list[j]
      BY <3>a, <3>b
    <3>5. \A j \in DOMAIN list : list[j].run # state.run
      BY <2>2 DEF Has
    <3>6. Len(room) < MaxRunContexts
      BY <1>1, <3>0, <3>1, <3>2
    <3> QED
      BY <3>4, <3>5, <3>6
  <2>3. CASE ~ Has(list, state.run) /\ ~ (Len(list) >= MaxRunContexts)
    <3>1. room = list
      BY <2>3 DEF WithRoom, Without
    <3>2. Len(list) < MaxRunContexts
      BY <1>1, <2>3
    <3> QED
      BY <2>3, <3>1, <3>2 DEF Has
  <2> QED
    BY <2>1, <2>2, <2>3
<1> DEFINE new == Stored(list, state)
<1>3. new = Append(room, state)
  BY DEF Stored
<1> HIDE DEF room, new
<1>4. /\ new \in Seq(States) /\ Len(new) = Len(room) + 1
      /\ \A i \in 1 .. Len(room) : new[i] = room[i]
      /\ new[Len(room) + 1] = state
  BY <1>2, <1>3, AppendProperties
<1>5. /\ Len(room) \in Nat /\ DOMAIN room = 1 .. Len(room)
      /\ DOMAIN new = 1 .. Len(room) + 1
  BY <1>2, <1>4, LenProperties
<1>6. \A i \in DOMAIN new : i \in DOMAIN room \/ i = Len(room) + 1
  BY <1>5
<1>7. \A i \in DOMAIN new :
        \/ new[i] = state
        \/ \E j \in DOMAIN list : list[j].run # state.run /\ new[i] = list[j]
  BY <1>2, <1>4, <1>5, <1>6
<1>8. Distinct(new)
  <2> SUFFICES ASSUME NEW i \in DOMAIN new, NEW j \in DOMAIN new, new[i].run = new[j].run
               PROVE  i = j
    BY DEF Distinct
  <2>1. \A n \in DOMAIN room : new[n] = room[n] /\ new[n].run # state.run
    BY <1>2, <1>4, <1>5
  <2> QED
    BY <1>2, <1>4, <1>6, <2>1 DEF Distinct
<1>9. Len(new) <= MaxRunContexts
  BY <1>1, <1>2, <1>4, <1>5
<1> QED
  BY <1>4, <1>7, <1>8, <1>9 DEF new

-----------------------------------------------------------------------------
(* What a checkpoint changes                                               *)

Started == {r \in RunIds : checkpoints[r] # <<>>}

\* The thread that serves a run holds a state of it.
LEMMA HeldState ==
  ASSUME MemoryTypeOK, NEW t \in Handlers, serving[t].pc # "idle"
  PROVE  /\ serving[t] \in [pc : {"read", "store"}, state : States]
         /\ serving[t].state \in States /\ serving[t].state.run \in RunIds
         /\ t \in Holders(serving[t].state.run)
<1>1. serving[t] \in {Idle} \union [pc : {"read", "store"}, state : States]
  BY DEF MemoryTypeOK
<1>2. serving[t] \in [pc : {"read", "store"}, state : States]
  BY <1>1 DEF Idle
<1> QED
  BY <1>2 DEF States, Holders

LEMMA WrittenFinite ==
  IsFiniteSet(Written) /\ IsFiniteSet(Contacts) /\ IsFiniteSet(Started)
<1>1. IsFiniteSet(RunIds) /\ IsFiniteSet(1 .. MaxCheckpoints)
  BY MemoryWorkflowAssumption, FS_Interval
<1>2. IsFiniteSet(RunIds \X (1 .. MaxCheckpoints))
  BY <1>1, FS_Product
<1>3. Written \in SUBSET (RunIds \X (1 .. MaxCheckpoints)) /\ Started \in SUBSET RunIds
  BY DEF Written, Started
<1>4. IsFiniteSet(Written) /\ IsFiniteSet(Started)
  BY <1>1, <1>2, <1>3, FS_Subset
<1>5. Contacts \in SUBSET Written
  BY DEF Contacts
<1> QED
  BY <1>4, <1>5, FS_Subset

\* The list of the run gets the state, with the next number, as its last; those of
\* other runs stay, and the thread holds it.
LEMMA CheckpointFacts ==
  ASSUME MemoryTypeOK, NumbersInv, NEW t \in Handlers, NEW state \in States,
         state.no \in 0 .. Len(checkpoints[state.run]), Checkpoint(t, state)
  PROVE  LET r == state.run
             n == Len(checkpoints[r])
             new == Numbered(state)
         IN
         /\ r \in RunIds /\ n \in Nat /\ n + 1 <= MaxCheckpoints
         /\ new \in States /\ new.run = r /\ new.no = state.no + 1
         /\ new.stage = state.stage /\ new.status = state.status
         /\ checkpoints' \in [RunIds -> Seq(States)]
         /\ \A q \in RunIds : q # r => checkpoints'[q] = checkpoints[q]
         /\ Len(checkpoints'[r]) = n + 1 /\ checkpoints'[r][n + 1] = new
         /\ \A i \in 1 .. n : checkpoints'[r][i] = checkpoints[r][i]
         /\ serving' \in [Handlers -> {Idle} \union [pc : {"read", "store"}, state : States]]
         /\ serving'[t] = [pc |-> "store", state |-> new]
         /\ \A u \in Handlers : u # t => serving'[u] = serving[u]
<1> DEFINE r == state.run
           n == Len(checkpoints[r])
           new == Numbered(state)
<1>1. r \in RunIds /\ checkpoints[r] \in Seq(States) /\ MaxCheckpoints \in Nat
  BY MemoryWorkflowAssumption DEF MemoryTypeOK, States
<1>2. n \in Nat
  BY <1>1, LenProperties
<1>3. n + 1 <= MaxCheckpoints
  BY <1>1, <1>2 DEF Checkpoint
<1>4. state.no + 1 \in 0 .. MaxCheckpoints
  BY <1>1, <1>2, <1>3
<1>5. /\ new \in States /\ new.run = r /\ new.no = state.no + 1
      /\ new.stage = state.stage /\ new.status = state.status
  BY <1>4 DEF Numbered, States
<1>6. /\ checkpoints' = [checkpoints EXCEPT ![r] = Append(@, new)]
      /\ serving' = [serving EXCEPT ![t] = [pc |-> "store", state |-> new]]
  BY DEF Checkpoint
<1> HIDE DEF new
<1>7. /\ Append(checkpoints[r], new) \in Seq(States)
      /\ Len(Append(checkpoints[r], new)) = n + 1
      /\ \A i \in 1 .. n : Append(checkpoints[r], new)[i] = checkpoints[r][i]
      /\ Append(checkpoints[r], new)[n + 1] = new
  BY <1>1, <1>5, AppendProperties
<1>8. /\ checkpoints'[r] = Append(checkpoints[r], new)
      /\ \A q \in RunIds : q # r => checkpoints'[q] = checkpoints[q]
      /\ checkpoints' \in [RunIds -> Seq(States)]
  BY <1>1, <1>6, <1>7 DEF MemoryTypeOK
<1>9. /\ serving'[t] = [pc |-> "store", state |-> new]
      /\ \A u \in Handlers : u # t => serving'[u] = serving[u]
      /\ serving' \in [Handlers -> {Idle} \union [pc : {"read", "store"}, state : States]]
  BY <1>5, <1>6 DEF MemoryTypeOK
<1> QED
  BY <1>1, <1>2, <1>3, <1>5, <1>7, <1>8, <1>9 DEF new

\* One checkpoint more, one entry into CONTACT more if it is one, and the run has
\* been started.
LEMMA CheckpointCounts ==
  ASSUME MemoryTypeOK, NumbersInv, NEW t \in Handlers, NEW state \in States,
         state.no \in 0 .. Len(checkpoints[state.run]), Checkpoint(t, state)
  PROVE  /\ Cardinality(Written') = Cardinality(Written) + 1
         /\ Cardinality(Contacts') =
              Cardinality(Contacts) + IF Enters(state) THEN 1 ELSE 0
         /\ Started' = Started \union {state.run}
<1> DEFINE r == state.run
           n == Len(checkpoints[r])
           new == Numbered(state)
           w == <<r, n + 1>>
<1>1. /\ r \in RunIds /\ n \in Nat /\ n + 1 <= MaxCheckpoints
      /\ new \in States /\ new.stage = state.stage /\ new.status = state.status
      /\ \A q \in RunIds : q # r => checkpoints'[q] = checkpoints[q]
      /\ Len(checkpoints'[r]) = n + 1 /\ checkpoints'[r][n + 1] = new
      /\ \A i \in 1 .. n : checkpoints'[r][i] = checkpoints[r][i]
      /\ checkpoints' \in [RunIds -> Seq(States)]
  BY CheckpointFacts
<1>2. Enters(new) <=> Enters(state)
  BY <1>1 DEF Enters
<1> HIDE DEF new
<1>3. MaxCheckpoints \in Nat
  BY MemoryWorkflowAssumption
<1>4. w \in RunIds \X (1 .. MaxCheckpoints) /\ w \notin Written
  BY <1>1, <1>3 DEF Written
<1>5. \A q \in RunIds, i \in 1 .. MaxCheckpoints :
        i <= Len(checkpoints'[q]) <=> i <= Len(checkpoints[q]) \/ (q = r /\ i = n + 1)
  BY <1>1, <1>3
<1>6. Written' = Written \union {w}
  BY <1>4, <1>5 DEF Written
<1>7. \A v \in Written : checkpoints'[v[1]][v[2]] = checkpoints[v[1]][v[2]]
  <2> SUFFICES ASSUME NEW v \in Written
               PROVE  checkpoints'[v[1]][v[2]] = checkpoints[v[1]][v[2]]
    OBVIOUS
  <2>1. v[1] \in RunIds /\ v[2] \in 1 .. MaxCheckpoints /\ v[2] <= Len(checkpoints[v[1]])
    BY DEF Written
  <2>2. CASE v[1] = r
    <3>1. v[2] \in 1 .. n
      BY <1>1, <1>3, <2>1, <2>2
    <3> QED
      BY <1>1, <2>2, <3>1
  <2>3. CASE v[1] # r
    BY <1>1, <2>1, <2>3
  <2> QED
    BY <2>2, <2>3
<1>8. checkpoints'[w[1]][w[2]] = new
  BY <1>1
<1>9. Contacts' = IF Enters(state) THEN Contacts \union {w} ELSE Contacts
  <2>1. Contacts' = {v \in Written \union {w} : Enters(checkpoints'[v[1]][v[2]])}
    BY <1>6 DEF Contacts, Enters
  <2>2. \A v \in Written : Enters(checkpoints'[v[1]][v[2]]) <=> Enters(checkpoints[v[1]][v[2]])
    BY <1>7 DEF Enters
  <2>3. Enters(checkpoints'[w[1]][w[2]]) <=> Enters(state)
    BY <1>2, <1>8 DEF Enters
  <2> HIDE DEF w
  <2> QED
    BY <2>1, <2>2, <2>3 DEF Contacts
<1>10. w \notin Contacts
  BY <1>4 DEF Contacts
<1> HIDE DEF w
<1>11. /\ Cardinality(Written') = Cardinality(Written) + 1
       /\ Cardinality(Contacts \union {w}) = Cardinality(Contacts) + 1
       /\ Cardinality(Contacts) \in Nat
  BY <1>4, <1>6, <1>10, WrittenFinite, FS_AddElement, FS_CardinalityType
<1>12. Started' = Started \union {r}
  <2>1. checkpoints'[r] # <<>>
    <3>1. Len(checkpoints'[r]) # 0
      BY <1>1
    <3> QED
      BY <3>1
  <2> QED
    BY <1>1, <2>1 DEF Started
<1>13. Cardinality(Contacts') = Cardinality(Contacts) + IF Enters(state) THEN 1 ELSE 0
  BY <1>9, <1>11
<1> QED
  BY <1>11, <1>12, <1>13

\* The states held are as numbered as the checkpoints are many.
LEMMA CheckpointNumbers ==
  ASSUME MemoryTypeOK, NumbersInv, NEW t \in Handlers, NEW state \in States,
         state.no \in 0 .. Len(checkpoints[state.run]), Checkpoint(t, state),
         UNCHANGED runs
  PROVE  NumbersInv'
<1> DEFINE r == state.run
           n == Len(checkpoints[r])
           new == Numbered(state)
<1>1. /\ r \in RunIds /\ n \in Nat /\ n + 1 <= MaxCheckpoints
      /\ new \in States /\ new.run = r /\ new.no = state.no + 1
      /\ \A q \in RunIds : q # r => checkpoints'[q] = checkpoints[q]
      /\ Len(checkpoints'[r]) = n + 1
      /\ serving'[t] = [pc |-> "store", state |-> new]
      /\ \A u \in Handlers : u # t => serving'[u] = serving[u]
  BY CheckpointFacts
<1> HIDE DEF new
<1>2. MaxCheckpoints \in Nat /\ new.no \in 1 .. n + 1
  BY <1>1, MemoryWorkflowAssumption
<1>3. \A q \in RunIds : Len(checkpoints[q]) \in Nat /\ Len(checkpoints'[q]) \in Nat
  <2>1. \A q \in RunIds : checkpoints[q] \in Seq(States)
    BY DEF MemoryTypeOK
  <2> QED
    BY <1>1, <2>1, LenProperties
<1>4. \A s \in States : s.no \in 1 .. Len(checkpoints[s.run])
                         => s.no \in 1 .. Len(checkpoints'[s.run])
  <2> SUFFICES ASSUME NEW s \in States, s.no \in 1 .. Len(checkpoints[s.run])
               PROVE  s.no \in 1 .. Len(checkpoints'[s.run])
    OBVIOUS
  <2>1. s.run \in RunIds
    BY DEF States
  <2>2. CASE s.run = r
    BY <1>1, <2>2
  <2>3. CASE s.run # r
    BY <1>1, <2>1, <2>3
  <2> QED
    BY <2>2, <2>3
<1>5. \A i \in DOMAIN runs : runs[i] \in States
  BY ElementOfSeq, LenProperties DEF MemoryTypeOK
<1>6. \A i \in DOMAIN runs' : runs'[i].no \in 1 .. Len(checkpoints'[runs'[i].run])
  BY <1>4, <1>5 DEF NumbersInv, Numbered1
<1>7. \A u \in Handlers : serving'[u].pc # "idle"
        => serving'[u].state.no \in 1 .. Len(checkpoints'[serving'[u].state.run])
  <2> SUFFICES ASSUME NEW u \in Handlers, serving'[u].pc # "idle"
               PROVE  serving'[u].state.no \in 1 .. Len(checkpoints'[serving'[u].state.run])
    OBVIOUS
  <2>1. CASE u = t
    BY <1>1, <1>2, <2>1
  <2>2. CASE u # t
    <3>1. serving'[u] = serving[u] /\ serving[u].pc # "idle"
      BY <1>1, <2>2
    <3>2. serving[u].state \in States
      BY <3>1, HeldState
    <3>3. serving[u].state.no \in 1 .. Len(checkpoints[serving[u].state.run])
      BY <3>1 DEF NumbersInv, Numbered1, Busy
    <3> QED
      BY <1>4, <3>1, <3>2, <3>3
  <2> QED
    BY <2>1, <2>2
<1>8. \A q \in RunIds : Len(checkpoints'[q]) <= MaxCheckpoints
  BY <1>1 DEF NumbersInv
<1> QED
  BY <1>6, <1>7, <1>8 DEF NumbersInv, Numbered1, Busy

\* A thread that alone serves a run, or starts it, goes on with its last state.
LEMMA CheckpointAlone ==
  ASSUME MemoryTypeOK, NumbersInv, AloneInv, NEW t \in Handlers, NEW state \in States,
         Checkpoint(t, state), UNCHANGED <<runs, raced>>,
         \/ /\ serving[t].pc = "idle" /\ checkpoints[state.run] = <<>> /\ state.no = 0
         \/ /\ serving[t].pc = "read" /\ serving[t].state.run = state.run
            /\ serving[t].state.no = state.no
  PROVE  AloneInv'
<1> DEFINE r == state.run
           n == Len(checkpoints[r])
           new == Numbered(state)
<1>0. r \in RunIds /\ n \in Nat
  BY LenProperties DEF MemoryTypeOK, States
<1>1. state.no \in 0 .. n
  <2>1. CASE checkpoints[r] = <<>> /\ state.no = 0
    BY <1>0, <2>1
  <2>2. CASE serving[t].pc = "read" /\ serving[t].state.run = r /\ serving[t].state.no = state.no
    BY <1>0, <2>2 DEF NumbersInv, Numbered1, Busy
  <2> QED
    BY <2>1, <2>2
<1>2. /\ n + 1 <= MaxCheckpoints
      /\ new \in States /\ new.run = r /\ new.no = state.no + 1
      /\ checkpoints' \in [RunIds -> Seq(States)]
      /\ \A q \in RunIds : q # r => checkpoints'[q] = checkpoints[q]
      /\ Len(checkpoints'[r]) = n + 1 /\ checkpoints'[r][n + 1] = new
      /\ \A i \in 1 .. n : checkpoints'[r][i] = checkpoints[r][i]
      /\ serving'[t] = [pc |-> "store", state |-> new]
      /\ \A u \in Handlers : u # t => serving'[u] = serving[u]
  BY <1>1, CheckpointFacts
<1> HIDE DEF new
<1>3. \A q \in RunIds : q # r => Holders(q)' = Holders(q)
  <2> SUFFICES ASSUME NEW q \in RunIds, q # r
               PROVE  \A u \in Handlers : u \in Holders(q)' <=> u \in Holders(q)
    BY DEF Holders
  <2>1. t \notin Holders(q)
    BY DEF Holders
  <2>2. t \notin Holders(q)'
    BY <1>2 DEF Holders
  <2> QED
    BY <1>2, <2>1, <2>2 DEF Holders
<1>4. Holders(r)' = Holders(r) \union {t}
  <2>1. t \in Holders(r)'
    BY <1>2 DEF Holders
  <2> QED
    BY <1>2, <2>1 DEF Holders
<1>5. CASE r \in raced
  <2> SUFFICES ASSUME NEW q \in RunIds \ raced
               PROVE  /\ \A u, v \in Holders(q)' : u = v
                      /\ \A u \in Holders(q)' : serving'[u].state = Last(checkpoints'[q])
                      /\ \A i \in DOMAIN checkpoints'[q] : checkpoints'[q][i].no = i
                      /\ (\A u \in Holders(q)' : serving'[u].pc = "read") =>
                           \A i \in DOMAIN runs : runs[i].run = q
                             => runs[i] = Last(checkpoints'[q])
    BY DEF AloneInv, Last, Holders
  <2>1. q # r /\ Holders(q)' = Holders(q) /\ checkpoints'[q] = checkpoints[q]
    BY <1>2, <1>3, <1>5
  <2>2. \A u \in Holders(q) : u # t /\ u \in Handlers
    BY <2>1 DEF Holders
  <2>3. \A u \in Holders(q) : serving'[u] = serving[u]
    BY <1>2, <2>2
  <2> QED
    BY <2>1, <2>3 DEF AloneInv
<1>6. CASE r \notin raced
  <2>1. /\ Holders(r)' = {t} /\ new.no = n + 1
        /\ \A i \in 1 .. n : checkpoints[r][i].no = i
    <3>1. \A i \in 1 .. n : checkpoints[r][i].no = i
      BY <1>0, <1>6, LenProperties DEF AloneInv, MemoryTypeOK
    <3>2. CASE serving[t].pc = "idle" /\ checkpoints[r] = <<>> /\ state.no = 0
      <4>1. n = 0
        BY <3>2
      <4>2. ASSUME NEW u \in Holders(r) PROVE FALSE
        <5>1. u \in Handlers /\ serving[u].pc # "idle" /\ serving[u].state.run = r
          BY <4>2 DEF Holders
        <5>2. serving[u].state.no \in 1 .. n
          BY <5>1 DEF NumbersInv, Numbered1, Busy
        <5> QED
          BY <4>1, <5>2
      <4> QED
        BY <1>2, <1>4, <3>1, <3>2, <4>1, <4>2
    <3>3. CASE /\ serving[t].pc = "read" /\ serving[t].state.run = r
               /\ serving[t].state.no = state.no
      <4>1. t \in Holders(r)
        BY <3>3 DEF Holders
      <4>2. serving[t].state = checkpoints[r][n]
        BY <1>0, <1>6, <4>1 DEF AloneInv, Last
      <4>3. n \in 1 .. n
        BY <1>0, <3>3 DEF NumbersInv, Numbered1, Busy
      <4>4. state.no = n
        BY <3>1, <3>3, <4>2, <4>3
      <4>5. \A u \in Holders(r) : u = t
        BY <1>0, <1>6, <4>1 DEF AloneInv
      <4>6. Holders(r)' = {t}
        BY <1>4, <4>1, <4>5
      <4> QED
        BY <1>2, <3>1, <4>4, <4>6
    <3> QED
      BY <3>2, <3>3
  <2>2. Last(checkpoints'[r]) = new
    BY <1>2 DEF Last
  <2>3. \A i \in DOMAIN checkpoints'[r] : checkpoints'[r][i].no = i
    <3>1. DOMAIN checkpoints'[r] = 1 .. n + 1
      BY <1>0, <1>2, LenProperties
    <3> SUFFICES ASSUME NEW i \in 1 .. n + 1 PROVE checkpoints'[r][i].no = i
      BY <3>1
    <3>2. i \in 1 .. n \/ i = n + 1
      BY <1>0
    <3> QED
      BY <1>2, <2>1, <3>2
  <2> SUFFICES ASSUME NEW q \in RunIds \ raced
               PROVE  /\ \A u, v \in Holders(q)' : u = v
                      /\ \A u \in Holders(q)' : serving'[u].state = Last(checkpoints'[q])
                      /\ \A i \in DOMAIN checkpoints'[q] : checkpoints'[q][i].no = i
                      /\ (\A u \in Holders(q)' : serving'[u].pc = "read") =>
                           \A i \in DOMAIN runs : runs[i].run = q
                             => runs[i] = Last(checkpoints'[q])
    BY DEF AloneInv, Last, Holders
  <2>4. CASE q = r
    BY <1>2, <2>1, <2>2, <2>3, <2>4
  <2>5. CASE q # r
    <3>1. Holders(q)' = Holders(q) /\ checkpoints'[q] = checkpoints[q]
      BY <1>2, <1>3, <2>5
    <3>2. \A u \in Holders(q) : u # t /\ u \in Handlers
      <4>1. t \notin Holders(q)'
        BY <1>2, <2>5 DEF Holders
      <4> QED
        BY <3>1, <4>1 DEF Holders
    <3>3. \A u \in Holders(q) : serving'[u] = serving[u]
      BY <1>2, <3>2
    <3> QED
      BY <3>1, <3>3 DEF AloneInv
  <2> QED
    BY <2>4, <2>5
<1> QED
  BY <1>5, <1>6

-----------------------------------------------------------------------------
(* The steps that make a checkpoint                                        *)

LEMMA CountTypes ==
  ASSUME MemoryTypeOK, CountInv
  PROVE  /\ Cardinality(Written) \in Nat /\ Cardinality(Contacts) \in Nat
         /\ Cardinality(Started) \in Nat /\ Cardinality(Applied) \in Nat
         /\ \A statuses : /\ IsFiniteSet(InStatus(statuses))
                          /\ Cardinality(InStatus(statuses)) \in Nat
<1>1. \A statuses : InStatus(statuses) \in SUBSET ActionIds
  BY DEF InStatus, MemoryTypeOK
<1>2. \A statuses : IsFiniteSet(InStatus(statuses))
  BY <1>1, MemoryWorkflowAssumption, FS_Subset
<1>3. IsFiniteSet(Applied)
  BY FS_Subset DEF CountInv, Applied
<1> QED
  BY <1>2, <1>3, WrittenFinite, FS_CardinalityType DEF CountInv

LEMMA StartStep ==
  ASSUME MemoryInv, NEW t \in Handlers, StartMemoryRun(t)
  PROVE  MemoryInv'
<1>1. PICK r \in RunIds :
        /\ checkpoints[r] = <<>>
        /\ Checkpoint(t, [run |-> r, stage |-> "QUALIFY", status |-> "RUNNING", no |-> 0])
  BY DEF StartMemoryRun
<1>2. /\ MemoryTypeOK /\ NumbersInv /\ AloneInv /\ CountInv /\ serving[t].pc = "idle"
      /\ UNCHANGED <<runs, processed_events, human_actions, burnt, raced>>
  BY DEF MemoryInv, StartMemoryRun
<1> DEFINE state == [run |-> r, stage |-> "QUALIFY", status |-> "RUNNING", no |-> 0]
<1>3. /\ state \in States /\ state.run = r /\ state.no = 0 /\ Checkpoint(t, state)
      /\ ~ Enters(state)
  BY <1>1, MemoryWorkflowAssumption DEF States, Stages, NextStage, Enters
<1> HIDE DEF state
<1>4. state.no \in 0 .. Len(checkpoints[state.run])
  BY <1>1, <1>3
<1>5. MemoryTypeOK'
  <2>1. /\ checkpoints' \in [RunIds -> Seq(States)]
        /\ serving' \in [Handlers -> {Idle} \union [pc : {"read", "store"}, state : States]]
    BY <1>2, <1>3, <1>4, CheckpointFacts
  <2> QED
    BY <1>2, <2>1 DEF MemoryTypeOK
<1>6. NumbersInv'
  BY <1>2, <1>3, <1>4, CheckpointNumbers
<1>7. AloneInv'
  BY <1>1, <1>2, <1>3, CheckpointAlone
<1>8. CountInv'
  <2>1. /\ Cardinality(Written') = Cardinality(Written) + 1
        /\ Cardinality(Contacts') = Cardinality(Contacts)
        /\ Started' = Started \union {r}
    <3>1. /\ Cardinality(Written') = Cardinality(Written) + 1
          /\ Cardinality(Contacts') = Cardinality(Contacts) + IF Enters(state) THEN 1 ELSE 0
          /\ Started' = Started \union {state.run}
      BY <1>2, <1>3, <1>4, CheckpointCounts
    <3> QED
      BY <1>2, <1>3, <3>1, CountTypes
  <2>2. Cardinality(Started') = Cardinality(Started) + 1
    <3>1. r \notin Started
      BY <1>1 DEF Started
    <3> QED
      BY <2>1, <3>1, WrittenFinite, FS_AddElement
  <2>3. Applied' = Applied /\ \A statuses : InStatus(statuses)' = InStatus(statuses)
    BY <1>2 DEF Applied, InStatus
  <2> QED
    BY <1>2, <2>1, <2>2, <2>3, CountTypes DEF CountInv, OneCheckpointPerCause, Started
<1> QED
  BY <1>5, <1>6, <1>7, <1>8 DEF MemoryInv

\* What an event or a decision makes of the state that was read: the run has been
\* started, and only the checkpoint, the event and the action are left to count.
LEMMA ReadStep ==
  ASSUME MemoryInv, NEW t \in Handlers, serving[t].pc = "read",
         NEW state \in States, state.run = serving[t].state.run,
         state.no = serving[t].state.no, Checkpoint(t, state),
         UNCHANGED <<runs, raced>>
  PROVE  /\ NumbersInv' /\ AloneInv'
         /\ checkpoints' \in [RunIds -> Seq(States)]
         /\ serving' \in [Handlers -> {Idle} \union [pc : {"read", "store"}, state : States]]
         /\ Cardinality(Written') = Cardinality(Written) + 1
         /\ Cardinality(Contacts') =
              Cardinality(Contacts) + IF Enters(state) THEN 1 ELSE 0
         /\ Started' = Started
<1>1. MemoryTypeOK /\ NumbersInv /\ AloneInv
  BY DEF MemoryInv
<1>2. state.run \in RunIds /\ state.no \in 1 .. Len(checkpoints[state.run])
  BY <1>1 DEF NumbersInv, Numbered1, Busy, States
<1>3. Len(checkpoints[state.run]) \in Nat
  BY <1>1, <1>2, LenProperties DEF MemoryTypeOK
<1>4. state.no \in 0 .. Len(checkpoints[state.run]) /\ Len(checkpoints[state.run]) # 0
  BY <1>2, <1>3
<1>5. state.run \in Started
  <2>1. checkpoints[state.run] # <<>>
    BY <1>4
  <2> QED
    BY <1>2, <2>1 DEF Started
<1>6. NumbersInv'
  BY <1>1, <1>4, CheckpointNumbers
<1>7. AloneInv'
  BY <1>1, CheckpointAlone
<1>8. /\ checkpoints' \in [RunIds -> Seq(States)]
      /\ serving' \in [Handlers -> {Idle} \union [pc : {"read", "store"}, state : States]]
  BY <1>1, <1>4, CheckpointFacts
<1>9. /\ Cardinality(Written') = Cardinality(Written) + 1
      /\ Cardinality(Contacts') = Cardinality(Contacts) + IF Enters(state) THEN 1 ELSE 0
      /\ Started' = Started \union {state.run}
  BY <1>1, <1>4, CheckpointCounts
<1> QED
  BY <1>5, <1>6, <1>7, <1>8, <1>9

LEMMA ApplyStep ==
  ASSUME MemoryInv, NEW t \in Handlers, ApplyEvent(t)
  PROVE  MemoryInv'
<1>1. /\ MemoryTypeOK /\ CountInv /\ serving[t].pc = "read" /\ UNCHANGED <<runs, burnt, raced>>
  BY DEF MemoryInv, ApplyEvent
<1> DEFINE held == serving[t].state
<1>2. held \in States
  BY <1>1, HeldState
<1>3. PICK e \in EventIds : ~ Processed(e) /\ processed_events' = processed_events \union {e}
  BY DEF ApplyEvent
<1>4. /\ IsFiniteSet(processed_events')
      /\ Cardinality(Applied') = Cardinality(Applied) + 1
      /\ burnt' \subseteq processed_events' /\ processed_events' \subseteq EventIds
  <2>1. Applied' = Applied \union {e} /\ e \notin Applied
    BY <1>1, <1>3 DEF Applied, Processed, MemoryTypeOK
  <2>2. IsFiniteSet(Applied) /\ IsFiniteSet(processed_events')
    BY <1>1, <1>3, FS_Subset, FS_AddElement DEF CountInv, Applied
  <2> QED
    BY <1>1, <1>3, <2>1, <2>2, FS_AddElement DEF MemoryTypeOK
<1>5. PICK state \in States :
        /\ state.run = held.run /\ state.no = held.no /\ Checkpoint(t, state)
        /\ ~ Enters(state)
        /\ \/ UNCHANGED human_actions
           \/ \E a \in ActionIds \ DOMAIN human_actions :
                human_actions' = [x \in DOMAIN human_actions \union {a} |->
                  IF x = a THEN "PENDING" ELSE human_actions[x]]
  <2>1. CASE held.stage # "APPROVE"
    <3>1. Checkpoint(t, [held EXCEPT !.stage = NextStage[@]]) /\ UNCHANGED human_actions
      BY <2>1 DEF ApplyEvent
    <3>2. NextStage[held.stage] \in Stages /\ NextStage[held.stage] # "CONTACT"
      BY <1>2, <2>1 DEF States, Stages, NextStage
    <3>3. /\ [held EXCEPT !.stage = NextStage[@]] \in States
          /\ [held EXCEPT !.stage = NextStage[@]].run = held.run
          /\ [held EXCEPT !.stage = NextStage[@]].no = held.no
          /\ [held EXCEPT !.stage = NextStage[@]].stage = NextStage[held.stage]
      BY <1>2, <3>2 DEF States
    <3> QED
      BY <3>1, <3>2, <3>3 DEF Enters
  <2>2. CASE held.stage = "APPROVE"
    <3>1. PICK a \in ActionIds \ DOMAIN human_actions :
            /\ human_actions' = [x \in DOMAIN human_actions \union {a} |->
                 IF x = a THEN "PENDING" ELSE human_actions[x]]
            /\ Checkpoint(t, [held EXCEPT !.status = "WAITING_HUMAN"])
      BY <2>2 DEF ApplyEvent
    <3>2. /\ [held EXCEPT !.status = "WAITING_HUMAN"] \in States
          /\ [held EXCEPT !.status = "WAITING_HUMAN"].run = held.run
          /\ [held EXCEPT !.status = "WAITING_HUMAN"].no = held.no
          /\ [held EXCEPT !.status = "WAITING_HUMAN"].status = "WAITING_HUMAN"
      BY <1>2 DEF States
    <3> QED
      BY <3>1, <3>2 DEF Enters
  <2> QED
    BY <2>1, <2>2
<1> HIDE DEF held
<1>6. /\ NumbersInv' /\ AloneInv'
      /\ checkpoints' \in [RunIds -> Seq(States)]
      /\ serving' \in [Handlers -> {Idle} \union [pc : {"read", "store"}, state : States]]
      /\ Cardinality(Written') = Cardinality(Written) + 1
      /\ Cardinality(Contacts') = Cardinality(Contacts) + IF Enters(state) THEN 1 ELSE 0
      /\ Started' = Started
  BY <1>1, <1>5, ReadStep DEF held
<1>7. Cardinality(Contacts') = Cardinality(Contacts)
  BY <1>1, <1>5, <1>6, CountTypes
<1>8. /\ DOMAIN human_actions' \subseteq ActionIds
      /\ \A a \in DOMAIN human_actions' : human_actions'[a] \in {"PENDING", "APPROVED", "REJECTED"}
      /\ InStatus({"APPROVED", "REJECTED"})' = InStatus({"APPROVED", "REJECTED"})
      /\ InStatus({"APPROVED"})' = InStatus({"APPROVED"})
  <2>1. CASE UNCHANGED human_actions
    BY <1>1, <2>1 DEF InStatus, MemoryTypeOK
  <2>2. ASSUME NEW a \in ActionIds \ DOMAIN human_actions,
               human_actions' = [x \in DOMAIN human_actions \union {a} |->
                 IF x = a THEN "PENDING" ELSE human_actions[x]]
        PROVE  /\ DOMAIN human_actions' \subseteq ActionIds
               /\ \A x \in DOMAIN human_actions' :
                    human_actions'[x] \in {"PENDING", "APPROVED", "REJECTED"}
               /\ InStatus({"APPROVED", "REJECTED"})' = InStatus({"APPROVED", "REJECTED"})
               /\ InStatus({"APPROVED"})' = InStatus({"APPROVED"})
    BY <1>1, <2>2 DEF InStatus, MemoryTypeOK
  <2> QED
    BY <1>5, <2>1, <2>2
<1>9. MemoryTypeOK'
  BY <1>1, <1>4, <1>6, <1>8 DEF MemoryTypeOK
<1>10. CountInv'
  <2>1. /\ Cardinality(Written) = Cardinality(Started) + Cardinality(Applied)
             + Cardinality(InStatus({"APPROVED", "REJECTED"}))
        /\ Cardinality(Contacts) = Cardinality(InStatus({"APPROVED"}))
    BY <1>1 DEF CountInv, OneCheckpointPerCause, Started
  <2>2. /\ Cardinality(Written') = Cardinality(Started') + Cardinality(Applied')
             + Cardinality(InStatus({"APPROVED", "REJECTED"})')
        /\ Cardinality(Contacts') = Cardinality(InStatus({"APPROVED"})')
    BY <1>1, <1>4, <1>6, <1>7, <1>8, <2>1, CountTypes
  <2>3. IsFiniteSet(processed_events')
    BY <1>4 DEF CountInv
  <2> QED
    BY <2>2, <2>3 DEF CountInv, OneCheckpointPerCause, Started
<1> QED
  BY <1>6, <1>9, <1>10 DEF MemoryInv

LEMMA DecideStep ==
  ASSUME MemoryInv, NEW t \in Handlers, DecideHumanAction(t)
  PROVE  MemoryInv'
<1>1. /\ MemoryTypeOK /\ CountInv /\ serving[t].pc = "read"
      /\ UNCHANGED <<runs, processed_events, burnt, raced>>
  BY DEF MemoryInv, DecideHumanAction
<1> DEFINE held == serving[t].state
<1>2. held \in States
  BY <1>1, HeldState
<1>3. PICK a \in DOMAIN human_actions, approved \in BOOLEAN :
        /\ human_actions[a] = "PENDING"
        /\ human_actions' = [human_actions EXCEPT ![a] =
             IF approved THEN "APPROVED" ELSE "REJECTED"]
        /\ Checkpoint(t, IF approved
                         THEN [held EXCEPT !.status = "RUNNING", !.stage = "CONTACT"]
                         ELSE [held EXCEPT !.status = "BLOCKED"])
  BY DEF DecideHumanAction, Decidable
<1> DEFINE state == IF approved
                    THEN [held EXCEPT !.status = "RUNNING", !.stage = "CONTACT"]
                    ELSE [held EXCEPT !.status = "BLOCKED"]
<1>4. /\ state \in States /\ state.run = held.run /\ state.no = held.no
      /\ Checkpoint(t, state) /\ (Enters(state) <=> approved)
  <2>1. CASE approved
    BY <1>2, <1>3, <2>1 DEF States, Stages, NextStage, Enters
  <2>2. CASE ~ approved
    BY <1>2, <1>3, <2>2 DEF States, Enters
  <2> QED
    BY <2>1, <2>2
<1> HIDE DEF held, state
<1>5. /\ NumbersInv' /\ AloneInv'
      /\ checkpoints' \in [RunIds -> Seq(States)]
      /\ serving' \in [Handlers -> {Idle} \union [pc : {"read", "store"}, state : States]]
      /\ Cardinality(Written') = Cardinality(Written) + 1
      /\ Cardinality(Contacts') = Cardinality(Contacts) + IF Enters(state) THEN 1 ELSE 0
      /\ Started' = Started
  BY <1>1, <1>4, ReadStep DEF held
<1>6. /\ DOMAIN human_actions' = DOMAIN human_actions
      /\ human_actions'[a] = IF approved THEN "APPROVED" ELSE "REJECTED"
      /\ \A b \in DOMAIN human_actions : b # a => human_actions'[b] = human_actions[b]
  BY <1>3
<1>7. /\ InStatus({"APPROVED", "REJECTED"})' = InStatus({"APPROVED", "REJECTED"}) \union {a}
      /\ a \notin InStatus({"APPROVED", "REJECTED"})
      /\ InStatus({"APPROVED"})' =
           IF approved THEN InStatus({"APPROVED"}) \union {a} ELSE InStatus({"APPROVED"})
      /\ a \notin InStatus({"APPROVED"})
  BY <1>3, <1>6 DEF InStatus
<1>8. /\ Cardinality(InStatus({"APPROVED", "REJECTED"})') =
           Cardinality(InStatus({"APPROVED", "REJECTED"})) + 1
      /\ Cardinality(InStatus({"APPROVED"})') =
           Cardinality(InStatus({"APPROVED"})) + IF approved THEN 1 ELSE 0
  <2>1. /\ Cardinality(InStatus({"APPROVED", "REJECTED"}) \union {a}) =
             Cardinality(InStatus({"APPROVED", "REJECTED"})) + 1
        /\ Cardinality(InStatus({"APPROVED"}) \union {a}) = Cardinality(InStatus({"APPROVED"})) + 1
    BY <1>1, <1>7, CountTypes, FS_AddElement
  <2> QED
    BY <1>1, <1>7, <2>1, CountTypes
<1>9. MemoryTypeOK'
  BY <1>1, <1>5, <1>6 DEF MemoryTypeOK
<1>10. CountInv'
  <2>1. /\ Cardinality(Written) = Cardinality(Started) + Cardinality(Applied)
             + Cardinality(InStatus({"APPROVED", "REJECTED"}))
        /\ Cardinality(Contacts) = Cardinality(InStatus({"APPROVED"}))
        /\ Applied' = Applied
    BY <1>1 DEF CountInv, OneCheckpointPerCause, Started, Applied
  <2>2. /\ Cardinality(Written') = Cardinality(Started') + Cardinality(Applied')
             + Cardinality(InStatus({"APPROVED", "REJECTED"})')
        /\ Cardinality(Contacts') = Cardinality(InStatus({"APPROVED"})')
    BY <1>1, <1>4, <1>5, <1>8, <2>1, CountTypes
  <2>3. IsFiniteSet(processed_events')
    BY <1>1 DEF CountInv
  <2> QED
    BY <2>2, <2>3 DEF CountInv, OneCheckpointPerCause, Started
<1> QED
  BY <1>5, <1>9, <1>10 DEF MemoryInv

-----------------------------------------------------------------------------
(* The steps that make none                                                *)

LEMMA CountKept ==
  ASSUME CountInv, UNCHANGED <<checkpoints, processed_events, human_actions, burnt>>
  PROVE  CountInv'
<1>1. /\ Written' = Written /\ Contacts' = Contacts /\ Started' = Started
      /\ Applied' = Applied /\ \A statuses : InStatus(statuses)' = InStatus(statuses)
  BY DEF Written, Contacts, Enters, Started, Applied, InStatus
<1>2. /\ Cardinality(Written') = Cardinality(Started') + Cardinality(Applied')
           + Cardinality(InStatus({"APPROVED", "REJECTED"})')
      /\ Cardinality(Contacts') = Cardinality(InStatus({"APPROVED"})')
  BY <1>1 DEF CountInv, OneCheckpointPerCause, Started
<1> QED
  BY <1>2 DEF CountInv, OneCheckpointPerCause, Started

\* What has not expired of the map is a part of it.
LEMMA UnexpiredFacts ==
  ASSUME MemoryTypeOK, NEW left \in Unexpired
  PROVE  /\ left \in Seq(States) /\ Len(left) <= MaxRunContexts /\ Distinct(left)
         /\ \A i \in DOMAIN left : left[i] \in States
         /\ \A i \in DOMAIN left : \E j \in DOMAIN runs : left[i] = runs[j]
<1>1. runs \in Seq(States) /\ Len(runs) <= MaxRunContexts /\ Distinct(runs)
  BY DEF MemoryTypeOK, Distinct
<1>2. PICK n \in 1 .. Len(runs) + 1 : left = SubSeq(runs, n, Len(runs))
  BY DEF Unexpired
<1>3. LET some == SubSeq(runs, n, Len(runs)) IN
      /\ some \in Seq(States) /\ Len(some) <= Len(runs) /\ Distinct(some)
      /\ \A i \in DOMAIN some : \E j \in DOMAIN runs : some[i] = runs[j]
  BY <1>1, SomeLast
<1>4. /\ left \in Seq(States) /\ Len(left) <= Len(runs) /\ Distinct(left)
      /\ \A i \in DOMAIN left : \E j \in DOMAIN runs : left[i] = runs[j]
  BY <1>2, <1>3
<1>5. Len(left) \in Nat /\ Len(runs) \in Nat /\ MaxRunContexts \in Nat
  BY <1>1, <1>4, LenProperties, MemoryWorkflowAssumption
<1>6. \A i \in DOMAIN left : left[i] \in States
  BY <1>4, LenProperties, ElementOfSeq
<1> QED
  BY <1>1, <1>4, <1>5, <1>6

LEMMA ReadRunStep ==
  ASSUME MemoryInv, NEW t \in Handlers, ReadRun(t)
  PROVE  MemoryInv'
<1>1. /\ MemoryTypeOK /\ NumbersInv /\ AloneInv /\ CountInv /\ serving[t].pc = "idle"
      /\ UNCHANGED <<checkpoints, processed_events, human_actions, burnt>>
  BY DEF MemoryInv, ReadRun
<1>2. PICK r \in RunIds, left \in Unexpired :
        /\ runs' = left
        /\ \/ UNCHANGED <<serving, raced>>
           \/ \E i \in DOMAIN left :
                /\ left[i].run = r
                /\ serving' = [serving EXCEPT ![t] = [pc |-> "read", state |-> left[i]]]
                /\ raced' = IF Holders(r) = {} THEN raced ELSE raced \union {r}
  BY DEF ReadRun
<1>3. /\ left \in Seq(States) /\ Len(left) <= MaxRunContexts /\ Distinct(left)
      /\ \A i \in DOMAIN left : left[i] \in States
      /\ \A i \in DOMAIN left : \E j \in DOMAIN runs : left[i] = runs[j]
  BY <1>1, UnexpiredFacts
<1>4. \A i \in DOMAIN left : left[i].no \in 1 .. Len(checkpoints[left[i].run])
  BY <1>1, <1>3 DEF NumbersInv, Numbered1
<1>5. CountInv'
  BY <1>1, CountKept
<1>6. CASE UNCHANGED <<serving, raced>>
  <2>1. MemoryTypeOK'
    BY <1>1, <1>2, <1>3, <1>6 DEF MemoryTypeOK, Distinct
  <2>2. NumbersInv'
    BY <1>1, <1>2, <1>4, <1>6 DEF NumbersInv, Numbered1, Busy
  <2>3. AloneInv'
    BY <1>1, <1>2, <1>3, <1>6 DEF AloneInv, Holders, Last
  <2> QED
    BY <1>5, <2>1, <2>2, <2>3 DEF MemoryInv
<1>7. ASSUME NEW i \in DOMAIN left, left[i].run = r,
             serving' = [serving EXCEPT ![t] = [pc |-> "read", state |-> left[i]]],
             raced' = IF Holders(r) = {} THEN raced ELSE raced \union {r}
      PROVE  MemoryInv'
  <2>1. /\ serving'[t] = [pc |-> "read", state |-> left[i]]
        /\ \A u \in Handlers : u # t => serving'[u] = serving[u]
        /\ serving' \in [Handlers -> {Idle} \union [pc : {"read", "store"}, state : States]]
    BY <1>1, <1>3, <1>7 DEF MemoryTypeOK
  <2>2. MemoryTypeOK'
    BY <1>1, <1>2, <1>3, <1>7, <2>1 DEF MemoryTypeOK, Distinct
  <2>3. NumbersInv'
    <3>1. \A u \in Handlers : serving'[u].pc # "idle"
            => serving'[u].state.no \in 1 .. Len(checkpoints[serving'[u].state.run])
      BY <1>1, <1>4, <2>1 DEF NumbersInv, Numbered1, Busy
    <3> QED
      BY <1>1, <1>2, <1>4, <3>1 DEF NumbersInv, Numbered1, Busy
  <2>4. \A q \in RunIds : q # r => Holders(q)' = Holders(q) /\ t \notin Holders(q)
    BY <1>1, <1>7, <2>1 DEF Holders
  <2>5. Holders(r)' = Holders(r) \union {t}
    BY <1>1, <1>7, <2>1 DEF Holders
  <2>6. AloneInv'
    <3> SUFFICES ASSUME NEW q \in RunIds \ raced'
                 PROVE  /\ \A u, v \in Holders(q)' : u = v
                        /\ \A u \in Holders(q)' : serving'[u].state = Last(checkpoints[q])
                        /\ \A k \in DOMAIN checkpoints[q] : checkpoints[q][k].no = k
                        /\ (\A u \in Holders(q)' : serving'[u].pc = "read") =>
                             \A k \in DOMAIN left : left[k].run = q
                               => left[k] = Last(checkpoints[q])
      BY <1>1, <1>2 DEF AloneInv, Holders, Last
    <3>1. q \in RunIds \ raced
      BY <1>7
    <3>2. CASE q = r
      <4>1. Holders(r) = {} /\ Holders(r)' = {t}
        BY <1>7, <2>5, <3>2
      <4>2. \A k \in DOMAIN left : left[k].run = r => left[k] = Last(checkpoints[r])
        BY <1>1, <1>3, <3>1, <3>2, <4>1 DEF AloneInv
      <4> QED
        BY <1>1, <1>7, <2>1, <3>1, <3>2, <4>1, <4>2 DEF AloneInv
    <3>3. CASE q # r
      <4>1. Holders(q)' = Holders(q) /\ \A u \in Holders(q) : u # t /\ u \in Handlers
        BY <2>4, <3>3 DEF Holders
      <4>2. \A u \in Holders(q) : serving'[u] = serving[u]
        BY <2>1, <4>1
      <4> QED
        BY <1>1, <1>3, <3>1, <4>1, <4>2 DEF AloneInv
    <3> QED
      BY <3>2, <3>3
  <2> QED
    BY <1>5, <2>2, <2>3, <2>6 DEF MemoryInv
<1> QED
  BY <1>2, <1>6, <1>7

LEMMA RepeatStep ==
  ASSUME MemoryInv, NEW t \in Handlers, RepeatEvent(t)
  PROVE  MemoryInv'
<1>1. /\ MemoryTypeOK /\ NumbersInv /\ AloneInv /\ CountInv /\ serving[t].pc = "read"
      /\ serving' = [serving EXCEPT ![t].pc = "store"]
      /\ UNCHANGED <<runs, checkpoints, processed_events, human_actions, burnt, raced>>
  BY DEF MemoryInv, RepeatEvent
<1>2. serving[t] \in [pc : {"read", "store"}, state : States]
  BY <1>1, HeldState
<1>3. /\ serving'[t] = [pc |-> "store", state |-> serving[t].state]
      /\ \A u \in Handlers : u # t => serving'[u] = serving[u]
      /\ serving' \in [Handlers -> {Idle} \union [pc : {"read", "store"}, state : States]]
  BY <1>1, <1>2 DEF MemoryTypeOK
<1>4. /\ \A u \in Handlers : serving'[u].state = serving[u].state
      /\ \A u \in Handlers : serving'[u].pc # "idle" <=> serving[u].pc # "idle"
      /\ \A u \in Handlers : serving'[u].pc = "read" => serving[u].pc = "read"
  <2>1. /\ serving'[t].state = serving[t].state /\ serving'[t].pc = "store"
        /\ serving[t].pc = "read"
    BY <1>1, <1>3
  <2> QED
    BY <1>3, <2>1
<1>5. \A q : Holders(q)' = Holders(q)
  BY <1>4 DEF Holders
<1>6. MemoryTypeOK'
  BY <1>1, <1>3 DEF MemoryTypeOK
<1>7. NumbersInv'
  BY <1>1, <1>4 DEF NumbersInv, Numbered1, Busy
<1>8. AloneInv'
  <2>1. \A q : \A u \in Holders(q) : u \in Handlers
    BY DEF Holders
  <2> SUFFICES ASSUME NEW q \in RunIds \ raced
               PROVE  /\ \A u, v \in Holders(q) : u = v
                      /\ \A u \in Holders(q) : serving'[u].state = Last(checkpoints[q])
                      /\ \A k \in DOMAIN checkpoints[q] : checkpoints[q][k].no = k
                      /\ (\A u \in Holders(q) : serving'[u].pc = "read") =>
                           \A k \in DOMAIN runs : runs[k].run = q
                             => runs[k] = Last(checkpoints[q])
    BY <1>1, <1>5 DEF AloneInv, Last
  <2> QED
    BY <1>1, <1>4, <2>1 DEF AloneInv
<1> QED
  BY <1>1, <1>6, <1>7, <1>8, CountKept DEF MemoryInv

\* A thread that ends its request leaves the runs of the other threads alone.
LEMMA Released ==
  ASSUME MemoryTypeOK, NEW t \in Handlers, serving' = [serving EXCEPT ![t] = Idle]
  PROVE  /\ serving' \in [Handlers -> {Idle} \union [pc : {"read", "store"}, state : States]]
         /\ serving'[t].pc = "idle"
         /\ \A u \in Handlers : u # t => serving'[u] = serving[u]
         /\ \A q : Holders(q)' = Holders(q) \ {t}
         /\ \A q : \A u \in Holders(q)' : serving'[u] = serving[u]
<1>1. /\ serving' \in [Handlers -> {Idle} \union [pc : {"read", "store"}, state : States]]
      /\ serving'[t].pc = "idle"
      /\ \A u \in Handlers : u # t => serving'[u] = serving[u]
  BY DEF MemoryTypeOK, Idle
<1>2. \A q : Holders(q)' = Holders(q) \ {t}
  BY <1>1 DEF Holders
<1>3. \A q : \A u \in Holders(q)' : serving'[u] = serving[u]
  BY <1>1, <1>2 DEF Holders
<1> QED
  BY <1>1, <1>2, <1>3

\* A request that ends without a checkpoint, refused or with its event burnt.
LEMMA EndStep ==
  ASSUME MemoryInv, NEW t \in Handlers, serving[t].pc = "read",
         serving' = [serving EXCEPT ![t] = Idle],
         UNCHANGED <<runs, checkpoints, human_actions, raced>>
  PROVE  /\ serving' \in [Handlers -> {Idle} \union [pc : {"read", "store"}, state : States]]
         /\ NumbersInv' /\ AloneInv'
<1>1. /\ MemoryTypeOK /\ NumbersInv /\ AloneInv /\ CountInv /\ serving[t].pc = "read"
  BY DEF MemoryInv
<1>2. /\ serving' \in [Handlers -> {Idle} \union [pc : {"read", "store"}, state : States]]
      /\ serving'[t].pc = "idle"
      /\ \A u \in Handlers : u # t => serving'[u] = serving[u]
      /\ \A q : Holders(q)' = Holders(q) \ {t}
      /\ \A q : \A u \in Holders(q)' : serving'[u] = serving[u]
  BY <1>1, Released
<1>4. NumbersInv'
  BY <1>1, <1>2 DEF NumbersInv, Numbered1, Busy
<1>5. AloneInv'
  <2> SUFFICES ASSUME NEW q \in RunIds \ raced
               PROVE  /\ \A u, v \in Holders(q)' : u = v
                      /\ \A u \in Holders(q)' : serving'[u].state = Last(checkpoints[q])
                      /\ \A k \in DOMAIN checkpoints[q] : checkpoints[q][k].no = k
                      /\ (\A u \in Holders(q)' : serving'[u].pc = "read") =>
                           \A k \in DOMAIN runs : runs[k].run = q
                             => runs[k] = Last(checkpoints[q])
    BY <1>1 DEF AloneInv, Holders, Last
  <2>1. (\A u \in Holders(q)' : serving'[u].pc = "read")
          => \A u \in Holders(q) : serving[u].pc = "read"
    BY <1>1, <1>2
  <2> QED
    BY <1>1, <1>2, <2>1 DEF AloneInv
<1> QED
  BY <1>2, <1>4, <1>5

LEMMA RefuseStep ==
  ASSUME MemoryInv, NEW t \in Handlers, RefuseRequest(t)
  PROVE  MemoryInv'
<1>1. /\ MemoryTypeOK /\ CountInv
      /\ UNCHANGED <<runs, checkpoints, processed_events, human_actions, burnt, raced>>
  BY DEF MemoryInv, RefuseRequest
<1>2. /\ serving' \in [Handlers -> {Idle} \union [pc : {"read", "store"}, state : States]]
      /\ NumbersInv' /\ AloneInv'
  BY EndStep DEF RefuseRequest
<1>3. MemoryTypeOK'
  BY <1>1, <1>2 DEF MemoryTypeOK
<1> QED
  BY <1>1, <1>2, <1>3, CountKept DEF MemoryInv

\* The event is entered on both sides of the account.
LEMMA BurnStep ==
  ASSUME MemoryInv, NEW t \in Handlers, BurnEvent(t)
  PROVE  MemoryInv'
<1>1. /\ MemoryTypeOK /\ CountInv
      /\ UNCHANGED <<runs, checkpoints, human_actions, raced>>
  BY DEF MemoryInv, BurnEvent
<1>2. /\ serving' \in [Handlers -> {Idle} \union [pc : {"read", "store"}, state : States]]
      /\ NumbersInv' /\ AloneInv'
  BY EndStep DEF BurnEvent
<1>3. PICK e \in EventIds :
        /\ e \notin processed_events
        /\ processed_events' = processed_events \union {e}
        /\ burnt' = burnt \union {e}
  BY DEF BurnEvent, Processed
<1>4. MemoryTypeOK'
  BY <1>1, <1>2, <1>3 DEF MemoryTypeOK
<1>5. CountInv'
  <2>1. /\ Written' = Written /\ Contacts' = Contacts /\ Started' = Started
        /\ \A statuses : InStatus(statuses)' = InStatus(statuses)
    BY <1>1 DEF Written, Contacts, Enters, Started, InStatus
  <2>2. Applied' = Applied
    BY <1>3 DEF Applied
  <2>3. IsFiniteSet(processed_events')
    BY <1>1, <1>3, FS_AddElement DEF CountInv
  <2>4. /\ Cardinality(Written') = Cardinality(Started') + Cardinality(Applied')
             + Cardinality(InStatus({"APPROVED", "REJECTED"})')
        /\ Cardinality(Contacts') = Cardinality(InStatus({"APPROVED"})')
    BY <1>1, <2>1, <2>2 DEF CountInv, OneCheckpointPerCause, Started
  <2> QED
    BY <2>3, <2>4 DEF CountInv, OneCheckpointPerCause, Started
<1> QED
  BY <1>2, <1>4, <1>5 DEF MemoryInv

LEMMA StoreStep ==
  ASSUME MemoryInv, NEW t \in Handlers, StoreRun(t)
  PROVE  MemoryInv'
<1>1. /\ MemoryTypeOK /\ NumbersInv /\ AloneInv /\ CountInv /\ serving[t].pc = "store"
      /\ serving' = [serving EXCEPT ![t] = Idle]
      /\ UNCHANGED <<checkpoints, processed_events, human_actions, burnt, raced>>
  BY DEF MemoryInv, StoreRun
<1>2. /\ serving' \in [Handlers -> {Idle} \union [pc : {"read", "store"}, state : States]]
      /\ serving'[t].pc = "idle"
      /\ \A u \in Handlers : u # t => serving'[u] = serving[u]
      /\ \A q : Holders(q)' = Holders(q) \ {t}
      /\ \A q : \A u \in Holders(q)' : serving'[u] = serving[u]
  BY <1>1, Released
<1> DEFINE state == serving[t].state
<1>3. state \in States /\ state.run \in RunIds /\ t \in Holders(state.run)
  BY <1>1, HeldState
<1>4. PICK left \in Unexpired : runs' = Stored(left, state)
  BY DEF StoreRun
<1>5. /\ left \in Seq(States) /\ Len(left) <= MaxRunContexts /\ Distinct(left)
      /\ \A i \in DOMAIN left : \E j \in DOMAIN runs : left[i] = runs[j]
  BY <1>1, UnexpiredFacts
<1> HIDE DEF state
<1>6. LET new == Stored(left, state) IN
      /\ new \in Seq(States) /\ Len(new) <= MaxRunContexts /\ Distinct(new)
      /\ \A i \in DOMAIN new :
           \/ new[i] = state
           \/ \E j \in DOMAIN left : left[j].run # state.run /\ new[i] = left[j]
  BY <1>3, <1>5, StoredFacts
<1>7. /\ runs' \in Seq(States) /\ Len(runs') <= MaxRunContexts /\ Distinct(runs')
      /\ \A i \in DOMAIN runs' :
           \/ runs'[i] = state
           \/ \E j \in DOMAIN runs : runs[j].run # state.run /\ runs'[i] = runs[j]
  <2>1. /\ runs' \in Seq(States) /\ Len(runs') <= MaxRunContexts /\ Distinct(runs')
        /\ \A i \in DOMAIN runs' :
             \/ runs'[i] = state
             \/ \E j \in DOMAIN left : left[j].run # state.run /\ runs'[i] = left[j]
    BY <1>4, <1>6
  <2> QED
    BY <1>5, <2>1
<1>8. MemoryTypeOK'
  BY <1>1, <1>2, <1>7 DEF MemoryTypeOK, Distinct
<1>9. NumbersInv'
  <2>1. state.no \in 1 .. Len(checkpoints[state.run])
    BY <1>1 DEF state, NumbersInv, Numbered1, Busy
  <2>2. \A i \in DOMAIN runs' : runs'[i].no \in 1 .. Len(checkpoints[runs'[i].run])
    BY <1>1, <1>7, <2>1 DEF NumbersInv, Numbered1
  <2>3. \A u \in Handlers : serving'[u].pc # "idle"
          => serving'[u].state.no \in 1 .. Len(checkpoints[serving'[u].state.run])
    BY <1>1, <1>2 DEF NumbersInv, Numbered1, Busy
  <2> QED
    BY <1>1, <2>2, <2>3 DEF NumbersInv, Numbered1, Busy
<1>10. AloneInv'
  <2> SUFFICES ASSUME NEW q \in RunIds \ raced
               PROVE  /\ \A u, v \in Holders(q)' : u = v
                      /\ \A u \in Holders(q)' : serving'[u].state = Last(checkpoints[q])
                      /\ \A k \in DOMAIN checkpoints[q] : checkpoints[q][k].no = k
                      /\ (\A u \in Holders(q)' : serving'[u].pc = "read") =>
                           \A k \in DOMAIN runs' : runs'[k].run = q
                             => runs'[k] = Last(checkpoints[q])
    BY <1>1 DEF AloneInv, Holders, Last
  <2>1. CASE q = state.run
    <3>1. state = Last(checkpoints[q])
      BY <1>1, <1>3, <2>1 DEF AloneInv, state
    <3>2. \A k \in DOMAIN runs' : runs'[k].run = q => runs'[k] = state
      BY <1>7, <2>1
    <3> QED
      BY <1>1, <1>2, <3>1, <3>2 DEF AloneInv
  <2>2. CASE q # state.run
    <3>1. t \notin Holders(q)
      BY <2>2 DEF Holders, state
    <3>2. Holders(q)' = Holders(q)
      BY <1>2, <3>1
    <3>3. \A k \in DOMAIN runs' : runs'[k].run = q =>
            \E j \in DOMAIN runs : runs'[k] = runs[j]
      BY <1>7, <2>2
    <3> QED
      BY <1>1, <1>2, <3>2, <3>3 DEF AloneInv
  <2> QED
    BY <2>1, <2>2
<1> QED
  BY <1>1, <1>8, <1>9, <1>10, CountKept DEF MemoryInv

-----------------------------------------------------------------------------
(* Theorems                                                                *)

LEMMA MemoryInitInv == MemoryInit => MemoryInv
<1> SUFFICES ASSUME MemoryInit PROVE MemoryInv
  OBVIOUS
<1>1. /\ runs = <<>> /\ checkpoints = [r \in RunIds |-> <<>>] /\ processed_events = {}
      /\ human_actions = <<>> /\ serving = [t \in Handlers |-> Idle]
      /\ burnt = {} /\ raced = {}
  BY DEF MemoryInit
<1>2. MaxRunContexts \in Nat /\ MaxCheckpoints \in Nat
  BY MemoryWorkflowAssumption
<1>3. /\ DOMAIN runs = {} /\ Len(runs) = 0 /\ runs \in Seq(States) /\ DOMAIN human_actions = {}
  BY <1>1
<1>4. \A r \in RunIds : /\ checkpoints[r] = <<>> /\ Len(checkpoints[r]) = 0
                        /\ DOMAIN checkpoints[r] = {}
  BY <1>1
<1>5. MemoryTypeOK
  BY <1>1, <1>2, <1>3 DEF MemoryTypeOK
<1>6. NumbersInv
  BY <1>1, <1>2, <1>3, <1>4 DEF NumbersInv, Busy, Idle
<1>7. AloneInv
  BY <1>1, <1>3, <1>4 DEF AloneInv, Holders, Idle
<1>8. CountInv
  <2>1. /\ Written = {} /\ Started = {}
        /\ InStatus({"APPROVED", "REJECTED"}) = {} /\ InStatus({"APPROVED"}) = {}
    BY <1>2, <1>3, <1>4 DEF Written, Started, InStatus
  <2>2. Contacts = {}
    BY <2>1 DEF Contacts
  <2>3. IsFiniteSet({}) /\ Cardinality({}) = 0
    BY FS_EmptySet
  <2>4. IsFiniteSet(processed_events)
    BY <1>1, <2>3
  <2>5. Applied = {}
    BY <1>1 DEF Applied
  <2>6. /\ Cardinality(Written) = Cardinality(Started) + Cardinality(Applied)
             + Cardinality(InStatus({"APPROVED", "REJECTED"}))
        /\ Cardinality(Contacts) = Cardinality(InStatus({"APPROVED"}))
    <3>1. /\ Cardinality(Written) = 0 /\ Cardinality(Started) = 0
          /\ Cardinality(Applied) = 0 /\ Cardinality(Contacts) = 0
          /\ Cardinality(InStatus({"APPROVED", "REJECTED"})) = 0
          /\ Cardinality(InStatus({"APPROVED"})) = 0
      BY <2>1, <2>2, <2>3, <2>5, Zenon
    <3> QED
      BY <3>1
  <2> QED
    BY <2>4, <2>6 DEF CountInv, OneCheckpointPerCause, Started
<1> QED
  BY <1>5, <1>6, <1>7, <1>8 DEF MemoryInv

LEMMA MemoryNextInv == MemoryInv /\ [MemoryNext]_memoryVars => MemoryInv'
<1> SUFFICES ASSUME MemoryInv, [MemoryNext]_memoryVars PROVE MemoryInv'
  OBVIOUS
<1>1. CASE UNCHANGED memoryVars
  BY <1>1 DEF MemoryInv, memoryVars, MemoryTypeOK, NumbersInv, Numbered1, Busy, AloneInv,
     Holders, Last, CountInv, OneCheckpointPerCause, Applied,
     Written, Contacts, Enters, InStatus
<1>2. ASSUME NEW t \in Handlers, ServeStep(t) PROVE MemoryInv'
  BY <1>2, StartStep, ReadRunStep, StoreStep, RepeatStep, ApplyStep, BurnStep, DecideStep,
         RefuseStep
     DEF ServeStep
<1> QED
  BY <1>1, <1>2 DEF MemoryNext

\* The engine's lists and the server's map keep the invariant, however the threads
\* take turns between runs.get, the engine and runs.put (server.py, workflow.py).
THEOREM MemoryInvariant == MemorySpec => []MemoryInv
BY MemoryInitInv, MemoryNextInv, PTL DEF MemorySpec

\* The map of runs never exceeds max_entries and never has two entries of a run.
THEOREM MemoryTypeCorrect == MemorySpec => []MemoryTypeOK
<1>1. MemoryInv => MemoryTypeOK
  BY DEF MemoryInv
<1> QED
  BY <1>1, MemoryInvariant, PTL

\* A run whose requests never overlapped can be restored from its checkpoints, and
\* the map has its last state or none: eviction and expiry lose a run but never
\* take it back.
THEOREM SerialRunsAlwaysRestore == MemorySpec => []SerialRunsRestore
<1>1. MemoryInv => SerialRunsRestore
  BY DEF MemoryInv, AloneInv, SerialRunsRestore, Restorable
<1> QED
  BY <1>1, MemoryInvariant, PTL

\* However requests overlap, the engine's lock makes each start, each decision and
\* each event that was not burnt one checkpoint, each approval one entry into CONTACT,
\* and of a burnt event nothing.
THEOREM AlwaysOneCheckpointPerCause == MemorySpec => []OneCheckpointPerCause
<1>1. MemoryInv => OneCheckpointPerCause
  BY DEF MemoryInv, CountInv
<1> QED
  BY <1>1, MemoryInvariant, PTL

-----------------------------------------------------------------------------
(* EventOutbox                                                             *)

\* The rows of a session are unpublished, and divided between those to publish,
\* those it marked and those it wrote a dead letter for.
Sane(s) ==
  /\ s.todo \subseteq s.rows /\ s.marked \subseteq s.rows /\ s.letters \subseteq s.rows
  /\ s.todo \intersect s.marked = {}
  /\ s.rows \subseteq inserted \ published
  /\ ~ s.open => s.rows = {}

SessionInv == \A p \in Publishers : Sane(session[p])

\* SKIP LOCKED: no two sessions have a row in common.
LockInv ==
  \A p, q \in Publishers : p # q => session[p].rows \intersect session[q].rows = {}

\* What the broker missed is marked all the same.
MissedInv == missed \subseteq Marked

\* Marked events that the broker has for that mark.
Received == Marked \ missed

OutboxInv == OutboxTypeOK /\ SessionInv /\ LockInv /\ MissedInv /\ DuplicatesHaveCause

Sessions == [open : BOOLEAN, rows : SUBSET Events, todo : SUBSET Events,
             marked : SUBSET Events, letters : SUBSET Events]

-----------------------------------------------------------------------------
\* The initial states satisfy the invariant: nothing is inserted or delivered.
LEMMA OutboxInitInv == OutboxInit => OutboxInv
<1> SUFFICES ASSUME OutboxInit PROVE OutboxInv
  OBVIOUS
<1>1. OutboxTypeOK
  BY OutboxAssumption DEF OutboxInit, OutboxTypeOK, Closed
<1>2. SessionInv /\ LockInv
  BY DEF OutboxInit, SessionInv, LockInv, Sane, Closed
<1>3. Marked = {}
  BY DEF OutboxInit, Marked, Closed
<1>4. MissedInv /\ DuplicatesHaveCause
  BY <1>3 DEF OutboxInit, MissedInv, DuplicatesHaveCause, In
<1> QED BY <1>1, <1>2, <1>4 DEF OutboxInv

-----------------------------------------------------------------------------
\* A step that replaces the session of p by s, with no row more than it had and only
\* those that stay unpublished, keeps the two invariants of the sessions.
LEMMA KeepSession ==
  ASSUME OutboxInv, NEW p \in Publishers, NEW s \in Sessions,
         session' = [session EXCEPT ![p] = s],
         inserted' = inserted,
         s.rows \subseteq session[p].rows,
         s.todo \subseteq s.rows, s.marked \subseteq s.rows, s.letters \subseteq s.rows,
         s.todo \intersect s.marked = {}, ~ s.open => s.rows = {},
         published \subseteq published',
         published' \subseteq published \union (session[p].rows \ s.rows)
  PROVE  session' \in [Publishers -> Sessions] /\ SessionInv' /\ LockInv'
<1>1. session \in [Publishers -> Sessions]
  BY DEF OutboxInv, OutboxTypeOK, Sessions
<1>2. /\ session' \in [Publishers -> Sessions]
      /\ session'[p] = s
      /\ \A q \in Publishers : q # p => session'[q] = session[q]
  BY <1>1
<1>3. \A q \in Publishers : Sane(session[q])
  BY DEF OutboxInv, SessionInv
<1>4. ASSUME NEW q \in Publishers PROVE Sane(session[q])'
  <2>1. CASE q = p
    BY <2>1, <1>2, <1>3 DEF Sane
  <2>2. CASE q # p
    <3>1. session[q].rows \intersect session[p].rows = {}
      BY <2>2 DEF OutboxInv, LockInv
    <3> QED BY <2>2, <3>1, <1>2, <1>3 DEF Sane
  <2> QED BY <2>1, <2>2
<1>5. LockInv'
  <2> SUFFICES ASSUME NEW q \in Publishers, NEW r \in Publishers, q # r
               PROVE  session'[q].rows \intersect session'[r].rows = {}
    BY DEF LockInv
  <2>1. session'[q].rows \subseteq session[q].rows /\ session'[r].rows \subseteq session[r].rows
    BY <1>2
  <2>2. session[q].rows \intersect session[r].rows = {}
    BY DEF OutboxInv, LockInv
  <2> QED BY <2>1, <2>2
<1> QED BY <1>2, <1>4, <1>5 DEF SessionInv

\* Only the session of p changes what is marked: with d in its place the rows marked
\* are those of the others and d.
LEMMA MarkedOf ==
  ASSUME OutboxInv, NEW p \in Publishers, NEW s \in Sessions,
         session' = [session EXCEPT ![p] = s]
  PROVE  \A e \in Events :
           e \in Marked' <=> \/ e \in published'
                             \/ e \in s.marked
                             \/ \E q \in Publishers \ {p} : e \in session[q].marked
<1>1. session \in [Publishers -> Sessions]
  BY DEF OutboxInv, OutboxTypeOK, Sessions
<1>2. session'[p] = s /\ \A q \in Publishers : q # p => session'[q] = session[q]
  BY <1>1
<1>3. \A e : e \in Marked' <=> e \in published' \/ \E q \in Publishers : e \in session'[q].marked
  BY DEF Marked
<1> QED BY <1>2, <1>3

\* A row of the session of p is marked, if at all, in that session.
LEMMA MarkedHere ==
  ASSUME OutboxInv, NEW p \in Publishers, NEW e \in session[p].rows
  PROVE  /\ e \notin published
         /\ \A q \in Publishers \ {p} : e \notin session[q].marked
         /\ e \in Marked <=> e \in session[p].marked
<1>1. e \notin published
  BY DEF OutboxInv, SessionInv, Sane
<1>2. ASSUME NEW q \in Publishers \ {p} PROVE e \notin session[q].marked
  BY <1>2 DEF OutboxInv, SessionInv, LockInv, Sane
<1>3. e \in Marked <=> e \in published \/ \E q \in Publishers : e \in session[q].marked
  BY DEF Marked
<1> QED BY <1>1, <1>2, <1>3

-----------------------------------------------------------------------------
\* A producer commits an event.
LEMMA InsertKeeps == OutboxInv /\ InsertEvent => OutboxInv'
<1> SUFFICES ASSUME OutboxInv, InsertEvent PROVE OutboxInv'
  OBVIOUS
<1> USE DEF OutboxInv, InsertEvent
<1>1. PICK e \in Events \ inserted : inserted' = inserted \union {e}
  OBVIOUS
<1>2. OutboxTypeOK'
  BY <1>1 DEF OutboxTypeOK
<1>3. SessionInv'
  BY <1>1 DEF SessionInv, Sane
<1>4. LockInv' /\ MissedInv' /\ DuplicatesHaveCause'
  BY DEF LockInv, MissedInv, DuplicatesHaveCause, Marked
<1> QED BY <1>2, <1>3, <1>4

\* A session takes rows no other has.
LEMMA SelectKeeps == ASSUME NEW p \in Publishers PROVE OutboxInv /\ Select(p) => OutboxInv'
<1> SUFFICES ASSUME OutboxInv, Select(p) PROVE OutboxInv'
  OBVIOUS
<1> DEFINE s == [Closed EXCEPT !.open = TRUE, !.rows = Batch, !.todo = Batch]
<1>1. session \in [Publishers -> Sessions]
  BY DEF OutboxInv, OutboxTypeOK, Sessions
<1>2. Batch \subseteq Free /\ Free \subseteq Events
  BY DEF OutboxInv, OutboxTypeOK, Batch, Free
<1>3. s \in Sessions /\ s.rows = Batch /\ s.todo = Batch /\ s.marked = {} /\ s.letters = {} /\ s.open
  BY <1>2 DEF Sessions, Closed
<1>4. session' = [session EXCEPT ![p] = s]
  BY DEF Select
<1>5. /\ UNCHANGED <<inserted, published, dead, delivered, missed, unrecorded, faults>>
      /\ ~ session[p].open
  BY DEF Select
<1> HIDE DEF s
<1>6. /\ session' \in [Publishers -> Sessions] /\ session'[p] = s
      /\ \A q \in Publishers : q # p => session'[q] = session[q]
  BY <1>1, <1>3, <1>4
<1>7. OutboxTypeOK'
  BY <1>5, <1>6 DEF OutboxInv, OutboxTypeOK, Sessions
<1>8. ASSUME NEW q \in Publishers
      PROVE  s.rows \intersect session[q].rows = {}
  BY <1>2, <1>3 DEF Free
<1>9. SessionInv'
  <2> SUFFICES ASSUME NEW q \in Publishers PROVE Sane(session[q])'
    BY DEF SessionInv
  <2>1. CASE q = p
    BY <2>1, <1>2, <1>3, <1>5, <1>6 DEF Sane, Free
  <2>2. CASE q # p
    BY <2>2, <1>5, <1>6 DEF OutboxInv, SessionInv, Sane
  <2> QED BY <2>1, <2>2
<1>10. LockInv'
  BY <1>6, <1>8 DEF OutboxInv, LockInv
<1>11. session[p].marked = {}
  BY <1>5 DEF OutboxInv, SessionInv, Sane
<1>12. \A e \in Events : e \in Marked' <=> e \in Marked
  <2>1. \A e \in Events :
          e \in Marked' <=> \/ e \in published' \/ e \in s.marked
                            \/ \E q \in Publishers \ {p} : e \in session[q].marked
    BY <1>3, <1>4, MarkedOf
  <2>2. \A e : e \in Marked <=> e \in published \/ \E q \in Publishers : e \in session[q].marked
    BY DEF Marked
  <2> QED BY <2>1, <2>2, <1>3, <1>5, <1>11
<1>13. DuplicatesHaveCause'
  BY <1>5, <1>12 DEF OutboxInv, DuplicatesHaveCause, In
<1>14. MissedInv'
  BY <1>5, <1>12 DEF OutboxInv, OutboxTypeOK, MissedInv
<1> QED BY <1>7, <1>9, <1>10, <1>13, <1>14 DEF OutboxInv

\* The publisher returned and the row is marked: either one delivery and one mark more,
\* or no delivery and a mark the broker missed.
LEMMA PublishKeeps ==
  ASSUME NEW p \in Publishers, NEW e \in Events PROVE OutboxInv /\ Publish(p, e) => OutboxInv'
<1> SUFFICES ASSUME OutboxInv, Publish(p, e) PROVE OutboxInv'
  OBVIOUS
<1> DEFINE s == [session[p] EXCEPT !.todo = @ \ {e}, !.marked = @ \union {e}]
<1>1. session \in [Publishers -> Sessions] /\ session[p] \in Sessions
  BY DEF OutboxInv, OutboxTypeOK, Sessions
<1>2. e \in session[p].todo /\ Sane(session[p])
  BY DEF Publish, AtRow, OutboxInv, SessionInv
<1>3. /\ s \in Sessions /\ s.rows = session[p].rows /\ s.open = session[p].open
      /\ s.todo = session[p].todo \ {e} /\ s.letters = session[p].letters
      /\ s.marked = session[p].marked \union {e}
  BY <1>1 DEF Sessions
<1>4. session' = [session EXCEPT ![p] = s]
  BY <1>1 DEF Publish
<1>5. UNCHANGED <<inserted, published, dead, unrecorded, faults>>
  BY DEF Publish
<1>6. PICK arrived \in SUBSET {e} :
         /\ delivered' = [x \in Events |-> delivered[x] + In(x, arrived)]
         /\ missed' = missed \union ({e} \ arrived)
  BY DEF Publish, Outcomes
<1> HIDE DEF s
<1>7. session' \in [Publishers -> Sessions] /\ SessionInv' /\ LockInv'
  BY <1>2, <1>3, <1>4, <1>5, KeepSession DEF Sane
<1>8. OutboxTypeOK'
  <2>1. \A x, set : In(x, set) \in Nat
    BY DEF In
  <2>2. delivered' \in [Events -> Nat] /\ missed' \subseteq Events
    BY <2>1, <1>6 DEF OutboxInv, OutboxTypeOK
  <2> QED BY <2>2, <1>5, <1>7 DEF OutboxInv, OutboxTypeOK, Sessions
<1>9. e \notin Marked /\ \A x \in Events : x \in Marked' <=> x \in Marked \union {e}
  <2>1. e \notin Marked
    BY <1>2, MarkedHere DEF Sane
  <2>2. \A x \in Events :
          x \in Marked' <=> \/ x \in published' \/ x \in s.marked
                            \/ \E q \in Publishers \ {p} : x \in session[q].marked
    BY <1>3, <1>4, MarkedOf
  <2>3. \A x : x \in Marked <=> x \in published \/ \E q \in Publishers : x \in session[q].marked
    BY DEF Marked
  <2> QED BY <2>1, <2>2, <2>3, <1>3, <1>5
<1>10. MissedInv'
  BY <1>6, <1>8, <1>9 DEF OutboxInv, OutboxTypeOK, MissedInv
<1>11. ASSUME NEW x \in Events PROVE In(x, Received') = In(x, Received) + In(x, arrived)
  <2>1. x \in Received' <=> x \in Received \union arrived
    BY <1>6, <1>9 DEF OutboxInv, MissedInv, Received
  <2>2. x \in arrived => x \notin Received
    BY <1>9 DEF Received
  <2> QED BY <2>1, <2>2 DEF In
<1>12. DuplicatesHaveCause'
  <2> SUFFICES ASSUME NEW x \in Events PROVE delivered'[x] = unrecorded'[x] + In(x, Received')
    BY DEF DuplicatesHaveCause, Received
  <2> DEFINE was == In(x, Received) came == In(x, arrived)
  <2>1. delivered[x] = unrecorded[x] + was /\ unrecorded[x] \in Nat
    BY DEF OutboxInv, DuplicatesHaveCause, OutboxTypeOK, Received
  <2>2. was \in Nat /\ came \in Nat
    BY DEF In
  <2>3. delivered'[x] = delivered[x] + came /\ unrecorded'[x] = unrecorded[x]
    BY <1>5, <1>6
  <2>4. SUFFICES delivered'[x] = unrecorded'[x] + (was + came)
    BY <1>11
  <2> HIDE DEF was, came
  <2> QED BY <2>1, <2>2, <2>3
<1> QED BY <1>7, <1>8, <1>10, <1>12 DEF OutboxInv

-----------------------------------------------------------------------------
\* What was delivered and what was left unrecorded grow alike where nothing more is
\* marked and received.
LEMMA AccountKept ==
  ASSUME OutboxInv, NEW lost, NEW arrived,
         delivered' = [x \in Events |-> delivered[x] + In(x, arrived)],
         unrecorded' = [x \in Events |-> unrecorded[x] + In(x, lost) + In(x, arrived)],
         \A x \in Events : In(x, Received') + In(x, lost) = In(x, Received)
  PROVE  DuplicatesHaveCause' /\ delivered' \in [Events -> Nat] /\ unrecorded' \in [Events -> Nat]
<1>1. /\ \A x \in Events : delivered[x] = unrecorded[x] + In(x, Received)
      /\ delivered \in [Events -> Nat] /\ unrecorded \in [Events -> Nat]
  BY DEF OutboxInv, DuplicatesHaveCause, OutboxTypeOK, Received
<1>2. \A x, set : In(x, set) \in Nat
  BY DEF In
<1>3. ASSUME NEW x \in Events PROVE delivered'[x] = unrecorded'[x] + In(x, Received')
  <2> DEFINE was == In(x, Received) is == In(x, Received') gone == In(x, lost) came == In(x, arrived)
  <2>1. was \in Nat /\ is \in Nat /\ gone \in Nat /\ came \in Nat /\ is + gone = was
    BY <1>2
  <2>2. /\ delivered'[x] = delivered[x] + came
        /\ unrecorded'[x] = unrecorded[x] + gone + came
        /\ delivered[x] = unrecorded[x] + was
        /\ unrecorded[x] \in Nat
    BY <1>1
  <2>3. SUFFICES delivered'[x] = unrecorded'[x] + is
    OBVIOUS
  <2> HIDE DEF was, is, gone, came
  <2> QED BY <2>1, <2>2
<1>4. delivered' \in [Events -> Nat] /\ unrecorded' \in [Events -> Nat]
  BY <1>1, <1>2
<1> QED BY <1>3, <1>4 DEF DuplicatesHaveCause, Received

\* A lost transaction gives back its rows with what it had marked.
LEMMA LoseKeeps ==
  ASSUME OutboxInv, NEW p \in Publishers, NEW arrived, Lose(p, arrived),
         inserted' = inserted, faults' \in 0 .. MaxFaults,
         delivered' = [x \in Events |-> delivered[x] + In(x, arrived)]
  PROVE  OutboxInv'
<1>1. session \in [Publishers -> Sessions] /\ Closed \in Sessions
  BY DEF OutboxInv, OutboxTypeOK, Sessions, Closed
<1>2. /\ session' = [session EXCEPT ![p] = Closed]
      /\ published' = published /\ dead' = dead
      /\ unrecorded' = [x \in Events |->
           unrecorded[x] + In(x, session[p].marked \ missed) + In(x, arrived)]
      /\ missed' = missed \ session[p].marked
  BY DEF Lose, Undone
<1>3. session' \in [Publishers -> Sessions] /\ SessionInv' /\ LockInv'
  BY <1>1, <1>2, KeepSession DEF Closed
<1>4. ASSUME NEW x \in Events
      PROVE  /\ In(x, Received') + In(x, session[p].marked \ missed) = In(x, Received)
             /\ x \in missed' => x \in Marked'
  <2>1. x \in Marked' <=> x \in published \/ \E q \in Publishers \ {p} : x \in session[q].marked
    BY <1>1, <1>2, MarkedOf DEF Closed
  <2>2. x \in Marked <=> x \in published \/ \E q \in Publishers : x \in session[q].marked
    BY DEF Marked
  <2>3. x \in session[p].marked => x \notin Marked'
    BY <2>1, MarkedHere DEF OutboxInv, SessionInv, Sane
  <2>4. x \in Marked <=> x \in Marked' \/ x \in session[p].marked
    BY <2>1, <2>2
  <2>5. x \in missed' => x \in Marked'
    BY <2>4, <1>2 DEF OutboxInv, MissedInv
  <2>6. /\ x \in Received <=> x \in Received' \/ x \in session[p].marked \ missed
        /\ x \in session[p].marked => x \notin Received'
    BY <2>3, <2>4, <1>2 DEF Received
  <2> QED BY <2>5, <2>6 DEF In
<1>5. DuplicatesHaveCause' /\ delivered' \in [Events -> Nat] /\ unrecorded' \in [Events -> Nat]
  BY <1>2, <1>4, AccountKept
<1>6. OutboxTypeOK'
  BY <1>2, <1>3, <1>5 DEF OutboxInv, OutboxTypeOK, Sessions
<1>7. MissedInv'
  BY <1>4, <1>6 DEF OutboxTypeOK, MissedInv
<1> QED BY <1>3, <1>5, <1>6, <1>7 DEF OutboxInv

\* The publisher raised: the row stays, beside a dead letter or a lost transaction.
LEMMA RaiseKeeps ==
  ASSUME NEW p \in Publishers, NEW e \in Events PROVE OutboxInv /\ PublishRaises(p, e) => OutboxInv'
<1> SUFFICES ASSUME OutboxInv, PublishRaises(p, e) PROVE OutboxInv'
  OBVIOUS
<1>1. PICK arrived \in SUBSET {e} :
        /\ IF e \in Refused THEN arrived = {} /\ UNCHANGED faults
           ELSE faults < MaxFaults /\ faults' = faults + 1
        /\ delivered' = [x \in Events |-> delivered[x] + In(x, arrived)]
        /\ IF e \in Objects THEN Lose(p, arrived)
           ELSE /\ session' = [session EXCEPT ![p].todo = @ \ {e}, ![p].letters = @ \union {e}]
                /\ unrecorded' = [x \in Events |-> unrecorded[x] + In(x, arrived)]
                /\ UNCHANGED <<published, dead, missed>>
  BY DEF PublishRaises, Outcomes
<1>2. inserted' = inserted /\ e \in session[p].todo
  BY DEF PublishRaises, AtRow
<1>3. faults' \in 0 .. MaxFaults
  BY <1>1, OutboxAssumption DEF OutboxInv, OutboxTypeOK
<1>4. CASE e \in Objects
  BY <1>1, <1>2, <1>3, <1>4, LoseKeeps
<1>5. CASE e \notin Objects
  <2> DEFINE s == [session[p] EXCEPT !.todo = @ \ {e}, !.letters = @ \union {e}]
  <2>1. session \in [Publishers -> Sessions] /\ session[p] \in Sessions /\ Sane(session[p])
    BY DEF OutboxInv, OutboxTypeOK, Sessions, SessionInv
  <2>2. /\ s \in Sessions /\ s.rows = session[p].rows /\ s.open = session[p].open
        /\ s.todo = session[p].todo \ {e} /\ s.marked = session[p].marked
        /\ s.letters = session[p].letters \union {e}
    BY <2>1 DEF Sessions
  <2>3. /\ session' = [session EXCEPT ![p] = s]
        /\ published' = published /\ dead' = dead /\ missed' = missed
    BY <1>1, <1>5, <2>1
  <2> HIDE DEF s
  <2>4. session' \in [Publishers -> Sessions] /\ SessionInv' /\ LockInv'
    BY <1>2, <2>1, <2>2, <2>3, KeepSession DEF Sane
  <2>5. ASSUME NEW x \in Events
        PROVE  In(x, Received') + In(x, {}) = In(x, Received) /\ (x \in Marked' <=> x \in Marked)
    <3>1. x \in Marked' <=> \/ x \in published \/ x \in session[p].marked
                            \/ \E q \in Publishers \ {p} : x \in session[q].marked
      BY <2>2, <2>3, MarkedOf
    <3>2. x \in Marked <=> x \in published \/ \E q \in Publishers : x \in session[q].marked
      BY DEF Marked
    <3>3. (x \in Marked' <=> x \in Marked) /\ (x \in Received' <=> x \in Received)
      BY <3>1, <3>2, <2>3 DEF Received
    <3> QED BY <3>3 DEF In
  <2>6. unrecorded' = [x \in Events |-> unrecorded[x] + In(x, {}) + In(x, arrived)]
    <3>1. \A x \in Events : unrecorded[x] + In(x, {}) = unrecorded[x]
      BY DEF In, OutboxInv, OutboxTypeOK
    <3> QED BY <3>1, <1>1, <1>5
  <2>7. DuplicatesHaveCause' /\ delivered' \in [Events -> Nat] /\ unrecorded' \in [Events -> Nat]
    BY <1>1, <2>5, <2>6, AccountKept
  <2>8. OutboxTypeOK'
    BY <1>2, <1>3, <2>3, <2>4, <2>7 DEF OutboxInv, OutboxTypeOK, Sessions
  <2>9. MissedInv'
    BY <2>3, <2>5 DEF OutboxInv, OutboxTypeOK, MissedInv
  <2> QED BY <2>4, <2>7, <2>8, <2>9 DEF OutboxInv
<1> QED BY <1>4, <1>5

\* The session dies.
LEMMA LoseSessionKeeps == ASSUME NEW p \in Publishers PROVE OutboxInv /\ LoseSession(p) => OutboxInv'
<1> SUFFICES ASSUME OutboxInv, LoseSession(p) PROVE OutboxInv'
  OBVIOUS
<1>1. Lose(p, {}) /\ inserted' = inserted /\ delivered' = delivered
  BY DEF LoseSession
<1>2. faults' \in 0 .. MaxFaults
  BY OutboxAssumption DEF LoseSession, OutboxInv, OutboxTypeOK
<1>3. delivered' = [x \in Events |-> delivered[x] + In(x, {})]
  BY <1>1 DEF In, OutboxInv, OutboxTypeOK
<1> QED BY <1>1, <1>2, <1>3, LoseKeeps

\* The marks of the session become those of the table.
LEMMA CommitKeeps == ASSUME NEW p \in Publishers PROVE OutboxInv /\ CommitBatch(p) => OutboxInv'
<1> SUFFICES ASSUME OutboxInv, CommitBatch(p) PROVE OutboxInv'
  OBVIOUS
<1>1. /\ session' = [session EXCEPT ![p] = Closed]
      /\ published' = published \union session[p].marked
      /\ dead' = dead \union session[p].letters
      /\ UNCHANGED <<inserted, delivered, missed, unrecorded, faults>>
  BY DEF CommitBatch
<1>2. session \in [Publishers -> Sessions] /\ Closed \in Sessions /\ Sane(session[p])
  BY DEF OutboxInv, OutboxTypeOK, Sessions, Closed, SessionInv
<1>3. session' \in [Publishers -> Sessions] /\ SessionInv' /\ LockInv'
  BY <1>1, <1>2, KeepSession DEF Closed, Sane
<1>4. OutboxTypeOK'
  BY <1>1, <1>2, <1>3 DEF OutboxInv, OutboxTypeOK, Sessions, Sane
<1>5. ASSUME NEW x \in Events PROVE x \in Marked' <=> x \in Marked
  <2>1. x \in Marked' <=> x \in published' \/ \E q \in Publishers \ {p} : x \in session[q].marked
    BY <1>1, <1>2, MarkedOf DEF Closed
  <2>2. x \in Marked <=> x \in published \/ \E q \in Publishers : x \in session[q].marked
    BY DEF Marked
  <2> QED BY <2>1, <2>2, <1>1
<1>6. MissedInv' /\ DuplicatesHaveCause'
  BY <1>1, <1>5 DEF OutboxInv, OutboxTypeOK, MissedInv, DuplicatesHaveCause, In
<1> QED BY <1>3, <1>4, <1>6 DEF OutboxInv

-----------------------------------------------------------------------------
\* Every step of the outbox keeps the invariant.
LEMMA OutboxNextInv == OutboxInv /\ [OutboxNext]_outboxVars => OutboxInv'
<1> SUFFICES ASSUME OutboxInv, [OutboxNext]_outboxVars PROVE OutboxInv'
  OBVIOUS
<1>1. CASE InsertEvent
  BY <1>1, InsertKeeps
<1>2. ASSUME NEW p \in Publishers, PublisherStep(p) \/ LoseSession(p) PROVE OutboxInv'
  BY <1>2, SelectKeeps, PublishKeeps, RaiseKeeps, CommitKeeps, LoseSessionKeeps DEF PublisherStep
<1>3. CASE UNCHANGED outboxVars
  BY <1>3 DEF outboxVars, OutboxInv, OutboxTypeOK, SessionInv, Sane, LockInv,
                  MissedInv, DuplicatesHaveCause, Marked, In
<1> QED BY <1>1, <1>2, <1>3 DEF OutboxNext

\* The invariant of the outbox: sessions lock disjoint rows, what the broker missed is
\* marked, and the account holds.
THEOREM OutboxInvariant == OutboxSpec => []OutboxInv
<1> QED BY OutboxInitInv, OutboxNextInv, PTL DEF OutboxSpec

\* The broker receives an event at most once for its mark, exactly once if it did not
\* miss what the publisher took for sent, and once for each delivery that a fault left
\* unrecorded, with any number of concurrent calls of publish_batch.
THEOREM DuplicatesAlwaysHaveCause == OutboxSpec => []DuplicatesHaveCause
<1> QED BY OutboxInvariant, PTL DEF OutboxInv

\* Only events that were inserted are published or dead.
THEOREM OutboxTypeCorrect == OutboxSpec => []OutboxTypeOK
<1> QED BY OutboxInvariant, PTL DEF OutboxInv

=============================================================================
