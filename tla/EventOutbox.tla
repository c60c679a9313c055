----------------------------- MODULE EventOutbox -----------------------------
(***************************************************************************)
(* PostgresOutboxWorker.publish_batch: sessions that take a batch of       *)
(* events, publish them one by one and mark what they published, in one    *)
(* transaction that skips the rows another session has locked.             *)
(***************************************************************************)
EXTENDS Integers, FiniteSets

CONSTANTS
  Events,           \* rows of outbox_event of a tenant, by their occurred_at
  Publishers,       \* processes that call publish_batch again and again
  Limit,            \* limit: rows of a batch
  Refused,          \* events the publisher always refuses
  Objects           \* events whose payload is an object: no parameter of the INSERT

CONSTANT            \* bound of the model
  MaxFaults         \* calls that raise, sessions that die

ASSUME OutboxAssumption ==
  /\ Events \subseteq Nat /\ IsFiniteSet(Events)
  /\ Limit \in Nat \ {0} /\ MaxFaults \in Nat
  /\ Refused \subseteq Events /\ Objects \subseteq Events

VARIABLES
  inserted,         \* events a producer has committed
  published,        \* events with a published_at
  dead,             \* events with a row in dead_letter_event
  session,          \* transaction of each publisher
  delivered,        \* how often the broker received each event
  missed,           \* marked events that it did not receive (no code reads it)
  unrecorded,       \* deliveries no commit recorded, by event (no code reads it)
  faults            \* faults so far

outboxVars ==
  <<inserted, published, dead, session, delivered, missed, unrecorded, faults>>

Closed == [open |-> FALSE, rows |-> {}, todo |-> {}, marked |-> {}, letters |-> {}]

OutboxInit ==
  /\ inserted = {} /\ published = {} /\ dead = {}
  /\ session = [p \in Publishers |-> Closed]
  /\ delivered = [e \in Events |-> 0] /\ unrecorded = [e \in Events |-> 0]
  /\ missed = {} /\ faults = 0

\* Events are committed in any order, not that of their occurred_at.
InsertEvent ==
  /\ \E e \in Events \ inserted : inserted' = inserted \union {e}
  /\ UNCHANGED <<published, dead, session, delivered, missed, unrecorded, faults>>

\* mutant: FOR UPDATE without the rows being locked
Free_Unlocked == inserted \ published

Free == (inserted \ published) \ UNION {session[p].rows : p \in Publishers}

\* mutant: the batch stops one row too early
Batch_Short == {e \in Free : Cardinality({f \in Free : f < e}) < Limit - 1}

Batch == {e \in Free : Cardinality({f \in Free : f < e}) < Limit}

Select(p) ==
  /\ ~ session[p].open
  /\ Batch # {}
  /\ session' = [session EXCEPT ![p] =
       [Closed EXCEPT !.open = TRUE, !.rows = Batch, !.todo = Batch]]
  /\ UNCHANGED <<inserted, published, dead, delivered, missed, unrecorded, faults>>

\* The row the loop is at.
AtRow(p, e) == e \in session[p].todo /\ \A f \in session[p].todo : e <= f

In(e, set) == IF e \in set THEN 1 ELSE 0

\* What the broker may have of an event once RabbitMQPublisher.publish is through: it
\* or nothing, whether the call returns or raises.  The channel is not in confirm mode,
\* and nobody reads with what a mandatory message that finds no queue is returned.
Outcomes(e) == SUBSET {e}

\* The publisher returns and the UPDATE marks the row, in the transaction.
Publish(p, e) ==
  /\ AtRow(p, e)
  /\ e \notin Refused
  /\ \E arrived \in Outcomes(e) :
       /\ delivered' = [x \in Events |-> delivered[x] + In(x, arrived)]
       /\ missed' = missed \union ({e} \ arrived)
  /\ session' = [session EXCEPT ![p].todo = @ \ {e}, ![p].marked = @ \union {e}]
  /\ UNCHANGED <<inserted, published, dead, unrecorded, faults>>

\* mutant: a transaction that fails keeps the marks of its rows
Undone_Kept(p) == published \union session[p].marked

Undone(p) == published

\* The transaction is lost with the deliveries it had marked.
Lose(p, more) ==
  /\ session' = [session EXCEPT ![p] = Closed]
  /\ published' = Undone(p)
  /\ unrecorded' = [e \in Events |->
       unrecorded[e] + In(e, session[p].marked \ missed) + In(e, more)]
  /\ missed' = missed \ session[p].marked
  /\ UNCHANGED dead

\* The publisher raises, before or after the broker has the event.  The row stays as
\* it is beside its dead letter, and the INSERT of a payload psycopg returned as a
\* dict raises as well, which ends the transaction.
PublishRaises(p, e) ==
  /\ AtRow(p, e)
  /\ \E arrived \in Outcomes(e) :
       /\ IF e \in Refused THEN arrived = {} /\ UNCHANGED faults
          ELSE faults < MaxFaults /\ faults' = faults + 1
       /\ delivered' = [x \in Events |-> delivered[x] + In(x, arrived)]
       /\ IF e \in Objects THEN Lose(p, arrived)
          ELSE /\ session' = [session EXCEPT ![p].todo = @ \ {e}, ![p].letters = @ \union {e}]
               /\ unrecorded' = [x \in Events |-> unrecorded[x] + In(x, arrived)]
               /\ UNCHANGED <<published, dead, missed>>
  /\ UNCHANGED inserted

\* The process or its connection dies; or the UPDATE raises, and with it the INSERT
\* of a dead letter in the transaction that has failed.
LoseSession(p) ==
  /\ session[p].open /\ faults < MaxFaults
  /\ faults' = faults + 1
  /\ Lose(p, {})
  /\ UNCHANGED <<inserted, delivered>>

CommitBatch(p) ==
  /\ session[p].open /\ session[p].todo = {}
  /\ published' = published \union session[p].marked
  /\ dead' = dead \union session[p].letters
  /\ session' = [session EXCEPT ![p] = Closed]
  /\ UNCHANGED <<inserted, delivered, missed, unrecorded, faults>>

PublisherStep(p) ==
  \/ Select(p) \/ CommitBatch(p)
  \/ \E e \in Events : Publish(p, e) \/ PublishRaises(p, e)

OutboxNext ==
  \/ InsertEvent
  \/ \E p \in Publishers : PublisherStep(p) \/ LoseSession(p)

\* Each process goes on: with its batch, and with a next one when there are rows.
OutboxFairness == \A p \in Publishers : WF_outboxVars(PublisherStep(p))

OutboxSpec == OutboxInit /\ [][OutboxNext]_outboxVars /\ OutboxFairness

-----------------------------------------------------------------------------
(* Properties                                                              *)

OutboxTypeOK ==
  /\ inserted \subseteq Events /\ published \subseteq inserted /\ dead \subseteq inserted
  /\ session \in [Publishers -> [open : BOOLEAN, rows : SUBSET Events, todo : SUBSET Events,
                                 marked : SUBSET Events, letters : SUBSET Events]]
  /\ missed \subseteq Events
  /\ delivered \in [Events -> Nat] /\ unrecorded \in [Events -> Nat]
  /\ faults \in 0 .. MaxFaults

Marked == published \union UNION {session[p].marked : p \in Publishers}

\* An event reaches the broker once for its published_at, unless the broker missed
\* what the publisher took for sent, and once more for each delivery that a lost
\* transaction or a call that raised left unrecorded: two sessions never publish the
\* same row, and a lost mark is made up for by another publication.  That a marked event has
\* reached the broker, "outbox evita perdida entre transaccion y publicacion"
\* (design.md:213), is not so: missed are those that have not.
DuplicatesHaveCause ==
  \A e \in Events : delivered[e] = unrecorded[e] + In(e, Marked \ missed)

\* Every event the publisher does not refuse is marked in the end, if refused
\* events do not fill a batch and their dead letters can be written.
EventuallyPublished ==
  (Cardinality(Refused) < Limit /\ Refused \intersect Objects = {})
    => \A e \in Events \ Refused : e \in inserted ~> e \in published

=============================================================================
