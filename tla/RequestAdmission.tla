--------------------------- MODULE RequestAdmission ---------------------------
(***************************************************************************)
(* What stands before the handlers of a service: the signature check of    *)
(* workload requests with the store of their nonces, the check of provider *)
(* webhooks with the store of their event ids, and the rate limit.         *)
(*                                                                         *)
(* A message may be delivered several times, at any time, each time to a   *)
(* thread of its own.  The thread reads the clock for the timestamp in one *)
(* step and asks the store in another: a connection is opened in between.  *)
(* Signatures are right; with a wrong one the thread ends before the store.*)
(***************************************************************************)
EXTENDS Integers, FiniteSets, FiniteSetsExt

CONSTANTS
  Messages,         \* requests signed by a service, events sent by a provider
  Kind,             \* Kind[m]: "workload", "generic" or "meta" (which has no timestamp)
  Deliveries,       \* arrivals, the first ones and the repeated
  MessageOf,        \* MessageOf[d]: the message that arrives
  MaxSkew,          \* max_skew_seconds, by kind
  KeepFor,          \* ttl_seconds of the store, by kind
  MaxEntries,       \* max_entries of the store in memory, by kind
  RateLimit,        \* requests_per_minute
  Minute            \* length of a minute

CONSTANTS           \* bounds of the model
  Stamps,           \* timestamps of the messages, by clocks that may be wrong
  Drifts,           \* how far the clock of the database may be ahead
  MaxClock          \* ticks of the clock

Kinds == {"workload", "generic", "meta"}

ASSUME AdmissionAssumption ==
  /\ IsFiniteSet(Messages) /\ Kind \in [Messages -> Kinds]
  /\ MessageOf \in [Deliveries -> Messages]
  /\ MaxSkew \in [Kinds -> Nat]
  /\ KeepFor \in [Kinds -> Nat \ {0}] /\ MaxEntries \in [Kinds -> Nat \ {0}]
  /\ RateLimit \in Nat /\ Minute \in Nat \ {0}
  /\ Stamps \subseteq Int /\ Drifts \subseteq Int /\ MaxClock \in Nat

VARIABLES
  clock,            \* the clock of the service
  database,         \* whether there is one: PostgresNonceStore, PostgresWebhookInbox
  drift,            \* its clock minus that of the service
  stamp,            \* timestamp of each message
  kept,             \* when the stores forget the messages they know
  delivery,         \* the thread of each delivery
  windows,          \* RateLimitMiddleware.windows: requests of this minute, by kind
  lost              \* messages the store dropped before their time (no code reads it)

admissionVars == <<clock, database, drift, stamp, kept, delivery, windows, lost>>

KindOf(d) == Kind[MessageOf[d]]

Timestamped(kind) == kind # "meta"

Arriving == [pc |-> "new", checked |-> 0, admitted |-> FALSE, at |-> 0]

\* Identities: a service by its name, a provider by its address.
AdmissionInit ==
  /\ clock = 0
  /\ database \in BOOLEAN
  /\ drift \in IF database THEN Drifts ELSE {0}
  /\ stamp \in [Messages -> Stamps]
  /\ kept = <<>>
  /\ delivery = [d \in Deliveries |-> Arriving]
  /\ windows = [kind \in Kinds |-> 0]
  /\ lost = {}

Become(d, pc) == delivery' = [delivery EXCEPT ![d].pc = pc]

\* Webhook paths are exempt from workload authentication and meet the rate limit
\* first; a workload request has spent its nonce when it meets it.
BeforeLimit(d) == IF KindOf(d) = "workload" THEN "accepted" ELSE "new"
BeforeCheck(d) == IF KindOf(d) = "workload" THEN "new" ELSE "limited"

Count(d) ==
  /\ delivery[d].pc = BeforeLimit(d)
  /\ windows' = [windows EXCEPT ![KindOf(d)] = @ + 1]
  /\ Become(d, IF windows[KindOf(d)] + 1 > RateLimit \/ KindOf(d) = "workload"
               THEN "ended" ELSE "limited")
  /\ UNCHANGED <<clock, database, drift, stamp, kept, lost>>

Distance(a, b) == IF a > b THEN a - b ELSE b - a

Fresh(m) == Distance(clock, stamp[m]) <= MaxSkew[Kind[m]]

CheckTimestamp(d) ==
  /\ delivery[d].pc = BeforeCheck(d)
  /\ delivery' = [delivery EXCEPT
       ![d].pc = IF Timestamped(KindOf(d)) => Fresh(MessageOf[d]) THEN "checked" ELSE "ended",
       ![d].checked = clock]
  /\ UNCHANGED <<clock, database, drift, stamp, kept, windows, lost>>

-----------------------------------------------------------------------------
(* The stores                                                              *)

\* In PostgreSQL a receipt of a webhook is never deleted, and a nonce goes by the
\* clock of the database; the stores in memory go by their own.
Expired(m) == IF database THEN Kind[m] = "workload" /\ kept[m] <= clock + drift
              ELSE kept[m] <= clock

\* Nonces are in one store, the event ids of all providers in another.
Store(kind) == {m \in DOMAIN kept : (Kind[m] = "workload") = (kind = "workload")}

KnownIn(kind) == {m \in Store(kind) : ~ Expired(m)}

\* mutant: the life of the nonce does not cover both ends of the skew
Until_OneSkew(m) == IF database THEN stamp[m] + MaxSkew[Kind[m]] ELSE clock + MaxSkew[Kind[m]]

Until(m) == IF database THEN stamp[m] + KeepFor[Kind[m]] ELSE clock + KeepFor[Kind[m]]

\* At its limit a store in memory drops what it would forget first.
Victims(kind) ==
  IF database \/ Cardinality(KnownIn(kind)) < MaxEntries[kind] THEN {{}}
  ELSE {{m} : m \in {v \in KnownIn(kind) : \A other \in KnownIn(kind) : kept[v] <= kept[other]}}

\* The store does not know the message: it keeps it, without what has expired.
Remember(d) ==
  LET m == MessageOf[d]
      kind == Kind[m] IN
  /\ delivery[d].pc = "checked"
  /\ m \notin KnownIn(kind)
  /\ \E victims \in Victims(kind) :
       /\ kept' = [x \in (DOMAIN kept \ Store(kind)) \union (KnownIn(kind) \ victims) \union {m} |->
            IF x = m THEN Until(m) ELSE kept[x]]
       /\ lost' = lost \union victims
  /\ delivery' = [delivery EXCEPT
       ![d].pc = IF kind = "workload" THEN "accepted" ELSE "ended",
       ![d].admitted = TRUE, ![d].at = clock]
  /\ UNCHANGED <<clock, database, drift, stamp, windows>>

\* WORKLOAD_REPLAY, DUPLICATE_WEBHOOK.
RefuseKnown(d) ==
  /\ delivery[d].pc = "checked"
  /\ MessageOf[d] \in KnownIn(KindOf(d))
  /\ Become(d, "ended")
  /\ UNCHANGED <<clock, database, drift, stamp, kept, windows, lost>>

\* The process dies with its threads, its windows and its stores in memory.
StopService ==
  /\ delivery' = [d \in Deliveries |->
       IF delivery[d].pc = "new" THEN delivery[d] ELSE [delivery[d] EXCEPT !.pc = "ended"]]
  /\ windows' = [kind \in Kinds |-> 0]
  /\ IF database THEN UNCHANGED <<kept, lost>>
     ELSE /\ kept' = <<>>
          /\ lost' = lost \union {m \in DOMAIN kept : ~ Expired(m)}
  /\ UNCHANGED <<clock, database, drift, stamp>>

Pass ==
  /\ clock < MaxClock
  /\ clock' = clock + 1
  /\ windows' = IF clock' % Minute = 0 THEN [kind \in Kinds |-> 0] ELSE windows
  /\ UNCHANGED <<database, drift, stamp, kept, delivery, lost>>

ThreadStep(d) == Count(d) \/ CheckTimestamp(d) \/ Remember(d) \/ RefuseKnown(d)

AdmissionNext ==
  \/ \E d \in Deliveries : ThreadStep(d)
  \/ StopService
  \/ Pass

AdmissionSpec == AdmissionInit /\ [][AdmissionNext]_admissionVars

-----------------------------------------------------------------------------
(* Properties                                                              *)

Admitted == {d \in Deliveries : delivery[d].admitted}

\* Types of the state.
AdmissionTypeOK ==
  /\ clock \in 0 .. MaxClock /\ database \in BOOLEAN /\ drift \in Int
  /\ stamp \in [Messages -> Stamps]
  /\ DOMAIN kept \subseteq Messages /\ \A m \in DOMAIN kept : kept[m] \in Int
  /\ delivery \in [Deliveries -> [pc : {"new", "limited", "checked", "accepted", "ended"},
                                  checked : 0 .. MaxClock,
                                  admitted : BOOLEAN, at : 0 .. MaxClock]]
  /\ windows \in [Kinds -> Nat]
  /\ lost \subseteq Messages

\* How long after it was first admitted, or stamped, a message is still known,
\* beyond the last moment at which its timestamp is fresh.
Margin(first, kind) ==
  IF database THEN KeepFor[kind] - MaxSkew[kind] - drift
  ELSE KeepFor[kind] - MaxSkew[kind] - (stamp[MessageOf[first]] - delivery[first].at)

\* The later thread waited too long, or its event came back too late.
Excused(first, again) ==
  LET kind == KindOf(first) IN
  /\ kind = "workload" \/ ~ database
  /\ IF Timestamped(kind)
     THEN delivery[again].at - delivery[again].checked >= Margin(first, kind)
     ELSE delivery[again].at >= delivery[first].at + KeepFor[kind]

\* A message is admitted a second time only if the store had dropped it, at its
\* limit or in a restart; or if the later thread waited between its look at the
\* clock and the store for as long as the margin, which a sender (for the store in
\* memory) or a database (for the other) whose clock is MaxSkew ahead reduces to
\* nothing; or, for an event without timestamp in memory, after KeepFor.
AdmittedOnce ==
  \A first, again \in Admitted :
    (first # again /\ MessageOf[first] = MessageOf[again]
       /\ delivery[first].at <= delivery[again].at)
    => MessageOf[first] \in lost \/ Excused(first, again)

=============================================================================
