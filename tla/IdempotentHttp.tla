---------------------------- MODULE IdempotentHttp ----------------------------
(***************************************************************************)
(* Idempotent POST requests: JsonRouter._dispatch around the handler of a  *)
(* route, over PostgresIdempotencyStore or MemoryIdempotencyStore.         *)
(*                                                                         *)
(* A request claims its key, runs the handler if the key was free, and     *)
(* finishes or abandons the claim.  A claim reads the clock (now() of the  *)
(* transaction, self.clock() before the lock) one step before it looks at  *)
(* the records; the PostgreSQL store inserts and reads in two statements,  *)
(* between which other requests commit.  A key stands for tenant, service  *)
(* and key, a body for its hash, an answer for the request that gave it.   *)
(***************************************************************************)
EXTENDS Integers, FiniteSets

CONSTANTS
  Requests,         \* requests, retries included: each is a thread of its own
  Keys,             \* idempotency keys of a tenant and a service
  Bodies,           \* hashes of the bodies
  Ttl,              \* ATLANTIS_IDEMPOTENCY_TTL_SECONDS
  Capacity,         \* max_entries of the store in memory
  MaxTime,          \* bound of the model: ticks of the clock
  NULL

\* The replies that hold no answer: two of the store, a failed handler, a request
\* that came to an end before its claim and one that came to an end after it.
Errors == {"CONFLICT", "PENDING", "ERROR", "NONE", "LOST"}

\* A record of the store; "by", who claimed it, is read by no code.
Records == [body : Bodies, answer : Requests \union {NULL}, expires : Nat, by : Requests]

ASSUME HttpAssumption ==
  /\ {Ttl, Capacity} \subseteq Nat \ {0} /\ MaxTime \in Nat
  /\ IsFiniteSet(Keys)
  /\ NULL \notin Requests \union Keys \union Bodies \union Errors \union Records
  /\ Requests \intersect Errors = {}

VARIABLES
  now,              \* the clock
  durable,          \* whether the service has a database (postgres_dsn)
  record,           \* rows of idempotency_record, or MemoryIdempotencyStore._values
  handler,          \* what the thread of each request is doing
  forgotten         \* requests whose claim was removed before its time by another
                    \* request, an eviction or a restart; no code reads it

vars == <<now, durable, record, handler, forgotten>>

New == [pc |-> "new", key |-> NULL, body |-> NULL, at |-> 0, reply |-> NULL]

Init ==
  /\ now = 0
  /\ durable \in BOOLEAN
  /\ record = [k \in Keys |-> NULL]
  /\ handler = [r \in Requests |-> New]
  /\ forgotten = {}

End(r, reply) == handler' = [handler EXCEPT ![r].pc = "ended", ![r].reply = reply]

\* mutant: what expires in the second that begins counts as expired
Live_Early(k, t) == record[k] # NULL /\ record[k].expires > t + 1

\* mutant: the INSERT overwrites the row it meets unless it has an answer
Live_Overwritten(k, t) == record[k] # NULL /\ record[k].answer # NULL /\ record[k].expires > t

\* The record of a key that a claim at time t finds.
Live(k, t) == record[k] # NULL /\ record[k].expires > t

\* mutant: the request hash is not recorded
Claim_NoHash(r) ==
  [body |-> NULL, answer |-> NULL, expires |-> handler[r].at + Ttl, by |-> r]

\* The record that r claims its key with.
Claim(r) ==
  [body |-> handler[r].body, answer |-> NULL, expires |-> handler[r].at + Ttl, by |-> r]

\* The reply to a request whose key is taken.
Found(r) ==
  LET existing == record[handler[r].key] IN
  IF existing = NULL THEN "CONFLICT"
  ELSE IF existing.body # handler[r].body THEN "CONFLICT"
  ELSE IF existing.answer = NULL THEN "PENDING"
  ELSE existing.answer

-----------------------------------------------------------------------------
(* claim                                                                   *)

\* A POST to an idempotent path has passed the checks of _dispatch; the clock
\* of its claim is read.
Receive(r, k, b) ==
  /\ handler[r].pc = "new"
  /\ handler' = [handler EXCEPT ![r] =
       [pc |-> "claiming", key |-> k, body |-> b, at |-> now, reply |-> NULL]]
  /\ UNCHANGED <<now, durable, record, forgotten>>

\* DELETE of an expired row, INSERT ... ON CONFLICT DO NOTHING.
InsertClaim(r) ==
  LET k == handler[r].key IN
  /\ durable /\ handler[r].pc = "claiming"
  /\ IF Live(k, handler[r].at)
     THEN /\ handler' = [handler EXCEPT ![r].pc = "beaten"]
          /\ UNCHANGED record
     ELSE /\ handler' = [handler EXCEPT ![r].pc = "running"]
          /\ record' = [record EXCEPT ![k] = Claim(r)]
  /\ UNCHANGED <<now, durable, forgotten>>

\* The SELECT after an INSERT that found the key taken.
ReadClaim(r) ==
  /\ durable /\ handler[r].pc = "beaten"
  /\ End(r, Found(r))
  /\ UNCHANGED <<now, durable, record, forgotten>>

\* The records in memory that outlive the pruning at time t.
Kept(t) == {k \in Keys : Live(k, t)}

\* The oldest record goes if the store is full.
Evicted(t) ==
  IF Cardinality(Kept(t)) < Capacity THEN {{}}
  ELSE {{k} : k \in {o \in Kept(t) : \A x \in Kept(t) : record[o].expires <= record[x].expires}}

\* The claim in memory is one critical section.
ClaimInMemory(r) ==
  LET k == handler[r].key
      t == handler[r].at
  IN
  /\ ~ durable /\ handler[r].pc = "claiming"
  /\ IF Live(k, t)
     THEN /\ End(r, Found(r))
          /\ record' = [x \in Keys |-> IF x \in Kept(t) THEN record[x] ELSE NULL]
          /\ UNCHANGED forgotten
     ELSE \E gone \in Evicted(t) :
          /\ handler' = [handler EXCEPT ![r].pc = "running"]
          /\ record' = [x \in Keys |->
               IF x = k THEN Claim(r)
               ELSE IF x \in Kept(t) \ gone THEN record[x] ELSE NULL]
          /\ forgotten' = forgotten \union {record[x].by : x \in gone}
  /\ UNCHANGED <<now, durable>>

-----------------------------------------------------------------------------
(* The handler, finish and abandon                                         *)

\* The handler of the route returns: below 500 the answer is kept, a raised
\* PermissionError, ValueError or TimeoutError included; else it is an error.
Handle(r) ==
  /\ handler[r].pc = "running"
  /\ \E pc \in {"finishing", "failed"} : handler' = [handler EXCEPT ![r].pc = pc]
  /\ UNCHANGED <<now, durable, record, forgotten>>

\* mutant: the request hash is not compared
SameRequest_Any(r) == record[handler[r].key] # NULL

\* The record under the key of r is one for the body of r, whoever claimed it.
SameRequest(r) ==
  record[handler[r].key] # NULL /\ record[handler[r].key].body = handler[r].body

Finish(r) ==
  /\ handler[r].pc = "finishing"
  /\ record' = IF SameRequest(r) THEN [record EXCEPT ![handler[r].key].answer = r]
               ELSE record
  /\ End(r, r)
  /\ UNCHANGED <<now, durable, forgotten>>

\* Only a claim without an answer is given up.
Abandonable(r) == SameRequest(r) /\ record[handler[r].key].answer = NULL

Abandon(r) ==
  LET k == handler[r].key IN
  /\ handler[r].pc = "failed"
  /\ IF Abandonable(r)
     THEN /\ record' = [record EXCEPT ![k] = NULL]
          /\ forgotten' = forgotten \union ({record[k].by} \ {r})
     ELSE UNCHANGED <<record, forgotten>>
  /\ End(r, "ERROR")
  /\ UNCHANGED <<now, durable>>

-----------------------------------------------------------------------------
Claimed(r) == handler[r].pc \in {"running", "finishing", "failed"}

\* A process of a service with a database dies, or a statement of claim, finish
\* or abandon fails: the row of a claim stays.
Die(r) ==
  /\ durable /\ handler[r].pc \notin {"new", "ended"}
  /\ End(r, IF Claimed(r) THEN "LOST" ELSE "NONE")
  /\ UNCHANGED <<now, durable, record, forgotten>>

\* The only process of a service without a database restarts: the records go.
Restart ==
  /\ ~ durable
  /\ record' = [k \in Keys |-> NULL]
  /\ forgotten' = forgotten \union {record[k].by : k \in {x \in Keys : record[x] # NULL}}
  /\ handler' = [r \in Requests |->
       IF handler[r].pc \in {"new", "ended"} THEN handler[r]
       ELSE [handler[r] EXCEPT !.pc = "ended", !.reply = IF Claimed(r) THEN "LOST" ELSE "NONE"]]
  /\ UNCHANGED <<now, durable>>

Tick ==
  /\ now < MaxTime
  /\ now' = now + 1
  /\ UNCHANGED <<durable, record, handler, forgotten>>

ClaimStep(r) ==
  \/ \E k \in Keys, b \in Bodies : Receive(r, k, b)
  \/ InsertClaim(r) \/ ReadClaim(r) \/ ClaimInMemory(r)

HandlerStep(r) == Handle(r) \/ Finish(r) \/ Abandon(r)

Next ==
  \/ \E r \in Requests : ClaimStep(r) \/ HandlerStep(r) \/ Die(r)
  \/ Restart
  \/ Tick

Spec == Init /\ [][Next]_vars

-----------------------------------------------------------------------------
(* Properties                                                              *)

Progress == {"new", "claiming", "beaten", "running", "finishing", "failed", "ended"}

Replies == Requests \union Errors \union {NULL}

\* Types of the state; only a request that has not arrived is without a key.
TypeOK ==
  /\ now \in Nat /\ durable \in BOOLEAN
  /\ record \in [Keys -> Records \union {NULL}]
  /\ handler \in [Requests -> {New} \union
       [pc : Progress \ {"new"}, key : Keys, body : Bodies, at : Nat, reply : Replies]]
  /\ forgotten \subseteq Requests

\* The handler of r is running or has been run.
Ran(r) == Claimed(r) \/ handler[r].reply \in {r, "ERROR", "LOST"}

RanOut(r) == handler[r].at + Ttl <= now

\* While a claim lasts the handler of its key is not run again, however often the
\* request is repeated and wherever its first run has come to, unless that one
\* failed or the store lost the claim.
OnePerKey ==
  [][ \A s \in Requests : handler[s].pc # "running" /\ handler'[s].pc = "running" =>
        \A r \in Requests \ {s} :
          Ran(r) /\ handler[r].key = handler[s].key =>
            RanOut(r) \/ r \in forgotten' \/ handler[r].reply = "ERROR" ]_vars

\* A client is given only answers to its own request: one that the handler gave
\* for the same key and body.
AnswersAreOwn ==
  \A r \in Requests :
    handler[r].reply \in Requests =>
      LET giver == handler[handler[r].reply] IN
      giver.reply = handler[r].reply /\ giver.key = handler[r].key /\ giver.body = handler[r].body

\* In the database a claim changes hands only when it has run out, and an answer
\* is kept as long as its claim lasts: nobody else touches the row, save a
\* request that outlived its own claim or lost it.
ClaimsAreOwned ==
  [][ \A k \in Keys : durable /\ record[k] # NULL /\ record'[k] # record[k] =>
        \E r \in Requests :
          /\ handler'[r] # handler[r] /\ handler[r].key = k
          /\ \/ r = record[k].by
             \/ record[k].expires <= handler[r].at
             \/ RanOut(r) \/ r \in forgotten ]_vars

=============================================================================
