----------------------------- MODULE ModelBudget -----------------------------
(***************************************************************************)
(* The daily budget of the model gateway: the handler of                   *)
(* /v1/models/complete with PostgresModelUsageRepository.reserve and       *)
(* settle, and the providers it tries one after the other.                 *)
(*                                                                         *)
(* reserve is three steps, since locks and other transactions come between *)
(* them: its transaction begins and fixes now() and current_date; it       *)
(* selects and locks the expired reservations of that date; it updates the *)
(* row of the day, which it then holds until it commits.  settle locks one *)
(* reservation and holds the row of the day at once, a single step.  A     *)
(* request stands for one call of the handler and for its reservation.     *)
(***************************************************************************)
EXTENDS Integers, FiniteSetsExt

CONSTANTS
  Requests,         \* calls of the handler, all of one tenant
  Units,            \* max_cost_units of each
  DailyLimit,       \* ATLANTIS_MODEL_DAILY_BUDGET_UNITS
  Providers,        \* how many providers are configured
  Lifetime,         \* 2 minutes, the life of a reservation
  Day,              \* length of a day
  NULL

CONSTANTS           \* bounds of the model
  Consumption,      \* units that an attempt at a provider may consume
  MaxTime           \* ticks of the clock

ASSUME BudgetAssumption ==
  /\ IsFiniteSet(Requests)
  /\ Units \in [Requests -> Nat \ {0}] /\ Consumption \subseteq Nat
  /\ {DailyLimit, Providers, Lifetime, MaxTime} \subseteq Nat
  /\ Day \in Nat \ {0}

ASSUME NullAssumption ==
  /\ NULL \notin Nat
  /\ NULL \notin [date : Nat, expires : Nat, actual : Nat \union {NULL},
                 status : {"RESERVED", "SETTLED", "RELEASED"}]

VARIABLES
  now,              \* the clock of the database
  daily,            \* rows of model_budget_daily, zero until inserted
  reservation,      \* rows of model_budget_reservation, NULL if there is none
  handler,          \* what each call of the handler is doing
  used,             \* units the providers consumed for each request (no code reads it)
  stranded          \* reservations released while their units stayed counted (nor this)

vars == <<now, daily, reservation, handler, used, stranded>>

DateOf(t) == t \div Day

Dates == 0 .. DateOf(MaxTime)

Init ==
  /\ now = 0
  /\ daily = [date \in Dates |-> [reserved |-> 0, spent |-> 0]]
  /\ reservation = [r \in Requests |-> NULL]
  /\ handler = [r \in Requests |-> [pc |-> "new"]]
  /\ used = [r \in Requests |-> 0]
  /\ stranded = {}

\* GREATEST(0, a - b)
Less(a, b) == IF a > b THEN a - b ELSE 0

Total(S) == SumFunctionOnSet(Units, S)

\* Reservations of today that ran out: "today" and "now" are the transaction's.
Overdue(t) ==
  {r \in Requests : /\ reservation[r] # NULL
                    /\ reservation[r].date = DateOf(t)
                    /\ reservation[r].status = "RESERVED"
                    /\ reservation[r].expires <= t}

\* mutant: the SELECT of the expired reservations is not FOR UPDATE
LockedByOthers_Never(r, S) == FALSE

\* Another transaction holds the lock of a row in S.
LockedByOthers(r, S) ==
  \E other \in Requests \ {r} :
    handler[other].pc = "selected" /\ handler[other].expired \intersect S # {}

End(r, answer) == handler' = [handler EXCEPT ![r] = [pc |-> "ended", answer |-> answer]]

-----------------------------------------------------------------------------
(* reserve                                                                 *)

BeginReserve(r) ==
  /\ handler[r].pc = "new"
  /\ Units[r] <= DailyLimit
  /\ handler' = [handler EXCEPT ![r] = [pc |-> "begun", at |-> now]]
  /\ UNCHANGED <<now, daily, reservation, used, stranded>>

SelectExpired(r) ==
  LET expired == Overdue(handler[r].at) IN
  /\ handler[r].pc = "begun"
  /\ ~ LockedByOthers(r, expired)
  /\ handler' = [handler EXCEPT ![r] =
       [pc |-> "selected", at |-> handler[r].at, expired |-> expired]]
  /\ UNCHANGED <<now, daily, reservation, used, stranded>>

\* The reserved units of the day without those of the reservations selected.
StillReserved(r) ==
  Less(daily[DateOf(handler[r].at)].reserved, Total(handler[r].expired))

\* mutant: what was spent is forgotten
Fits_Unspent(r) == StillReserved(r) + Units[r] <= DailyLimit

Fits(r) ==
  StillReserved(r) + daily[DateOf(handler[r].at)].spent + Units[r] <= DailyLimit

\* mutant: the row is inserted with a status no statement looks for
Reserved_Pending(t) ==
  [date |-> DateOf(t), expires |-> t + Lifetime, status |-> "PENDING", actual |-> NULL]

Reserved(t) ==
  [date |-> DateOf(t), expires |-> t + Lifetime, status |-> "RESERVED", actual |-> NULL]

\* The units of the rows selected come back; every row that is overdue by now is
\* released, one that was committed since the SELECT included; and the new
\* reservation is counted and inserted.
Reserve(r) ==
  LET t == handler[r].at IN
  /\ handler[r].pc = "selected"
  /\ ~ LockedByOthers(r, Overdue(t))
  /\ Fits(r)
  /\ daily' = [daily EXCEPT ![DateOf(t)].reserved = StillReserved(r) + Units[r]]
  /\ reservation' = [x \in Requests |->
       IF x = r THEN Reserved(t)
       ELSE IF x \in Overdue(t) THEN [reservation[x] EXCEPT !.status = "RELEASED"]
       ELSE reservation[x]]
  /\ handler' = [handler EXCEPT ![r] = [pc |-> "calling", tried |-> 0]]
  /\ stranded' = stranded \union (Overdue(t) \ handler[r].expired)
  /\ UNCHANGED <<now, used>>

\* DAILY_BUDGET_EXCEEDED_PRECALL, before the transaction or with its rollback.
RefuseReserve(r) ==
  /\ \/ handler[r].pc = "new" /\ Units[r] > DailyLimit
     \/ handler[r].pc = "selected" /\ ~ Fits(r)
  /\ End(r, "UNAVAILABLE")
  /\ UNCHANGED <<now, daily, reservation, used, stranded>>

-----------------------------------------------------------------------------
(* ModelGateway.complete                                                   *)

\* A provider answers, within max_cost_units and with the keys asked for.
Answer(r, cost) ==
  /\ handler[r].pc = "calling"
  /\ handler[r].tried < Providers
  /\ 1 <= cost /\ cost <= Units[r]
  /\ used' = [used EXCEPT ![r] = @ + cost]
  /\ handler' = [handler EXCEPT ![r] = [pc |-> "answered", cost |-> cost]]
  /\ UNCHANGED <<now, daily, reservation, stranded>>

\* A provider fails, or answers beyond the budget or without the keys: whatever
\* it consumed, the next one is tried with the same allowance.
FailAttempt(r, cost) ==
  /\ handler[r].pc = "calling"
  /\ handler[r].tried < Providers
  /\ used' = [used EXCEPT ![r] = @ + cost]
  /\ handler' = [handler EXCEPT ![r].tried = @ + 1]
  /\ UNCHANGED <<now, daily, reservation, stranded>>

\* No provider is left, the others are not approved for the request's data, or
\* the request is refused before the first: ProviderError.
GiveUp(r) ==
  /\ handler[r].pc = "calling"
  /\ handler' = [handler EXCEPT ![r] = [pc |-> "failed"]]
  /\ UNCHANGED <<now, daily, reservation, used, stranded>>

-----------------------------------------------------------------------------
(* settle                                                                  *)

Settling(r) == handler[r].pc \in {"answered", "failed"} /\ ~ LockedByOthers(r, {r})

Charged(r) == IF handler[r].pc = "answered" THEN handler[r].cost ELSE 0

\* mutant: the day that is charged is the day of the settlement
SettledDay_Today(r) == DateOf(now)

SettledDay(r) == reservation[r].date

\* mutant: a reservation released meanwhile is charged all the same
Settleable_Released(r) == TRUE

Settleable(r) == reservation[r].status = "RESERVED"

\* The reservation's units come back and what was consumed is charged: the cost
\* of the answer, or nothing if no provider gave one.
Settle(r) ==
  /\ Settling(r)
  /\ Settleable(r)
  /\ daily' = [daily EXCEPT
       ![SettledDay(r)] = [reserved |-> Less(@.reserved, Units[r]),
                           spent |-> @.spent + Charged(r)]]
  /\ reservation' = [reservation EXCEPT
       ![r].actual = Charged(r),
       ![r].status = IF handler[r].pc = "answered" THEN "SETTLED" ELSE "RELEASED"]
  /\ End(r, IF handler[r].pc = "answered" THEN "OK" ELSE "UNAVAILABLE")
  /\ UNCHANGED <<now, used, stranded>>

\* The reservation was released meanwhile.  The settlement raises; so does the
\* one the handler then tries for the failure, and the answer is 500.
RefuseSettle(r) ==
  /\ Settling(r)
  /\ ~ Settleable(r)
  /\ End(r, "ERROR")
  /\ UNCHANGED <<now, daily, reservation, used, stranded>>

-----------------------------------------------------------------------------
\* The process dies, the connection is lost, or the database breaks a deadlock:
\* an open transaction is rolled back and nobody settles the reservation.
Abort(r) ==
  /\ handler[r].pc \notin {"new", "ended"}
  /\ End(r, "NONE")
  /\ UNCHANGED <<now, daily, reservation, used, stranded>>

Tick ==
  /\ now < MaxTime
  /\ now' = now + 1
  /\ UNCHANGED <<daily, reservation, handler, used, stranded>>

ReserveStep(r) == BeginReserve(r) \/ SelectExpired(r) \/ Reserve(r) \/ RefuseReserve(r)

CompleteStep(r) ==
  \/ \E cost \in Consumption : Answer(r, cost) \/ FailAttempt(r, cost)
  \/ GiveUp(r)

SettleStep(r) == Settle(r) \/ RefuseSettle(r)

Next ==
  \/ \E r \in Requests : ReserveStep(r) \/ CompleteStep(r) \/ SettleStep(r) \/ Abort(r)
  \/ Tick

Spec == Init /\ [][Next]_vars

-----------------------------------------------------------------------------
(* Properties                                                              *)

Rows == [date : Dates, expires : Nat, status : {"RESERVED", "SETTLED", "RELEASED"},
         actual : Nat \union {NULL}]

\* Types of the state; the counters satisfy the CHECKs of the table.
TypeOK ==
  /\ now \in Nat
  /\ daily \in [Dates -> [reserved : Nat, spent : Nat]]
  /\ reservation \in [Requests -> Rows \union {NULL}]
  /\ DOMAIN handler = Requests
  /\ used \in [Requests -> Nat]
  /\ \A r \in stranded : reservation[r].status = "RELEASED"

Of(date, status) ==
  {r \in Requests : /\ reservation[r] # NULL
                    /\ reservation[r].date = date /\ reservation[r].status = status}

Stranded(date) == {r \in stranded : reservation[r].date = date}

\* The row of a day counts the reservations of that day that are open, and what
\* the settled ones were charged, to the unit: no two reserves give the same
\* expired units back, no settlement touches the wrong day or a released row.
\* All that a day can lose are the units of reservations committed and overdue
\* between the SELECT and the UPDATE of one slow transaction.  A charge is at most
\* what the providers consumed for the request; it is less after an attempt that
\* failed when the provider had worked, which is charged to nobody.
CountedExactly ==
  \A date \in Dates :
    /\ daily[date].reserved = Total(Of(date, "RESERVED") \union Stranded(date))
    /\ daily[date].spent =
         SumFunction([r \in Of(date, "SETTLED") |-> reservation[r].actual])
    /\ \A r \in Of(date, "SETTLED") : reservation[r].actual <= used[r]

\* What is reserved and charged on a day stays within the daily limit.
WithinLimit ==
  \A date \in Dates : daily[date].reserved + daily[date].spent <= DailyLimit

-----------------------------------------------------------------------------
(* Refinement                                                              *)

DayOf == [r \in Requests |-> IF reservation[r] = NULL THEN NULL ELSE reservation[r].date]

InStatus(status) ==
  {r \in Requests : reservation[r] # NULL /\ reservation[r].status = status}

\* Units that were stranded are held for ever.
Held == InStatus("RESERVED") \union stranded

ChargeOf ==
  [r \in Requests |-> IF r \in InStatus("SETTLED") THEN reservation[r].actual ELSE NULL]

Promise == INSTANCE DailyAllowance
             WITH Days <- Dates, day <- DayOf, held <- Held, charge <- ChargeOf

\* Transactions, expiry, locks, and calls that die or settle late implement the
\* allowance: a request is charged once at most, never above its max_cost_units,
\* on the day its reservation was counted on, and not when the reservation ran out
\* and its units were given to others.
ImplementsAllowance == Promise!ASpec

=============================================================================
