---------------------------- MODULE DailyAllowance ----------------------------
(***************************************************************************)
(* What the model gateway promises of the units of a day, with no clock,   *)
(* row, lock or transaction in sight: a request takes its units once, on   *)
(* one day and within the limit of that day; while it holds them it may be *)
(* charged, once, no more than it holds and on the day it took them; what  *)
(* it loses or gives back it is never charged for.                         *)
(***************************************************************************)
EXTENDS Integers, FiniteSetsExt

CONSTANTS Requests, Units, DailyLimit, Days,
          NULL        \* no day, no charge

VARIABLES day,        \* the day on which a request took its units
          held,       \* requests that hold their units
          charge      \* what a request was charged

allowed == <<day, held, charge>>

HeldOn(d) == {r \in held : day[r] = d}

ChargedOn(d) == {r \in Requests : day[r] = d /\ charge[r] # NULL}

\* The units of a day that are not there for others.
Taken(d) == SumFunctionOnSet(Units, HeldOn(d)) + SumFunctionOnSet(charge, ChargedOn(d))

AInit ==
  /\ day = [r \in Requests |-> NULL]
  /\ held = {}
  /\ charge = [r \in Requests |-> NULL]

\* A request takes its units from a day, and those of others that lose theirs.
Take(r, d) ==
  /\ day[r] = NULL
  /\ day' = [day EXCEPT ![r] = d]
  /\ \E lost \in SUBSET HeldOn(d) : held' = (held \ lost) \union {r}
  /\ Taken(d)' <= DailyLimit
  /\ UNCHANGED charge

Charge(r) ==
  /\ r \in held
  /\ held' = held \ {r}
  /\ \E units \in 0 .. Units[r] : charge' = [charge EXCEPT ![r] = units]
  /\ UNCHANGED day

GiveBack(r) == r \in held /\ held' = held \ {r} /\ UNCHANGED <<day, charge>>

ANext ==
  \E r \in Requests : Charge(r) \/ GiveBack(r) \/ \E d \in Days : Take(r, d)

ASpec == AInit /\ [][ANext]_allowed

=============================================================================
