---------------------------- MODULE ContactPromise ----------------------------
(***************************************************************************)
(* What the authorization of contacts promises, with no token, store,      *)
(* process or message in sight: a decision is taken once; an allowed one   *)
(* may be claimed once, within a window of the decision; a claimed one may *)
(* reach the provider once.  A decision may stop anywhere on that way.     *)
(***************************************************************************)
EXTENDS Integers

CONSTANTS Decisions,
          None,       \* no time yet
          Window      \* a claim is this fresh: claim time - decision time < Window

VARIABLES now,        \* time
          state,      \* [Decisions -> States]
          decided,    \* time of the decision, once there is one
          claimed     \* time of the claim, once there is one

promise == <<now, state, decided, claimed>>

States == {"open", "allowed", "denied", "claimed", "contacted"}

PInit ==
  /\ now = 0
  /\ state = [d \in Decisions |-> "open"]
  /\ decided = [d \in Decisions |-> None]
  /\ claimed = [d \in Decisions |-> None]

PDecide(d) ==
  /\ state[d] = "open"
  /\ \E verdict \in {"allowed", "denied"} : state' = [state EXCEPT ![d] = verdict]
  /\ decided' = [decided EXCEPT ![d] = now]
  /\ UNCHANGED <<now, claimed>>

\* The time of the claim is read before the claim takes effect.
PClaim(d) ==
  /\ state[d] = "allowed"
  /\ \E at \in 0 .. now :
       /\ at - decided[d] < Window
       /\ claimed' = [claimed EXCEPT ![d] = at]
  /\ state' = [state EXCEPT ![d] = "claimed"]
  /\ UNCHANGED <<now, decided>>

PContact(d) ==
  /\ state[d] = "claimed"
  /\ state' = [state EXCEPT ![d] = "contacted"]
  /\ UNCHANGED <<now, decided, claimed>>

PTick == now' = now + 1 /\ UNCHANGED <<state, decided, claimed>>

PNext == PTick \/ \E d \in Decisions : PDecide(d) \/ PClaim(d) \/ PContact(d)

PSpec == PInit /\ [][PNext]_promise

=============================================================================
