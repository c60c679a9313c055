---------------------------- MODULE Requests_proofs ----------------------------
(***************************************************************************)
(* What is proved of the two modules a request goes through.               *)
(*                                                                         *)
(* Of IdempotentHttp: the inductive invariant of the idempotent execution, *)
(* and from it the theorems, for all requests, keys and bodies, for any    *)
(* capacity and any time to live of the records.                           *)
(*                                                                         *)
(* Of RequestAdmission: the inductive invariant, and from it that messages *)
(* are admitted once, up to the exceptions AdmittedOnce names, for all     *)
(* sets of messages and deliveries, every skew, every size and time of the *)
(* stores, every rate limit and every drift of the clocks.                 *)
(***************************************************************************)
EXTENDS IdempotentHttp, RequestAdmission, TLAPS

-----------------------------------------------------------------------------
(* IdempotentHttp                                                          *)

\* A request has a reply exactly when it has ended, and no claim is of the future.
HandlerInv ==
  \A r \in Requests : /\ handler[r].pc = "ended" <=> handler[r].reply # NULL
                      /\ handler[r].at <= now

\* A record is the claim of a request for its key and, if it holds an answer, this
\* is the answer of a request for the same key and body.
Sound(k) ==
  record[k] # NULL =>
    LET b == record[k].by
        a == record[k].answer
    IN
    /\ handler[b].key = k /\ record[k].expires = handler[b].at + Ttl
    /\ a # NULL => /\ handler[a].reply = a
                   /\ handler[a].key = k /\ handler[a].body = record[k].body

RecordInv == \A k \in Keys : Sound(k)

\* The claim of a request that ran the handler is in place, has run out, was given
\* up or was removed.
Holds(r) == record[handler[r].key] # NULL /\ record[handler[r].key].by = r

Safe(r) ==
  Ran(r) => RanOut(r) \/ r \in forgotten \/ handler[r].reply = "ERROR" \/ Holds(r)

KeepInv == \A r \in Requests : Safe(r)

HttpInv == TypeOK /\ HandlerInv /\ RecordInv /\ KeepInv /\ AnswersAreOwn

-----------------------------------------------------------------------------
\* The initial states satisfy the invariant: nothing was received or claimed.
LEMMA HttpInitInv == Init => HttpInv
<1> SUFFICES ASSUME Init PROVE HttpInv
  OBVIOUS
<1>1. TypeOK
  BY DEF Init, TypeOK, Records
<1>2. HandlerInv /\ RecordInv
  BY HttpAssumption DEF Init, HandlerInv, RecordInv, Sound, New
<1>3. \A r \in Requests : handler[r].pc = "new" /\ handler[r].reply = NULL
  BY DEF Init, New
<1>4. KeepInv /\ AnswersAreOwn
  BY <1>3, HttpAssumption DEF KeepInv, Safe, AnswersAreOwn, Ran, Claimed, Errors
<1> QED BY <1>1, <1>2, <1>4 DEF HttpInv

Arrived ==
  [pc : Progress \ {"new"}, key : Keys, body : Bodies, at : Nat, reply : Replies]

\* What a step of request r may do to it: go on to pc and reply.  It keeps its key,
\* its body and its time, and the others keep everything.
Moves(r, pc, reply) ==
  /\ handler' \in [Requests -> {New} \union Arrived]
  /\ handler[r] \in Arrived /\ handler'[r] \in Arrived
  /\ handler'[r].pc = pc /\ handler'[r].reply = reply
  /\ handler'[r].key = handler[r].key /\ handler'[r].body = handler[r].body
  /\ handler'[r].at = handler[r].at
  /\ \A x \in Requests \ {r} : handler'[x] = handler[x]

\* A step that changes where a request is does that.
LEMMA Proceeds ==
  ASSUME TypeOK, NEW r \in Requests, handler[r].pc # "new",
         NEW pc \in Progress \ {"new"},
         handler' = [handler EXCEPT ![r].pc = pc]
  PROVE  Moves(r, pc, handler[r].reply)
<1>1. handler[r] \in Arrived
  BY DEF TypeOK, New, Arrived
<1>2. handler'[r] = [handler[r] EXCEPT !.pc = pc]
  BY DEF TypeOK
<1>3. handler'[r] \in Arrived
  BY <1>1, <1>2 DEF Arrived
<1> QED BY <1>1, <1>2, <1>3 DEF TypeOK, Moves, Arrived

\* A step that ends a request does that.
LEMMA Ends ==
  ASSUME TypeOK, NEW r \in Requests, handler[r].pc # "new",
         NEW reply \in Replies, End(r, reply)
  PROVE  Moves(r, "ended", reply)
<1>1. handler[r] \in Arrived
  BY DEF TypeOK, New, Arrived
<1>2. handler'[r] = [handler[r] EXCEPT !.pc = "ended", !.reply = reply]
  BY DEF TypeOK, End
<1>3. handler'[r] \in Arrived
  BY <1>1, <1>2 DEF Arrived, Progress
<1> QED BY <1>1, <1>2, <1>3 DEF TypeOK, Moves, Arrived, End

-----------------------------------------------------------------------------
(* What a step of one request leaves as it was.                            *)

\* The reply of an open request is set with its end only.
LEMMA MoveHandler ==
  ASSUME HttpInv, now' = now, NEW r \in Requests, NEW pc, NEW reply, Moves(r, pc, reply),
         pc = "ended" <=> reply # NULL
  PROVE  HandlerInv'
BY DEF HttpInv, HandlerInv, Moves

\* A request that ends with an answer was given its own; nobody whose answer was
\* handed on moves any more.
LEMMA MoveAnswers ==
  ASSUME HttpInv, NEW r \in Requests, handler[r].pc # "ended",
         NEW pc, NEW reply, Moves(r, pc, reply),
         reply \in Requests =>
           \/ reply = r
           \/ /\ handler[reply].reply = reply
              /\ handler[reply].key = handler[r].key /\ handler[reply].body = handler[r].body
  PROVE  AnswersAreOwn'
<1> SUFFICES ASSUME NEW x \in Requests, handler'[x].reply \in Requests
             PROVE  LET giver == handler'[handler'[x].reply] IN
                    /\ giver.reply = handler'[x].reply
                    /\ giver.key = handler'[x].key /\ giver.body = handler'[x].body
  BY DEF AnswersAreOwn
<1>1. handler[r].reply = NULL /\ NULL \notin Requests
  BY HttpAssumption DEF HttpInv, HandlerInv
<1>2. CASE x = r
  BY <1>1, <1>2 DEF Moves
<1>3. CASE x # r
  <2>1. handler'[x] = handler[x]
    BY <1>3 DEF Moves
  <2>2. /\ handler[handler[x].reply].reply = handler[x].reply
        /\ handler[handler[x].reply].key = handler[x].key
        /\ handler[handler[x].reply].body = handler[x].body
    BY <2>1 DEF HttpInv, AnswersAreOwn
  <2>3. handler[x].reply # r
    BY <1>1, <2>2, <2>1
  <2> QED BY <2>1, <2>2, <2>3 DEF Moves
<1> QED BY <1>2, <1>3

\* A record that stays is as sound as it was.
LEMMA MoveRecord ==
  ASSUME HttpInv, NEW r \in Requests, handler[r].pc # "ended",
         NEW pc, NEW reply, Moves(r, pc, reply),
         NEW k \in Keys, record'[k] = record[k] \/ record'[k] = NULL
  PROVE  Sound(k)'
<1> SUFFICES ASSUME record'[k] # NULL, record'[k] = record[k]
             PROVE  Sound(k)'
  BY DEF Sound
<1>1. handler[r].reply = NULL /\ NULL \notin Requests
  BY HttpAssumption DEF HttpInv, HandlerInv
<1>2. record[k].by \in Requests /\ record[k].answer \in Requests \union {NULL}
  BY DEF HttpInv, TypeOK, Records
<1>3. Sound(k)
  BY DEF HttpInv, RecordInv
<1>4. /\ handler'[record[k].by].key = handler[record[k].by].key
      /\ handler'[record[k].by].at = handler[record[k].by].at
  BY <1>2 DEF Moves
<1>5. ASSUME record[k].answer # NULL
      PROVE  handler'[record[k].answer] = handler[record[k].answer]
  BY <1>1, <1>2, <1>3, <1>5 DEF Moves, Sound
<1> QED BY <1>3, <1>4, <1>5 DEF Sound

\* The other requests are as safe as they were, if their records keep their owners.
LEMMA MoveSafe ==
  ASSUME HttpInv, now' = now, forgotten \subseteq forgotten',
         NEW r \in Requests, NEW pc, NEW reply, Moves(r, pc, reply),
         NEW x \in Requests \ {r},
         Ran(x) /\ Holds(x) =>
           \/ RanOut(x) \/ x \in forgotten'
           \/ record'[handler[x].key] # NULL /\ record'[handler[x].key].by = x
  PROVE  Safe(x)'
<1>1. handler'[x] = handler[x]
  BY DEF Moves
<1>2. Safe(x)
  BY DEF HttpInv, KeepInv
<1> QED BY <1>1, <1>2 DEF Safe, Ran, Claimed, RanOut, Holds

-----------------------------------------------------------------------------
(* The invariant is preserved, action by action.                           *)

\* A request that arrives has neither claim nor reply, and nobody refers to it.
LEMMA ReceiveKeeps ==
  ASSUME HttpInv, NEW r \in Requests, NEW k \in Keys, NEW b \in Bodies, Receive(r, k, b)
  PROVE  HttpInv'
<1> DEFINE new == [pc |-> "claiming", key |-> k, body |-> b, at |-> now, reply |-> NULL]
<1>1. /\ handler'[r] = new /\ \A x \in Requests \ {r} : handler'[x] = handler[x]
      /\ UNCHANGED <<now, durable, record, forgotten>>
      /\ handler[r] = New
  BY DEF Receive, HttpInv, TypeOK, New
<1>2. TypeOK'
  BY DEF Receive, HttpInv, TypeOK, Progress, Replies
<1>3. HandlerInv'
  BY <1>1 DEF HttpInv, HandlerInv, TypeOK
<1>4. RecordInv'
  BY <1>1, HttpAssumption DEF HttpInv, RecordInv, Sound, TypeOK, Records, New
<1>5. KeepInv'
  <2>1. ~ Ran(r)'
    BY <1>1, HttpAssumption DEF Ran, Claimed, Errors
  <2>2. ASSUME NEW x \in Requests \ {r} PROVE Safe(x)'
    BY <1>1 DEF HttpInv, KeepInv, Safe, Ran, Claimed, RanOut, Holds
  <2> QED BY <2>1, <2>2 DEF KeepInv, Safe
<1>6. AnswersAreOwn'
  BY <1>1, HttpAssumption DEF HttpInv, AnswersAreOwn, New
<1> QED BY <1>2, <1>3, <1>4, <1>5, <1>6 DEF HttpInv

\* The reply read from a record is an answer to the same key and body, or none.
LEMMA FoundReply ==
  ASSUME HttpInv, NEW r \in Requests, handler[r] \in Arrived
  PROVE  /\ Found(r) \in Replies \ {NULL}
         /\ Found(r) \notin {"ERROR", "LOST"}
         /\ Found(r) \in Requests =>
              /\ handler[Found(r)].reply = Found(r)
              /\ handler[Found(r)].key = handler[r].key
              /\ handler[Found(r)].body = handler[r].body
<1> DEFINE k == handler[r].key
<1>1. k \in Keys
  BY DEF Arrived
<1>2. CASE record[k] = NULL \/ record[k].body # handler[r].body \/ record[k].answer = NULL
  BY <1>2, HttpAssumption DEF Found, Replies, Errors
<1>3. CASE record[k] # NULL /\ record[k].body = handler[r].body /\ record[k].answer # NULL
  <2>1. Found(r) = record[k].answer /\ record[k].answer \in Requests
    BY <1>1, <1>3 DEF Found, HttpInv, TypeOK, Records
  <2>2. Sound(k)
    BY <1>1 DEF HttpInv, RecordInv
  <2> QED BY <1>3, <2>1, <2>2, HttpAssumption DEF Sound, Replies, Errors
<1> QED BY <1>2, <1>3

\* What every claim that succeeds does to the invariant: the record of r is sound,
\* and the record in its way had run out or is remembered as removed.
LEMMA ClaimKeeps ==
  ASSUME HttpInv, NEW r \in Requests, Moves(r, "running", handler[r].reply),
         handler[r].pc = "claiming", UNCHANGED <<now, durable>>,
         ~ Live(handler[r].key, handler[r].at),
         forgotten \subseteq forgotten', forgotten' \subseteq Requests,
         record' \in [Keys -> Records \union {NULL}],
         record'[handler[r].key] = Claim(r),
         \A k \in Keys \ {handler[r].key} :
           \/ record'[k] = record[k]
           \/ /\ record'[k] = NULL
              /\ Live(k, handler[r].at) => record[k].by \in forgotten'
  PROVE  HttpInv'
<1>0. PICK key \in Keys : key = handler[r].key
  BY DEF Moves, Arrived
<1>1. /\ handler[r].reply = NULL /\ handler[r] \in Arrived
      /\ handler[r].at \in Nat /\ handler[r].at <= now
      /\ now \in Nat /\ Ttl \in Nat
  BY HttpAssumption DEF HttpInv, HandlerInv, Moves, Arrived, TypeOK
<1>2. TypeOK'
  BY DEF HttpInv, TypeOK, Moves, Arrived
<1>3. HandlerInv'
  BY <1>1, MoveHandler
<1>4. AnswersAreOwn'
  BY <1>1, HttpAssumption, MoveAnswers
<1>5. RecordInv'
  <2>1. Sound(key)'
    BY <1>0, <1>1 DEF Sound, Claim, Moves
  <2>2. ASSUME NEW k \in Keys \ {key} PROVE Sound(k)'
    BY <1>0, MoveRecord
  <2> QED BY <2>1, <2>2 DEF RecordInv
<1>6. KeepInv'
  <2>1. Safe(r)'
    <3>1. Claim(r) \in Records
      BY <1>1 DEF Claim, Records, Arrived
    <3> QED BY <3>1, HttpAssumption DEF Safe, Holds, Claim, Moves
  <2>2. ASSUME NEW x \in Requests \ {r} PROVE Safe(x)'
    <3>1. ASSUME Ran(x), Holds(x)
          PROVE  \/ RanOut(x) \/ x \in forgotten'
                 \/ record'[handler[x].key] # NULL /\ record'[handler[x].key].by = x
      <4>1. handler[x].key \in Keys
        BY <3>1, HttpAssumption DEF Ran, Claimed, Errors, HttpInv, TypeOK, New
      <4>2. record[handler[x].key].expires = handler[x].at + Ttl
        BY <3>1, <4>1 DEF Holds, HttpInv, RecordInv, Sound
      <4>3. handler[x].at \in Nat
        BY DEF HttpInv, TypeOK, New
      <4>4. CASE ~ Live(handler[x].key, handler[r].at)
        BY <1>1, <3>1, <4>2, <4>3, <4>4 DEF Live, Holds, RanOut
      <4>5. CASE Live(handler[x].key, handler[r].at)
        BY <3>1, <4>1, <4>5 DEF Holds
      <4> QED BY <4>4, <4>5
    <3> QED BY <3>1, MoveSafe
  <2> QED BY <2>1, <2>2 DEF KeepInv
<1> QED BY <1>2, <1>3, <1>4, <1>5, <1>6 DEF HttpInv

\* A request that goes on or ends without touching a record keeps the invariant, if
\* it does not start to run the handler and is given only its own answer.
LEMMA QuietKeeps ==
  ASSUME HttpInv, NEW r \in Requests, handler[r].pc # "ended",
         NEW pc \in Progress \ {"new"}, NEW reply \in Replies, Moves(r, pc, reply),
         pc = "ended" <=> reply # NULL,
         UNCHANGED <<now, durable, forgotten>>,
         record' \in [Keys -> Records \union {NULL}],
         \A k \in Keys :
           \/ record'[k] = record[k]
           \/ record'[k] = NULL /\ record[k].expires <= now,
         Ran(r)' => Ran(r) \/ reply = "ERROR",
         reply \in Requests =>
           \/ reply = r
           \/ /\ handler[reply].reply = reply
              /\ handler[reply].key = handler[r].key /\ handler[reply].body = handler[r].body
  PROVE  HttpInv'
<1>1. TypeOK'
  BY DEF HttpInv, TypeOK, Moves, Arrived
<1>2. HandlerInv'
  BY MoveHandler
<1>3. AnswersAreOwn'
  BY MoveAnswers
<1>4. RecordInv'
  BY MoveRecord DEF RecordInv
<1>5. KeepInv'
  <2>1. ASSUME NEW x \in Requests, Ran(x), Holds(x)
        PROVE  \/ RanOut(x)
               \/ record'[handler[x].key] # NULL /\ record'[handler[x].key].by = x
    <3>1. handler[x].key \in Keys
      BY <2>1, HttpAssumption DEF Ran, Claimed, Errors, HttpInv, TypeOK, New
    <3>2. record[handler[x].key].expires = handler[x].at + Ttl
      BY <2>1, <3>1 DEF Holds, HttpInv, RecordInv, Sound
    <3> QED BY <2>1, <3>1, <3>2 DEF Holds, RanOut
  <2>2. Safe(r)'
    <3>1. handler[r].reply # "ERROR"
      BY HttpAssumption DEF HttpInv, HandlerInv, Errors
    <3>2. CASE reply = "ERROR"
      BY <3>2 DEF Safe, Moves
    <3>3. CASE reply # "ERROR"
      BY <2>1, <3>1, <3>3 DEF HttpInv, KeepInv, Safe, Moves, RanOut, Holds
    <3> QED BY <3>2, <3>3
  <2>3. ASSUME NEW x \in Requests \ {r} PROVE Safe(x)'
    BY <2>1, MoveSafe
  <2> QED BY <2>2, <2>3 DEF KeepInv
<1> QED BY <1>1, <1>2, <1>3, <1>4, <1>5 DEF HttpInv

\* A claim in the database that finds its key free takes it, else it moves on.
LEMMA InsertKeeps ==
  ASSUME HttpInv, NEW r \in Requests, InsertClaim(r)
  PROVE  HttpInv'
<1>1. handler[r].pc = "claiming" /\ handler[r].reply = NULL /\ TypeOK
  BY DEF InsertClaim, HttpInv, HandlerInv
<1>2. CASE Live(handler[r].key, handler[r].at)
  <2>1. /\ handler' = [handler EXCEPT ![r].pc = "beaten"]
        /\ UNCHANGED <<now, durable, record, forgotten>>
    BY <1>2 DEF InsertClaim
  <2>2. Moves(r, "beaten", NULL)
    BY <1>1, <2>1, Proceeds DEF Progress
  <2>3. ~ Ran(r)'
    BY <2>2, HttpAssumption DEF Ran, Claimed, Moves, Errors
  <2> QED BY <1>1, <2>1, <2>2, <2>3, QuietKeeps, HttpAssumption
             DEF Progress, Replies, TypeOK
<1>3. CASE ~ Live(handler[r].key, handler[r].at)
  <2>1. /\ handler' = [handler EXCEPT ![r].pc = "running"]
        /\ record' = [record EXCEPT ![handler[r].key] = Claim(r)]
        /\ UNCHANGED <<now, durable, forgotten>>
    BY <1>3 DEF InsertClaim
  <2>2. Moves(r, "running", handler[r].reply)
    BY <1>1, <2>1, Proceeds DEF Progress
  <2>3. Claim(r) \in Records /\ handler[r].key \in Keys
    BY <2>2, HttpAssumption DEF Claim, Records, Moves, Arrived
  <2>4. /\ record' \in [Keys -> Records \union {NULL}]
        /\ record'[handler[r].key] = Claim(r)
        /\ \A k \in Keys \ {handler[r].key} : record'[k] = record[k]
    BY <1>1, <2>1, <2>3 DEF TypeOK
  <2> QED BY <1>1, <1>3, <2>1, <2>2, <2>4, ClaimKeeps DEF TypeOK
<1> QED BY <1>2, <1>3

\* The SELECT gives a reply and changes nothing else.
LEMMA ReadKeeps ==
  ASSUME HttpInv, NEW r \in Requests, ReadClaim(r)
  PROVE  HttpInv'
<1>1. /\ handler[r].pc = "beaten" /\ TypeOK /\ handler[r].reply = NULL
      /\ UNCHANGED <<now, durable, record, forgotten>>
  BY DEF ReadClaim, HttpInv, HandlerInv
<1>2. handler[r] \in Arrived
  BY <1>1 DEF TypeOK, New, Arrived
<1>3. /\ Found(r) \in Replies \ {NULL} /\ Found(r) \notin {"ERROR", "LOST"}
      /\ Found(r) \in Requests =>
           /\ handler[Found(r)].reply = Found(r)
           /\ handler[Found(r)].key = handler[r].key
           /\ handler[Found(r)].body = handler[r].body
  BY <1>2, FoundReply
<1>4. Moves(r, "ended", Found(r))
  BY <1>1, <1>3, Ends DEF ReadClaim
<1>5. ~ Ran(r)'
  <2>1. Found(r) # r
    BY <1>1, <1>3, HttpAssumption
  <2> QED BY <1>3, <1>4, <2>1 DEF Ran, Claimed, Moves
<1> QED BY <1>1, <1>3, <1>4, <1>5, QuietKeeps DEF Progress, TypeOK

\* A claim in memory prunes, replies, or takes the key and evicts the oldest.
LEMMA MemoryKeeps ==
  ASSUME HttpInv, NEW r \in Requests, ClaimInMemory(r)
  PROVE  HttpInv'
<1>1. /\ handler[r].pc = "claiming" /\ TypeOK /\ handler[r].reply = NULL
      /\ UNCHANGED <<now, durable>> /\ handler[r].at <= now
  BY DEF ClaimInMemory, HttpInv, HandlerInv
<1>2. handler[r] \in Arrived
  BY <1>1 DEF TypeOK, New, Arrived
<1>3. CASE Live(handler[r].key, handler[r].at)
  <2>1. /\ End(r, Found(r)) /\ UNCHANGED forgotten
        /\ record' = [x \in Keys |-> IF x \in Kept(handler[r].at) THEN record[x] ELSE NULL]
    BY <1>3 DEF ClaimInMemory
  <2>2. /\ Found(r) \in Replies \ {NULL} /\ Found(r) \notin {"ERROR", "LOST"}
        /\ Found(r) \in Requests =>
             /\ handler[Found(r)].reply = Found(r)
             /\ handler[Found(r)].key = handler[r].key
             /\ handler[Found(r)].body = handler[r].body
    BY <1>2, FoundReply
  <2>3. Moves(r, "ended", Found(r))
    BY <1>1, <2>1, <2>2, Ends
  <2>4. ~ Ran(r)'
    <3>1. Found(r) # r
      BY <1>1, <2>2, HttpAssumption
    <3> QED BY <2>2, <2>3, <3>1 DEF Ran, Claimed, Moves
  <2>5. record' \in [Keys -> Records \union {NULL}]
    BY <1>1, <2>1 DEF TypeOK
  <2>6. ASSUME NEW k \in Keys
        PROVE  \/ record'[k] = record[k]
               \/ record'[k] = NULL /\ record[k].expires <= now
    BY <1>1, <1>2, <2>1 DEF Kept, Live, TypeOK, Records, Arrived
  <2> QED BY <1>1, <2>1, <2>2, <2>3, <2>4, <2>5, <2>6, QuietKeeps DEF Progress
<1>4. CASE ~ Live(handler[r].key, handler[r].at)
  <2>1. PICK gone \in Evicted(handler[r].at) :
          /\ handler' = [handler EXCEPT ![r].pc = "running"]
          /\ record' = [x \in Keys |->
               IF x = handler[r].key THEN Claim(r)
               ELSE IF x \in Kept(handler[r].at) \ gone THEN record[x] ELSE NULL]
          /\ forgotten' = forgotten \union {record[x].by : x \in gone}
    BY <1>4 DEF ClaimInMemory
  <2>2. Moves(r, "running", handler[r].reply)
    BY <1>1, <2>1, Proceeds DEF Progress
  <2>3. Claim(r) \in Records /\ handler[r].key \in Keys
    BY <1>2, HttpAssumption DEF Claim, Records, Arrived
  <2>4. gone \subseteq Kept(handler[r].at)
    BY <2>1 DEF Evicted
  <2>5. /\ record' \in [Keys -> Records \union {NULL}]
        /\ record'[handler[r].key] = Claim(r)
    BY <1>1, <2>1, <2>3 DEF TypeOK
  <2>6. forgotten \subseteq forgotten' /\ forgotten' \subseteq Requests
    BY <1>1, <2>1, <2>4 DEF TypeOK, Kept, Live, Records
  <2>7. ASSUME NEW k \in Keys \ {handler[r].key}
        PROVE  \/ record'[k] = record[k]
               \/ /\ record'[k] = NULL
                  /\ Live(k, handler[r].at) => record[k].by \in forgotten'
    BY <2>1 DEF Kept
  <2> QED BY <1>1, <1>4, <2>2, <2>5, <2>6, <2>7, ClaimKeeps
<1> QED BY <1>3, <1>4

\* The handler returns.
LEMMA HandleKeeps ==
  ASSUME HttpInv, NEW r \in Requests, Handle(r)
  PROVE  HttpInv'
<1>1. PICK pc \in {"finishing", "failed"} : handler' = [handler EXCEPT ![r].pc = pc]
  BY DEF Handle
<1>2. /\ handler[r].pc = "running" /\ handler[r].reply = NULL /\ TypeOK
      /\ UNCHANGED <<now, durable, record, forgotten>>
  BY DEF Handle, HttpInv, HandlerInv
<1>3. Moves(r, pc, NULL) /\ pc \in Progress \ {"new", "ended"}
  BY <1>1, <1>2, Proceeds DEF Progress
<1> QED BY <1>2, <1>3, QuietKeeps, HttpAssumption DEF Ran, Claimed, Progress, Replies, TypeOK

\* finish sets the answer of a record for the same body, whoever claimed it.
LEMMA FinishKeeps ==
  ASSUME HttpInv, NEW r \in Requests, Finish(r)
  PROVE  HttpInv'
<1>1. /\ handler[r].pc = "finishing" /\ handler[r].reply = NULL /\ TypeOK
      /\ UNCHANGED <<now, durable, forgotten>> /\ End(r, r) /\ Ran(r)
  BY DEF Finish, HttpInv, HandlerInv, Ran, Claimed
<1>2. Moves(r, "ended", r)
  BY <1>1, Ends DEF Replies
<1>3. r # NULL
  BY HttpAssumption
<1>4. CASE ~ SameRequest(r)
  <2>1. UNCHANGED record
    BY <1>4 DEF Finish
  <2> QED BY <1>1, <1>2, <1>3, <2>1, QuietKeeps DEF Progress, Replies, TypeOK
<1>5. CASE SameRequest(r)
  <2>0. PICK k \in Keys : k = handler[r].key
    BY <1>2 DEF Moves, Arrived
  <2>1. /\ record' = [record EXCEPT ![k].answer = r]
        /\ record[k] \in Records /\ record[k].body = handler[r].body
    BY <1>1, <1>5, <2>0 DEF Finish, SameRequest, TypeOK
  <2>2. /\ record'[k] = [record[k] EXCEPT !.answer = r] /\ record'[k] \in Records
        /\ \A x \in Keys \ {k} : record'[x] = record[x]
        /\ record' \in [Keys -> Records \union {NULL}]
    BY <1>1, <2>1 DEF TypeOK, Records
  <2>3. /\ record'[k].by = record[k].by /\ record'[k].expires = record[k].expires
        /\ record'[k].answer = r /\ record'[k].body = record[k].body
        /\ record'[k] # NULL /\ record[k] # NULL
    BY <1>5, <2>0, <2>1, <2>2, HttpAssumption DEF SameRequest, Records
  <2>4. TypeOK'
    BY <1>1, <1>2, <2>2 DEF TypeOK, Moves, Arrived
  <2>5. HandlerInv' /\ AnswersAreOwn'
    BY <1>1, <1>2, <1>3, MoveHandler, MoveAnswers
  <2>6. RecordInv'
    <3>1. Sound(k)'
      <4>1. Sound(k) /\ record[k].by \in Requests
        BY <2>1 DEF HttpInv, RecordInv, Records
      <4> QED BY <1>2, <2>0, <2>1, <2>3, <4>1 DEF Sound, Moves
    <3>2. ASSUME NEW x \in Keys \ {k} PROVE Sound(x)'
      BY <1>1, <1>2, <2>2, MoveRecord
    <3> QED BY <3>1, <3>2 DEF RecordInv
  <2>7. ASSUME NEW x \in Requests, Ran(x), Holds(x)
        PROVE  record'[handler[x].key] # NULL /\ record'[handler[x].key].by = x
    <3>1. handler[x].key \in Keys
      BY <2>7, HttpAssumption DEF Ran, Claimed, Errors, HttpInv, TypeOK, New
    <3> QED BY <2>2, <2>3, <2>7, <3>1 DEF Holds
  <2>8. Safe(r)'
    BY <1>1, <1>2, <2>7, HttpAssumption DEF HttpInv, KeepInv, Safe, Moves, RanOut, Holds, Errors
  <2>9. ASSUME NEW x \in Requests \ {r} PROVE Safe(x)'
    BY <1>1, <1>2, <2>7, MoveSafe
  <2> QED BY <2>4, <2>5, <2>6, <2>8, <2>9 DEF HttpInv, KeepInv
<1> QED BY <1>4, <1>5

\* abandon removes a record for the same body without an answer; the request that
\* loses its claim by it is remembered.
LEMMA AbandonKeeps ==
  ASSUME HttpInv, NEW r \in Requests, Abandon(r)
  PROVE  HttpInv'
<1>1. /\ handler[r].pc = "failed" /\ handler[r].reply = NULL /\ TypeOK
      /\ UNCHANGED <<now, durable>> /\ End(r, "ERROR")
  BY DEF Abandon, HttpInv, HandlerInv
<1>2. Moves(r, "ended", "ERROR") /\ "ERROR" \in Replies /\ "ERROR" \notin Requests \union {NULL}
  BY <1>1, Ends, HttpAssumption DEF Replies, Errors
<1>3. CASE ~ Abandonable(r)
  <2>1. UNCHANGED <<record, forgotten>>
    BY <1>3 DEF Abandon
  <2> QED BY <1>1, <1>2, <2>1, QuietKeeps DEF Progress, TypeOK
<1>4. CASE Abandonable(r)
  <2>0. PICK k \in Keys : k = handler[r].key
    BY <1>2 DEF Moves, Arrived
  <2>1. /\ record' = [record EXCEPT ![k] = NULL]
        /\ forgotten' = forgotten \union ({record[k].by} \ {r})
        /\ record[k] \in Records
    BY <1>1, <1>4, <2>0 DEF Abandon, Abandonable, SameRequest, TypeOK
  <2>2. TypeOK'
    BY <1>1, <1>2, <2>1 DEF TypeOK, Moves, Arrived, Records
  <2>3. HandlerInv' /\ AnswersAreOwn'
    BY <1>1, <1>2, MoveHandler, MoveAnswers
  <2>4. ASSUME NEW x \in Keys PROVE record'[x] = record[x] \/ record'[x] = NULL
    BY <1>1, <2>1 DEF TypeOK
  <2>5. RecordInv'
    BY <1>1, <1>2, <2>4, MoveRecord DEF RecordInv
  <2>6. Safe(r)'
    BY <1>2 DEF Safe, Moves
  <2>7. ASSUME NEW x \in Requests \ {r} PROVE Safe(x)'
    <3>1. ASSUME Ran(x), Holds(x)
          PROVE  \/ x \in forgotten'
                 \/ record'[handler[x].key] # NULL /\ record'[handler[x].key].by = x
      BY <1>1, <2>1, <3>1 DEF Holds, TypeOK
    <3> QED BY <1>1, <1>2, <2>1, <3>1, MoveSafe
  <2> QED BY <2>2, <2>3, <2>5, <2>6, <2>7 DEF HttpInv, KeepInv
<1> QED BY <1>3, <1>4

\* A process that dies leaves its claim in the database.
LEMMA DieKeeps ==
  ASSUME HttpInv, NEW r \in Requests, Die(r)
  PROVE  HttpInv'
<1> DEFINE reply == IF Claimed(r) THEN "LOST" ELSE "NONE"
<1>1. /\ handler[r].pc \notin {"new", "ended"} /\ handler[r].reply = NULL /\ TypeOK
      /\ UNCHANGED <<now, durable, record, forgotten>> /\ End(r, reply)
  BY DEF Die, HttpInv, HandlerInv
<1>2. reply \in Replies /\ reply \notin Requests \union {NULL}
  BY HttpAssumption DEF Replies, Errors
<1>3. Moves(r, "ended", reply)
  BY <1>1, <1>2, Ends
<1>4. Ran(r)' => Ran(r)
  BY <1>2, <1>3 DEF Ran, Claimed, Moves
<1> QED BY <1>1, <1>2, <1>3, <1>4, QuietKeeps DEF Progress, TypeOK

\* A restart removes all records, remembers whose they were, and ends everybody.
LEMMA RestartKeeps ==
  ASSUME HttpInv, Restart
  PROVE  HttpInv'
<1>1. /\ TypeOK /\ UNCHANGED <<now, durable>>
      /\ record' = [k \in Keys |-> NULL]
      /\ forgotten' = forgotten \union {record[k].by : k \in {x \in Keys : record[x] # NULL}}
  BY DEF Restart, HttpInv
<1>2. ASSUME NEW r \in Requests
      PROVE  \/ handler'[r] = handler[r] /\ handler[r].pc \in {"new", "ended"}
             \/ /\ handler[r].pc \notin {"new", "ended"} /\ handler[r] \in Arrived
                /\ handler'[r].pc = "ended" /\ handler'[r] \in Arrived
                /\ handler'[r].reply = IF Claimed(r) THEN "LOST" ELSE "NONE"
                /\ handler'[r].key = handler[r].key /\ handler'[r].body = handler[r].body
                /\ handler'[r].at = handler[r].at
  <2>1. CASE handler[r].pc \in {"new", "ended"}
    BY <2>1 DEF Restart
  <2>2. CASE handler[r].pc \notin {"new", "ended"}
    <3>1. handler[r] \in Arrived
      BY <1>1, <2>2 DEF TypeOK, New, Arrived
    <3>2. handler'[r] = [handler[r] EXCEPT !.pc = "ended",
                           !.reply = IF Claimed(r) THEN "LOST" ELSE "NONE"]
      BY <2>2 DEF Restart
    <3> QED BY <2>2, <3>1, <3>2 DEF Arrived, Progress, Replies, Errors
  <2> QED BY <2>1, <2>2
<1>3. TypeOK'
  <2>1. handler' \in [Requests -> {New} \union Arrived]
    <3>1. \A r \in Requests : handler'[r] \in {New} \union Arrived
      BY <1>1, <1>2 DEF TypeOK, Arrived
    <3> QED BY <3>1 DEF Restart
  <2> QED BY <1>1, <2>1 DEF TypeOK, Records, Arrived
<1>4. HandlerInv'
  BY <1>1, <1>2, HttpAssumption DEF HttpInv, HandlerInv, Errors
<1>5. RecordInv'
  BY <1>1 DEF RecordInv, Sound
<1>6. KeepInv'
  <2> SUFFICES ASSUME NEW r \in Requests, Ran(r)' PROVE Safe(r)'
    BY DEF KeepInv, Safe
  <2>1. Ran(r) /\ handler'[r].key = handler[r].key /\ handler'[r].at = handler[r].at
    BY <1>2, HttpAssumption DEF Ran, Claimed, Errors
  <2>2. handler[r].key \in Keys
    BY <1>1, <2>1, HttpAssumption DEF Ran, Claimed, Errors, TypeOK, New
  <2>3. Holds(r) => r \in forgotten'
    BY <1>1, <2>2 DEF Holds
  <2>4. handler[r].reply = "ERROR" => handler'[r].reply = "ERROR"
    BY <1>2, HttpAssumption DEF HttpInv, HandlerInv, Errors
  <2> QED BY <1>1, <2>1, <2>3, <2>4 DEF HttpInv, KeepInv, Safe, RanOut
<1>7. AnswersAreOwn'
  <2> SUFFICES ASSUME NEW r \in Requests, handler'[r].reply \in Requests
               PROVE  LET giver == handler'[handler'[r].reply] IN
                      /\ giver.reply = handler'[r].reply
                      /\ giver.key = handler'[r].key /\ giver.body = handler'[r].body
    BY DEF AnswersAreOwn
  <2>1. handler'[r] = handler[r]
    BY <1>2, HttpAssumption DEF Errors
  <2>2. handler'[handler[r].reply] = handler[handler[r].reply]
    BY <1>2, <2>1, HttpAssumption DEF HttpInv, AnswersAreOwn, HandlerInv
  <2> QED BY <2>1, <2>2 DEF HttpInv, AnswersAreOwn
<1> QED BY <1>3, <1>4, <1>5, <1>6, <1>7 DEF HttpInv

\* Time passes.
LEMMA TickKeeps ==
  ASSUME HttpInv, Tick
  PROVE  HttpInv'
<1>1. now \in Nat /\ now' = now + 1 /\ UNCHANGED <<durable, record, handler, forgotten>>
  BY DEF Tick, HttpInv, TypeOK
<1>2. \A r \in Requests : handler[r].at \in Nat
  BY DEF HttpInv, TypeOK, New
<1>3. TypeOK' /\ HandlerInv' /\ RecordInv' /\ AnswersAreOwn'
  BY <1>1, <1>2 DEF HttpInv, TypeOK, HandlerInv, RecordInv, Sound, AnswersAreOwn
<1>4. KeepInv'
  BY <1>1, <1>2, HttpAssumption DEF HttpInv, KeepInv, Safe, Ran, Claimed, RanOut, Holds
<1> QED BY <1>3, <1>4 DEF HttpInv

\* Every step preserves the invariant.
LEMMA HttpNextInv == HttpInv /\ [Next]_vars => HttpInv'
<1> SUFFICES ASSUME HttpInv, [Next]_vars PROVE HttpInv'
  OBVIOUS
<1>1. ASSUME NEW r \in Requests, ClaimStep(r) PROVE HttpInv'
  BY <1>1, ReceiveKeeps, InsertKeeps, ReadKeeps, MemoryKeeps DEF ClaimStep
<1>2. ASSUME NEW r \in Requests, HandlerStep(r) PROVE HttpInv'
  BY <1>2, HandleKeeps, FinishKeeps, AbandonKeeps DEF HandlerStep
<1>3. CASE UNCHANGED vars
  BY <1>3 DEF vars, HttpInv, TypeOK, HandlerInv, RecordInv, Sound, KeepInv, Safe, Ran,
              Claimed, RanOut, Holds, AnswersAreOwn
<1> QED BY <1>1, <1>2, <1>3, DieKeeps, RestartKeeps, TickKeeps DEF Next

-----------------------------------------------------------------------------
(* The properties.                                                         *)

\* The inductive invariant holds in every reachable state.
THEOREM HttpInvariant == Spec => []HttpInv
BY HttpInitInv, HttpNextInv, PTL DEF Spec

\* The state stays within its types.
THEOREM TypeCorrect == Spec => []TypeOK
BY HttpInvariant, PTL DEF HttpInv

\* A client is given only answers to its own key and body (claim, finish).
THEOREM OwnAnswers == Spec => []AnswersAreOwn
BY HttpInvariant, PTL DEF HttpInv

Everywhere ==
  [pc : Progress, key : Keys \union {NULL}, body : Bodies \union {NULL}, at : Nat, reply : Replies]

\* Where a request is after a step of its own; the others are where they were.
LEMMA Arrives ==
  ASSUME TypeOK, NEW r \in Requests
  PROVE  /\ \A pc \in Progress : handler' = [handler EXCEPT ![r].pc = pc] =>
              handler'[r].pc = pc /\ \A x \in Requests \ {r} : handler'[x] = handler[x]
         /\ \A reply \in Replies : End(r, reply) =>
              handler'[r].pc = "ended" /\ \A x \in Requests \ {r} : handler'[x] = handler[x]
<1>1. handler[r] \in Everywhere /\ handler = [x \in Requests |-> handler[x]]
  BY DEF TypeOK, Everywhere, New, Progress, Replies
<1>2. ASSUME NEW pc \in Progress, handler' = [handler EXCEPT ![r].pc = pc]
      PROVE  handler'[r].pc = pc /\ \A x \in Requests \ {r} : handler'[x] = handler[x]
  <2>1. handler'[r] = [handler[r] EXCEPT !.pc = pc]
    BY <1>1, <1>2
  <2> QED BY <1>1, <1>2, <2>1 DEF Everywhere
<1>3. ASSUME NEW reply \in Replies, End(r, reply)
      PROVE  handler'[r].pc = "ended" /\ \A x \in Requests \ {r} : handler'[x] = handler[x]
  <2>1. handler'[r] = [handler[r] EXCEPT !.pc = "ended", !.reply = reply]
    BY <1>1, <1>3 DEF End
  <2> QED BY <1>1, <1>3, <2>1 DEF Everywhere, End
<1> QED BY <1>2, <1>3

\* Every reply of the code is one.
LEMMA RepliesAre ==
  ASSUME HttpInv, NEW r \in Requests, handler[r].pc \in Progress \ {"new"}
  PROVE  /\ {Found(r), r, "ERROR", "LOST", "NONE"} \subseteq Replies
         /\ (IF Claimed(r) THEN "LOST" ELSE "NONE") \in Replies
<1>1. handler[r] \in Arrived
  BY DEF HttpInv, TypeOK, New, Arrived
<1> QED BY <1>1, FoundReply DEF Replies, Errors

\* A step that starts to run the handler of s is a claim that found no record of
\* its key in its way.
LEMMA RunsByClaim ==
  ASSUME HttpInv, [Next]_vars, NEW s \in Requests,
         handler[s].pc # "running", handler'[s].pc = "running"
  PROVE  /\ ~ Live(handler[s].key, handler[s].at)
         /\ now' = now /\ forgotten \subseteq forgotten'
<1>1. TypeOK
  BY DEF HttpInv
<1>2. ASSUME NEW r \in Requests, NEW k \in Keys, NEW b \in Bodies, Receive(r, k, b)
      PROVE  FALSE
  BY <1>1, <1>2 DEF Receive, TypeOK
<1>3. ASSUME NEW r \in Requests, ReadClaim(r) \/ Finish(r) \/ Abandon(r) \/ Die(r)
      PROVE  FALSE
  <2>1. handler[r].pc \in Progress \ {"new"}
    BY <1>1, <1>3 DEF ReadClaim, Finish, Abandon, Die, TypeOK, New, Progress
  <2>2. \E reply \in Replies : End(r, reply)
    BY <1>3, <2>1, RepliesAre DEF ReadClaim, Finish, Abandon, Die
  <2> QED BY <1>1, <2>2, Arrives
<1>4. ASSUME NEW r \in Requests, Handle(r) PROVE FALSE
  <2>1. PICK pc \in {"finishing", "failed"} : handler' = [handler EXCEPT ![r].pc = pc]
    BY <1>4 DEF Handle
  <2>2. handler'[r].pc = pc /\ \A x \in Requests \ {r} : handler'[x] = handler[x]
    BY <1>1, <2>1, Arrives DEF Progress
  <2> QED BY <2>2
<1>5. ASSUME Restart PROVE FALSE
  <2>1. handler[s] \in Everywhere
    BY <1>1 DEF TypeOK, Everywhere, New, Progress, Replies
  <2>2. \/ handler'[s] = handler[s]
        \/ handler'[s] = [handler[s] EXCEPT !.pc = "ended",
                            !.reply = IF Claimed(s) THEN "LOST" ELSE "NONE"]
    BY <1>5 DEF Restart
  <2> QED BY <2>1, <2>2 DEF Everywhere
<1>6. CASE Tick \/ UNCHANGED vars
  BY <1>6 DEF Tick, vars
<1>7. ASSUME NEW r \in Requests, InsertClaim(r)
      PROVE  /\ ~ Live(handler[s].key, handler[s].at)
             /\ now' = now /\ forgotten \subseteq forgotten'
  <2>1. ASSUME handler' = [handler EXCEPT ![r].pc = "beaten"] PROVE FALSE
    <3>1. handler'[r].pc = "beaten" /\ \A x \in Requests \ {r} : handler'[x] = handler[x]
      BY <1>1, <2>1, Arrives DEF Progress
    <3> QED BY <3>1
  <2>2. ~ Live(handler[r].key, handler[r].at)
    BY <1>7, <2>1 DEF InsertClaim, Progress
  <2>3. r = s
    BY <1>1, <1>7, <2>2, Arrives DEF InsertClaim, Progress
  <2> QED BY <1>7, <2>2, <2>3 DEF InsertClaim
<1>8. ASSUME NEW r \in Requests, ClaimInMemory(r)
      PROVE  /\ ~ Live(handler[s].key, handler[s].at)
             /\ now' = now /\ forgotten \subseteq forgotten'
  <2>1. handler[r].pc \in Progress \ {"new"}
    BY <1>8 DEF ClaimInMemory, Progress
  <2>2. ~ Live(handler[r].key, handler[r].at)
    BY <1>1, <1>8, <2>1, RepliesAre, Arrives DEF ClaimInMemory
  <2>3. handler' = [handler EXCEPT ![r].pc = "running"] /\ forgotten \subseteq forgotten'
    BY <1>8, <2>2 DEF ClaimInMemory
  <2>4. r = s
    BY <1>1, <2>3, Arrives DEF Progress
  <2> QED BY <1>8, <2>2, <2>3, <2>4 DEF ClaimInMemory
<1> QED BY <1>2, <1>3, <1>4, <1>5, <1>6, <1>7, <1>8 DEF Next, ClaimStep, HandlerStep

\* While a claim lasts, its handler is not run again (JsonRouter._dispatch).
THEOREM RunsOnce == Spec => OnePerKey
<1>1. HttpInv /\ [Next]_vars =>
        \A s \in Requests : handler[s].pc # "running" /\ handler'[s].pc = "running" =>
          \A r \in Requests \ {s} :
            Ran(r) /\ handler[r].key = handler[s].key =>
              RanOut(r) \/ r \in forgotten' \/ handler[r].reply = "ERROR"
  <2> SUFFICES ASSUME HttpInv, [Next]_vars, NEW s \in Requests,
                      handler[s].pc # "running", handler'[s].pc = "running",
                      NEW r \in Requests \ {s}, Ran(r), handler[r].key = handler[s].key,
                      Holds(r)
               PROVE  RanOut(r)
    BY RunsByClaim DEF HttpInv, KeepInv, Safe
  <2>1. ~ Live(handler[r].key, handler[s].at) /\ handler[s].at <= now
    BY RunsByClaim DEF HttpInv, HandlerInv
  <2>2. handler[r].key \in Keys
    BY HttpAssumption DEF Ran, Claimed, Errors, HttpInv, TypeOK, New
  <2>3. record[handler[r].key].expires = handler[r].at + Ttl
    BY <2>2 DEF Holds, HttpInv, RecordInv, Sound
  <2>4. handler[r].at \in Nat /\ handler[s].at \in Nat /\ now \in Nat /\ Ttl \in Nat
    BY HttpAssumption DEF HttpInv, TypeOK, New
  <2> QED BY <2>1, <2>3, <2>4 DEF Live, Holds, RanOut
<1> QED BY <1>1, HttpInvariant, PTL DEF Spec, OnePerKey

\* A row changes by its owner, after its time, or by a request that outlived or lost
\* its own claim (finish and abandon compare the hash only).
THEOREM RowsAreOwned == Spec => ClaimsAreOwned
<1>1. HttpInv /\ [Next]_vars =>
        \A k \in Keys : durable /\ record[k] # NULL /\ record'[k] # record[k] =>
          \E r \in Requests :
            /\ handler'[r] # handler[r] /\ handler[r].key = k
            /\ \/ r = record[k].by
               \/ record[k].expires <= handler[r].at
               \/ RanOut(r) \/ r \in forgotten
  <2> SUFFICES ASSUME HttpInv, [Next]_vars, NEW k \in Keys,
                      durable, record[k] # NULL, record'[k] # record[k]
               PROVE  \E r \in Requests :
                        /\ handler'[r] # handler[r] /\ handler[r].key = k
                        /\ \/ r = record[k].by
                           \/ record[k].expires <= handler[r].at
                           \/ RanOut(r) \/ r \in forgotten
    OBVIOUS
  <2>1. TypeOK /\ record[k] \in Records
    BY DEF HttpInv, TypeOK
  <2>2. ASSUME NEW r \in Requests, InsertClaim(r)
        PROVE  /\ handler'[r] # handler[r] /\ handler[r].key = k
               /\ record[k].expires <= handler[r].at
    <3>1. /\ handler[r].pc = "claiming" /\ handler'[r].pc \in {"beaten", "running"}
      BY <2>1, <2>2, Arrives DEF InsertClaim, Progress
    <3>2. handler[r].key = k /\ ~ Live(k, handler[r].at)
      BY <2>1, <2>2 DEF InsertClaim, TypeOK
    <3>3. record[k].expires \in Nat /\ handler[r].at \in Nat
      BY <2>1 DEF Records, TypeOK, New
    <3> QED BY <3>1, <3>2, <3>3 DEF Live
  <2>3. ASSUME NEW r \in Requests, Finish(r) \/ Abandon(r)
        PROVE  /\ handler'[r] # handler[r] /\ handler[r].key = k
               /\ r = record[k].by \/ RanOut(r) \/ r \in forgotten
    <3>1. handler[r].pc \in {"finishing", "failed"} /\ handler'[r].pc = "ended"
      BY <2>1, <2>3, Arrives DEF Finish, Abandon, Replies, Errors
    <3>2. handler[r].key = k
      BY <2>1, <2>3 DEF Finish, Abandon, TypeOK
    <3>3. Ran(r) /\ handler[r].reply # "ERROR"
      BY <3>1, HttpAssumption DEF Ran, Claimed, HttpInv, HandlerInv, Errors
    <3> QED BY <3>1, <3>2, <3>3 DEF HttpInv, KeepInv, Safe, Holds
  <2>4. UNCHANGED record \/ \E r \in Requests : InsertClaim(r) \/ Finish(r) \/ Abandon(r)
    BY DEF Next, ClaimStep, HandlerStep, Receive, ReadClaim, ClaimInMemory, Handle, Die,
           Restart, Tick, vars
  <2> QED BY <2>2, <2>3, <2>4
<1> QED BY <1>1, HttpInvariant, PTL DEF Spec, ClaimsAreOwned

-----------------------------------------------------------------------------
(* RequestAdmission                                                        *)

Threads == [pc : {"new", "limited", "checked", "accepted", "ended"}, checked : 0 .. MaxClock,
            admitted : BOOLEAN, at : 0 .. MaxClock]

\* No thread is ahead of the clock.  An admitted one does not look at it again, and
\* the timestamp was fresh when the thread did.
ThreadSound(d) ==
  /\ delivery[d].at <= clock
  /\ delivery[d].admitted => delivery[d].pc \in {"accepted", "ended"}
  /\ (delivery[d].admitted \/ delivery[d].pc = "checked") /\ Timestamped(KindOf(d))
       => delivery[d].checked <= stamp[MessageOf[d]] + MaxSkew[KindOf(d)]

ThreadInv == \A d \in Deliveries : ThreadSound(d)

\* The time at which the store, asked at the time of d, forgets its message.
DueAt(d) ==
  IF database THEN stamp[MessageOf[d]] + KeepFor[KindOf(d)]
  ELSE delivery[d].at + KeepFor[KindOf(d)]

Due(d) ==
  IF database THEN KindOf(d) = "workload" /\ DueAt(d) <= clock + drift ELSE DueAt(d) <= clock

\* The store knows the message of an admitted delivery until it is due or dropped.
Remembered(d) ==
  \/ MessageOf[d] \in lost
  \/ Due(d)
  \/ MessageOf[d] \in DOMAIN kept /\ kept[MessageOf[d]] >= DueAt(d)

StoreInv == \A d \in Admitted : Remembered(d)

AdmissionInv == AdmissionTypeOK /\ ThreadInv /\ StoreInv /\ AdmittedOnce

-----------------------------------------------------------------------------
\* The numbers the constants stand for, by delivery.
LEMMA Constants ==
  ASSUME NEW d \in Deliveries
  PROVE  /\ MessageOf[d] \in Messages /\ KindOf(d) \in Kinds
         /\ MaxSkew[KindOf(d)] \in Nat /\ KeepFor[KindOf(d)] \in Nat \ {0}
  BY AdmissionAssumption DEF KindOf

\* The state variables the arithmetic is about are numbers.
LEMMA Numbers ==
  ASSUME AdmissionTypeOK, NEW d \in Deliveries
  PROVE  /\ clock \in Nat /\ drift \in Int /\ stamp[MessageOf[d]] \in Int
         /\ delivery[d] \in Threads
         /\ delivery[d].at \in Nat /\ delivery[d].checked \in Nat
         /\ MessageOf[d] \in DOMAIN kept => kept[MessageOf[d]] \in Int
         /\ DueAt(d) \in Int
<1>1. MessageOf[d] \in Messages /\ KeepFor[KindOf(d)] \in Int
  BY Constants
<1>2. clock \in Nat /\ drift \in Int /\ stamp[MessageOf[d]] \in Int
  <2>1. clock \in 0 .. MaxClock /\ drift \in Int /\ stamp \in [Messages -> Stamps]
    BY DEF AdmissionTypeOK
  <2>2. MaxClock \in Nat /\ Stamps \subseteq Int
    BY AdmissionAssumption
  <2>3. stamp[MessageOf[d]] \in Stamps
    BY <1>1, <2>1
  <2>4. clock \in Nat
    BY <2>1, <2>2
  <2>5. stamp[MessageOf[d]] \in Int
    BY <2>2, <2>3
  <2> QED BY <2>1, <2>4, <2>5
<1>3. delivery[d] \in Threads
  BY DEF AdmissionTypeOK, Threads
<1>4. delivery[d].at \in Nat /\ delivery[d].checked \in Nat
  BY <1>3, AdmissionAssumption DEF Threads
<1>5. MessageOf[d] \in DOMAIN kept => kept[MessageOf[d]] \in Int
  BY DEF AdmissionTypeOK
<1> QED BY <1>1, <1>2, <1>3, <1>4, <1>5 DEF DueAt

\* The initial states satisfy the invariant: nothing is admitted.
LEMMA AdmissionInitInv == AdmissionInit => AdmissionInv
<1> SUFFICES ASSUME AdmissionInit PROVE AdmissionInv
  OBVIOUS
<1>1. AdmissionTypeOK
  BY AdmissionAssumption DEF AdmissionInit, AdmissionTypeOK, Arriving, Kinds
<1>2. Admitted = {}
  BY DEF AdmissionInit, Arriving, Admitted
<1>3. ThreadInv
  BY DEF AdmissionInit, Arriving, ThreadInv, ThreadSound
<1> QED BY <1>1, <1>2, <1>3 DEF AdmissionInv, StoreInv, AdmittedOnce

-----------------------------------------------------------------------------
\* A step that admits nothing, leaves the times of the admitted, the timestamps and
\* the drift alone, forgets no loss and lets time go on, keeps what AdmittedOnce says.
LEMMA KeepOnce ==
  ASSUME AdmissionInv,
         \A d \in Deliveries :
           /\ delivery'[d].admitted = delivery[d].admitted
           /\ delivery[d].admitted => delivery'[d].at = delivery[d].at
                                      /\ delivery'[d].checked = delivery[d].checked,
         stamp' = stamp, drift' = drift, database' = database, lost \subseteq lost'
  PROVE  AdmittedOnce'
<1>1. Admitted' = Admitted
  BY DEF Admitted
<1>2. SUFFICES ASSUME NEW first \in Admitted, NEW again \in Admitted, first # again,
                      MessageOf[first] = MessageOf[again],
                      delivery'[first].at <= delivery'[again].at
               PROVE  MessageOf[first] \in lost' \/ Excused(first, again)'
  BY <1>1 DEF AdmittedOnce
<1>3. /\ first \in Deliveries /\ again \in Deliveries
      /\ delivery[first].admitted /\ delivery[again].admitted
  BY DEF Admitted
<1>4. /\ delivery'[first].at = delivery[first].at
      /\ delivery'[again].at = delivery[again].at
      /\ delivery'[again].checked = delivery[again].checked
  BY <1>3
<1>5. MessageOf[first] \in lost \/ Excused(first, again)
  BY <1>2, <1>4 DEF AdmissionInv, AdmittedOnce
<1>6. Excused(first, again) => Excused(first, again)'
  BY <1>4 DEF Excused, Margin
<1> QED BY <1>5, <1>6

\* And if the store is the same, it knows what it knew.
LEMMA KeepRemembered ==
  ASSUME AdmissionInv, NEW d \in Deliveries, Remembered(d),
         delivery'[d].at = delivery[d].at, stamp' = stamp, drift' = drift,
         database' = database, kept' = kept, lost' = lost, clock' \in Nat, clock <= clock'
  PROVE  Remembered(d)'
<1>1. DueAt(d)' = DueAt(d) /\ DueAt(d) \in Int /\ clock \in Nat /\ drift \in Int
  BY Numbers DEF DueAt, AdmissionInv
<1>2. Due(d) => Due(d)'
  BY <1>1 DEF Due
<1> QED BY <1>1, <1>2 DEF Remembered

\* A thread goes on to pc, and nothing else changes but the windows.
LEMMA MoveKeeps ==
  ASSUME AdmissionInv, NEW d \in Deliveries, NEW pc \in {"limited", "ended"},
         pc = "limited" => delivery[d].pc = "new",
         Become(d, pc), windows' \in [Kinds -> Nat],
         UNCHANGED <<clock, database, drift, stamp, kept, lost>>
  PROVE  AdmissionInv'
<1>1. delivery \in [Deliveries -> Threads]
  BY DEF AdmissionInv, AdmissionTypeOK, Threads
<1>2. /\ delivery' = [delivery EXCEPT ![d].pc = pc]
      /\ \A x \in Deliveries : /\ delivery'[x].admitted = delivery[x].admitted
                               /\ delivery'[x].at = delivery[x].at
                               /\ delivery'[x].checked = delivery[x].checked
      /\ \A x \in Deliveries : x # d => delivery'[x] = delivery[x]
      /\ delivery'[d].pc = pc
  BY <1>1 DEF Become, Threads
<1>3. delivery' \in [Deliveries -> Threads]
  BY <1>1, <1>2 DEF Threads
<1>4. AdmissionTypeOK'
  BY <1>3 DEF AdmissionInv, AdmissionTypeOK, Threads
<1>5. AdmittedOnce'
  BY <1>2, KeepOnce
<1>6. StoreInv'
  <2>1. Admitted' = Admitted
    BY <1>2 DEF Admitted
  <2> SUFFICES ASSUME NEW x \in Admitted PROVE Remembered(x)'
    BY <2>1 DEF StoreInv
  <2>2. x \in Deliveries /\ Remembered(x) /\ clock \in Nat
    BY Numbers DEF Admitted, AdmissionInv, StoreInv
  <2> QED BY <2>2, <1>2, KeepRemembered
<1>7. ThreadInv'
  <2> SUFFICES ASSUME NEW x \in Deliveries PROVE ThreadSound(x)'
    BY DEF ThreadInv
  <2>1. ThreadSound(x)
    BY DEF AdmissionInv, ThreadInv
  <2>2. CASE x = d
    <3>1. delivery'[x].pc \in {"limited", "ended"} /\ delivery'[x].pc # "checked"
      BY <1>2, <2>2
    <3>2. delivery[x].admitted => delivery'[x].pc = "ended"
      BY <1>2, <2>1, <2>2 DEF ThreadSound
    <3> QED BY <1>2, <2>1, <3>1, <3>2 DEF ThreadSound
  <2>3. CASE x # d
    BY <1>2, <2>1, <2>3 DEF ThreadSound
  <2> QED BY <2>2, <2>3
<1> QED BY <1>4, <1>5, <1>6, <1>7 DEF AdmissionInv

\* The rate limit, and the refusal of a message the store knows, only move the thread.
LEMMA CountKeeps == ASSUME NEW d \in Deliveries PROVE AdmissionInv /\ Count(d) => AdmissionInv'
<1> SUFFICES ASSUME AdmissionInv, Count(d) PROVE AdmissionInv'
  OBVIOUS
<1>1. KindOf(d) \in Kinds /\ windows \in [Kinds -> Nat]
  BY Constants DEF AdmissionInv, AdmissionTypeOK
<1>2. windows' = [windows EXCEPT ![KindOf(d)] = @ + 1] /\ UNCHANGED <<clock, database, drift, stamp, kept, lost>>
  BY DEF Count
<1>3. windows' \in [Kinds -> Nat]
  BY <1>1, <1>2
<1>4. PICK pc \in {"limited", "ended"} : Become(d, pc) /\ (pc = "limited" => KindOf(d) # "workload")
  BY DEF Count
<1>5. pc = "limited" => delivery[d].pc = "new"
  BY <1>4 DEF Count, BeforeLimit
<1> QED BY <1>2, <1>3, <1>4, <1>5, MoveKeeps

LEMMA RefuseKeeps == ASSUME NEW d \in Deliveries PROVE AdmissionInv /\ RefuseKnown(d) => AdmissionInv'
<1> SUFFICES ASSUME AdmissionInv, RefuseKnown(d) PROVE AdmissionInv'
  OBVIOUS
<1>1. windows' \in [Kinds -> Nat]
  BY DEF RefuseKnown, AdmissionInv, AdmissionTypeOK
<1> QED BY <1>1, MoveKeeps DEF RefuseKnown

\* The thread has looked at the clock: a fresh timestamp is at most the skew old.
LEMMA CheckKeeps == ASSUME NEW d \in Deliveries PROVE AdmissionInv /\ CheckTimestamp(d) => AdmissionInv'
<1> SUFFICES ASSUME AdmissionInv, CheckTimestamp(d) PROVE AdmissionInv'
  OBVIOUS
<1>1. delivery \in [Deliveries -> Threads] /\ clock \in 0 .. MaxClock
  BY DEF AdmissionInv, AdmissionTypeOK, Threads
<1>2. /\ UNCHANGED <<clock, database, drift, stamp, kept, windows, lost>>
      /\ delivery[d].pc \in {"new", "limited"}
  BY DEF CheckTimestamp, BeforeCheck
<1>3. PICK pc \in {"checked", "ended"} :
        /\ pc = "checked" /\ Timestamped(KindOf(d)) => Fresh(MessageOf[d])
        /\ delivery' = [delivery EXCEPT ![d].pc = pc, ![d].checked = clock]
  BY DEF CheckTimestamp
<1>4. /\ delivery' \in [Deliveries -> Threads]
      /\ delivery'[d].pc = pc /\ delivery'[d].checked = clock
      /\ delivery'[d].admitted = delivery[d].admitted /\ delivery'[d].at = delivery[d].at
      /\ \A x \in Deliveries : x # d => delivery'[x] = delivery[x]
  BY <1>1, <1>3 DEF Threads
<1>5. ~ delivery[d].admitted
  BY <1>2 DEF AdmissionInv, ThreadInv, ThreadSound
<1>6. AdmissionTypeOK'
  BY <1>2, <1>4 DEF AdmissionInv, AdmissionTypeOK, Threads
<1>7. AdmittedOnce'
  BY <1>2, <1>4, <1>5, KeepOnce
<1>8. StoreInv'
  <2>1. Admitted' = Admitted
    BY <1>4 DEF Admitted
  <2> SUFFICES ASSUME NEW x \in Admitted PROVE Remembered(x)'
    BY <2>1 DEF StoreInv
  <2>2. x \in Deliveries /\ Remembered(x) /\ clock \in Nat
    BY Numbers DEF Admitted, AdmissionInv, StoreInv
  <2>3. delivery'[x].at = delivery[x].at
    BY <1>4, <2>2
  <2> QED BY <2>2, <2>3, <1>2, KeepRemembered
<1>9. ThreadInv'
  <2> SUFFICES ASSUME NEW x \in Deliveries PROVE ThreadSound(x)'
    BY DEF ThreadInv
  <2>1. ThreadSound(x)
    BY DEF AdmissionInv, ThreadInv
  <2>2. CASE x # d
    BY <1>2, <1>4, <2>1, <2>2 DEF ThreadSound
  <2>3. CASE x = d
    <3>1. pc = "checked" /\ Timestamped(KindOf(d))
            => clock <= stamp[MessageOf[d]] + MaxSkew[KindOf(d)]
      <4>1. /\ clock \in Nat /\ stamp[MessageOf[d]] \in Int
            /\ MaxSkew[Kind[MessageOf[d]]] \in Nat /\ KindOf(d) = Kind[MessageOf[d]]
        BY Numbers, Constants DEF AdmissionInv, KindOf
      <4> QED BY <4>1, <1>3 DEF Fresh, Distance
    <3> QED BY <1>2, <1>4, <1>5, <2>1, <2>3, <3>1 DEF ThreadSound
  <2> QED BY <2>2, <2>3
<1> QED BY <1>6, <1>7, <1>8, <1>9 DEF AdmissionInv

-----------------------------------------------------------------------------
\* A message the store does not know was dropped, or was due.
LEMMA Forgotten ==
  ASSUME AdmissionInv, NEW x \in Admitted, MessageOf[x] \notin KnownIn(KindOf(x))
  PROVE  MessageOf[x] \in lost \/ Due(x)
<1>1. x \in Deliveries /\ Remembered(x)
  BY DEF Admitted, AdmissionInv, StoreInv
<1>2. CASE MessageOf[x] \in DOMAIN kept /\ kept[MessageOf[x]] >= DueAt(x)
  <2>1. /\ clock \in Nat /\ drift \in Int /\ kept[MessageOf[x]] \in Int /\ DueAt(x) \in Int
    BY <1>1, <1>2, Numbers DEF AdmissionInv
  <2>2. Expired(MessageOf[x])
    BY <1>2 DEF KnownIn, Store, KindOf
  <2> QED BY <1>2, <2>1, <2>2 DEF Expired, Due, KindOf
<1> QED BY <1>1, <1>2 DEF Remembered

\* Two deliveries of a message, one of which comes to the store when the other is due.
LEMMA TwiceExcused ==
  ASSUME AdmissionTypeOK, ThreadInv, NEW first \in Admitted, NEW again \in Admitted,
         MessageOf[first] = MessageOf[again],
         delivery[again].at = clock, Due(first)
  PROVE  Excused(first, again)
<1>1. first \in Deliveries /\ again \in Deliveries /\ delivery[again].admitted
  BY DEF Admitted
<1>2. KindOf(first) = KindOf(again)
  BY DEF KindOf
<1> DEFINE kind == KindOf(first)
           stored == delivery[again].at
           checked == delivery[again].checked
           given == stamp[MessageOf[first]]
           skew == MaxSkew[kind]
           life == KeepFor[kind]
           then == delivery[first].at
<1>3. /\ stored \in Nat /\ checked \in Nat /\ given \in Int /\ skew \in Nat /\ life \in Nat
      /\ then \in Nat /\ drift \in Int /\ clock \in Nat
  BY <1>1, Numbers, Constants
<1>4. Timestamped(kind) => checked <= given + skew
  BY <1>1, <1>2 DEF ThreadInv, ThreadSound
<1>5. CASE database
  <2>1. kind = "workload" /\ given + life <= stored + drift
    BY <1>5 DEF Due, DueAt
  <2>2. Timestamped(kind)
    BY <2>1 DEF Timestamped
  <2>3. Margin(first, kind) = life - skew - drift
    BY <1>5 DEF Margin
  <2>4. stored - checked >= life - skew - drift
    <3> HIDE DEF stored, checked, given, skew, life
    <3> QED BY <1>3, <1>4, <2>1, <2>2
  <2> QED BY <2>1, <2>2, <2>3, <2>4 DEF Excused
<1>6. CASE ~ database
  <2>1. then + life <= stored
    BY <1>6 DEF Due, DueAt
  <2>2. Margin(first, kind) = life - skew - (given - then)
    BY <1>6 DEF Margin
  <2>3. Timestamped(kind) => stored - checked >= life - skew - (given - then)
    <3> HIDE DEF stored, checked, given, skew, life, then, kind
    <3> QED BY <1>3, <1>4, <2>1
  <2>4. stored >= then + life
    <3> HIDE DEF stored, life, then
    <3> QED BY <1>3, <2>1
  <2> QED BY <1>6, <2>2, <2>3, <2>4 DEF Excused
<1> QED BY <1>5, <1>6

\* What TwiceExcused says, before and after a step.
Late ==
  \A first, again \in Admitted :
    MessageOf[first] = MessageOf[again] /\ delivery[again].at = clock /\ Due(first)
      => Excused(first, again)

LEMMA LateExcused == AdmissionTypeOK /\ ThreadInv => Late
  BY TwiceExcused DEF Late

LEMMA LateExcusedNext == (AdmissionTypeOK /\ ThreadInv => Late)'
  BY LateExcused, PTL

-----------------------------------------------------------------------------
\* The store keeps a message it did not know.  Of the others it gives up those that
\* have expired and, at its limit, a victim.
LEMMA RememberKeeps == ASSUME NEW d \in Deliveries PROVE AdmissionInv /\ Remember(d) => AdmissionInv'
<1> SUFFICES ASSUME AdmissionInv, Remember(d) PROVE AdmissionInv'
  OBVIOUS
<1> DEFINE m == MessageOf[d]
           kind == KindOf(d)
<1>1. /\ delivery[d].pc = "checked" /\ m \notin KnownIn(kind)
      /\ UNCHANGED <<clock, database, drift, stamp, windows>>
  BY DEF Remember, KindOf
<1>2. PICK victims \in Victims(kind) :
        /\ kept' = [x \in (DOMAIN kept \ Store(kind)) \union (KnownIn(kind) \ victims) \union {m} |->
             IF x = m THEN Until(m) ELSE kept[x]]
        /\ lost' = lost \union victims
  BY DEF Remember, KindOf
<1>3. PICK pc \in {"accepted", "ended"} :
        delivery' = [delivery EXCEPT ![d].pc = pc, ![d].admitted = TRUE, ![d].at = clock]
  BY DEF Remember, KindOf
<1>4. delivery \in [Deliveries -> Threads] /\ clock \in 0 .. MaxClock
  BY DEF AdmissionInv, AdmissionTypeOK, Threads
<1>5. /\ delivery' \in [Deliveries -> Threads]
      /\ delivery'[d].pc = pc /\ delivery'[d].checked = delivery[d].checked
      /\ delivery'[d].admitted /\ delivery'[d].at = clock
      /\ \A x \in Deliveries : x # d => delivery'[x] = delivery[x]
  BY <1>3, <1>4 DEF Threads
<1>6. ~ delivery[d].admitted
  BY <1>1 DEF AdmissionInv, ThreadInv, ThreadSound
<1>7. /\ d \notin Admitted /\ Admitted' = Admitted \union {d}
      /\ \A x \in Admitted : x # d /\ x \in Deliveries /\ delivery'[x] = delivery[x]
  BY <1>5, <1>6 DEF Admitted
<1>8. victims \subseteq KnownIn(kind) /\ KnownIn(kind) \subseteq Store(kind)
      /\ Store(kind) \subseteq DOMAIN kept
  BY <1>2 DEF Victims, KnownIn, Store
<1>9. /\ clock \in Nat /\ stamp[m] \in Int /\ MaxSkew[kind] \in Nat
      /\ KeepFor[kind] \in Nat \ {0} /\ m \in Messages /\ Kind[m] = kind
  BY Numbers, Constants DEF AdmissionInv, KindOf
<1>10. Until(m) = IF database THEN stamp[m] + KeepFor[kind] ELSE clock + KeepFor[kind]
  BY <1>9 DEF Until
<1>11. Until(m) \in Int
  BY <1>9, <1>10
<1>12. AdmissionTypeOK'
  <2>1. DOMAIN kept \subseteq Messages /\ lost \subseteq Messages
        /\ \A x \in DOMAIN kept : kept[x] \in Int
    BY DEF AdmissionInv, AdmissionTypeOK
  <2>2. DOMAIN kept' \subseteq Messages /\ lost' \subseteq Messages
    BY <2>1, <1>2, <1>8, <1>9
  <2>3. \A x \in DOMAIN kept' : kept'[x] \in Int
    <3> HIDE DEF m, kind
    <3> QED BY <2>1, <1>2, <1>8, <1>11
  <2>4. /\ clock' \in 0 .. MaxClock /\ database' \in BOOLEAN /\ drift' \in Int
        /\ stamp' \in [Messages -> Stamps] /\ windows' \in [Kinds -> Nat]
    BY <1>1 DEF AdmissionInv, AdmissionTypeOK
  <2> QED BY <2>2, <2>3, <2>4, <1>5 DEF AdmissionTypeOK, Threads
<1>13. ThreadInv'
  <2> SUFFICES ASSUME NEW x \in Deliveries PROVE ThreadSound(x)'
    BY DEF ThreadInv
  <2>1. ThreadSound(x)
    BY DEF AdmissionInv, ThreadInv
  <2>2. CASE x # d
    BY <1>1, <1>5, <2>1, <2>2 DEF ThreadSound
  <2>3. CASE x = d
    BY <1>1, <1>5, <1>9, <2>1, <2>3 DEF ThreadSound
  <2> QED BY <2>2, <2>3
<1>14. ASSUME NEW x \in Admitted
       PROVE  DueAt(x)' = DueAt(x) /\ Due(x)' = Due(x)
  BY <1>1, <1>7 DEF DueAt, Due
<1>15. StoreInv'
  <2>1. Remembered(d)'
    <3>1. m \in DOMAIN kept' /\ kept'[m] = Until(m)
      BY <1>2
    <3>2. DueAt(d)' = Until(m)
      BY <1>1, <1>5, <1>10 DEF DueAt
    <3> QED BY <3>1, <3>2, <1>11 DEF Remembered
  <2>2. ASSUME NEW x \in Admitted PROVE Remembered(x)'
    <3> DEFINE mx == MessageOf[x]
    <3>1. x \in Deliveries /\ Remembered(x) /\ delivery[x].at <= clock
      BY <1>7 DEF AdmissionInv, StoreInv, ThreadInv, ThreadSound
    <3>2. /\ DueAt(x) \in Int /\ delivery[x].at \in Nat /\ drift \in Int
          /\ mx \in DOMAIN kept => kept[mx] \in Int
      BY <3>1, Numbers DEF AdmissionInv
    <3>3. CASE mx \in lost \/ Due(x)
      BY <3>3, <1>2, <1>14 DEF Remembered
    <3>4. CASE mx \in DOMAIN kept /\ kept[mx] >= DueAt(x)
      <4>1. CASE mx = m
        <5>1. mx \in DOMAIN kept' /\ kept'[mx] = Until(m)
          BY <4>1, <1>2
        <5>2. DueAt(x) = IF database THEN stamp[m] + KeepFor[kind]
                         ELSE delivery[x].at + KeepFor[kind]
          BY <4>1 DEF DueAt, KindOf
        <5>3. Until(m) >= DueAt(x)
          <6> HIDE DEF m, kind
          <6> QED BY <5>2, <1>9, <1>10, <3>1, <3>2
        <5> QED BY <5>1, <5>3, <1>14 DEF Remembered
      <4>2. CASE mx \in victims
        BY <4>2, <1>2 DEF Remembered
      <4>3. CASE mx # m /\ (mx \notin Store(kind) \/ mx \in KnownIn(kind) \ victims)
        <5>1. mx \in DOMAIN kept' /\ kept'[mx] = kept[mx]
          BY <4>3, <3>4, <1>2
        <5> QED BY <5>1, <3>4, <1>14 DEF Remembered
      <4>4. CASE mx \in Store(kind) /\ mx \notin KnownIn(kind)
        <5>1. Expired(mx)
          BY <4>4 DEF KnownIn
        <5>2. Due(x)
          BY <5>1, <3>2, <3>4, <1>9 DEF Expired, Due, KindOf
        <5> QED BY <5>2, <1>14 DEF Remembered
      <4> QED BY <4>1, <4>2, <4>3, <4>4
    <3> QED BY <3>1, <3>3, <3>4 DEF Remembered
  <2> QED BY <2>1, <2>2, <1>7 DEF StoreInv
<1>16. ASSUME NEW x \in Admitted, MessageOf[x] = m
       PROVE  m \in lost' \/ Due(x)'
  BY <1>1, <1>2, <1>14, <1>16, Forgotten DEF KindOf
<1>17. Late'
  BY <1>12, <1>13, LateExcusedNext
<1>18. AdmittedOnce'
  <2> SUFFICES ASSUME NEW first \in Admitted', NEW again \in Admitted', first # again,
                      MessageOf[first] = MessageOf[again],
                      delivery'[first].at <= delivery'[again].at
               PROVE  MessageOf[first] \in lost' \/ Excused(first, again)'
    BY DEF AdmittedOnce
  <2>1. CASE first # d /\ again # d
    <3>1. first \in Admitted /\ again \in Admitted
      BY <2>1, <1>7
    <3>2. delivery'[first] = delivery[first] /\ delivery'[again] = delivery[again]
      BY <3>1, <1>7
    <3>3. MessageOf[first] \in lost \/ Excused(first, again)
      BY <3>1, <3>2 DEF AdmissionInv, AdmittedOnce
    <3>4. Excused(first, again) => Excused(first, again)'
      BY <3>2, <1>1 DEF Excused, Margin
    <3> QED BY <3>3, <3>4, <1>2
  <2>2. CASE again = d
    <3>1. first \in Admitted
      BY <2>2, <1>7
    <3>2. m \in lost' \/ Due(first)'
      BY <3>1, <2>2, <1>16
    <3>3. Due(first)' => Excused(first, again)'
      BY <2>2, <1>1, <1>5, <1>17 DEF Late
    <3> QED BY <3>2, <3>3, <2>2
  <2>3. CASE first = d
    <3>1. again \in Admitted /\ again \in Deliveries
      BY <2>3, <1>7
    <3>2. delivery[again].at = clock /\ delivery'[again].at = clock'
      <4>1. delivery[again].at <= clock /\ delivery[again].at \in Nat
        BY <3>1, Numbers DEF AdmissionInv, ThreadInv, ThreadSound
      <4> QED BY <4>1, <3>1, <2>3, <1>1, <1>5, <1>7, <1>9
    <3>3. CASE Due(again)
      <4>1. database
        <5>1. KindOf(again) = kind
          BY <2>3 DEF KindOf
        <5>2. ~ database => clock + KeepFor[kind] <= clock
          BY <5>1, <3>2, <3>3 DEF Due, DueAt
        <5> HIDE DEF kind
        <5> QED BY <5>2, <1>9
      <4>2. Due(first)'
        <5>1. KindOf(again) = KindOf(first) /\ MessageOf[again] = MessageOf[first]
          BY DEF KindOf
        <5> QED BY <4>1, <5>1, <3>3, <1>1 DEF Due, DueAt
      <4> QED BY <4>2, <3>2, <1>17 DEF Late
    <3>4. CASE m \in lost'
      BY <3>4, <2>3
    <3> QED BY <3>1, <3>3, <3>4, <2>3, <1>14, <1>16
  <2> QED BY <2>1, <2>2, <2>3
<1> QED BY <1>12, <1>13, <1>15, <1>18 DEF AdmissionInv

\* The process dies: a store in memory loses what it still had to know.
LEMMA StopKeeps == AdmissionInv /\ StopService => AdmissionInv'
<1> SUFFICES ASSUME AdmissionInv, StopService PROVE AdmissionInv'
  OBVIOUS
<1>1. /\ delivery' = [d \in Deliveries |->
           IF delivery[d].pc = "new" THEN delivery[d] ELSE [delivery[d] EXCEPT !.pc = "ended"]]
      /\ windows' = [kind \in Kinds |-> 0]
      /\ UNCHANGED <<clock, database, drift, stamp>>
      /\ database => kept' = kept /\ lost' = lost
      /\ ~ database => /\ kept' = <<>>
                       /\ lost' = lost \union {m \in DOMAIN kept : ~ Expired(m)}
  BY DEF StopService
<1>2. delivery \in [Deliveries -> Threads]
  BY DEF AdmissionInv, AdmissionTypeOK, Threads
<1>3. \A d \in Deliveries :
        /\ delivery'[d] \in Threads
        /\ delivery'[d].admitted = delivery[d].admitted
        /\ delivery'[d].at = delivery[d].at /\ delivery'[d].checked = delivery[d].checked
        /\ delivery'[d].pc = "ended" \/ delivery'[d] = delivery[d]
  <2> SUFFICES ASSUME NEW d \in Deliveries
               PROVE  /\ delivery'[d] \in Threads
                      /\ delivery'[d].admitted = delivery[d].admitted
                      /\ delivery'[d].at = delivery[d].at
                      /\ delivery'[d].checked = delivery[d].checked
                      /\ delivery'[d].pc = "ended" \/ delivery'[d] = delivery[d]
    OBVIOUS
  <2>1. delivery[d] \in Threads
    BY <1>2
  <2>2. delivery'[d] = delivery[d] \/ delivery'[d] = [delivery[d] EXCEPT !.pc = "ended"]
    BY <1>1
  <2> QED BY <2>1, <2>2 DEF Threads
<1>4. delivery' \in [Deliveries -> Threads]
  BY <1>1, <1>3
<1>5. AdmissionTypeOK'
  <2>1. windows' \in [Kinds -> Nat]
    BY <1>1
  <2>2. DOMAIN kept' \subseteq Messages /\ lost' \subseteq Messages
        /\ \A m \in DOMAIN kept' : kept'[m] \in Int
    BY <1>1 DEF AdmissionInv, AdmissionTypeOK
  <2> QED BY <1>1, <1>4, <2>1, <2>2 DEF AdmissionInv, AdmissionTypeOK, Threads
<1>6. ThreadInv'
  <2> SUFFICES ASSUME NEW d \in Deliveries PROVE ThreadSound(d)'
    BY DEF ThreadInv
  <2>1. ThreadSound(d)
    BY DEF AdmissionInv, ThreadInv
  <2> QED BY <2>1, <1>1, <1>3 DEF ThreadSound
<1>7. lost \subseteq lost'
  BY <1>1
<1>8. AdmittedOnce'
  BY <1>1, <1>3, <1>7, KeepOnce
<1>9. StoreInv'
  <2>1. Admitted' = Admitted
    BY <1>3 DEF Admitted
  <2> SUFFICES ASSUME NEW d \in Admitted PROVE Remembered(d)'
    BY <2>1 DEF StoreInv
  <2>2. d \in Deliveries /\ Remembered(d)
    BY DEF Admitted, AdmissionInv, StoreInv
  <2>3. DueAt(d)' = DueAt(d) /\ Due(d)' = Due(d)
    BY <2>2, <1>1, <1>3 DEF DueAt, Due
  <2>4. MessageOf[d] \in DOMAIN kept /\ ~ database => Due(d) \/ MessageOf[d] \in lost' \/ ~ Remembered(d)
    <3>1. MessageOf[d] \in DOMAIN kept /\ ~ database /\ Expired(MessageOf[d])
            /\ kept[MessageOf[d]] >= DueAt(d) => Due(d)
      <4>1. /\ MessageOf[d] \in DOMAIN kept => kept[MessageOf[d]] \in Int
            /\ DueAt(d) \in Int /\ clock \in Nat
        BY <2>2, Numbers DEF AdmissionInv
      <4> QED BY <4>1 DEF Expired, Due
    <3> QED BY <3>1, <1>1 DEF Remembered
  <2> QED BY <2>2, <2>3, <2>4, <1>1, <1>7 DEF Remembered
<1> QED BY <1>5, <1>6, <1>8, <1>9 DEF AdmissionInv

\* Time passes.
LEMMA PassKeeps == AdmissionInv /\ Pass => AdmissionInv'
<1> SUFFICES ASSUME AdmissionInv, Pass PROVE AdmissionInv'
  OBVIOUS
<1>1. /\ clock' = clock + 1 /\ clock < MaxClock
      /\ UNCHANGED <<database, drift, stamp, kept, delivery, lost>>
      /\ windows' = [kind \in Kinds |-> 0] \/ windows' = windows
  BY DEF Pass
<1>2. clock \in 0 .. MaxClock /\ MaxClock \in Nat
  BY AdmissionAssumption DEF AdmissionInv, AdmissionTypeOK
<1>3. clock' \in 0 .. MaxClock /\ clock' \in Nat /\ clock <= clock'
  BY <1>1, <1>2
<1>4. AdmissionTypeOK'
  <2>1. windows' \in [Kinds -> Nat]
    BY <1>1 DEF AdmissionInv, AdmissionTypeOK
  <2> QED BY <2>1, <1>1, <1>3 DEF AdmissionInv, AdmissionTypeOK
<1>5. ThreadInv'
  <2> SUFFICES ASSUME NEW d \in Deliveries PROVE ThreadSound(d)'
    BY DEF ThreadInv
  <2>1. ThreadSound(d) /\ delivery[d].at \in Nat
    BY Numbers DEF AdmissionInv, ThreadInv
  <2>2. delivery'[d].at <= clock'
    BY <2>1, <1>1, <1>2 DEF ThreadSound
  <2> QED BY <2>1, <2>2, <1>1 DEF ThreadSound
<1>6. StoreInv'
  <2>1. Admitted' = Admitted
    BY <1>1 DEF Admitted
  <2> SUFFICES ASSUME NEW d \in Admitted PROVE Remembered(d)'
    BY <2>1 DEF StoreInv
  <2>2. d \in Deliveries /\ Remembered(d)
    BY DEF Admitted, AdmissionInv, StoreInv
  <2> QED BY <2>2, <1>1, <1>3, KeepRemembered
<1>7. AdmittedOnce'
  BY <1>1, KeepOnce
<1> QED BY <1>4, <1>5, <1>6, <1>7 DEF AdmissionInv

-----------------------------------------------------------------------------
\* Every step keeps the invariant.
LEMMA AdmissionNextInv == AdmissionInv /\ [AdmissionNext]_admissionVars => AdmissionInv'
<1> SUFFICES ASSUME AdmissionInv, [AdmissionNext]_admissionVars PROVE AdmissionInv'
  OBVIOUS
<1>1. ASSUME NEW d \in Deliveries, ThreadStep(d) PROVE AdmissionInv'
  BY <1>1, CountKeeps, CheckKeeps, RememberKeeps, RefuseKeeps DEF ThreadStep
<1>2. CASE StopService
  BY <1>2, StopKeeps
<1>3. CASE Pass
  BY <1>3, PassKeeps
<1>4. CASE UNCHANGED admissionVars
  <2> USE <1>4 DEF admissionVars, AdmissionInv
  <2>1. AdmissionTypeOK'
    BY DEF AdmissionTypeOK
  <2>2. ThreadInv'
    BY DEF ThreadInv, ThreadSound
  <2>3. StoreInv'
    BY DEF StoreInv, Admitted, Remembered, Due, DueAt
  <2>4. AdmittedOnce'
    BY KeepOnce
  <2> QED BY <2>1, <2>2, <2>3, <2>4
<1> QED BY <1>1, <1>2, <1>3, <1>4 DEF AdmissionNext

\* The invariant: what a store forgets before its time is in lost.
THEOREM AdmissionInvariant == AdmissionSpec => []AdmissionInv
<1> QED BY AdmissionInitInv, AdmissionNextInv, PTL DEF AdmissionSpec

\* A request or an event is admitted twice only as AdmittedOnce says: after a loss of
\* the store, or by a thread that waited longer than the margin of the clocks.
THEOREM AlwaysAdmittedOnce == AdmissionSpec => []AdmittedOnce
<1> QED BY AdmissionInvariant, PTL DEF AdmissionInv

=============================================================================
