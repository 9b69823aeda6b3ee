------------------------------- MODULE Mailbox -------------------------------
(***************************************************************************)
(* The relay of a node: the HTTP handlers push, pull (with long polling)   *)
(* and ack, the policy layer of buh-core, the Turso repository with its    *)
(* per-queue in-process notifiers, and the TTL sweeper.                    *)
(*                                                                         *)
(* Every client slot runs one request at a time.  A request is a sequence  *)
(* of steps, one per statement executed against the embedded database or   *)
(* per point at which the task can be suspended; requests interleave at    *)
(* those points.  Statements autocommit, so the tables survive a crash and *)
(* everything else (requests in flight, waiters, the sweeper) does not.    *)
(***************************************************************************)
EXTENDS Integers, FiniteSets

CONSTANTS
  Client,        \* request slots: at most one request in flight in each
  Queue,         \* queue ids, the capability a request names
  EnvelopeId,    \* ids the node may mint (UUIDs: never minted twice)
  None,          \* absence: no queue, no envelope, no sweep
  MaxClock,      \* bound: the wall clock stops here
  MaxRowId,      \* bound: row ids the table may give out
  DefaultTtl,    \* config.default_ttl_seconds
  MaxTtl,        \* config.max_ttl_seconds
  MaxPullLimit,  \* config.max_pull_limit
  ReqTtl,        \* ttl_seconds values that clients ask for
  ReqLimit       \* limit values that clients ask for

ASSUME MailboxAssumption ==
  /\ MaxClock \in Nat
  /\ MaxRowId \in Nat
  /\ MaxTtl \in Nat \ {0}
  /\ DefaultTtl \in Nat \ {0}     \* may be above the maximum: nothing compares them
  /\ MaxPullLimit \in Nat \ {0}   \* i64::clamp panics on an empty range
  /\ ReqTtl \subseteq Int
  /\ ReqLimit \subseteq Int
  /\ None \notin EnvelopeId
  /\ None \notin Queue
  /\ None \notin Int

VARIABLES
  envelopes,   \* table envelopes: the row of each id
  receipts,    \* table delivery_receipts: how many rows name the envelope
  clock,       \* Utc::now()
  sweep,       \* the sweeper task: None between sweeps, else the now it read
  pc,          \* where each slot's request stands
  arg,         \* the locals of each slot's request
  out          \* the reply each slot got, until its next request

vars == <<envelopes, receipts, clock, sweep, pc, arg, out>>

-----------------------------------------------------------------------------
(***************************************************************************)
(* Values                                                                  *)
(***************************************************************************)
Time == Nat

\* A row of the table, while state is "stored"; before and after that there is
\* none, and what a swept row keeps is history.  So is `prior`: the envelopes of
\* the queue that were stored when this one's push read the clock.  Of
\* delivered_at only NULL or not matters.
Row == [state : {"unsent", "stored", "swept"}, id : Nat,
        queue : Queue \cup {None}, received : Time, expires : Time,
        delivered : BOOLEAN, prior : SUBSET EnvelopeId]

NoRow == [state |-> "unsent", id |-> 0, queue |-> None, received |-> 0,
          expires |-> 0, delivered |-> FALSE, prior |-> {}]

Arg == [queue : Queue \cup {None}, env : EnvelopeId \cup {None}, now : Time,
        expires : Time, limit : Int, wait : BOOLEAN, seen : SUBSET EnvelopeId]

NoArg == [queue |-> None, env |-> None, now |-> 0, expires |-> 0, limit |-> 1,
          wait |-> FALSE, seen |-> {}]

Reply == [kind : {"none", "accepted", "envelopes", "acked", "not_acked",
                  "error"},
          envs : SUBSET EnvelopeId]

NoReply == [kind |-> "none", envs |-> {}]

Steps == {"idle", "insert", "notify", "select", "listen", "waiting", "woken",
          "reselect", "update", "receipt"}

-----------------------------------------------------------------------------
(***************************************************************************)
(* Policy and queries                                                      *)
(***************************************************************************)
Stored(e) == envelopes[e].state = "stored"

\* The longest TTL the policy grants.
LongestTtl == IF DefaultTtl < MaxTtl THEN MaxTtl ELSE DefaultTtl

\* Mutant of ClampTtl: no default for a non-positive request.
ClampTtl_NoDefault(ttl) == IF ttl < MaxTtl THEN ttl ELSE MaxTtl

\* clamp_ttl: a non-positive request gets the default, any other one the
\* smaller of itself and the maximum.
ClampTtl(ttl) ==
  IF ttl <= 0 THEN DefaultTtl ELSE IF ttl < MaxTtl THEN ttl ELSE MaxTtl

ClampLimit(limit) ==
  IF limit < 1 THEN 1 ELSE IF limit < MaxPullLimit THEN limit ELSE MaxPullLimit

\* WHERE queue_id = q AND delivered_at IS NULL AND expires_at > now
Live(q, now) ==
  {e \in EnvelopeId : /\ Stored(e)
                      /\ envelopes[e].queue = q
                      /\ ~envelopes[e].delivered
                      /\ envelopes[e].expires > now}

\* Mutant of Before: ORDER BY received_at alone.
Before_NoTieBreak(e, f) == envelopes[e].received < envelopes[f].received

\* ORDER BY received_at ASC, id ASC
Before(e, f) ==
  \/ envelopes[e].received < envelopes[f].received
  \/ /\ envelopes[e].received = envelopes[f].received
     /\ envelopes[e].id < envelopes[f].id

\* ... LIMIT limit: the live rows with fewer than `limit` rows in front.
PullRows(q, now, limit) ==
  {e \in Live(q, now) :
     Cardinality({f \in Live(q, now) : Before(f, e)}) < ClampLimit(limit)}

\* INTEGER PRIMARY KEY: one more than the largest id in the table, so the id of
\* a deleted row may come back.
IsNextId(n) ==
  /\ \A e \in EnvelopeId : Stored(e) => envelopes[e].id < n
  /\ n = 1 \/ \E e \in EnvelopeId : Stored(e) /\ envelopes[e].id = n - 1

-----------------------------------------------------------------------------
(***************************************************************************)
(* Requests                                                                *)
(***************************************************************************)
Goto(c, step, locals) ==
  /\ pc' = [pc EXCEPT ![c] = step]
  /\ arg' = [arg EXCEPT ![c] = locals]
  /\ out' = [out EXCEPT ![c] = NoReply]

Answer(c, kind, envs) ==
  /\ pc' = [pc EXCEPT ![c] = "idle"]
  /\ arg' = [arg EXCEPT ![c] = NoArg]
  /\ out' = [out EXCEPT ![c] = [kind |-> kind, envs |-> envs]]

Init ==
  /\ envelopes = [e \in EnvelopeId |-> NoRow]
  /\ receipts = [e \in EnvelopeId |-> 0]
  /\ clock = 0
  /\ sweep = None
  /\ pc = [c \in Client |-> "idle"]
  /\ arg = [c \in Client |-> NoArg]
  /\ out = [c \in Client |-> NoReply]

\* A malformed id in the path, or an empty or oversized payload, is refused before
\* the repository is called.
Reject(c) ==
  /\ pc[c] = "idle"
  /\ Answer(c, "error", {})
  /\ UNCHANGED <<envelopes, receipts, clock, sweep>>

\* The TTL is clamped and the repository reads the clock, once, for both stamps.
PushStart(c, q, ttl) ==
  /\ pc[c] = "idle"
  /\ Goto(c, "insert",
          [NoArg EXCEPT !.queue = q, !.now = clock,
                        !.expires = clock + ClampTtl(ttl),
                        !.seen = {e \in EnvelopeId :
                                    Stored(e) /\ envelopes[e].queue = q}])
  /\ UNCHANGED <<envelopes, receipts, clock, sweep>>

PushInsert(c, e, id) ==
  /\ pc[c] = "insert"
  /\ envelopes[e].state = "unsent"
  /\ IsNextId(id)
  /\ envelopes' = [envelopes EXCEPT ![e] =
       [state |-> "stored", id |-> id, queue |-> arg[c].queue,
        received |-> arg[c].now, expires |-> arg[c].expires,
        delivered |-> FALSE, prior |-> arg[c].seen]]
  /\ Goto(c, "notify", [arg[c] EXCEPT !.env = e])
  /\ UNCHANGED <<receipts, clock, sweep>>

\* Mutant of Waiters: push does not notify.
Waiters_None(q) == {}

\* notify_waiters: wakes the futures that exist now, and stores no permit.
Waiters(q) == {w \in Client : pc[w] = "waiting" /\ arg[w].queue = q}

PushNotify(c) ==
  /\ pc[c] = "notify"
  /\ pc' = [w \in Client |->
              IF w = c THEN "idle"
              ELSE IF w \in Waiters(arg[c].queue) THEN "woken"
              ELSE pc[w]]
  /\ arg' = [arg EXCEPT ![c] = NoArg]
  /\ out' = [out EXCEPT ![c] = [kind |-> "accepted", envs |-> {arg[c].env}]]
  /\ UNCHANGED <<envelopes, receipts, clock, sweep>>

PullStart(c, q, limit, wait) ==
  /\ pc[c] = "idle"
  /\ Goto(c, "select",
          [NoArg EXCEPT !.queue = q, !.limit = limit, !.wait = wait,
                        !.now = clock])
  /\ UNCHANGED <<envelopes, receipts, clock, sweep>>

\* The first SELECT.  Rows, or no wait: reply.  No rows and a wait: go on to
\* wait_for_envelope.
PullSelect(c) ==
  /\ pc[c] = "select"
  /\ LET rows == PullRows(arg[c].queue, arg[c].now, arg[c].limit)
     IN  IF rows = {} /\ arg[c].wait
         THEN Goto(c, "listen", arg[c])
         ELSE Answer(c, "envelopes", rows)
  /\ UNCHANGED <<envelopes, receipts, clock, sweep>>

\* wait_for_envelope gets the queue's notifier and creates its future.  `seen`
\* is history: what the queue already held.
PullListen(c) ==
  /\ pc[c] = "listen"
  /\ Goto(c, "waiting",
          [arg[c] EXCEPT !.seen = {e \in EnvelopeId :
             Stored(e) /\ envelopes[e].queue = arg[c].queue}])
  /\ UNCHANGED <<envelopes, receipts, clock, sweep>>

\* Mutant of PullTimeout: the poll goes on while the queue has something.
PullTimeout_IfEmpty(c) ==
  /\ pc[c] = "waiting"
  /\ Live(arg[c].queue, clock) = {}
  /\ Answer(c, "envelopes", {})
  /\ UNCHANGED <<envelopes, receipts, clock, sweep>>

\* The timeout fires first: the empty result of the first SELECT is the reply.
PullTimeout(c) ==
  /\ pc[c] = "waiting"
  /\ Answer(c, "envelopes", {})
  /\ UNCHANGED <<envelopes, receipts, clock, sweep>>

\* Woken: the handler pulls again, reading the clock afresh.
PullWoken(c) ==
  /\ pc[c] = "woken"
  /\ Goto(c, "reselect", [arg[c] EXCEPT !.now = clock, !.seen = {}])
  /\ UNCHANGED <<envelopes, receipts, clock, sweep>>

PullReselect(c) ==
  /\ pc[c] = "reselect"
  /\ Answer(c, "envelopes", PullRows(arg[c].queue, arg[c].now, arg[c].limit))
  /\ UNCHANGED <<envelopes, receipts, clock, sweep>>

AckStart(c, q, e) ==
  /\ pc[c] = "idle"
  /\ Goto(c, "update", [NoArg EXCEPT !.queue = q, !.env = e, !.now = clock])
  /\ UNCHANGED <<envelopes, receipts, clock, sweep>>

\* Mutant of AckHits: no delivered_at IS NULL.
AckHits_Again(q, e) == Stored(e) /\ envelopes[e].queue = q

\* UPDATE ... WHERE queue_id = q AND envelope_id = e AND delivered_at IS NULL:
\* the expiry is not looked at.
AckHits(q, e) ==
  /\ Stored(e)
  /\ envelopes[e].queue = q
  /\ ~envelopes[e].delivered

\* Mutant of AckUpdate: affected == 0 is not looked at.
AckUpdate_Always(c) ==
  /\ pc[c] = "update"
  /\ envelopes' = [envelopes EXCEPT ![arg[c].env].delivered =
                     @ \/ AckHits(arg[c].queue, arg[c].env)]
  /\ Goto(c, "receipt", arg[c])
  /\ UNCHANGED <<receipts, clock, sweep>>

AckUpdate(c) ==
  /\ pc[c] = "update"
  /\ LET e == arg[c].env
     IN  IF AckHits(arg[c].queue, e)
         THEN /\ envelopes' = [envelopes EXCEPT ![e].delivered = TRUE]
              /\ Goto(c, "receipt", arg[c])
         ELSE /\ Answer(c, "not_acked", {e})
              /\ UNCHANGED envelopes
  /\ UNCHANGED <<receipts, clock, sweep>>

\* The receipt is a second statement, outside any transaction.
AckReceipt(c) ==
  /\ pc[c] = "receipt"
  /\ receipts' = [receipts EXCEPT ![arg[c].env] = @ + 1]
  /\ Answer(c, "acked", {arg[c].env})
  /\ UNCHANGED <<envelopes, clock, sweep>>

\* A statement fails: it has no effect and the request ends in an error.
StoreError(c) ==
  /\ pc[c] \in {"insert", "select", "reselect", "update", "receipt"}
  /\ Answer(c, "error", {})
  /\ UNCHANGED <<envelopes, receipts, clock, sweep>>

\* The client goes away: the handler's future is dropped where it is suspended.
Disconnect(c) ==
  /\ pc[c] \in {"insert", "select", "waiting", "woken", "reselect",
                "update", "receipt"}
  /\ Answer(c, "none", {})
  /\ UNCHANGED <<envelopes, receipts, clock, sweep>>

-----------------------------------------------------------------------------
(***************************************************************************)
(* The sweeper, time, and the process                                      *)
(***************************************************************************)
SweepTick ==
  /\ sweep = None
  /\ sweep' = clock
  /\ UNCHANGED <<envelopes, receipts, clock, pc, arg, out>>

\* Mutants of Expired: a tick early, and never at the boundary.
Expired_Early(e, now) == Stored(e) /\ envelopes[e].expires <= now + 1

Expired_Strict(e, now) == Stored(e) /\ envelopes[e].expires < now

\* DELETE FROM envelopes WHERE expires_at <= now, acknowledged rows included.
Expired(e, now) == Stored(e) /\ envelopes[e].expires <= now

SweepDelete ==
  /\ sweep # None
  /\ envelopes' = [e \in EnvelopeId |->
                     IF Expired(e, sweep)
                     THEN [NoRow EXCEPT !.state = "swept",
                                        !.expires = envelopes[e].expires,
                                        !.delivered = envelopes[e].delivered]
                     ELSE envelopes[e]]
  /\ sweep' = None
  /\ UNCHANGED <<receipts, clock, pc, arg, out>>

\* A failed sweep is logged; the next tick tries again.
SweepError ==
  /\ sweep # None
  /\ sweep' = None
  /\ UNCHANGED <<envelopes, receipts, clock, pc, arg, out>>

Tick ==
  /\ clock < MaxClock
  /\ clock' = clock + 1
  /\ UNCHANGED <<envelopes, receipts, sweep, pc, arg, out>>

\* The process stops anywhere and is started again: only the tables remain.
Restart ==
  /\ pc' = [c \in Client |-> "idle"]
  /\ arg' = [c \in Client |-> NoArg]
  /\ sweep' = None
  /\ UNCHANGED <<envelopes, receipts, clock, out>>

ClientStep(c) ==
  \/ Reject(c)
  \/ \E q \in Queue, ttl \in ReqTtl : PushStart(c, q, ttl)
  \/ \E e \in EnvelopeId, id \in 1..MaxRowId : PushInsert(c, e, id)
  \/ PushNotify(c)
  \/ \E q \in Queue, l \in ReqLimit, w \in BOOLEAN : PullStart(c, q, l, w)
  \/ PullSelect(c)
  \/ PullListen(c)
  \/ PullTimeout(c)
  \/ PullWoken(c)
  \/ PullReselect(c)
  \/ \E q \in Queue, e \in EnvelopeId : AckStart(c, q, e)
  \/ AckUpdate(c)
  \/ AckReceipt(c)
  \/ StoreError(c)
  \/ Disconnect(c)

Next ==
  \/ \E c \in Client : ClientStep(c)
  \/ SweepTick
  \/ SweepDelete
  \/ SweepError
  \/ Tick
  \/ Restart

Spec == Init /\ [][Next]_vars

-----------------------------------------------------------------------------
(***************************************************************************)
(* Properties                                                              *)
(***************************************************************************)

\* Every variable holds values of its kind.
TypeOK ==
  /\ envelopes \in [EnvelopeId -> Row]
  /\ receipts \in [EnvelopeId -> Nat]
  /\ clock \in Time
  /\ sweep \in Time \cup {None}
  /\ pc \in [Client -> Steps]
  /\ arg \in [Client -> Arg]
  /\ out \in [Client -> Reply]

\* Acks of one envelope that race, repeat or are cut short leave at most one
\* receipt, and never one for an envelope a pull would still serve.
ReceiptOnce ==
  \A e \in EnvelopeId :
    /\ receipts[e] <= 1
    /\ receipts[e] = 1 => envelopes[e].delivered

\* acknowledged = true is never said to two requests about one envelope, and
\* whoever was told so can rely on the receipt being stored.
AckWonOnce ==
  \A c, d \in Client :
    /\ out[c].kind = "acked"
    /\ out[d].kind = "acked"
    /\ out[c].envs \cap out[d].envs # {}
    => c = d /\ \A e \in out[c].envs : receipts[e] = 1

\* An envelope pushed after another one of its queue was stored is served after
\* it, also when both carry the same received_at and after ids are reused: the
\* order in which one sender's handshake and first message must arrive.
SequentialPushOrder ==
  \A e, f \in EnvelopeId :
    Stored(e) /\ Stored(f) /\ f \in envelopes[e].prior => Before(f, e)

\* A waiting long poll is owed a wake-up for every live envelope that arrived
\* after it began to listen: the notify of that push is still to come.
WokenByLaterPush ==
  \A c \in Client : pc[c] = "waiting" =>
    \A e \in Live(arg[c].queue, clock) :
      \/ e \in arg[c].seen
      \/ \E p \in Client : pc[p] = "notify" /\ arg[p].env = e

\* A receipt is owed while the ack that won the UPDATE is between its two
\* statements.
Owing ==
  {e \in EnvelopeId :
     \E c \in Client : pc[c] = "receipt" /\ arg[c].env = e}

RQ == INSTANCE RelayQueue WITH
  accepted <- {e \in EnvelopeId : envelopes[e].state # "unsent"},
  acked <- {e \in EnvelopeId : envelopes[e].delivered},
  forgotten <- {e \in EnvelopeId : envelopes[e].state = "swept"},
  owing <- Owing,
  receipted <- {e \in EnvelopeId : receipts[e] > 0},
  deadline <- [e \in EnvelopeId |-> envelopes[e].expires],
  now <- clock

\* Through every interleaving of requests, sweeps, failures and restarts the tables
\* keep an envelope as RelayQueue says: until it is acknowledged, once, or out of
\* time, with a receipt that only a cut ack can lose.
RelayQueueSpec == RQ!Spec

\* A long poll comes back: on rows, on a wake-up, on its timeout, or cut short.
PollReturns ==
  \A c \in Client :
    pc[c] \in {"select", "listen", "waiting", "woken", "reselect"}
      ~> pc[c] = "idle"

\* What has expired is deleted in the end, acknowledged or not.
ExpiredReclaimed ==
  \A e \in EnvelopeId :
    (Stored(e) /\ envelopes[e].expires <= clock) ~> ~Stored(e)

(***************************************************************************)
(* A statement of the MailboxRepo port's documentation that the code does  *)
(* not keep (buh-core/src/ports.rs:49).                                    *)
(***************************************************************************)

\* "Block until an envelope is available for `queue_id`": no poll stays blocked
\* on a live envelope whose push has already done its notify.
WaitUntilAvailable ==
  \A c \in Client : pc[c] = "waiting" =>
    \A e \in Live(arg[c].queue, clock) :
      \E p \in Client : pc[p] = "notify" /\ arg[p].env = e
=============================================================================
