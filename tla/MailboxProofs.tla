---------------------------- MODULE MailboxProofs ----------------------------
(***************************************************************************)
(* Proofs about Mailbox and Startup, for any sets of request slots, queues *)
(* and envelopes and any limits that MailboxAssumption allows.             *)
(***************************************************************************)
EXTENDS Startup, TLAPS

\* A request that has an envelope in hand names one the node can mint.
RequestInv ==
  \A c \in Client :
    pc[c] \in {"notify", "update", "receipt"} => arg[c].env \in EnvelopeId

TypeInv == TypeOK /\ RequestInv

-----------------------------------------------------------------------------
(***************************************************************************)
(* The policy helpers                                                      *)
(***************************************************************************)

\* clamp_ttl answers with a TTL within the node's policy, whatever was asked and
\* whichever of the default and the maximum is the larger.
LEMMA ClampTtlRange ==
  ASSUME NEW ttl \in Int
  PROVE  ClampTtl(ttl) \in 1..LongestTtl
BY MailboxAssumption DEF ClampTtl, LongestTtl

\* The policy has a longest TTL.
LEMMA LongestTtlType == LongestTtl \in Nat
BY MailboxAssumption DEF LongestTtl

\* A request that is started, moved on or answered stays well typed.
LEMMA GotoType ==
  ASSUME TypeOK, NEW c \in Client, NEW step \in Steps, NEW locals \in Arg,
         Goto(c, step, locals)
  PROVE  /\ pc' \in [Client -> Steps]
         /\ arg' \in [Client -> Arg]
         /\ out' \in [Client -> Reply]
<1>1. NoReply \in Reply
  BY Zenon DEF NoReply, Reply
<1> QED
  BY <1>1, Zenon DEF TypeOK, Goto

\* A reply ends a request well typed.
LEMMA AnswerType ==
  ASSUME TypeOK, NEW c \in Client,
         NEW kind \in {"none", "accepted", "envelopes", "acked", "not_acked",
                       "error"},
         NEW envs \in SUBSET EnvelopeId,
         Answer(c, kind, envs)
  PROVE  /\ pc' \in [Client -> Steps]
         /\ arg' \in [Client -> Arg]
         /\ out' \in [Client -> Reply]
<1>1. NoArg \in Arg
  BY DEF NoArg, Arg, Time
<1>2. [kind |-> kind, envs |-> envs] \in Reply
  BY Zenon DEF Reply
<1>3. "idle" \in Steps
  BY Zenon DEF Steps
<1> QED
  BY <1>1, <1>2, <1>3, Zenon DEF TypeOK, Answer

\* A request that only ends, and one that only moves on, keeps the invariant.
LEMMA AnswerKeeps ==
  ASSUME TypeInv, NEW c \in Client,
         NEW kind \in {"none", "accepted", "envelopes", "acked", "not_acked",
                       "error"},
         NEW envs \in SUBSET EnvelopeId,
         Answer(c, kind, envs),
         UNCHANGED <<envelopes, receipts, clock, sweep>>
  PROVE  TypeInv'
<1>1. RequestInv'
  BY Zenon DEF TypeInv, TypeOK, RequestInv, Answer
<1> QED
  BY <1>1, AnswerType, Zenon DEF TypeInv, TypeOK

\* Moving a request on keeps types and locals.
LEMMA GotoKeeps ==
  ASSUME TypeInv, NEW c \in Client, NEW step \in Steps, NEW locals \in Arg,
         step \in {"notify", "update", "receipt"} => locals.env \in EnvelopeId,
         Goto(c, step, locals),
         UNCHANGED <<envelopes, receipts, clock, sweep>>
  PROVE  TypeInv'
<1>1. RequestInv'
  BY Zenon DEF TypeInv, TypeOK, RequestInv, Goto
<1> QED
  BY <1>1, GotoType, Zenon DEF TypeInv, TypeOK

-----------------------------------------------------------------------------
(***************************************************************************)
(* Types                                                                   *)
(***************************************************************************)
LEMMA TypeInit == Init => TypeInv
<1> SUFFICES ASSUME Init PROVE TypeInv
  BY Zenon
<1>1. NoRow \in Row /\ NoArg \in Arg /\ NoReply \in Reply /\ "idle" \in Steps
  BY DEF NoRow, Row, NoArg, Arg, NoReply, Reply, Steps, Time
<1>2. TypeOK
  BY <1>1, Zenon DEF Init, TypeOK, Time
<1>3. RequestInv
  BY Zenon DEF Init, RequestInv
<1> QED
  BY <1>2, <1>3, Zenon DEF TypeInv

\* The type invariant is inductive, action by action.
LEMMA TypeNext == TypeInv /\ [Next]_vars => TypeInv'
<1> SUFFICES ASSUME TypeInv, [Next]_vars PROVE TypeInv'
  BY Zenon
<1> USE DEF TypeInv
<1>t. /\ envelopes \in [EnvelopeId -> Row]
      /\ receipts \in [EnvelopeId -> Nat]
      /\ clock \in Nat
      /\ sweep \in Nat \cup {None}
      /\ pc \in [Client -> Steps]
      /\ arg \in [Client -> Arg]
      /\ out \in [Client -> Reply]
  BY Zenon DEF TypeOK, Time
<1>a. NoArg \in Arg /\ "idle" \in Steps
  BY DEF NoArg, Arg, Steps, Time
<1>1. ASSUME NEW c \in Client, Reject(c) PROVE TypeInv'
  BY <1>1, AnswerKeeps DEF Reject
<1>2. ASSUME NEW c \in Client, NEW q \in Queue, NEW ttl \in ReqTtl,
             PushStart(c, q, ttl)
      PROVE  TypeInv'
  <2> DEFINE locals ==
        [NoArg EXCEPT !.queue = q, !.now = clock,
                      !.expires = clock + ClampTtl(ttl),
                      !.seen = {e \in EnvelopeId :
                                  Stored(e) /\ envelopes[e].queue = q}]
  <2>1. ttl \in Int
    BY MailboxAssumption, Zenon
  <2>2. clock + ClampTtl(ttl) \in Nat
    BY <2>1, ClampTtlRange, MailboxAssumption, <1>t
  <2>3. locals \in Arg
    BY <2>1, <2>2, <1>t, <1>a, Zenon DEF Arg, Time
  <2>4. Goto(c, "insert", locals) /\ "insert" \in Steps
    BY <1>2, Zenon DEF PushStart, Steps
  <2> HIDE DEF locals
  <2> QED
    BY <1>2, <2>3, <2>4, GotoKeeps, Zenon DEF PushStart
<1>3. ASSUME NEW c \in Client, NEW e \in EnvelopeId, NEW id \in 1..MaxRowId,
             PushInsert(c, e, id)
      PROVE  TypeInv'
  <2>1. arg[c] \in Arg
    BY <1>t, Zenon
  <2>2. id \in Nat
    BY MailboxAssumption
  <2>3. [state |-> "stored", id |-> id, queue |-> arg[c].queue,
         received |-> arg[c].now, expires |-> arg[c].expires,
         delivered |-> FALSE, prior |-> arg[c].seen] \in Row
    BY <2>1, <2>2, Zenon DEF Arg, Row
  <2>4. [arg[c] EXCEPT !.env = e] \in Arg /\ "notify" \in Steps
    BY <2>1, Zenon DEF Arg, Steps
  <2>5. pc' \in [Client -> Steps] /\ arg' \in [Client -> Arg] /\ out' \in [Client -> Reply]
    BY <1>3, <2>4, GotoType, Zenon DEF PushInsert
  <2>6. RequestInv'
    BY <1>3, <1>t, <2>1, Zenon DEF PushInsert, Goto, RequestInv, Arg
  <2>7. envelopes' \in [EnvelopeId -> Row]
    BY <1>3, <2>3, <1>t, Zenon DEF PushInsert
  <2> QED
    BY <1>3, <2>5, <2>6, <2>7, <1>t, Zenon DEF PushInsert, TypeOK, Time
<1>4. ASSUME NEW c \in Client, PushNotify(c) PROVE TypeInv'
  <2>1. [kind |-> "accepted", envs |-> {arg[c].env}] \in Reply
    BY <1>4, Zenon DEF PushNotify, RequestInv, Reply
  <2>2. pc' \in [Client -> Steps]
    BY <1>4, <1>t, <1>a, Zenon DEF PushNotify, Steps
  <2>3. arg' \in [Client -> Arg] /\ out' \in [Client -> Reply]
    BY <1>4, <2>1, <1>t, <1>a, Zenon DEF PushNotify
  <2>4. RequestInv'
    BY <1>4, <1>t, Zenon DEF PushNotify, RequestInv
  <2> QED
    BY <1>4, <2>2, <2>3, <2>4, <1>t, Zenon DEF PushNotify, TypeOK, Time
<1>5. ASSUME NEW c \in Client, NEW q \in Queue, NEW l \in ReqLimit,
             NEW w \in BOOLEAN, PullStart(c, q, l, w)
      PROVE  TypeInv'
  <2> DEFINE locals == [NoArg EXCEPT !.queue = q, !.limit = l, !.wait = w,
                                     !.now = clock]
  <2>1. locals \in Arg /\ "select" \in Steps
    BY MailboxAssumption, <1>t, <1>a, Zenon DEF Arg, Steps, Time
  <2>2. Goto(c, "select", locals)
    BY <1>5, Zenon DEF PullStart
  <2> HIDE DEF locals
  <2> QED
    BY <1>5, <2>1, <2>2, GotoKeeps, Zenon DEF PullStart
<1>6. ASSUME NEW c \in Client, PullSelect(c) PROVE TypeInv'
  <2> DEFINE rows == PullRows(arg[c].queue, arg[c].now, arg[c].limit)
  <2>1. rows \in SUBSET EnvelopeId
    BY Zenon DEF PullRows, Live
  <2>2. "listen" \in Steps /\ arg[c] \in Arg
    BY <1>t, Zenon DEF Steps
  <2>3. \/ Goto(c, "listen", arg[c])
        \/ Answer(c, "envelopes", rows)
    BY <1>6, Zenon DEF PullSelect
  <2> HIDE DEF rows
  <2> QED
    BY <1>6, <2>1, <2>2, <2>3, GotoKeeps, AnswerKeeps, Zenon DEF PullSelect
<1>7. ASSUME NEW c \in Client, PullListen(c) PROVE TypeInv'
  <2> DEFINE locals == [arg[c] EXCEPT !.seen = {e \in EnvelopeId :
                          Stored(e) /\ envelopes[e].queue = arg[c].queue}]
  <2>1. arg[c] \in Arg
    BY <1>t, Zenon
  <2>2. locals \in Arg /\ "waiting" \in Steps
    BY <2>1, Zenon DEF Arg, Steps
  <2>3. Goto(c, "waiting", locals)
    BY <1>7, Zenon DEF PullListen
  <2> HIDE DEF locals
  <2> QED
    BY <1>7, <2>2, <2>3, GotoKeeps, Zenon DEF PullListen
<1>8. ASSUME NEW c \in Client, PullTimeout(c) PROVE TypeInv'
  BY <1>8, AnswerKeeps DEF PullTimeout
<1>9. ASSUME NEW c \in Client, PullWoken(c) PROVE TypeInv'
  <2> DEFINE locals == [arg[c] EXCEPT !.now = clock, !.seen = {}]
  <2>1. arg[c] \in Arg
    BY <1>t, Zenon
  <2>2. locals \in Arg /\ "reselect" \in Steps
    BY <2>1, <1>t, Zenon DEF Arg, Steps, Time
  <2>3. Goto(c, "reselect", locals)
    BY <1>9, Zenon DEF PullWoken
  <2> HIDE DEF locals
  <2> QED
    BY <1>9, <2>2, <2>3, GotoKeeps, Zenon DEF PullWoken
<1>10. ASSUME NEW c \in Client, PullReselect(c) PROVE TypeInv'
  <2> DEFINE rows == PullRows(arg[c].queue, arg[c].now, arg[c].limit)
  <2>1. rows \in SUBSET EnvelopeId
    BY Zenon DEF PullRows, Live
  <2>2. Answer(c, "envelopes", rows)
    BY <1>10, Zenon DEF PullReselect
  <2> HIDE DEF rows
  <2> QED
    BY <1>10, <2>1, <2>2, AnswerKeeps, Zenon DEF PullReselect
<1>11. ASSUME NEW c \in Client, NEW q \in Queue, NEW e \in EnvelopeId,
              AckStart(c, q, e)
       PROVE  TypeInv'
  <2> DEFINE locals == [NoArg EXCEPT !.queue = q, !.env = e, !.now = clock]
  <2>1. locals \in Arg /\ locals.env = e /\ "update" \in Steps
    BY <1>t, <1>a, Zenon DEF Arg, Steps, Time
  <2>2. Goto(c, "update", locals)
    BY <1>11, Zenon DEF AckStart
  <2> HIDE DEF locals
  <2> QED
    BY <1>11, <2>1, <2>2, GotoKeeps, Zenon DEF AckStart
<1>12. ASSUME NEW c \in Client, AckUpdate(c) PROVE TypeInv'
  <2>1. arg[c].env \in EnvelopeId /\ arg[c] \in Arg /\ "receipt" \in Steps
    BY <1>12, <1>t, Zenon DEF AckUpdate, RequestInv, Steps
  <2>2. \/ Goto(c, "receipt", arg[c])
        \/ Answer(c, "not_acked", {arg[c].env})
    BY <1>12, Zenon DEF AckUpdate
  <2>3. pc' \in [Client -> Steps] /\ arg' \in [Client -> Arg] /\ out' \in [Client -> Reply]
    BY <2>1, <2>2, GotoType, AnswerType
  <2>4. envelopes' \in [EnvelopeId -> Row]
    <3>1. envelopes[arg[c].env] \in Row
      BY <1>t, <2>1, Zenon
    <3>2. [envelopes[arg[c].env] EXCEPT !.delivered = TRUE] \in Row
      BY <3>1, Zenon DEF Row
    <3> QED
      BY <1>12, <1>t, <2>1, <3>2, Zenon DEF AckUpdate
  <2>5. RequestInv'
    BY <2>1, <2>2, <1>t, Zenon DEF Goto, Answer, RequestInv
  <2> QED
    BY <1>12, <2>3, <2>4, <2>5, <1>t, Zenon DEF AckUpdate, TypeOK, Time
<1>13. ASSUME NEW c \in Client, AckReceipt(c) PROVE TypeInv'
  <2>1. arg[c].env \in EnvelopeId
    BY <1>13, Zenon DEF AckReceipt, RequestInv
  <2>2. receipts' \in [EnvelopeId -> Nat]
    BY <1>13, <2>1, <1>t DEF AckReceipt
  <2>3. pc' \in [Client -> Steps] /\ arg' \in [Client -> Arg] /\ out' \in [Client -> Reply]
    BY <1>13, <2>1, AnswerType DEF AckReceipt
  <2>4. RequestInv'
    BY <1>13, <1>t, Zenon DEF AckReceipt, Answer, RequestInv
  <2> QED
    BY <1>13, <2>2, <2>3, <2>4, <1>t, Zenon DEF AckReceipt, TypeOK, Time
<1>14. ASSUME NEW c \in Client, StoreError(c) PROVE TypeInv'
  BY <1>14, AnswerKeeps DEF StoreError
<1>15. ASSUME NEW c \in Client, Disconnect(c) PROVE TypeInv'
  BY <1>15, AnswerKeeps DEF Disconnect
<1>16. CASE SweepTick
  BY <1>16, <1>t, Zenon DEF SweepTick, TypeOK, RequestInv, Time
<1>17. CASE SweepDelete
  <2>1. ASSUME NEW e \in EnvelopeId
        PROVE  [NoRow EXCEPT !.state = "swept", !.expires = envelopes[e].expires,
                             !.delivered = envelopes[e].delivered] \in Row
    BY <1>t, Zenon DEF NoRow, Row, Time
  <2>2. envelopes' \in [EnvelopeId -> Row]
    BY <1>17, <1>t, <2>1, Zenon DEF SweepDelete
  <2> QED
    BY <1>17, <1>t, <2>2, Zenon DEF SweepDelete, TypeOK, RequestInv, Time
<1>18. CASE SweepError
  BY <1>18, <1>t, Zenon DEF SweepError, TypeOK, RequestInv, Time
<1>19. CASE Tick
  BY <1>19, <1>t DEF Tick, TypeOK, RequestInv, Time
<1>20. CASE Restart
  BY <1>20, <1>t, <1>a, Zenon DEF Restart, TypeOK, RequestInv, Time
<1>21. CASE UNCHANGED vars
  BY <1>21, Zenon DEF vars, TypeOK, RequestInv
<1> QED
  BY <1>1, <1>2, <1>3, <1>4, <1>5, <1>6, <1>7, <1>8, <1>9, <1>10, <1>11, <1>12,
     <1>13, <1>14, <1>15, <1>16, <1>17, <1>18, <1>19, <1>20, <1>21, Zenon
  DEF Next, ClientStep

\* Every state the relay reaches is well typed.
THEOREM TypeCorrect == Spec => []TypeOK
<1>1. Spec => []TypeInv
  BY TypeInit, TypeNext, PTL DEF Spec
<1>2. TypeInv => TypeOK
  BY Zenon DEF TypeInv
<1> QED
  BY <1>1, <1>2, PTL

-----------------------------------------------------------------------------
(***************************************************************************)
(* Acknowledgements.  ReceiptOnce alone is not inductive: an ack adds its  *)
(* receipt in a second statement, so the slots between the two statements  *)
(* have to be counted in.  Each envelope has at most one such slot, which  *)
(* won the UPDATE, and has no receipt while it exists.                     *)
(***************************************************************************)
AckRows ==
  \A e \in EnvelopeId :
    /\ envelopes[e].state = "unsent" => ~envelopes[e].delivered
    /\ receipts[e] \in {0, 1}
    /\ receipts[e] = 1 => envelopes[e].delivered

AckPending ==
  /\ \A c \in Client : pc[c] = "receipt" =>
       envelopes[arg[c].env].delivered /\ receipts[arg[c].env] = 0
  /\ \A c, d \in Client :
       pc[c] = "receipt" /\ pc[d] = "receipt" /\ arg[c].env = arg[d].env => c = d

AckTold ==
  \A c \in Client : out[c].kind = "acked" =>
    \A e \in out[c].envs :
      /\ receipts[e] = 1
      /\ \A d \in Client : out[d].kind = "acked" /\ e \in out[d].envs => c = d

AckInv == AckRows /\ AckPending /\ AckTold

\* Steps that write neither table, and neither win nor report an ack.
LEMMA AckQuietAnswer ==
  ASSUME TypeInv, AckInv, NEW c \in Client,
         NEW kind \in {"none", "accepted", "envelopes", "not_acked", "error"},
         NEW envs, Answer(c, kind, envs), UNCHANGED <<envelopes, receipts>>
  PROVE  AckInv'
<1>1. AckRows'
  BY Zenon DEF AckInv, AckRows
<1>2. AckPending'
  BY Zenon DEF AckInv, AckPending, Answer, TypeInv, TypeOK
<1>3. AckTold'
  BY DEF AckInv, AckTold, Answer, TypeInv, TypeOK
<1> QED
  BY <1>1, <1>2, <1>3, Zenon DEF AckInv

\* A request that moves between steps before its receipt disturbs no ack.
LEMMA AckQuietGoto ==
  ASSUME TypeInv, AckInv, NEW c \in Client, NEW step, step # "receipt",
         NEW locals, Goto(c, step, locals), UNCHANGED <<envelopes, receipts>>
  PROVE  AckInv'
<1>1. AckRows'
  BY Zenon DEF AckInv, AckRows
<1>2. AckPending'
  BY Zenon DEF AckInv, AckPending, Goto, TypeInv, TypeOK
<1>3. AckTold'
  BY DEF AckInv, AckTold, Goto, NoReply, TypeInv, TypeOK
<1> QED
  BY <1>1, <1>2, <1>3, Zenon DEF AckInv

\* There are no acks at first.
LEMMA AckInit == Init => AckInv
BY DEF Init, AckInv, AckRows, AckPending, AckTold, NoRow, NoReply

\* The ack invariant is inductive, action by action.
LEMMA AckNext == TypeInv /\ AckInv /\ [Next]_vars => AckInv'
<1> SUFFICES ASSUME TypeInv, AckInv, [Next]_vars PROVE AckInv'
  BY Zenon
<1>t. /\ envelopes \in [EnvelopeId -> Row]
      /\ receipts \in [EnvelopeId -> Nat]
      /\ pc \in [Client -> Steps]
      /\ arg \in [Client -> Arg]
      /\ out \in [Client -> Reply]
  BY Zenon DEF TypeInv, TypeOK
<1>1. ASSUME NEW c \in Client, Reject(c) PROVE AckInv'
  BY <1>1, AckQuietAnswer, Zenon DEF Reject
<1>2. ASSUME NEW c \in Client, NEW q \in Queue, NEW ttl \in ReqTtl,
             PushStart(c, q, ttl)
      PROVE  AckInv'
  BY <1>2, AckQuietGoto, Zenon DEF PushStart
<1>3. ASSUME NEW c \in Client, NEW e \in EnvelopeId, NEW id \in 1..MaxRowId,
             PushInsert(c, e, id)
      PROVE  AckInv'
  <2>1. ~envelopes[e].delivered /\ receipts[e] = 0
    BY <1>3, Zenon DEF PushInsert, AckInv, AckRows
  <2>2. /\ \A f \in EnvelopeId : f # e => envelopes'[f] = envelopes[f]
        /\ envelopes'[e].state = "stored"
        /\ ~envelopes'[e].delivered
        /\ receipts' = receipts
    BY <1>3, <1>t, Zenon DEF PushInsert
  <2>3. AckRows'
    BY <2>1, <2>2, Zenon DEF AckInv, AckRows
  <2>4. \A d \in Client : pc'[d] = "receipt" =>
          pc[d] = "receipt" /\ arg'[d] = arg[d]
    BY <1>3, <1>t, Zenon DEF PushInsert, Goto
  <2>5. AckPending'
    BY <2>1, <2>2, <2>4 DEF AckInv, AckPending, TypeInv, RequestInv
  <2>6. AckTold'
    BY <1>3, <2>2, <1>t DEF AckInv, AckTold, PushInsert, Goto, NoReply
  <2> QED
    BY <2>3, <2>5, <2>6, Zenon DEF AckInv
<1>4. ASSUME NEW c \in Client, PushNotify(c) PROVE AckInv'
  <2>1. AckRows'
    BY <1>4, Zenon DEF PushNotify, AckInv, AckRows
  <2>2. AckPending'
    BY <1>4, <1>t, Zenon DEF PushNotify, AckInv, AckPending
  <2>3. AckTold'
    BY <1>4, <1>t DEF PushNotify, AckInv, AckTold
  <2> QED
    BY <2>1, <2>2, <2>3, Zenon DEF AckInv
<1>5. ASSUME NEW c \in Client, NEW q \in Queue, NEW l \in ReqLimit,
             NEW w \in BOOLEAN, PullStart(c, q, l, w)
      PROVE  AckInv'
  BY <1>5, AckQuietGoto, Zenon DEF PullStart
<1>6. ASSUME NEW c \in Client, PullSelect(c) PROVE AckInv'
  BY <1>6, AckQuietGoto, AckQuietAnswer, Zenon DEF PullSelect
<1>7. ASSUME NEW c \in Client, PullListen(c) PROVE AckInv'
  BY <1>7, AckQuietGoto, Zenon DEF PullListen
<1>8. ASSUME NEW c \in Client, PullTimeout(c) PROVE AckInv'
  BY <1>8, AckQuietAnswer, Zenon DEF PullTimeout
<1>9. ASSUME NEW c \in Client, PullWoken(c) PROVE AckInv'
  BY <1>9, AckQuietGoto, Zenon DEF PullWoken
<1>10. ASSUME NEW c \in Client, PullReselect(c) PROVE AckInv'
  BY <1>10, AckQuietAnswer, Zenon DEF PullReselect
<1>11. ASSUME NEW c \in Client, NEW q \in Queue, NEW e \in EnvelopeId,
              AckStart(c, q, e)
       PROVE  AckInv'
  BY <1>11, AckQuietGoto, Zenon DEF AckStart
<1>12. ASSUME NEW c \in Client, AckUpdate(c) PROVE AckInv'
  <2>1. CASE AckHits(arg[c].queue, arg[c].env)
    <3> DEFINE e == arg[c].env
    <3>1. e \in EnvelopeId
      BY <1>12, Zenon DEF AckUpdate, TypeInv, RequestInv
    <3>2. /\ envelopes' = [envelopes EXCEPT ![e].delivered = TRUE]
          /\ Goto(c, "receipt", arg[c])
          /\ receipts' = receipts
      BY <1>12, <2>1, Zenon DEF AckUpdate
    <3>3. envelopes[e].state = "stored" /\ ~envelopes[e].delivered
      BY <2>1, Zenon DEF AckHits, Stored
    <3>4. receipts[e] = 0 /\ \A d \in Client : pc[d] = "receipt" => arg[d].env # e
      BY <3>1, <3>3, Zenon DEF AckInv, AckRows, AckPending
    <3>5. /\ \A f \in EnvelopeId : f # e => envelopes'[f] = envelopes[f]
          /\ envelopes'[e].state = "stored"
          /\ envelopes'[e].delivered
      BY <3>1, <3>2, <3>3, <1>t, SMTT(30) DEF Row
    <3>6. AckRows'
      BY <3>2, <3>5, Zenon DEF AckInv, AckRows
    <3>7. /\ pc' = [pc EXCEPT ![c] = "receipt"]
          /\ arg' = arg
      BY <3>2, <1>t, Zenon DEF Goto
    <3> HIDE DEF e
    <3>8. arg[c].env = e
      BY Zenon DEF e
    <3>9. AckPending'
      BY <3>1, <3>2, <3>4, <3>5, <3>7, <3>8, <1>t
      DEF AckInv, AckPending, TypeInv, RequestInv
    <3>10. AckTold'
      BY <3>2, <1>t, SMTT(30) DEF AckInv, AckTold, Goto, NoReply
    <3> QED
      BY <3>6, <3>9, <3>10, Zenon DEF AckInv
  <2>2. CASE ~AckHits(arg[c].queue, arg[c].env)
    BY <1>12, <2>2, AckQuietAnswer, Zenon DEF AckUpdate
  <2> QED
    BY <2>1, <2>2, Zenon
<1>13. ASSUME NEW c \in Client, AckReceipt(c) PROVE AckInv'
  <2> DEFINE e == arg[c].env
  <2>1. e \in EnvelopeId /\ envelopes[e].delivered /\ receipts[e] = 0
    BY <1>13, Zenon DEF AckReceipt, TypeInv, RequestInv, AckInv, AckPending
  <2>2. /\ \A f \in EnvelopeId : receipts'[f] = IF f = e THEN 1 ELSE receipts[f]
        /\ envelopes' = envelopes
    BY <1>13, <2>1, <1>t DEF AckReceipt
  <2>3. AckRows'
    BY <2>1, <2>2, Zenon DEF AckInv, AckRows
  <2>4. \A d \in Client : d # c /\ pc[d] = "receipt" => arg[d].env # e
    BY <1>13, Zenon DEF AckReceipt, AckInv, AckPending
  <2>5. /\ pc' = [pc EXCEPT ![c] = "idle"]
        /\ arg' = [arg EXCEPT ![c] = NoArg]
        /\ out' = [out EXCEPT ![c] = [kind |-> "acked", envs |-> {e}]]
    BY <1>13, Zenon DEF AckReceipt, Answer
  <2>6. \A d \in Client : pc'[d] = "receipt" =>
          d # c /\ pc[d] = "receipt" /\ arg'[d] = arg[d]
    BY <2>5, <1>t, Zenon
  <2> HIDE DEF e
  <2>7. AckPending'
    BY <2>2, <2>4, <2>6 DEF AckInv, AckPending, TypeInv, RequestInv
  <2>8. \A d \in Client : out[d].kind = "acked" => e \notin out[d].envs
    BY <2>1 DEF AckInv, AckTold
  <2>9. \A d \in Client : out[d].envs \subseteq EnvelopeId
    BY <1>t, Zenon DEF Reply
  <2>10. AckTold'
    BY <2>1, <2>2, <2>5, <2>8, <2>9, <1>t DEF AckInv, AckTold
  <2> QED
    BY <2>3, <2>7, <2>10, Zenon DEF AckInv
<1>14. ASSUME NEW c \in Client, StoreError(c) PROVE AckInv'
  BY <1>14, AckQuietAnswer, Zenon DEF StoreError
<1>15. ASSUME NEW c \in Client, Disconnect(c) PROVE AckInv'
  BY <1>15, AckQuietAnswer, Zenon DEF Disconnect
<1>16. CASE SweepDelete
  <2>1. /\ \A e \in EnvelopeId :
             /\ envelopes'[e].delivered = envelopes[e].delivered
             /\ envelopes'[e].state = "unsent" => envelopes[e].state = "unsent"
        /\ UNCHANGED <<receipts, pc, arg, out>>
    BY <1>16, <1>t, Zenon DEF SweepDelete, NoRow, Row
  <2> QED
    BY <2>1, SMTT(30) DEF AckInv, AckRows, AckPending, AckTold, TypeInv, RequestInv
<1>17. CASE Restart
  BY <1>17, Zenon DEF Restart, AckInv, AckRows, AckPending, AckTold
<1>18. CASE SweepTick \/ SweepError \/ Tick \/ UNCHANGED vars
  BY <1>18 DEF SweepTick, SweepError, Tick, vars, AckInv, AckRows, AckPending, AckTold
<1> QED
  BY <1>1, <1>2, <1>3, <1>4, <1>5, <1>6, <1>7, <1>8, <1>9, <1>10, <1>11, <1>12,
     <1>13, <1>14, <1>15, <1>16, <1>17, <1>18, Zenon
  DEF Next, ClientStep

\* The ack invariant holds of the relay.
LEMMA AckInvariant == Spec => []AckInv
<1>1. Spec => []TypeInv
  BY TypeInit, TypeNext, PTL DEF Spec
<1> QED
  BY <1>1, AckInit, AckNext, PTL DEF Spec

\* However acks race, repeat or are cut short between UPDATE and INSERT, an
\* envelope has at most one receipt, and none while a pull would serve it.
THEOREM ReceiptsAreUnique == Spec => []ReceiptOnce
<1>1. AckInv => ReceiptOnce
  BY DEF AckInv, AckRows, ReceiptOnce
<1> QED
  BY <1>1, AckInvariant, PTL

\* Two requests are never both told that they acknowledged an envelope, and the
\* one that is told so finds its receipt stored.
THEOREM AckHasOneWinner == Spec => []AckWonOnce
<1>1. AckInv => AckWonOnce
  BY Zenon DEF AckInv, AckTold, AckWonOnce
<1> QED
  BY <1>1, AckInvariant, PTL

-----------------------------------------------------------------------------
(***************************************************************************)
(* Stamps and order.  A push stamps its row before it inserts it, so the   *)
(* order of two rows is decided by what the later push had already read:   *)
(* the invariant follows the stamp and the rows seen from the request to   *)
(* the row.                                                                *)
(***************************************************************************)
StampInv ==
  /\ sweep # None => sweep <= clock
  /\ \A c \in Client : pc[c] = "insert" =>
       /\ arg[c].now <= clock
       /\ arg[c].expires \in 1..(arg[c].now + LongestTtl)
  /\ \A e \in EnvelopeId : Stored(e) => envelopes[e].received <= clock

SeenInv ==
  \A c \in Client : pc[c] = "insert" =>
    \A f \in arg[c].seen :
      /\ envelopes[f].state # "unsent"
      /\ Stored(f) => envelopes[f].received <= arg[c].now

PriorInv ==
  \A e \in EnvelopeId : Stored(e) =>
    \A f \in envelopes[e].prior :
      /\ envelopes[f].state # "unsent"
      /\ Stored(f) => /\ envelopes[f].received <= envelopes[e].received
                      /\ envelopes[f].id < envelopes[e].id

OrderInv == StampInv /\ SeenInv /\ PriorInv

\* There are no rows at first.
LEMMA OrderInit == Init => OrderInv
BY DEF Init, OrderInv, StampInv, SeenInv, PriorInv, Stored, NoRow

\* Steps that leave the table, the clock and the sweeper alone and start no push.
LEMMA OrderQuiet ==
  ASSUME TypeInv, OrderInv, UNCHANGED <<envelopes, clock, sweep>>,
         \A d \in Client : pc'[d] = "insert" =>
           pc[d] = "insert" /\ arg'[d] = arg[d]
  PROVE  OrderInv'
BY Zenon DEF OrderInv, StampInv, SeenInv, PriorInv, Stored

\* The order invariant is inductive, action by action.
LEMMA OrderNext == TypeInv /\ OrderInv /\ [Next]_vars => OrderInv'
<1> SUFFICES ASSUME TypeInv, OrderInv, [Next]_vars PROVE OrderInv'
  BY Zenon
<1>t. /\ envelopes \in [EnvelopeId -> Row]
      /\ clock \in Nat
      /\ sweep \in Nat \cup {None}
      /\ pc \in [Client -> Steps]
      /\ arg \in [Client -> Arg]
  BY Zenon DEF TypeInv, TypeOK, Time
<1>1. ASSUME NEW c \in Client, NEW q \in Queue, NEW ttl \in ReqTtl,
             PushStart(c, q, ttl)
      PROVE  OrderInv'
  <2> DEFINE seen == {e \in EnvelopeId : Stored(e) /\ envelopes[e].queue = q}
             locals == [NoArg EXCEPT !.queue = q, !.now = clock,
                                     !.expires = clock + ClampTtl(ttl),
                                     !.seen = seen]
  <2>1. /\ Goto(c, "insert", locals)
        /\ UNCHANGED <<envelopes, clock, sweep>>
    BY <1>1, Zenon DEF PushStart
  <2>2. NoArg \in Arg
    BY DEF NoArg, Arg, Time
  <2>3. /\ locals.now = clock
        /\ locals.expires = clock + ClampTtl(ttl)
        /\ locals.seen = seen
    BY <2>2, Zenon DEF Arg
  <2> HIDE DEF locals
  <2>4. /\ pc'[c] = "insert" /\ arg'[c] = locals
        /\ \A d \in Client : d # c => pc'[d] = pc[d] /\ arg'[d] = arg[d]
    BY <2>1, <1>t, Zenon DEF Goto
  <2>5. clock + ClampTtl(ttl) \in 1..(clock + LongestTtl)
    BY ClampTtlRange, LongestTtlType, MailboxAssumption, <1>t
  <2>6. StampInv'
    BY <2>1, <2>3, <2>4, <2>5, <1>t DEF OrderInv, StampInv, Stored
  <2>7. SeenInv'
    BY <2>1, <2>3, <2>4, SMTT(30) DEF OrderInv, SeenInv, StampInv, Stored
  <2>8. PriorInv'
    BY <2>1, Zenon DEF OrderInv, PriorInv, Stored
  <2> QED
    BY <2>6, <2>7, <2>8, Zenon DEF OrderInv
<1>2. ASSUME NEW c \in Client, NEW e \in EnvelopeId, NEW id \in 1..MaxRowId,
             PushInsert(c, e, id)
      PROVE  OrderInv'
  <2>1. /\ pc[c] = "insert"
        /\ envelopes[e].state = "unsent"
        /\ IsNextId(id)
        /\ UNCHANGED <<clock, sweep>>
    BY <1>2, Zenon DEF PushInsert
  <2>2. \A f \in EnvelopeId : f # e => envelopes'[f] = envelopes[f]
    BY <1>2, <1>t, Zenon DEF PushInsert
  <2>3. /\ envelopes'[e].state = "stored"
        /\ envelopes'[e].id = id
        /\ envelopes'[e].received = arg[c].now
        /\ envelopes'[e].prior = arg[c].seen
    BY <1>2, <1>t, Zenon DEF PushInsert
  <2>4. \A d \in Client : pc'[d] = "insert" =>
          pc[d] = "insert" /\ arg'[d] = arg[d]
    BY <1>2, <1>t, Zenon DEF PushInsert, Goto
  <2>5. \A d \in Client : arg[d].seen \subseteq EnvelopeId
    BY <1>t, Zenon DEF Arg
  <2>6. \A f \in EnvelopeId : envelopes[f].prior \subseteq EnvelopeId
    BY <1>t, Zenon DEF Row
  <2>7. StampInv'
    BY <2>1, <2>2, <2>3, <2>4, Zenon DEF OrderInv, StampInv, Stored
  <2>8. SeenInv'
    BY <2>1, <2>2, <2>4, <2>5, SMTT(30) DEF OrderInv, SeenInv, Stored
  <2>9. PriorInv'
    <3>1. \A f \in arg[c].seen :
            /\ f # e
            /\ envelopes[f].state # "unsent"
            /\ Stored(f) => /\ envelopes[f].received <= arg[c].now
                            /\ envelopes[f].id < id
      BY <2>1, <2>5, Zenon DEF OrderInv, SeenInv, IsNextId
    <3>2. \A f, g \in EnvelopeId :
            Stored(f) /\ g \in envelopes[f].prior => f # e /\ g # e
      BY <2>1, Zenon DEF OrderInv, PriorInv, Stored
    <3>3. \A f \in EnvelopeId : Stored(f)' /\ f # e => Stored(f)
      BY <2>2, Zenon DEF Stored
    <3>4. ASSUME NEW f \in EnvelopeId, Stored(f)', NEW g \in envelopes'[f].prior
          PROVE  /\ envelopes'[g].state # "unsent"
                 /\ Stored(g)' => /\ envelopes'[g].received <= envelopes'[f].received
                                  /\ envelopes'[g].id < envelopes'[f].id
      <4>1. CASE f = e
        BY <4>1, <3>4, <3>1, <2>2, <2>3, <2>5, Zenon DEF Stored
      <4>2. CASE f # e
        BY <4>2, <3>4, <3>2, <3>3, <2>2, <2>6, Zenon DEF OrderInv, PriorInv, Stored
      <4> QED
        BY <4>1, <4>2, Zenon
    <3> QED
      BY <3>4, Zenon DEF PriorInv
  <2> QED
    BY <2>7, <2>8, <2>9, Zenon DEF OrderInv
<1>3. ASSUME NEW c \in Client, AckUpdate(c) PROVE OrderInv'
  <2>1. \A e \in EnvelopeId :
          /\ envelopes'[e].state = envelopes[e].state
          /\ envelopes'[e].id = envelopes[e].id
          /\ envelopes'[e].received = envelopes[e].received
          /\ envelopes'[e].prior = envelopes[e].prior
    BY <1>3, <1>t DEF AckUpdate, Row
  <2>2. /\ UNCHANGED <<clock, sweep>>
        /\ \A d \in Client : pc'[d] = "insert" =>
             pc[d] = "insert" /\ arg'[d] = arg[d]
    BY <1>3, <1>t, Zenon DEF AckUpdate, Goto, Answer
  <2>3. \A e \in EnvelopeId : envelopes[e].prior \subseteq EnvelopeId
    BY <1>t, Zenon DEF Row
  <2>4. \A d \in Client : arg[d].seen \subseteq EnvelopeId
    BY <1>t, Zenon DEF Arg
  <2> QED
    BY <2>1, <2>2, <2>3, <2>4, SMTT(30) DEF OrderInv, StampInv, SeenInv, PriorInv, Stored
<1>4. CASE SweepDelete
  <2>1. \A e \in EnvelopeId :
          \/ envelopes'[e] = envelopes[e]
          \/ /\ envelopes'[e].state = "swept"
             /\ envelopes[e].state = "stored"
    BY <1>4, <1>t, Zenon DEF SweepDelete, NoRow, Expired, Stored
  <2>2. sweep' = None /\ UNCHANGED <<clock, pc, arg>>
    BY <1>4, Zenon DEF SweepDelete
  <2>3. \A e \in EnvelopeId : envelopes[e].prior \subseteq EnvelopeId
    BY <1>t, Zenon DEF Row
  <2>4. \A d \in Client : arg[d].seen \subseteq EnvelopeId
    BY <1>t, Zenon DEF Arg
  <2>5. StampInv'
    BY <2>1, <2>2, Zenon DEF OrderInv, StampInv, Stored
  <2>6. SeenInv'
    BY <2>1, <2>2, <2>4, Zenon DEF OrderInv, SeenInv, Stored
  <2>7. PriorInv'
    BY <2>1, <2>3, Zenon DEF OrderInv, PriorInv, Stored
  <2> QED
    BY <2>5, <2>6, <2>7, Zenon DEF OrderInv
<1>5. CASE Tick
  <2>1. StampInv'
    <3>1. clock <= clock' /\ UNCHANGED <<envelopes, sweep, pc, arg>>
      BY <1>5, <1>t DEF Tick
    <3>2. clock' \in Nat
      BY <1>5, <1>t DEF Tick
    <3>3. \A d \in Client : arg[d].now \in Nat
      BY <1>t, Zenon DEF Arg, Time
    <3>4. \A e \in EnvelopeId : envelopes[e].received \in Nat
      BY <1>t, Zenon DEF Row, Time
    <3> QED
      BY <3>1, <3>2, <3>3, <3>4, <1>t, MailboxAssumption DEF OrderInv, StampInv, Stored
  <2> QED
    BY <1>5, <2>1, Zenon DEF Tick, OrderInv, SeenInv, PriorInv, Stored
<1>6. CASE SweepTick
  BY <1>6, <1>t DEF SweepTick, OrderInv, StampInv, SeenInv, PriorInv, Stored
<1>7. CASE SweepError
  BY <1>7, Zenon DEF SweepError, OrderInv, StampInv, SeenInv, PriorInv, Stored
<1>8. CASE Restart
  BY <1>8, Zenon DEF Restart, OrderInv, StampInv, SeenInv, PriorInv, Stored
<1>9. CASE UNCHANGED vars
  BY <1>9, Zenon DEF vars, OrderInv, StampInv, SeenInv, PriorInv, Stored
<1>10. ASSUME NEW c \in Client,
              \/ Reject(c) \/ PushNotify(c) \/ PullTimeout(c)
              \/ PullReselect(c) \/ AckReceipt(c) \/ StoreError(c)
              \/ Disconnect(c)
       PROVE  OrderInv'
  BY <1>10, <1>t, OrderQuiet, Zenon
  DEF Reject, PushNotify, PullTimeout, PullReselect, AckReceipt, StoreError,
      Disconnect, Answer
<1>11. ASSUME NEW c \in Client,
              \/ \E q \in Queue, l \in ReqLimit, w \in BOOLEAN : PullStart(c, q, l, w)
              \/ PullSelect(c) \/ PullListen(c) \/ PullWoken(c)
              \/ \E q \in Queue, e \in EnvelopeId : AckStart(c, q, e)
       PROVE  OrderInv'
  <2>1. UNCHANGED <<envelopes, clock, sweep>>
    BY <1>11, Zenon DEF PullStart, PullSelect, PullListen, PullWoken, AckStart
  <2>2. \E step, locals : step # "insert" /\ \/ Goto(c, step, locals)
                                             \/ \E envs : Answer(c, "envelopes", envs)
    BY <1>11, Zenon DEF PullStart, PullSelect, PullListen, PullWoken, AckStart
  <2>3. \A d \in Client : pc'[d] = "insert" =>
          pc[d] = "insert" /\ arg'[d] = arg[d]
    BY <2>2, <1>t, Zenon DEF Goto, Answer
  <2> QED
    BY <2>1, <2>3, OrderQuiet, Zenon
<1> QED
  BY <1>1, <1>2, <1>3, <1>4, <1>5, <1>6, <1>7, <1>8, <1>9, <1>10, <1>11, Zenon
  DEF Next, ClientStep

\* The order invariant holds of the relay.
LEMMA OrderInvariant == Spec => []OrderInv
<1>1. Spec => []TypeInv
  BY TypeInit, TypeNext, PTL DEF Spec
<1> QED
  BY <1>1, OrderInit, OrderNext, PTL DEF Spec

\* Pulls serve an envelope after every one of its queue that was stored when its
\* push began, whatever pushes, sweeps and restarts come in between.
THEOREM PushOrderIsKept == Spec => []SequentialPushOrder
<1>1. TypeInv /\ OrderInv => SequentialPushOrder
  <2> SUFFICES ASSUME TypeInv, OrderInv PROVE SequentialPushOrder
    BY Zenon
  <2>1. \A e \in EnvelopeId : envelopes[e].received \in Nat
    BY Zenon DEF TypeInv, TypeOK, Row, Time
  <2> QED
    BY <2>1 DEF OrderInv, PriorInv, SequentialPushOrder, Before
<1>2. Spec => []TypeInv
  BY TypeInit, TypeNext, PTL DEF Spec
<1> QED
  BY <1>1, <1>2, OrderInvariant, PTL

-----------------------------------------------------------------------------
(***************************************************************************)
(* The relay implements RelayQueue.  The INSERT is the acceptance, the     *)
(* UPDATE the acknowledgement, in time or late, the receipt's INSERT the   *)
(* record, and the DELETE the forgetting.  An ack that ends between its    *)
(* two statements, or a restart, loses the receipts that were owed; every  *)
(* other step is a stutter.                                                *)
(***************************************************************************)
LEMMA RefineInit == Init => RQ!Init
BY DEF Init, RQ!Init, NoRow, Owing

\* A step that leaves the tables, the clock and the owed receipts alone is not seen.
LEMMA RefineStutter ==
  ASSUME UNCHANGED <<envelopes, receipts, clock>>, Owing' = Owing
  PROVE  UNCHANGED RQ!vars
BY Zenon DEF RQ!vars

\* What is owed depends only on the requests at their receipt.
LEMMA OwingKept ==
  ASSUME \A d \in Client : /\ pc'[d] = "receipt" <=> pc[d] = "receipt"
                           /\ pc[d] = "receipt" => arg'[d] = arg[d]
  PROVE  Owing' = Owing
BY Zenon DEF Owing

\* A request that moves on before its receipt owes none.
LEMMA GotoOwes ==
  ASSUME TypeInv, NEW c \in Client, pc[c] # "receipt",
         NEW step, step # "receipt", NEW locals, Goto(c, step, locals)
  PROVE  Owing' = Owing
<1>1. \A d \in Client : /\ pc'[d] = "receipt" <=> pc[d] = "receipt"
                        /\ pc[d] = "receipt" => arg'[d] = arg[d]
  BY Zenon DEF Goto, TypeInv, TypeOK
<1> QED
  BY <1>1, OwingKept, Zenon

\* Nor does one that ends before its receipt.
LEMMA AnswerOwes ==
  ASSUME TypeInv, NEW c \in Client, pc[c] # "receipt",
         NEW kind, NEW envs, Answer(c, kind, envs)
  PROVE  Owing' = Owing
<1>1. \A d \in Client : /\ pc'[d] = "receipt" <=> pc[d] = "receipt"
                        /\ pc[d] = "receipt" => arg'[d] = arg[d]
  BY Zenon DEF Answer, TypeInv, TypeOK
<1> QED
  BY <1>1, OwingKept, Zenon

\* An ack that ends at its receipt owes it no longer, and nobody else owes it.
LEMMA AnswerSettles ==
  ASSUME TypeInv, AckInv, NEW c \in Client, pc[c] = "receipt",
         NEW kind, NEW envs, Answer(c, kind, envs)
  PROVE  Owing' = Owing \ {arg[c].env}
<1>1. /\ \A d \in Client : d # c => pc'[d] = pc[d] /\ arg'[d] = arg[d]
      /\ pc'[c] = "idle"
  BY Zenon DEF Answer, TypeInv, TypeOK
<1>2. \A d \in Client : d # c /\ pc[d] = "receipt" => arg[d].env # arg[c].env
  BY Zenon DEF AckInv, AckPending
<1> QED
  BY <1>1, <1>2, Zenon DEF Owing

\* Every step is one of RelayQueue, or changes nothing that it sees.
LEMMA RefineNext ==
  TypeInv /\ AckInv /\ OrderInv /\ [Next]_vars => [RQ!Next]_(RQ!vars)
<1> SUFFICES ASSUME TypeInv, AckInv, OrderInv, [Next]_vars
             PROVE  [RQ!Next]_(RQ!vars)
  BY Zenon
<1>t. /\ envelopes \in [EnvelopeId -> Row]
      /\ receipts \in [EnvelopeId -> Nat]
      /\ clock \in Nat
      /\ sweep \in Nat \cup {None}
      /\ pc \in [Client -> Steps]
      /\ arg \in [Client -> Arg]
  BY Zenon DEF TypeInv, TypeOK, Time
<1>1. ASSUME NEW c \in Client, NEW e \in EnvelopeId, NEW id \in 1..MaxRowId,
             PushInsert(c, e, id)
      PROVE  RQ!Next
  <2>o. Owing' = Owing
    BY <1>1, GotoOwes, Zenon DEF PushInsert
  <2>1. /\ \A f \in EnvelopeId : f # e => envelopes'[f] = envelopes[f]
        /\ envelopes'[e].state = "stored"
        /\ ~envelopes'[e].delivered
        /\ envelopes'[e].expires = arg[c].expires
        /\ envelopes[e].state = "unsent"
        /\ ~envelopes[e].delivered
        /\ UNCHANGED <<receipts, clock>>
    BY <1>1, <1>t, Zenon DEF PushInsert, AckInv, AckRows
  <2>2. arg[c].expires \in 1..(clock + LongestTtl) /\ arg[c].expires <= clock + LongestTtl
    <3>1. pc[c] = "insert" /\ arg[c].now \in Nat
      BY <1>1, <1>t, Zenon DEF PushInsert, Arg, Time
    <3> QED
      BY <3>1, <1>t, LongestTtlType DEF OrderInv, StampInv
  <2>d. PICK d \in 1..(clock + LongestTtl) : d = arg[c].expires /\ d <= clock + LongestTtl
    BY <2>2, Zenon
  <2>3. [f \in EnvelopeId |-> envelopes'[f].expires] =
          [[f \in EnvelopeId |-> envelopes[f].expires] EXCEPT ![e] = d]
    BY <2>1, <2>d, Zenon
  <2>4. /\ {f \in EnvelopeId : envelopes'[f].state # "unsent"} =
             {f \in EnvelopeId : envelopes[f].state # "unsent"} \cup {e}
        /\ {f \in EnvelopeId : envelopes'[f].state = "swept"} =
             {f \in EnvelopeId : envelopes[f].state = "swept"}
    BY <2>1, Zenon
  <2>5. {f \in EnvelopeId : envelopes'[f].delivered} =
          {f \in EnvelopeId : envelopes[f].delivered}
    BY <2>1, Zenon
  <2>6. RQ!Accept(e, d)
    BY <2>1, <2>d, <2>3, <2>4, <2>5, <2>o, Zenon DEF RQ!Accept
  <2> QED
    BY <2>6, Zenon DEF RQ!Next
<1>2. ASSUME NEW c \in Client, AckUpdate(c)
      PROVE  RQ!Next \/ UNCHANGED RQ!vars
  <2>1. CASE AckHits(arg[c].queue, arg[c].env)
    <3>1. PICK e \in EnvelopeId : e = arg[c].env
      BY <1>2, Zenon DEF AckUpdate, TypeInv, RequestInv
    <3>2. /\ envelopes[e].state = "stored"
          /\ ~envelopes[e].delivered
          /\ envelopes' = [envelopes EXCEPT ![e].delivered = TRUE]
          /\ UNCHANGED <<receipts, clock>>
      BY <1>2, <2>1, <3>1, Zenon DEF AckUpdate, AckHits, Stored
    <3>3. \A f \in EnvelopeId :
            /\ envelopes'[f].state = envelopes[f].state
            /\ envelopes'[f].expires = envelopes[f].expires
            /\ envelopes'[f].delivered = (envelopes[f].delivered \/ f = e)
      BY <3>1, <3>2, <1>t, ZenonT(60) DEF Row
    <3>4. {f \in EnvelopeId : envelopes'[f].delivered} =
            {f \in EnvelopeId : envelopes[f].delivered} \cup {e}
      BY <3>1, <3>3, Zenon
    <3>5. /\ {f \in EnvelopeId : envelopes'[f].state # "unsent"} =
               {f \in EnvelopeId : envelopes[f].state # "unsent"}
          /\ {f \in EnvelopeId : envelopes'[f].state = "swept"} =
               {f \in EnvelopeId : envelopes[f].state = "swept"}
          /\ [f \in EnvelopeId |-> envelopes'[f].expires] =
               [f \in EnvelopeId |-> envelopes[f].expires]
      BY <3>3, Zenon
    <3>6. Owing' = Owing \cup {e}
      <4>1. /\ \A d \in Client : d # c => pc'[d] = pc[d] /\ arg'[d] = arg[d]
            /\ pc[c] = "update" /\ pc'[c] = "receipt" /\ arg'[c] = arg[c]
        BY <1>2, <2>1, <1>t, Zenon DEF AckUpdate, Goto
      <4> QED
        BY <3>1, <4>1, Zenon DEF Owing
    <3>7. RQ!Mark(e)
      BY <3>1, <3>2, <3>4, <3>5, <3>6, Zenon DEF RQ!Mark
    <3>8. clock < envelopes[e].expires \/ envelopes[e].expires <= clock
      BY <1>t DEF Row, Time
    <3>9. RQ!Acknowledge(e) \/ RQ!AcknowledgeLate(e)
      BY <3>7, <3>8, Zenon DEF RQ!Acknowledge, RQ!AcknowledgeLate
    <3> QED
      BY <3>9, Zenon DEF RQ!Next
  <2>2. CASE ~AckHits(arg[c].queue, arg[c].env)
    BY <1>2, <2>2, AnswerOwes, RefineStutter, Zenon DEF AckUpdate
  <2> QED
    BY <2>1, <2>2, Zenon
<1>3. ASSUME NEW c \in Client, AckReceipt(c) PROVE RQ!Next
  <2>e. PICK e \in EnvelopeId : e = arg[c].env
    BY <1>3, Zenon DEF AckReceipt, TypeInv, RequestInv
  <2>1. envelopes[e].delivered /\ receipts[e] = 0
    BY <2>e, <1>3, Zenon DEF AckReceipt, TypeInv, RequestInv, AckInv, AckPending
  <2>2. /\ \A f \in EnvelopeId : receipts'[f] = IF f = e THEN 1 ELSE receipts[f]
        /\ UNCHANGED <<envelopes, clock>>
    BY <1>3, <2>e, <2>1, <1>t DEF AckReceipt
  <2>3. {f \in EnvelopeId : receipts'[f] > 0} =
          {f \in EnvelopeId : receipts[f] > 0} \cup {e}
    BY <2>1, <2>2, <1>t
  <2>4. e \in Owing /\ Owing' = Owing \ {e}
    BY <1>3, <2>e, AnswerSettles, Zenon DEF AckReceipt, Owing
  <2>5. RQ!Record(e)
    BY <2>2, <2>3, <2>4, Zenon DEF RQ!Record
  <2> QED
    BY <2>5, Zenon DEF RQ!Next
<1>4. CASE SweepDelete
  <2>s. PICK S \in SUBSET EnvelopeId : S = {e \in EnvelopeId : Expired(e, sweep)}
    BY Zenon
  <2>1. sweep \in Nat /\ sweep <= clock
    BY <1>4, <1>t, Zenon DEF SweepDelete, OrderInv, StampInv
  <2>2. \A e \in EnvelopeId :
          /\ envelopes'[e].state = IF e \in S THEN "swept" ELSE envelopes[e].state
          /\ envelopes'[e].expires = envelopes[e].expires
          /\ envelopes'[e].delivered = envelopes[e].delivered
    BY <1>4, <1>t, <2>s, Zenon DEF SweepDelete, NoRow, Row
  <2>3. UNCHANGED <<receipts, clock>> /\ Owing' = Owing
    BY <1>4, Zenon DEF SweepDelete, Owing
  <2>4. \A e \in S : /\ e \in EnvelopeId
                     /\ envelopes[e].state = "stored"
                     /\ envelopes[e].expires <= clock
    BY <2>1, <2>s, <1>t DEF Expired, Stored, Row, Time
  <2>5. /\ {f \in EnvelopeId : envelopes'[f].state = "swept"} =
             {f \in EnvelopeId : envelopes[f].state = "swept"} \cup S
        /\ {f \in EnvelopeId : envelopes'[f].state # "unsent"} =
             {f \in EnvelopeId : envelopes[f].state # "unsent"}
    BY <2>2, <2>4, Zenon
  <2>6. /\ {f \in EnvelopeId : envelopes'[f].delivered} =
             {f \in EnvelopeId : envelopes[f].delivered}
        /\ [f \in EnvelopeId |-> envelopes'[f].expires] =
             [f \in EnvelopeId |-> envelopes[f].expires]
    BY <2>2, Zenon
  <2>7. RQ!Forget(S)
    BY <2>3, <2>4, <2>5, <2>6, Zenon DEF RQ!Forget
  <2> QED
    BY <2>7, Zenon DEF RQ!Next
<1>5. CASE Tick
  BY <1>5, Zenon DEF Tick, RQ!Next, RQ!Advance, Owing
<1>6. CASE SweepTick \/ SweepError \/ UNCHANGED vars
  BY <1>6, RefineStutter, Zenon DEF SweepTick, SweepError, vars, Owing
<1>7. CASE Restart
  <2>1. Owing' = Owing \ Owing /\ Owing \in SUBSET EnvelopeId
    BY <1>7, Zenon DEF Restart, Owing
  <2>2. RQ!Lose(Owing)
    BY <1>7, <2>1, Zenon DEF Restart, RQ!Lose
  <2> QED
    BY <2>1, <2>2, Zenon DEF RQ!Next
<1>8. ASSUME NEW c \in Client, StoreError(c) \/ Disconnect(c)
      PROVE  RQ!Next \/ UNCHANGED RQ!vars
  <2>1. /\ Answer(c, "error", {}) \/ Answer(c, "none", {})
        /\ UNCHANGED <<envelopes, receipts, clock>>
    BY <1>8, Zenon DEF StoreError, Disconnect
  <2>2. CASE pc[c] # "receipt"
    BY <2>1, <2>2, AnswerOwes, RefineStutter, Zenon
  <2>3. CASE pc[c] = "receipt"
    <3>1. PICK e \in EnvelopeId : e = arg[c].env
      BY <2>3, Zenon DEF TypeInv, RequestInv
    <3>2. {e} \subseteq Owing /\ Owing' = Owing \ {e}
      BY <2>1, <2>3, <3>1, AnswerSettles, Zenon DEF Owing
    <3>3. RQ!Lose({e}) /\ {e} \in SUBSET EnvelopeId
      BY <2>1, <3>1, <3>2, Zenon DEF RQ!Lose
    <3> QED
      BY <3>3, Zenon DEF RQ!Next
  <2> QED
    BY <2>2, <2>3, Zenon
<1>9. ASSUME NEW c \in Client, PushNotify(c) PROVE UNCHANGED RQ!vars
  <2>1. \A d \in Client : /\ pc'[d] = "receipt" <=> pc[d] = "receipt"
                          /\ pc[d] = "receipt" => arg'[d] = arg[d]
    BY <1>9, <1>t, Zenon DEF PushNotify, Waiters
  <2> QED
    BY <1>9, <2>1, OwingKept, RefineStutter, Zenon DEF PushNotify
<1>10. ASSUME NEW c \in Client,
              \/ Reject(c)
              \/ \E q \in Queue, ttl \in ReqTtl : PushStart(c, q, ttl)
              \/ \E q \in Queue, l \in ReqLimit, w \in BOOLEAN : PullStart(c, q, l, w)
              \/ PullSelect(c) \/ PullListen(c) \/ PullTimeout(c)
              \/ PullWoken(c) \/ PullReselect(c)
              \/ \E q \in Queue, e \in EnvelopeId : AckStart(c, q, e)
       PROVE  UNCHANGED RQ!vars
  <2>1. UNCHANGED <<envelopes, receipts, clock>> /\ pc[c] # "receipt"
    BY <1>10, Zenon
    DEF Reject, PushStart, PullStart, PullSelect, PullListen, PullTimeout,
        PullWoken, PullReselect, AckStart
  <2>2. \/ \E kind, envs : Answer(c, kind, envs)
        \/ \E step, locals : step # "receipt" /\ Goto(c, step, locals)
    BY <1>10, Zenon
    DEF Reject, PushStart, PullStart, PullSelect, PullListen, PullTimeout,
        PullWoken, PullReselect, AckStart
  <2>3. Owing' = Owing
    BY <2>1, <2>2, AnswerOwes, GotoOwes, Zenon
  <2> QED
    BY <2>1, <2>3, RefineStutter, Zenon
<1> QED
  BY <1>1, <1>2, <1>3, <1>4, <1>5, <1>6, <1>7, <1>8, <1>9, <1>10, Zenon
  DEF Next, ClientStep

\* Everything the relay does to its tables is allowed by RelayQueue: an accepted
\* envelope is kept until it is acknowledged or out of time, never outlives the
\* longest TTL of the policy, never comes back, and is acknowledged at most once;
\* its receipt is recorded by the ack that won, or lost with it and never written.
THEOREM RelayKeepsEnvelopes == Spec => RelayQueueSpec
<1>1. Spec => []TypeInv
  BY TypeInit, TypeNext, PTL DEF Spec
<1> QED
  BY <1>1, AckInvariant, OrderInvariant, RefineInit, RefineNext, PTL
  DEF Spec, RelayQueueSpec, RQ!Spec

-----------------------------------------------------------------------------
(***************************************************************************)
(* Wake-ups.  A push names its queue twice, in the row it inserts and in   *)
(* the notifier it rings; the two agree until the notify is done.          *)
(***************************************************************************)
NotifyInv ==
  \A p \in Client : pc[p] = "notify" =>
    /\ envelopes[arg[p].env].state # "unsent"
    /\ Stored(arg[p].env) => envelopes[arg[p].env].queue = arg[p].queue

WakeInv == NotifyInv /\ WokenByLaterPush

\* Steps that add nothing to the live set, begin no wait and end no push.
LEMMA WakeQuiet ==
  ASSUME TypeInv, WakeInv,
         \A q : Live(q, clock)' \subseteq Live(q, clock),
         \A e \in EnvelopeId :
           /\ Stored(e)' => Stored(e) /\ envelopes'[e].queue = envelopes[e].queue
           /\ envelopes'[e].state = "unsent" => envelopes[e].state = "unsent",
         \A d \in Client : pc'[d] = "waiting" =>
           pc[d] = "waiting" /\ arg'[d] = arg[d],
         \A d \in Client : (pc[d] = "notify" \/ pc'[d] = "notify") =>
           pc'[d] = pc[d] /\ arg'[d] = arg[d]
  PROVE  WakeInv'
<1>1. NotifyInv'
  BY DEF WakeInv, NotifyInv, TypeInv, RequestInv
<1>2. ASSUME NEW c \in Client, pc'[c] = "waiting",
             NEW e \in Live(arg[c].queue, clock)', e \notin arg'[c].seen
      PROVE  \E p \in Client : pc'[p] = "notify" /\ arg'[p].env = e
  <2>1. pc[c] = "waiting" /\ arg'[c] = arg[c]
    BY <1>2, Zenon
  <2>2. e \in Live(arg[c].queue, clock)
    BY <1>2, <2>1, Zenon DEF Live, Stored
  <2> QED
    BY <1>2, <2>1, <2>2 DEF WakeInv, WokenByLaterPush
<1> QED
  BY <1>1, <1>2, SMTT(30) DEF WakeInv, WokenByLaterPush

\* Nobody listens at first.
LEMMA WakeInit == Init => WakeInv
BY Zenon DEF Init, WakeInv, NotifyInv, WokenByLaterPush

\* The wake-up invariant is inductive, action by action.
LEMMA WakeNext == TypeInv /\ WakeInv /\ [Next]_vars => WakeInv'
<1> SUFFICES ASSUME TypeInv, WakeInv, [Next]_vars PROVE WakeInv'
  BY Zenon
<1>t. /\ envelopes \in [EnvelopeId -> Row]
      /\ clock \in Nat
      /\ pc \in [Client -> Steps]
      /\ arg \in [Client -> Arg]
  BY Zenon DEF TypeInv, TypeOK, Time
<1>1. ASSUME NEW c \in Client, NEW e \in EnvelopeId, NEW id \in 1..MaxRowId,
             PushInsert(c, e, id)
      PROVE  WakeInv'
  <2>1. /\ \A f \in EnvelopeId : f # e => envelopes'[f] = envelopes[f]
        /\ envelopes'[e].queue = arg[c].queue
        /\ clock' = clock
        /\ envelopes[e].state = "unsent"
    BY <1>1, <1>t, Zenon DEF PushInsert
  <2>2. /\ pc'[c] = "notify" /\ arg'[c].env = e /\ arg'[c].queue = arg[c].queue
        /\ \A d \in Client : d # c => pc'[d] = pc[d] /\ arg'[d] = arg[d]
        /\ pc[c] = "insert"
    BY <1>1, <1>t, Zenon DEF PushInsert, Goto, Arg
  <2>3. NotifyInv'
    <3>1. \A p \in Client : pc'[p] = "notify" /\ p # c =>
            /\ arg'[p] = arg[p] /\ pc[p] = "notify"
            /\ arg[p].env \in EnvelopeId /\ arg[p].env # e
      BY <2>1, <2>2, Zenon DEF WakeInv, NotifyInv, TypeInv, RequestInv
    <3>2. envelopes'[e].state = "stored"
      BY <1>1, <1>t, Zenon DEF PushInsert
    <3> QED
      BY <2>1, <2>2, <3>1, <3>2 DEF WakeInv, NotifyInv, Stored
  <2>4. ASSUME NEW d \in Client, pc'[d] = "waiting",
               NEW f \in Live(arg[d].queue, clock)', f \notin arg'[d].seen
        PROVE  \E p \in Client : pc'[p] = "notify" /\ arg'[p].env = f
    <3>1. CASE f = e
      BY <2>2, <3>1, Zenon
    <3>2. CASE f # e
      <4>1. d # c /\ pc[d] = "waiting" /\ arg'[d] = arg[d]
        BY <2>2, <2>4, Zenon
      <4>2. f \in Live(arg[d].queue, clock)
        BY <2>1, <2>4, <3>2, <4>1, Zenon DEF Live, Stored
      <4>3. PICK p \in Client : pc[p] = "notify" /\ arg[p].env = f
        BY <2>4, <4>1, <4>2, Zenon DEF WakeInv, WokenByLaterPush
      <4> QED
        BY <2>2, <4>3, Zenon
    <3> QED
      BY <3>1, <3>2, Zenon
  <2> QED
    BY <2>3, <2>4, Zenon DEF WakeInv, WokenByLaterPush
<1>2. ASSUME NEW c \in Client, PushNotify(c) PROVE WakeInv'
  <2>1. /\ UNCHANGED <<envelopes, clock>>
        /\ pc'[c] = "idle"
        /\ \A d \in Client : d # c => arg'[d] = arg[d]
        /\ \A d \in Client : d # c => pc'[d] = IF d \in Waiters(arg[c].queue)
                                               THEN "woken" ELSE pc[d]
        /\ pc[c] = "notify"
    BY <1>2, <1>t, Zenon DEF PushNotify
  <2>2. NotifyInv'
    BY <2>1, Zenon DEF WakeInv, NotifyInv, Waiters, Stored
  <2>3. ASSUME NEW d \in Client, pc'[d] = "waiting",
               NEW f \in Live(arg[d].queue, clock)', f \notin arg'[d].seen
        PROVE  \E p \in Client : pc'[p] = "notify" /\ arg'[p].env = f
    <3>1. /\ d # c /\ pc[d] = "waiting" /\ arg'[d] = arg[d]
          /\ arg[d].queue # arg[c].queue
      BY <2>1, <2>3, Zenon DEF Waiters
    <3>2. f \in Live(arg[d].queue, clock) /\ f \notin arg[d].seen
      BY <2>1, <2>3, <3>1, Zenon DEF Live, Stored
    <3>3. PICK p \in Client : pc[p] = "notify" /\ arg[p].env = f
      BY <3>1, <3>2, Zenon DEF WakeInv, WokenByLaterPush
    <3>4. p # c
      BY <3>1, <3>2, <3>3, <2>1, Zenon DEF WakeInv, NotifyInv, Live
    <3> QED
      BY <2>1, <3>3, <3>4, Zenon DEF Waiters
  <2> QED
    BY <2>2, <2>3, Zenon DEF WakeInv, WokenByLaterPush
<1>3. ASSUME NEW c \in Client, PullListen(c) PROVE WakeInv'
  <2>1. /\ UNCHANGED <<envelopes, clock>>
        /\ pc[c] = "listen" /\ pc'[c] = "waiting"
        /\ arg'[c].queue = arg[c].queue
        /\ arg'[c].seen = {e \in EnvelopeId :
                             Stored(e) /\ envelopes[e].queue = arg[c].queue}
        /\ \A d \in Client : d # c => pc'[d] = pc[d] /\ arg'[d] = arg[d]
    BY <1>3, <1>t, Zenon DEF PullListen, Goto, Arg
  <2>2. NotifyInv'
    BY <2>1, SMTT(30) DEF WakeInv, NotifyInv, Stored
  <2>3. ASSUME NEW d \in Client, pc'[d] = "waiting",
               NEW f \in Live(arg[d].queue, clock)', f \notin arg'[d].seen
        PROVE  \E p \in Client : pc'[p] = "notify" /\ arg'[p].env = f
    <3>1. d # c
      BY <2>1, <2>3 DEF Live, Stored
    <3>2. f \in Live(arg[d].queue, clock) /\ f \notin arg[d].seen
      BY <2>1, <2>3, <3>1, Zenon DEF Live, Stored
    <3> QED
      BY <2>1, <2>3, <3>1, <3>2 DEF WakeInv, WokenByLaterPush
  <2> QED
    BY <2>2, <2>3, Zenon DEF WakeInv, WokenByLaterPush
<1>4. ASSUME NEW c \in Client, AckUpdate(c) PROVE WakeInv'
  <2>1. /\ clock' = clock
        /\ \A e \in EnvelopeId :
             /\ envelopes'[e].state = envelopes[e].state
             /\ envelopes'[e].queue = envelopes[e].queue
             /\ envelopes'[e].expires = envelopes[e].expires
             /\ envelopes[e].delivered => envelopes'[e].delivered
    BY <1>4, <1>t DEF AckUpdate, Row
  <2>2. /\ \A d \in Client : pc'[d] = "waiting" =>
             pc[d] = "waiting" /\ arg'[d] = arg[d]
        /\ \A d \in Client : (pc[d] = "notify" \/ pc'[d] = "notify") =>
             pc'[d] = pc[d] /\ arg'[d] = arg[d]
    BY <1>4, <1>t, Zenon DEF AckUpdate, Goto, Answer
  <2>3. \A q : Live(q, clock)' \subseteq Live(q, clock)
    BY <2>1, Zenon DEF Live, Stored
  <2> QED
    BY <2>1, <2>2, <2>3, WakeQuiet, Zenon DEF Stored
<1>5. CASE SweepDelete
  <2>1. /\ \A e \in EnvelopeId :
             /\ Stored(e)' => Stored(e) /\ envelopes'[e] = envelopes[e]
             /\ envelopes'[e].state = "unsent" => envelopes[e].state = "unsent"
        /\ UNCHANGED <<clock, pc, arg>>
    BY <1>5, <1>t, Zenon DEF SweepDelete, Stored, NoRow
  <2>2. \A q : Live(q, clock)' \subseteq Live(q, clock)
    BY <2>1, Zenon DEF Live
  <2> QED
    BY <2>1, <2>2, WakeQuiet, Zenon
<1>6. CASE Tick
  <2>1. clock' = clock + 1 /\ UNCHANGED <<envelopes, pc, arg>>
    BY <1>6, Zenon DEF Tick
  <2>2. \A e \in EnvelopeId : envelopes[e].expires \in Nat
    BY <1>t, Zenon DEF Row, Time
  <2>3. \A q : Live(q, clock)' \subseteq Live(q, clock)
    BY <2>1, <2>2, <1>t DEF Live, Stored
  <2> QED
    BY <2>1, <2>3, WakeQuiet, Zenon DEF Stored
<1>7. CASE Restart
  BY <1>7, Zenon DEF Restart, WakeInv, NotifyInv, WokenByLaterPush
<1>8. ASSUME UNCHANGED <<envelopes, clock>>,
             \A d \in Client : pc'[d] = "waiting" =>
               pc[d] = "waiting" /\ arg'[d] = arg[d],
             \A d \in Client : (pc[d] = "notify" \/ pc'[d] = "notify") =>
               pc'[d] = pc[d] /\ arg'[d] = arg[d]
      PROVE  WakeInv'
  BY <1>8, WakeQuiet, Zenon DEF Live, Stored
<1>9. CASE SweepTick \/ SweepError \/ UNCHANGED vars
  BY <1>8, <1>9, Zenon DEF SweepTick, SweepError, vars
<1>10. ASSUME NEW c \in Client,
              \/ Reject(c)
              \/ PullTimeout(c) \/ PullReselect(c) \/ AckReceipt(c)
              \/ StoreError(c) \/ Disconnect(c)
       PROVE  WakeInv'
  BY <1>8, <1>10, <1>t, Zenon
  DEF Reject, PullTimeout, PullReselect, AckReceipt, StoreError, Disconnect,
      Answer
<1>11. ASSUME NEW c \in Client,
              \/ \E q \in Queue, ttl \in ReqTtl : PushStart(c, q, ttl)
              \/ \E q \in Queue, l \in ReqLimit, w \in BOOLEAN : PullStart(c, q, l, w)
              \/ PullSelect(c) \/ PullWoken(c)
              \/ \E q \in Queue, e \in EnvelopeId : AckStart(c, q, e)
       PROVE  WakeInv'
  <2>1. /\ UNCHANGED <<envelopes, clock>>
        /\ pc[c] # "notify"
    BY <1>11, Zenon DEF PushStart, PullStart, PullSelect, PullWoken, AckStart
  <2>2. \E step, locals : /\ step \notin {"waiting", "notify"}
                          /\ \/ Goto(c, step, locals)
                             \/ \E envs : Answer(c, "envelopes", envs)
    BY <1>11, Zenon DEF PushStart, PullStart, PullSelect, PullWoken, AckStart
  <2>3. \A d \in Client : /\ d # c => pc'[d] = pc[d] /\ arg'[d] = arg[d]
                          /\ d = c => pc'[d] \notin {"waiting", "notify"}
    BY <2>2, <1>t, Zenon DEF Goto, Answer
  <2> QED
    BY <1>8, <2>1, <2>3, Zenon
<1> QED
  BY <1>1, <1>2, <1>3, <1>4, <1>5, <1>6, <1>7, <1>9, <1>10, <1>11, Zenon
  DEF Next, ClientStep

\* No arrival after a long poll has begun to listen is lost on it: as long as it
\* waits, the push of every such live envelope still has its notify to do.
THEOREM LaterPushesWake == Spec => []WokenByLaterPush
<1>1. Spec => []TypeInv
  BY TypeInit, TypeNext, PTL DEF Spec
<1>2. Spec => []WakeInv
  BY <1>1, WakeInit, WakeNext, PTL DEF Spec
<1>3. WakeInv => WokenByLaterPush
  BY Zenon DEF WakeInv
<1> QED
  BY <1>2, <1>3, PTL

-----------------------------------------------------------------------------
(***************************************************************************)
(* Startup.  The schema is complete whenever a process has migrated, for   *)
(* any number of starts that were cut short, and whatever the migrations   *)
(* are: of the table Migrations the proof uses only that it is a sequence  *)
(* of sequences.  And the node, through its starts and stops, is still the *)
(* relay of Mailbox, so that what is proved above of the relay it keeps.   *)
(***************************************************************************)
Migrations == M!Migrations

\* Migrations is a sequence of sequences, which is all that is used of it below.
LEMMA MigrationsType ==
  /\ Len(Migrations) \in Nat
  /\ DOMAIN Migrations = 1..Len(Migrations)
  /\ \A v \in DOMAIN Migrations :
       /\ Len(Migrations[v]) \in Nat
       /\ DOMAIN Migrations[v] = 1..Len(Migrations[v])
<1>1. Len(Migrations) = 2 /\ DOMAIN Migrations = 1..2
  BY DEF Migrations, M!Migrations
<1>2. Len(Migrations[1]) = 6 /\ DOMAIN Migrations[1] = 1..6
  BY DEF Migrations, M!Migrations
<1>3. Len(Migrations[2]) = 1 /\ DOMAIN Migrations[2] = 1..1
  BY DEF Migrations, M!Migrations
<1> QED
  BY <1>1, <1>2, <1>3

\* A run has behind it the versions it has passed, which are recorded, and the
\* statements of the version it is at, whose objects are there.
SchemaInv ==
  /\ at \in [version : Nat, stmt : Nat]
  /\ at.version <= Len(Migrations) + 1
  /\ versions \subseteq DOMAIN Migrations
  /\ \A v \in versions : \A i \in DOMAIN Migrations[v] : Migrations[v][i] \in objects
  /\ \A v \in 1..(at.version - 1) : v \in versions
  /\ at.version \in DOMAIN Migrations =>
       \A i \in 1..(at.stmt - 1) : Migrations[at.version][i] \in objects

\* Creates(v) is the set of what the statements of version v create.
LEMMA CreatesIsRange ==
  ASSUME NEW v, NEW S
  PROVE  M!Creates(v) \subseteq S <=>
           \A i \in DOMAIN Migrations[v] : Migrations[v][i] \in S
  BY DEF M!Creates, Migrations

\* The databases of earlier releases have the objects of the versions they record.
LEMMA SchemaInit == NodeInit => SchemaInv
<1> SUFFICES ASSUME NodeInit PROVE SchemaInv
  OBVIOUS
<1>1. at = [version |-> 0, stmt |-> 0]
  BY DEF NodeInit, M!MigrateInit, M!Start
<1>2. PICK n \in 0..Len(Migrations) :
        /\ versions = 1..n
        /\ UNION {M!Creates(v) : v \in 1..n} \subseteq objects
  BY DEF NodeInit, M!MigrateInit, Migrations
<1>3. \A v \in versions : M!Creates(v) \subseteq objects
  BY <1>2
<1>4. \A v \in versions : \A i \in DOMAIN Migrations[v] : Migrations[v][i] \in objects
  BY <1>3, CreatesIsRange
<1> QED
  BY <1>1, <1>2, <1>4, MigrationsType DEF SchemaInv

\* Every step of a migration run keeps what the run has behind it.
LEMMA SchemaStep == SchemaInv /\ [NodeNext]_nodeVars => SchemaInv'
<1> SUFFICES ASSUME SchemaInv, [NodeNext]_nodeVars PROVE SchemaInv'
  OBVIOUS
<1> USE MigrationsType
<1>1. ASSUME NEW p \in {Daemon, Cli}, OpenStore(p) PROVE SchemaInv'
  BY <1>1 DEF SchemaInv, OpenStore, M!Open, M!Start
<1>2. CASE MigrateStore
  <2>1. CASE M!CreateVersionTable
    BY <2>1 DEF SchemaInv, M!CreateVersionTable, M!NextVersion
  <2>2. CASE M!IsApplied
    <3>1. at.version \in DOMAIN Migrations /\ at.stmt = 0 /\ UNCHANGED <<objects, versions>>
      BY <2>2 DEF M!IsApplied, Migrations
    <3>2. CASE at.version \in versions /\ at' = M!NextVersion
      BY <3>1, <3>2, SMTT(30) DEF SchemaInv, M!NextVersion
    <3>3. CASE at' = M!NextStatement
      BY <3>1, <3>3 DEF SchemaInv, M!NextStatement
    <3> QED
      BY <2>2, <3>2, <3>3 DEF M!IsApplied
  <2>3. CASE M!Execute
    <3>1. /\ at.version \in DOMAIN Migrations
          /\ at.stmt \in DOMAIN Migrations[at.version]
          /\ objects' = objects \cup {Migrations[at.version][at.stmt]}
          /\ at' = [at EXCEPT !.stmt = @ + 1]
          /\ versions' = versions
      BY <2>3 DEF M!Execute, M!NextStatement, Migrations
    <3>2. at' \in [version : Nat, stmt : Nat] /\ at'.version = at.version
          /\ at'.stmt = at.stmt + 1
      BY <3>1 DEF SchemaInv
    <3>3. \A i \in 1..(at'.stmt - 1) : Migrations[at'.version][i] \in objects'
      BY <3>1, <3>2, SMTT(30) DEF SchemaInv
    <3> QED
      BY <3>1, <3>2, <3>3, SMTT(30) DEF SchemaInv
  <2>4. CASE M!Record
    <3>1. /\ at.version \in DOMAIN Migrations
          /\ at.stmt = Len(Migrations[at.version]) + 1
          /\ versions' = versions \cup {at.version}
          /\ at' = [version |-> at.version + 1, stmt |-> 0]
          /\ objects' = objects
      BY <2>4 DEF M!Record, M!NextVersion, Migrations
    <3>2. \A i \in DOMAIN Migrations[at.version] : Migrations[at.version][i] \in objects
      BY <3>1 DEF SchemaInv
    <3> QED
      BY <3>1, <3>2, SMTT(30) DEF SchemaInv
  <2> QED
    BY <1>2, <2>1, <2>2, <2>3, <2>4 DEF MigrateStore, M!MigrateStep
<1>3. CASE Stop
  BY <1>3 DEF SchemaInv, Stop, M!Close, M!Start
<1>4. CASE UNCHANGED store
  BY <1>4 DEF SchemaInv, store
<1> QED
  BY <1>1, <1>2, <1>3, <1>4
  DEF NodeNext, nodeVars, RelayStep, Relay, CliSweep, TimePasses

\* Whoever has migrated finds every table and index of every version, and a version is
\* recorded only when all it creates is there (migrate.rs, run), for any history of
\* starts and stops.
THEOREM SchemaIsComplete == NodeSpec => []SchemaComplete
<1>1. SchemaInv => SchemaComplete
  <2> SUFFICES ASSUME SchemaInv PROVE SchemaComplete
    OBVIOUS
  <2>1. \A v \in versions : M!Creates(v) \subseteq objects
    BY CreatesIsRange, Zenon DEF SchemaInv
  <2>2. ASSUME NEW p, M!Migrated(p) PROVE versions = DOMAIN M!Migrations
    <3>1. at = [version |-> Len(Migrations) + 1, stmt |-> 0]
      BY <2>2 DEF M!Migrated, M!Past, Migrations
    <3>2. at.version - 1 = Len(Migrations)
      BY <3>1, MigrationsType
    <3>3. \A v \in DOMAIN Migrations : v \in versions
      BY <3>2, MigrationsType DEF SchemaInv
    <3>4. versions = DOMAIN Migrations
      BY <3>3, Zenon DEF SchemaInv
    <3> QED
      BY <3>4 DEF Migrations
  <2> QED
    BY <2>1, <2>2 DEF SchemaComplete
<1> QED
  BY <1>1, SchemaInit, SchemaStep, PTL DEF NodeSpec

-----------------------------------------------------------------------------
\* A step of the node is a step of the relay, or none of its business.
LEMMA NodeStepIsRelayStep == [NodeNext]_nodeVars => [Next]_vars
<1> SUFFICES ASSUME [NodeNext]_nodeVars PROVE [Next]_vars
  OBVIOUS
<1>1. CASE \E p \in {Daemon, Cli} : OpenStore(p)
  BY <1>1 DEF OpenStore
<1>2. CASE MigrateStore
  BY <1>2 DEF MigrateStore
<1>3. CASE RelayStep
  BY <1>3 DEF RelayStep, Relay, Next
<1>4. CASE CliSweep
  BY <1>4 DEF CliSweep, Next
<1>5. CASE Stop
  BY <1>5 DEF Stop, Next
<1>6. CASE TimePasses
  BY <1>6 DEF TimePasses, Next
<1>7. CASE UNCHANGED nodeVars
  BY <1>7 DEF nodeVars
<1> QED
  BY <1>1, <1>2, <1>3, <1>4, <1>5, <1>6, <1>7 DEF NodeNext

\* The node, with its migrations, the CLI's sweeps and its restarts, is the relay that
\* Mailbox specifies.
LEMMA NodeIsRelay == NodeSpec => Spec
<1>1. NodeInit => Init
  BY DEF NodeInit
<1> QED
  BY <1>1, NodeStepIsRelayStep, PTL DEF NodeSpec, Spec

\* So it keeps envelopes as RelayQueue says: what was accepted stays until it is
\* acknowledged or expires, whoever migrates, sweeps or stops meanwhile, and only
\* an ack cut short by a failure or a stop loses a receipt.
THEOREM NodeKeepsEnvelopes == NodeSpec => RelayQueueSpec
  BY NodeIsRelay, RelayKeepsEnvelopes, PTL
=============================================================================
