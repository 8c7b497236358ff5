----------------------------- MODULE FlashProofs -----------------------------
(***************************************************************************)
(* Proofs about the flash service for any number of callers, any requests, *)
(* any results and any queue length.                                       *)
(*                                                                         *)
(* StackSafe is not inductive: the service takes the next message from the *)
(* queue, so every message there must already have what StackSafe demands. *)
(* That holds because a caller has at most one message, in the queue or in *)
(* the service, and a semaphore is given only to a caller that waits.      *)
(***************************************************************************)
EXTENDS FlashService, FiniteSetTheorems, TLAPS

\* The caller of a queued message waits for that message and no other.
QueuedCallersWait ==
    \A i \in 1..Len(queue) :
        /\ cpc[queue[i].client] = "wait"
        /\ req[queue[i].client] = queue[i].request
        /\ completion[queue[i].client] = 0
        /\ fpc # "get" => queue[i].client # msg.client

\* A caller has at most one message in the queue.
QueuedOnce ==
    \A i, j \in 1..Len(queue) : queue[i].client = queue[j].client => i = j

\* A semaphore that has been given belongs to a caller in its call.
GivenToWaiting == \A c \in Clients : completion[c] = 1 => cpc[c] = "wait"

\* What the service is about to write, or has written, is what it executed.
ResultInHand ==
    /\ fpc \in {"idle", "answer", "give"} => ran[msg.client] = ret
    /\ fpc = "give" => operation_result[msg.client] = ran[msg.client]

InQueue(c) == \E i \in 1..Len(queue) : queue[i].client = c

\* A caller that waits has its message in the queue or in the service, or has been
\* given its semaphore, with a result.
CallKept ==
    \A c \in Clients : cpc[c] = "wait" =>
        \/ InQueue(c)
        \/ fpc # "get" /\ msg.client = c
        \/ completion[c] = 1 /\ ran[c] \in Results

FlashInv ==
    /\ FlashTypeOK
    /\ QueuedCallersWait /\ QueuedOnce /\ GivenToWaiting
    /\ StackSafe
    /\ ResultInHand /\ OwnResult /\ CallKept

-----------------------------------------------------------------------------
LEMMA InitFlashInv == FlashInit => FlashInv
<1> SUFFICES ASSUME FlashInit PROVE FlashInv
  OBVIOUS
<1>1. FlashTypeOK
  <2>1. queue \in Seq(Messages)
    BY DEF FlashInit
  <2>2. req \in [Clients -> Requests \cup {NoMessage}]
    BY DEF FlashInit
  <2>3. /\ operation_result \in [Clients -> Results \cup {EINPROGRESS}]
        /\ ran \in [Clients -> Results \cup {EINPROGRESS}]
    BY DEF FlashInit
  <2>4. /\ completion \in [Clients -> {0, 1}]
        /\ cpc \in [Clients -> {"out", "put", "wait"}]
    BY DEF FlashInit
  <2> QED BY <2>1, <2>2, <2>3, <2>4 DEF FlashInit, FlashTypeOK
<1>2. Len(queue) = 0
  BY DEF FlashInit
<1>3. QueuedCallersWait /\ QueuedOnce
  BY <1>2 DEF QueuedCallersWait, QueuedOnce
<1>4. GivenToWaiting /\ StackSafe /\ ResultInHand /\ OwnResult /\ CallKept
  BY DEF FlashInit, GivenToWaiting, StackSafe, ResultInHand, OwnResult, CallKept
<1> QED BY <1>1, <1>3, <1>4 DEF FlashInv

\* What is in the queue is a message.
LEMMA QueuedTyped ==
  ASSUME FlashTypeOK
  PROVE  \A i \in 1..Len(queue) : queue[i] \in Messages
  BY DEF FlashTypeOK

\* A call begins: nothing refers to the caller.
LEMMA RequestInv ==
  ASSUME FlashInv, NEW c \in Clients, NEW r \in Requests, Request(c, r)
  PROVE  FlashInv'
<1>1. FlashTypeOK'
  <2>1. req' \in [Clients -> Requests \cup {NoMessage}]
    BY DEF FlashInv, FlashTypeOK, Request
  <2>2. operation_result' \in [Clients -> Results \cup {EINPROGRESS}]
    BY DEF FlashInv, FlashTypeOK, Request
  <2>3. /\ completion' \in [Clients -> {0, 1}]
        /\ cpc' \in [Clients -> {"out", "put", "wait"}]
    BY DEF FlashInv, FlashTypeOK, Request
  <2>4. \A d \in Clients : cpc'[d] # "out" => req'[d] \in Requests
    BY DEF FlashInv, FlashTypeOK, Request
  <2> QED BY <2>1, <2>2, <2>3, <2>4 DEF FlashInv, FlashTypeOK, Request
<1>2. \A i \in 1..Len(queue) : queue[i] \in Messages /\ queue[i].client # c
  BY QueuedTyped DEF FlashInv, QueuedCallersWait, Request
<1>3. QueuedCallersWait'
  BY <1>2 DEF FlashInv, FlashTypeOK, Messages, QueuedCallersWait, Request
<1>4. QueuedOnce' /\ GivenToWaiting'
  BY DEF FlashInv, FlashTypeOK, QueuedOnce, GivenToWaiting, Request
<1>5. StackSafe' /\ ResultInHand' /\ OwnResult'
  BY DEF FlashInv, FlashTypeOK, Messages, StackSafe, ResultInHand, OwnResult, Request
<1>6. CallKept'
  BY DEF FlashInv, FlashTypeOK, CallKept, InQueue, Request
<1> QED BY <1>1, <1>3, <1>4, <1>5, <1>6 DEF FlashInv

\* The message is queued: the caller had none.
LEMMA PutInv ==
  ASSUME FlashInv, NEW c \in Clients, Put(c)
  PROVE  FlashInv'
<1> DEFINE m == [client |-> c, request |-> req[c]]
<1>1. m \in Messages
  BY DEF FlashInv, FlashTypeOK, Messages, Put
<1>2. FlashTypeOK'
  <2>1. queue' \in Seq(Messages)
    BY <1>1 DEF FlashInv, FlashTypeOK, Put
  <2>2. cpc' \in [Clients -> {"out", "put", "wait"}]
    BY DEF FlashInv, FlashTypeOK, Put
  <2>3. \A d \in Clients : cpc'[d] # "out" => req'[d] \in Requests
    BY DEF FlashInv, FlashTypeOK, Put
  <2> QED BY <2>1, <2>2, <2>3 DEF FlashInv, FlashTypeOK, Put
<1>3. \A i \in 1..Len(queue) : queue[i] \in Messages /\ queue[i].client # c
  BY QueuedTyped DEF FlashInv, QueuedCallersWait, Put
<1>4. /\ Len(queue') = Len(queue) + 1
      /\ \A i \in 1..Len(queue) : queue'[i] = queue[i]
      /\ queue'[Len(queue) + 1] = m
  BY <1>1 DEF FlashInv, FlashTypeOK, Put
<1>5. completion[c] = 0 /\ (fpc # "get" => msg.client # c)
  BY DEF FlashInv, FlashTypeOK, GivenToWaiting, StackSafe, Put
<1>6. QueuedCallersWait'
  BY <1>3, <1>4, <1>5 DEF FlashInv, FlashTypeOK, Messages, QueuedCallersWait, Put
<1>7. QueuedOnce'
  BY <1>3, <1>4 DEF FlashInv, FlashTypeOK, Messages, QueuedOnce
<1>8. GivenToWaiting' /\ StackSafe' /\ ResultInHand' /\ OwnResult'
  BY <1>5 DEF FlashInv, FlashTypeOK, Messages, GivenToWaiting, StackSafe, ResultInHand,
     OwnResult, Put
<1>9. CallKept'
  <2>1. ASSUME NEW d \in Clients, InQueue(d) \/ d = c PROVE InQueue(d)'
    <3>1. PICK i \in 1..Len(queue') : queue'[i].client = d
      BY <1>4, <2>1 DEF InQueue, FlashInv, FlashTypeOK
    <3> QED BY <3>1 DEF InQueue
  <2>2. \A d \in Clients \ {c} : cpc'[d] = cpc[d]
    BY DEF FlashInv, FlashTypeOK, Put
  <2> QED BY <2>1, <2>2 DEF FlashInv, CallKept, Put
<1> QED BY <1>2, <1>6, <1>7, <1>8, <1>9 DEF FlashInv

\* The call returns: its semaphore was given, so no message of it is left.
LEMMA ReturnInv ==
  ASSUME FlashInv, NEW c \in Clients, Return(c)
  PROVE  FlashInv'
<1>1. FlashTypeOK'
  <2>1. req' \in [Clients -> Requests \cup {NoMessage}]
    BY DEF FlashInv, FlashTypeOK, Return, Left
  <2>2. operation_result' \in [Clients -> Results \cup {EINPROGRESS}]
    BY DEF FlashInv, FlashTypeOK, Return, Left
  <2>3. ran' \in [Clients -> Results \cup {EINPROGRESS}]
    BY DEF FlashInv, FlashTypeOK, Return, Left
  <2>4. /\ completion' \in [Clients -> {0, 1}]
        /\ cpc' \in [Clients -> {"out", "put", "wait"}]
    BY DEF FlashInv, FlashTypeOK, Return, Left
  <2>5. \A d \in Clients : cpc'[d] # "out" => req'[d] \in Requests
    BY DEF FlashInv, FlashTypeOK, Return, Left
  <2> QED BY <2>1, <2>2, <2>3, <2>4, <2>5 DEF FlashInv, FlashTypeOK, Return, Left
<1>2. \A i \in 1..Len(queue) : queue[i] \in Messages /\ queue[i].client # c
  BY QueuedTyped DEF FlashInv, QueuedCallersWait, Return
<1>3. fpc # "get" => msg \in Messages /\ msg.client # c
  BY DEF FlashInv, FlashTypeOK, StackSafe, Return
<1>4. QueuedCallersWait'
  BY <1>2 DEF FlashInv, FlashTypeOK, Messages, QueuedCallersWait, Return, Left
<1>5. QueuedOnce' /\ GivenToWaiting'
  BY DEF FlashInv, FlashTypeOK, QueuedOnce, GivenToWaiting, Return, Left
<1>6. StackSafe' /\ ResultInHand' /\ OwnResult'
  BY <1>3 DEF FlashInv, FlashTypeOK, Messages, StackSafe, ResultInHand, OwnResult, Return,
     Left
<1>7. CallKept'
  BY DEF FlashInv, FlashTypeOK, CallKept, InQueue, Return, Left
<1> QED BY <1>1, <1>4, <1>5, <1>6, <1>7 DEF FlashInv

\* The service takes a message: what held of it in the queue is StackSafe.
LEMMA GetInv ==
  ASSUME FlashInv, Get
  PROVE  FlashInv'
<1>1. /\ queue \in Seq(Messages) /\ queue # <<>>
      /\ msg' = queue[1] /\ msg' \in Messages
      /\ queue' \in Seq(Messages) /\ Len(queue') = Len(queue) - 1
      /\ \A i \in 1..Len(queue') : i + 1 \in 1..Len(queue) /\ queue'[i] = queue[i + 1]
  BY DEF FlashInv, FlashTypeOK, Get
<1>2. FlashTypeOK'
  BY <1>1 DEF FlashInv, FlashTypeOK, Get
<1>3. 1 \in 1..Len(queue)
  BY <1>1
<1>4. QueuedCallersWait'
  BY <1>1, <1>3 DEF FlashInv, QueuedCallersWait, QueuedOnce, Get
<1>5. QueuedOnce'
  BY <1>1 DEF FlashInv, QueuedOnce
<1>6. StackSafe'
  BY <1>1, <1>3 DEF FlashInv, StackSafe, QueuedCallersWait, Get
<1>7. GivenToWaiting' /\ ResultInHand' /\ OwnResult'
  BY DEF FlashInv, GivenToWaiting, ResultInHand, OwnResult, Get
<1>8. CallKept'
  <2>1. ASSUME NEW c \in Clients, InQueue(c) PROVE InQueue(c)' \/ msg'.client = c
    <3>1. PICK i \in 1..Len(queue) : queue[i].client = c
      BY <2>1 DEF InQueue
    <3>2. CASE i = 1
      BY <1>1, <3>1, <3>2
    <3>3. CASE i # 1
      <4>1. i - 1 \in 1..Len(queue') /\ queue'[i - 1] = queue[i]
        BY <1>1, <3>3
      <4> QED BY <3>1, <4>1 DEF InQueue
    <3> QED BY <3>2, <3>3
  <2> QED BY <2>1 DEF FlashInv, CallKept, Get
<1> QED BY <1>2, <1>4, <1>5, <1>6, <1>7, <1>8 DEF FlashInv

\* Executing, marking idle, answering and giving concern the message in hand.
LEMMA ExecuteInv ==
  ASSUME FlashInv, NEW r \in Results, Execute(r)
  PROVE  FlashInv'
<1>1. FlashTypeOK'
  BY DEF FlashInv, FlashTypeOK, Messages, Execute
<1>2. QueuedCallersWait' /\ QueuedOnce' /\ GivenToWaiting' /\ StackSafe'
  BY DEF FlashInv, QueuedCallersWait, QueuedOnce, GivenToWaiting, StackSafe, Execute
<1>3. ResultInHand' /\ OwnResult'
  BY DEF FlashInv, FlashTypeOK, Messages, StackSafe, ResultInHand, OwnResult, Execute
<1>4. CallKept'
  BY DEF FlashInv, FlashTypeOK, CallKept, InQueue, Execute
<1> QED BY <1>1, <1>2, <1>3, <1>4 DEF FlashInv

LEMMA IdleInv ==
  ASSUME FlashInv, Idle
  PROVE  FlashInv'
  BY DEF FlashInv, FlashTypeOK, Idle, QueuedCallersWait, QueuedOnce, GivenToWaiting,
     StackSafe, ResultInHand, OwnResult, CallKept, InQueue

LEMMA AnswerInv ==
  ASSUME FlashInv, Answer
  PROVE  FlashInv'
<1>1. FlashTypeOK'
  BY DEF FlashInv, FlashTypeOK, Messages, Answer
<1>2. QueuedCallersWait' /\ QueuedOnce' /\ GivenToWaiting' /\ StackSafe'
  BY DEF FlashInv, QueuedCallersWait, QueuedOnce, GivenToWaiting, StackSafe, Answer
<1>3. ResultInHand' /\ OwnResult'
  BY DEF FlashInv, FlashTypeOK, Messages, StackSafe, ResultInHand, OwnResult, Answer
<1>4. CallKept'
  BY DEF FlashInv, CallKept, InQueue, Answer
<1> QED BY <1>1, <1>2, <1>3, <1>4 DEF FlashInv

LEMMA GiveInv ==
  ASSUME FlashInv, Give
  PROVE  FlashInv'
<1>1. FlashTypeOK'
  BY FlashAssumption DEF FlashInv, FlashTypeOK, Messages, Give
<1>2. QueuedCallersWait'
  BY DEF FlashInv, FlashTypeOK, Messages, QueuedCallersWait, Give
<1>3. QueuedOnce' /\ StackSafe' /\ ResultInHand'
  BY DEF FlashInv, QueuedOnce, StackSafe, ResultInHand, Give
<1>4. GivenToWaiting' /\ OwnResult'
  BY DEF FlashInv, FlashTypeOK, Messages, StackSafe, GivenToWaiting, ResultInHand, OwnResult,
     Give
<1>5. CallKept'
  BY DEF FlashInv, FlashTypeOK, Messages, ResultInHand, CallKept, InQueue, Give
<1> QED BY <1>1, <1>2, <1>3, <1>4, <1>5 DEF FlashInv

LEMMA NextFlashInv == FlashInv /\ [FlashNext]_flashVars => FlashInv'
<1> SUFFICES ASSUME FlashInv, [FlashNext]_flashVars PROVE FlashInv'
  OBVIOUS
<1>1. CASE FlashThread
  BY <1>1, GetInv, IdleInv, AnswerInv, GiveInv DEF FlashThread
<1>2. CASE \E r \in Results : Execute(r)
  BY <1>2, ExecuteInv
<1>3. CASE \E c \in Clients, r \in Requests : Request(c, r)
  BY <1>3, RequestInv
<1>4. CASE \E c \in Clients : Put(c) \/ Return(c)
  BY <1>4, PutInv, ReturnInv
<1>5. CASE UNCHANGED flashVars
  BY <1>5 DEF flashVars, FlashInv, FlashTypeOK, QueuedCallersWait, QueuedOnce,
     GivenToWaiting, StackSafe, ResultInHand, OwnResult, CallKept, InQueue
<1> QED BY <1>1, <1>2, <1>3, <1>4, <1>5 DEF FlashNext

-----------------------------------------------------------------------------
\* The variables of the flash service and of its callers keep their types.
THEOREM FlashTypeCorrect == FlashSpec => []FlashTypeOK
<1>1. FlashInv => FlashTypeOK
  BY DEF FlashInv
<1> QED BY <1>1, InitFlashInv, NextFlashInv, PTL DEF FlashSpec

\* However many threads call the service and whatever they preempt, it writes
\* results and gives semaphores only into calls that are waiting for them.
THEOREM StackIsSafe == FlashSpec => []StackSafe
<1>1. FlashInv => StackSafe
  BY DEF FlashInv
<1> QED BY <1>1, InitFlashInv, NextFlashInv, PTL DEF FlashSpec

\* A call that may return has the result of executing its own request.
THEOREM ResultIsOwn == FlashSpec => []OwnResult
<1>1. FlashInv => OwnResult
  BY DEF FlashInv
<1> QED BY <1>1, InitFlashInv, NextFlashInv, PTL DEF FlashSpec

\* No call is lost on its way: whoever waits is in the queue, in the service, or
\* has its result, so that a service that goes on serves everybody
\* (EveryCallReturns rests on it).
THEOREM NoCallIsForgotten == FlashSpec => []CallKept
<1>1. FlashInv => CallKept
  BY DEF FlashInv
<1> QED BY <1>1, InitFlashInv, NextFlashInv, PTL DEF FlashSpec

\* A caller that is about to put its message finds room for it.
RoomInQueue == \A c \in Clients : cpc[c] = "put" => Len(queue) < QueueLen

\* The messages are of different callers, none of whom is still putting one.
LEMMA QueueHasRoom ==
  ASSUME FlashInv, IsFiniteSet(Clients), Cardinality(Clients) <= QueueLen
  PROVE  RoomInQueue
<1> SUFFICES ASSUME NEW c \in Clients, cpc[c] = "put"
             PROVE  Len(queue) < QueueLen
  BY DEF RoomInQueue
<1> DEFINE I == 1..Len(queue)
           D == Clients \ {c}
           f == [i \in I |-> queue[i].client]
<1>1. queue \in Seq(Messages) /\ Len(queue) \in Nat
  BY DEF FlashInv, FlashTypeOK
<1>2. \A i \in I : queue[i].client \in D
  <2> SUFFICES ASSUME NEW i \in I PROVE queue[i].client \in D
    OBVIOUS
  <2>1. queue[i].client \in Clients
    <3>1. queue[i] \in Messages
      BY <1>1
    <3> QED BY <3>1 DEF Messages
  <2>2. cpc[queue[i].client] = "wait"
    BY DEF FlashInv, QueuedCallersWait
  <2> QED BY <2>1, <2>2
<1>3. f \in Injection(I, D)
  <2>1. \A i, j \in I : queue[i].client = queue[j].client => i = j
    BY DEF FlashInv, QueuedOnce
  <2>2. f \in [I -> D] /\ \A i, j \in I : f[i] = f[j] => i = j
    BY <1>2, <2>1
  <2> QED BY <2>2 DEF Injection, IsInjective
<1>4. IsFiniteSet(D) /\ Cardinality(D) = Cardinality(Clients) - 1
  BY FS_RemoveElement
<1>5. Cardinality(I) <= Cardinality(D)
  <2> HIDE DEF f, I, D
  <2> QED BY <1>3, <1>4, FS_Injection
<1>6. Cardinality(I) = Len(queue)
  BY <1>1, FS_Interval
<1>7. Cardinality(Clients) \in Nat /\ QueueLen \in Nat
  BY FS_CardinalityType, FlashAssumption
<1> HIDE DEF I, D
<1> QED BY <1>1, <1>4, <1>5, <1>6, <1>7

\* RoomInQueue: with no more callers than places (four in service.c:12, for the
\* three threads of the bootloader) k_msgq_put never waits, whatever is queued.
THEOREM NobodyWaitsForRoom ==
  ASSUME IsFiniteSet(Clients), Cardinality(Clients) <= QueueLen
  PROVE  FlashSpec => []RoomInQueue
<1>1. FlashInv => RoomInQueue
  BY QueueHasRoom
<1> QED BY <1>1, InitFlashInv, NextFlashInv, PTL DEF FlashSpec

-----------------------------------------------------------------------------
(* The service implements FlashCalls: Execute is where a call takes effect, *)
(* Request where it begins, Return where it ends, all else is a stutter.    *)

\* A client is pending in one of three places.
LEMMA PendingUnfolded ==
  \A c \in Clients : c \in pending <=>
     cpc[c] = "put" \/ InQueue(c) \/ (fpc = "execute" /\ msg.client = c)
  BY DEF pending, InQueue

LEMMA RequestCalls ==
  ASSUME FlashInv, NEW c \in Clients, NEW r \in Requests, Request(c, r)
  PROVE  Calls!Call(c)
<1>1. ~InQueue(c) /\ (fpc # "get" => msg.client # c) /\ cpc[c] = "out"
  BY QueuedTyped DEF FlashInv, QueuedCallersWait, StackSafe, InQueue, Request
<1>2. c \notin pending \cup answered
  BY <1>1, PendingUnfolded DEF answered
<1>3. pending' = pending \cup {c}
  BY DEF pending, Request, FlashInv, FlashTypeOK
<1>4. answered' = answered
  BY <1>1, <1>3 DEF answered, Request, FlashInv, FlashTypeOK
<1> QED BY <1>2, <1>3, <1>4 DEF Calls!Call, Request

LEMMA PutCalls ==
  ASSUME FlashInv, NEW c \in Clients, Put(c)
  PROVE  UNCHANGED <<pending, answered, ran>>
<1> DEFINE m == [client |-> c, request |-> req[c]]
<1>1. m \in Messages
  BY DEF FlashInv, FlashTypeOK, Messages, Put
<1>2. /\ Len(queue') = Len(queue) + 1 /\ Len(queue) \in Nat
      /\ \A i \in 1..Len(queue) : queue'[i] = queue[i]
      /\ queue'[Len(queue) + 1].client = c
  BY <1>1 DEF FlashInv, FlashTypeOK, Put
<1>3. \A d \in Clients : InQueue(d)' <=> InQueue(d) \/ d = c
  <2> SUFFICES ASSUME NEW d \in Clients PROVE InQueue(d)' <=> InQueue(d) \/ d = c
    OBVIOUS
  <2>1. \A i \in 1..Len(queue') : i \in 1..Len(queue) \/ i = Len(queue) + 1
    BY <1>2
  <2>2. (1..Len(queue)) \subseteq 1..Len(queue') /\ Len(queue) + 1 \in 1..Len(queue')
    BY <1>2
  <2> QED BY <1>2, <2>1, <2>2 DEF InQueue
<1>4. cpc[c] = "put" /\ cpc'[c] = "wait" /\ \A d \in Clients \ {c} : cpc'[d] = cpc[d]
  BY DEF FlashInv, FlashTypeOK, Put
<1>5. pending' = pending
  <2>1. \A d \in Clients : d \in pending' <=> d \in pending
    BY <1>3, <1>4 DEF pending, InQueue, Put
  <2> QED BY <2>1 DEF pending
<1>6. c \in pending
  BY <1>4, PendingUnfolded
<1> QED BY <1>4, <1>5, <1>6 DEF answered, Put

LEMMA ReturnCalls ==
  ASSUME FlashInv, NEW c \in Clients, Return(c)
  PROVE  Calls!Leave(c)
<1>1. /\ cpc[c] = "wait" /\ ~InQueue(c) /\ (fpc # "get" => msg.client # c)
  BY QueuedTyped DEF FlashInv, QueuedCallersWait, StackSafe, InQueue, Return
<1>2. c \in answered
  BY <1>1, PendingUnfolded DEF answered
<1>3. pending' = pending
  BY <1>1 DEF pending, Return, Left, FlashInv, FlashTypeOK
<1>4. answered' = answered \ {c}
  BY <1>3 DEF answered, Return, Left, FlashInv, FlashTypeOK
<1> QED BY <1>2, <1>3, <1>4 DEF Calls!Leave, Return, Left

LEMMA GetCalls ==
  ASSUME FlashInv, Get
  PROVE  UNCHANGED <<pending, answered, ran>>
<1>1. /\ Len(queue) \in Nat /\ Len(queue) > 0
      /\ msg' = queue[1] /\ Len(queue') = Len(queue) - 1
      /\ \A i \in 1..Len(queue') : i + 1 \in 1..Len(queue) /\ queue'[i] = queue[i + 1]
  BY DEF FlashInv, FlashTypeOK, Get
<1>2. \A c \in Clients : InQueue(c) <=> InQueue(c)' \/ msg'.client = c
  <2> SUFFICES ASSUME NEW c \in Clients
               PROVE InQueue(c) <=> InQueue(c)' \/ msg'.client = c
    OBVIOUS
  <2>1. ASSUME NEW i \in 1..Len(queue), queue[i].client = c
        PROVE  InQueue(c)' \/ msg'.client = c
    <3>1. CASE i = 1
      BY <3>1, <2>1, <1>1
    <3>2. CASE i # 1
      <4>1. i - 1 \in 1..Len(queue') /\ queue'[i - 1] = queue[i]
        BY <3>2, <1>1
      <4> QED BY <4>1, <2>1 DEF InQueue
    <3> QED BY <3>1, <3>2
  <2>2. InQueue(c)' => InQueue(c)
    BY <1>1 DEF InQueue
  <2>3. msg'.client = c => InQueue(c)
    BY <1>1 DEF InQueue
  <2> QED BY <2>1, <2>2, <2>3 DEF InQueue
<1>3. pending' = pending
  <2>1. \A c \in Clients : c \in pending' <=> c \in pending
    BY <1>2 DEF pending, InQueue, Get
  <2> QED BY <2>1 DEF pending
<1> QED BY <1>3 DEF answered, Get

LEMMA ExecuteCalls ==
  ASSUME FlashInv, NEW r \in Results, Execute(r)
  PROVE  msg.client \in Clients /\ Calls!Serve(msg.client, r)
<1> DEFINE c == msg.client
<1>1. c \in Clients /\ cpc[c] = "wait" /\ ~InQueue(c) /\ fpc = "execute"
  BY DEF FlashInv, FlashTypeOK, Messages, StackSafe, QueuedCallersWait, InQueue, Execute
<1>2. c \in pending
  BY <1>1, PendingUnfolded
<1>3. pending' = pending \ {c}
  <2>1. \A d \in Clients : d \in pending' <=> d \in pending /\ d # c
    BY <1>1 DEF pending, InQueue, Execute
  <2> QED BY <2>1 DEF pending
<1>4. answered' = answered \cup {c}
  BY <1>1, <1>2, <1>3 DEF answered, Execute
<1> QED BY <1>1, <1>2, <1>3, <1>4 DEF Calls!Serve, Execute

LEMMA OtherCalls ==
  ASSUME FlashInv, Idle \/ Answer \/ Give \/ UNCHANGED flashVars
  PROVE  UNCHANGED <<pending, answered, ran>>
  BY DEF pending, answered, Idle, Answer, Give, flashVars, FlashInv, FlashTypeOK

\* A call is executed at one moment between its start and its return, once, and
\* returns that execution's result: the queue, the thread and the semaphores
\* implement exactly that.
THEOREM ImplementsCalls == FlashSpec => CallsSpec
<1>1. FlashInit => Calls!Init
  <2> SUFFICES ASSUME FlashInit PROVE Calls!Init
    OBVIOUS
  <2>1. Len(queue) = 0
    BY DEF FlashInit
  <2>2. pending = {}
    BY <2>1 DEF FlashInit, pending
  <2>3. answered = {}
    BY DEF FlashInit, answered
  <2> QED BY <2>2, <2>3 DEF FlashInit, Calls!Init
<1>2. FlashInv /\ [FlashNext]_flashVars => [Calls!Next]_(Calls!callVars)
  <2> SUFFICES ASSUME FlashInv, [FlashNext]_flashVars
               PROVE  [Calls!Next]_(Calls!callVars)
    OBVIOUS
  <2>1. CASE \E c \in Clients, r \in Requests : Request(c, r)
    BY <2>1, RequestCalls DEF Calls!Next
  <2>2. CASE \E c \in Clients : Put(c)
    BY <2>2, PutCalls DEF Calls!callVars
  <2>3. CASE \E c \in Clients : Return(c)
    BY <2>3, ReturnCalls DEF Calls!Next
  <2>4. CASE \E r \in Results : Execute(r)
    BY <2>4, ExecuteCalls DEF Calls!Next
  <2>5. CASE Get
    BY <2>5, GetCalls DEF Calls!callVars
  <2>6. CASE Idle \/ Answer \/ Give \/ UNCHANGED flashVars
    BY <2>6, OtherCalls DEF Calls!callVars
  <2> QED BY <2>1, <2>2, <2>3, <2>4, <2>5, <2>6 DEF FlashNext, FlashThread
<1> QED BY <1>1, <1>2, InitFlashInv, NextFlashInv, PTL DEF FlashSpec, CallsSpec, Calls!Spec
=============================================================================
