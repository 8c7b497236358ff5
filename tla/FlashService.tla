----------------------------- MODULE FlashService -----------------------------
(***************************************************************************)
(* The bootloader's flash service: service/flash/service.c.  A thread that *)
(* wants a flash operation puts a message in flash_service_queue and waits *)
(* for ever on a semaphore; one low-priority thread executes the messages. *)
(*                                                                         *)
(* The message points at two variables on the caller's stack: the result   *)
(* and the semaphore.  The service may touch them only while the caller is *)
(* still in flash_service_request for that very message.                   *)
(*                                                                         *)
(* Callers preempt the service thread between any two of its steps.  A     *)
(* request whose arguments are refused (lines 103-118) never gets here.    *)
(***************************************************************************)
EXTENDS Integers, Sequences

CONSTANTS
    Clients,    \* threads that call flash_service_request
    Requests,   \* what they ask for
    Results,    \* what executing a request returns
    QueueLen    \* FLASH_SERVICE_QUEUE_LEN

CONSTANTS
    EINPROGRESS,    \* operation_result before there is a result
    NoMessage       \* a message or request before there is one

ASSUME FlashAssumption ==
    /\ QueueLen \in Nat \ {0}
    /\ EINPROGRESS \notin Results

VARIABLES
    queue,      \* flash_service_queue: messages [client, request]
    fpc, msg,   \* service thread: program counter and message
    ret,        \* ... and the result of the message
    busy,       \* status in the boot info: EC_STATE_BUSY or idle
    cpc, req,   \* per client: where it is in its call, what it asked for
    operation_result, completion,   \* ... and the variables on its stack
    ran         \* history: per client, what executing its request returned

flashVars == <<queue, fpc, msg, ret, busy, cpc, req, operation_result,
               completion, ran>>

Messages == [client : Clients, request : Requests]

FlashTypeOK ==
    /\ queue \in Seq(Messages)
    /\ fpc \in {"get", "execute", "idle", "answer", "give"}
    /\ fpc # "get" => msg \in Messages
    /\ fpc \in {"idle", "answer", "give"} => ret \in Results
    /\ busy \in BOOLEAN
    /\ cpc \in [Clients -> {"out", "put", "wait"}]
    /\ req \in [Clients -> Requests \cup {NoMessage}]
    /\ \A c \in Clients : cpc[c] # "out" => req[c] \in Requests
    /\ operation_result \in [Clients -> Results \cup {EINPROGRESS}]
    /\ completion \in [Clients -> {0, 1}]
    /\ ran \in [Clients -> Results \cup {EINPROGRESS}]

FlashInit ==
    /\ queue = <<>>
    /\ fpc = "get" /\ msg = NoMessage /\ ret = EINPROGRESS /\ busy = FALSE
    /\ cpc = [c \in Clients |-> "out"]
    /\ req = [c \in Clients |-> NoMessage]
    /\ operation_result = [c \in Clients |-> EINPROGRESS]
    /\ completion = [c \in Clients |-> 0]
    /\ ran = [c \in Clients |-> EINPROGRESS]

\* The call ends and with it the variables on its stack.
Left(c) ==
    /\ cpc' = [cpc EXCEPT ![c] = "out"]
    /\ req' = [req EXCEPT ![c] = NoMessage]
    /\ operation_result' = [operation_result EXCEPT ![c] = EINPROGRESS]
    /\ completion' = [completion EXCEPT ![c] = 0]
    /\ ran' = [ran EXCEPT ![c] = EINPROGRESS]
    /\ UNCHANGED <<queue, fpc, msg, ret, busy>>

-----------------------------------------------------------------------------
(* Mistakes in this code that the properties are there to catch: each is   *)
(* an action below with one slip.  The specification does not use them.    *)

\* The service writes the result into whatever the oldest message points at.
Answer_Next ==
    /\ fpc = "answer"
    /\ operation_result' =
         [operation_result EXCEPT ![IF queue = <<>> THEN msg.client
                                                    ELSE Head(queue).client] = ret]
    /\ fpc' = "give"
    /\ UNCHANGED <<queue, msg, ret, busy, cpc, req, completion, ran>>

\* The caller waits for a time and leaves without its result.
Return_TimesOut(c) ==
    /\ cpc[c] = "wait"
    /\ Left(c)

\* The result of the operation is not kept.
Execute_NoResult(r) ==
    /\ fpc = "execute"
    /\ ran' = [ran EXCEPT ![msg.client] = r]
    /\ fpc' = "idle"
    /\ UNCHANGED <<queue, msg, ret, busy, cpc, req, operation_result, completion>>

\* k_msgq_peek instead of k_msgq_get.
Get_Peeks ==
    /\ fpc = "get"
    /\ queue # <<>>
    /\ msg' = Head(queue)
    /\ busy' = TRUE
    /\ fpc' = "execute"
    /\ UNCHANGED <<queue, ret, cpc, req, operation_result, completion, ran>>

\* The service purges the queue once it has taken a message.
Get_Purges ==
    /\ fpc = "get"
    /\ queue # <<>>
    /\ msg' = Head(queue)
    /\ queue' = <<>>
    /\ busy' = TRUE
    /\ fpc' = "execute"
    /\ UNCHANGED <<ret, cpc, req, operation_result, completion, ran>>

-----------------------------------------------------------------------------
(* flash_service_request.                                                  *)

Request(c, r) ==
    /\ cpc[c] = "out"
    /\ cpc' = [cpc EXCEPT ![c] = "put"]
    /\ req' = [req EXCEPT ![c] = r]
    /\ operation_result' = [operation_result EXCEPT ![c] = EINPROGRESS]
    /\ completion' = [completion EXCEPT ![c] = 0]
    /\ UNCHANGED <<queue, fpc, msg, ret, busy, ran>>

\* k_msgq_put(K_FOREVER): the caller waits for room.
Put(c) ==
    /\ cpc[c] = "put"
    /\ Len(queue) < QueueLen
    /\ queue' = Append(queue, [client |-> c, request |-> req[c]])
    /\ cpc' = [cpc EXCEPT ![c] = "wait"]
    /\ UNCHANGED <<fpc, msg, ret, busy, req, operation_result, completion, ran>>

\* k_sem_take(K_FOREVER); operation_result[c] is what the caller gets.
Return(c) ==
    /\ cpc[c] = "wait"
    /\ completion[c] = 1
    /\ Left(c)

-----------------------------------------------------------------------------
(* flash_service, the thread.                                              *)

Get ==
    /\ fpc = "get"
    /\ queue # <<>>
    /\ msg' = Head(queue)
    /\ queue' = Tail(queue)
    /\ busy' = TRUE
    /\ fpc' = "execute"
    /\ UNCHANGED <<ret, cpc, req, operation_result, completion, ran>>

Execute(r) ==
    /\ fpc = "execute"
    /\ ret' = r
    /\ ran' = [ran EXCEPT ![msg.client] = r]
    /\ fpc' = "idle"
    /\ UNCHANGED <<queue, msg, busy, cpc, req, operation_result, completion>>

Idle ==
    /\ fpc = "idle"
    /\ busy' = FALSE
    /\ fpc' = "answer"
    /\ UNCHANGED <<queue, msg, ret, cpc, req, operation_result, completion, ran>>

Answer ==
    /\ fpc = "answer"
    /\ operation_result' = [operation_result EXCEPT ![msg.client] = ret]
    /\ fpc' = "give"
    /\ UNCHANGED <<queue, msg, ret, busy, cpc, req, completion, ran>>

\* The next message overwrites msg and ret.
Give ==
    /\ fpc = "give"
    /\ completion' = [completion EXCEPT ![msg.client] = 1]
    /\ fpc' = "get" /\ msg' = NoMessage /\ ret' = EINPROGRESS
    /\ UNCHANGED <<queue, busy, cpc, req, operation_result, ran>>

-----------------------------------------------------------------------------
\* Everything the service thread does but the operation itself.
FlashThread == Get \/ Idle \/ Answer \/ Give

FlashNext ==
    \/ FlashThread
    \/ \E r \in Results : Execute(r)
    \/ \E c \in Clients :
          (\E r \in Requests : Request(c, r)) \/ Put(c) \/ Return(c)

FlashSpec == FlashInit /\ [][FlashNext]_flashVars

\* Every ready thread runs, and k_msgq and k_sem wake the longest waiting of
\* the highest priority: with a finite number of clients nobody waits for ever
\* while there is room.
FlashFairness ==
    /\ WF_flashVars(FlashThread)
    /\ WF_flashVars(\E r \in Results : Execute(r))
    /\ \A c \in Clients : SF_flashVars(Put(c)) /\ WF_flashVars(Return(c))

FairFlashSpec == FlashSpec /\ FlashFairness

-----------------------------------------------------------------------------
(* Properties.                                                             *)

\* The service writes a result or gives a semaphore only while the caller that
\* owns it waits for that message, whatever the number of callers and the order
\* they preempt the service in: the pointers into the caller's stack are live.
StackSafe ==
    fpc # "get" =>
        /\ cpc[msg.client] = "wait"
        /\ req[msg.client] = msg.request
        /\ completion[msg.client] = 0

\* A caller returns with the result of executing its own request.
OwnResult ==
    \A c \in Clients :
        cpc[c] = "wait" /\ completion[c] = 1 => operation_result[c] = ran[c]

\* Every call returns, also when the queue is full and when the request fails.
EveryCallReturns == \A c \in Clients : (cpc[c] # "out") ~> (cpc[c] = "out")

\* The service implements calls that take effect at one moment between call and
\* return (FlashCalls).
pending == {c \in Clients :
              \/ cpc[c] = "put"
              \/ \E i \in 1..Len(queue) : queue[i].client = c
              \/ fpc = "execute" /\ msg.client = c}
answered == {c \in Clients \ pending : cpc[c] = "wait"}
Calls == INSTANCE FlashCalls WITH result <- ran, NoResult <- EINPROGRESS
CallsSpec == Calls!Spec
=============================================================================
