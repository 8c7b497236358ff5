------------------------------ MODULE FlashCalls ------------------------------
(***************************************************************************)
(* What the flash service promises its callers: a call is executed at one  *)
(* moment between its start and its return, once.                          *)
(***************************************************************************)
CONSTANTS Clients, Results, NoResult

VARIABLES
    pending,    \* clients whose call has not been executed yet
    answered,   \* clients whose call has been executed and not returned
    result      \* the result of each client's call, when it has been executed

callVars == <<pending, answered, result>>

Init ==
    /\ pending = {} /\ answered = {}
    /\ result = [c \in Clients |-> NoResult]

Call(c) ==
    /\ c \notin pending \cup answered
    /\ pending' = pending \cup {c}
    /\ UNCHANGED <<answered, result>>

Serve(c, r) ==
    /\ c \in pending
    /\ pending' = pending \ {c}
    /\ answered' = answered \cup {c}
    /\ result' = [result EXCEPT ![c] = r]

Leave(c) ==
    /\ c \in answered
    /\ answered' = answered \ {c}
    /\ result' = [result EXCEPT ![c] = NoResult]
    /\ UNCHANGED pending

Next == \E c \in Clients : Call(c) \/ Leave(c) \/ \E r \in Results : Serve(c, r)

Spec == Init /\ [][Next]_callVars
=============================================================================
