---------------------------- MODULE SharedCalls ----------------------------
(***************************************************************************)
(* pOne of the client and the pOnce it is made of                          *)
(* (client/src/utils/promises.ts): callers share one run of a function.  A *)
(* call object is created by each reset and collects the callers until the *)
(* next one; a caller keeps the call it found, also after a reset.  Every  *)
(* caller of pOne resets when it returns.                                  *)
(***************************************************************************)
EXTENDS Integers, FiniteSets

CONSTANTS
    Callers,     \* each calls once
    MaxCalls     \* bound of the model: call objects

ASSUME CallsAssumption == MaxCalls \in Nat \ {0}

VARIABLES
    currentCall,   \* the number of the current call object
    status,        \* the status of each call object
    underway,      \* how many runs of the function each call object has under way
    joined,        \* the call that a caller waits for or has returned from, or 0
    left,          \* the callers that have returned
    replaced       \* a call was reset while its function ran

sharedVars == <<currentCall, status, underway, joined, left, replaced>>

CallIds == 1 .. MaxCalls
Settlements == {"fulfilled", "rejected"}

-----------------------------------------------------------------------------
\* Mutant: only a settled call is shared.
StartsBeside(k) == status[k] \in {"init", "pending"}

-----------------------------------------------------------------------------
MustStart(k) == status[k] = "init"

\* pOnceWrap up to its return: the first caller starts the function.
Call(c) ==
    /\ joined[c] = 0
    /\ joined' = [joined EXCEPT ![c] = currentCall]
    /\ IF MustStart(currentCall)
       THEN /\ status' = [status EXCEPT ![currentCall] = "pending"]
            /\ underway' = [underway EXCEPT ![currentCall] = @ + 1]
       ELSE UNCHANGED <<status, underway>>
    /\ UNCHANGED <<currentCall, left, replaced>>

\* The function returns or throws: the call keeps the outcome.
Settle(k, outcome) ==
    /\ underway[k] > 0
    /\ underway' = [underway EXCEPT ![k] = @ - 1]
    /\ status' = [status EXCEPT ![k] = outcome]
    /\ UNCHANGED <<currentCall, joined, left, replaced>>

\* currentCall = { status: 'init' }
Reset ==
    /\ currentCall < MaxCalls
    /\ currentCall' = currentCall + 1
    /\ replaced' = (replaced \/ status[currentCall] = "pending")

\* A caller goes on with the outcome of its call and resets.
ReturnOne(c) ==
    /\ joined[c] # 0 /\ c \notin left
    /\ status[joined[c]] \in Settlements
    /\ left' = left \cup {c}
    /\ Reset
    /\ UNCHANGED <<status, underway, joined>>

-----------------------------------------------------------------------------
SharedInit ==
    /\ currentCall = 1
    /\ status = [k \in CallIds |-> "init"]
    /\ underway = [k \in CallIds |-> 0]
    /\ joined = [c \in Callers |-> 0]
    /\ left = {}
    /\ replaced = FALSE

SharedNext ==
    \/ \E c \in Callers : Call(c) \/ ReturnOne(c)
    \/ \E k \in CallIds, outcome \in Settlements : Settle(k, outcome)

SharedSpec == SharedInit /\ [][SharedNext]_sharedVars

-----------------------------------------------------------------------------
\* "Only allows one outstanding call" (promises.ts:46): the function runs once
\* at a time, unless the late return of a caller has reset a call that ran.
OneOutstanding ==
    ~ replaced => \A j, k \in CallIds :
        underway[j] > 0 /\ underway[k] > 0 => j = k /\ underway[j] = 1

=============================================================================
