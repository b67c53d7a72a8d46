----------------------------- MODULE Heartbeat ------------------------------
(***************************************************************************)
(* The heartbeat service (heartbeat/src): it waits for the first bundle of *)
(* the pool, creates its stream, opens it to everybody and stakes for its  *)
(* storage, and then publishes at every interval.                          *)
(*                                                                         *)
(* Nothing of it catches an error: a request, a transaction or a beat that *)
(* fails ends the process, which its container starts again.  A            *)
(* transaction may have been made although its answer was an error.        *)
(***************************************************************************)
EXTENDS Integers

CONSTANTS
    MaxCrashes,         \* bound of the model: how often the process ends
    MaxBeats            \* bound of the model: beats on their way at a time

ASSUME HeartbeatAssumption == MaxCrashes \in Nat /\ MaxBeats \in Nat

VARIABLES
    step,               \* what the process is about to do
    bundles,            \* the pool has a bundle
    open,               \* the stream has the public permission
    timesStaked,        \* how often the store of the stream was staked
    cutShort,           \* a process ended between opening and staking
    interval,           \* the timer is set
    beats,              \* the beats that are on their way
    crashes

processVars == <<step, interval, beats>>
streamState == <<open, timesStaked>>
historyVars == <<cutShort, crashes>>
heartbeatVars == <<processVars, streamState, historyVars, bundles>>

-----------------------------------------------------------------------------
\* Mutant: the store is staked each time the service starts.
StakesAlways == TRUE

-----------------------------------------------------------------------------
HeartbeatInit ==
    /\ step = "poll" /\ interval = FALSE /\ beats = 0
    /\ bundles = FALSE
    /\ open = FALSE /\ timesStaked = 0
    /\ cutShort = FALSE /\ crashes = 0

\* The first bundle of the pool.
Bundle ==
    /\ ~ bundles /\ bundles' = TRUE
    /\ UNCHANGED <<processVars, streamState, historyVars>>

GoOn(next) ==
    /\ step' = next
    /\ UNCHANGED <<interval, beats, historyVars, bundles>>

\* getTotalBundles; while there is none the service sleeps and asks again.
Poll == step = "poll" /\ bundles /\ GoOn("stream") /\ UNCHANGED streamState

CreateStream == step = "stream" /\ GoOn("check") /\ UNCHANGED streamState

StakeNeeded == ~ open

CheckPermission ==
    /\ step = "check"
    /\ GoOn(IF StakeNeeded THEN "grant" ELSE "start")
    /\ UNCHANGED streamState

Grant == step = "grant" /\ open' = TRUE /\ GoOn("stake") /\ UNCHANGED timesStaked

StakeOnce ==
    /\ step = "stake"
    /\ timesStaked' = timesStaked + 1
    /\ GoOn("start")
    /\ UNCHANGED open

StartBeating ==
    /\ step = "start"
    /\ step' = "started" /\ interval' = TRUE
    /\ UNCHANGED <<beats, streamState, historyVars, bundles>>

Beat ==
    /\ interval /\ beats < MaxBeats
    /\ beats' = beats + 1
    /\ UNCHANGED <<step, interval, streamState, historyVars, bundles>>

Published ==
    /\ beats > 0
    /\ beats' = beats - 1
    /\ UNCHANGED <<step, interval, streamState, historyVars, bundles>>

\* The process ends, perhaps after the transaction it was waiting for was made,
\* and its container starts it again.
Restart(openAfter, stakedAfter) ==
    /\ crashes < MaxCrashes /\ crashes' = crashes + 1
    /\ step' = "poll" /\ interval' = FALSE /\ beats' = 0
    /\ open' = openAfter /\ timesStaked' = stakedAfter
    /\ cutShort' = (cutShort \/ (openAfter /\ stakedAfter = 0))
    /\ UNCHANGED bundles

Crash ==
    \/ Restart(open, timesStaked)
    \/ step = "grant" /\ Restart(TRUE, timesStaked)
    \/ step = "stake" /\ Restart(open, timesStaked + 1)

\* stop clears the timer there is: a start that is still to come sets it all the
\* same.  Before there is a heartbeat the handler throws, which is a crash.
Terminate ==
    /\ step # "poll"
    /\ interval' = FALSE
    /\ UNCHANGED <<step, beats, streamState, historyVars, bundles>>

HeartbeatNext ==
    \/ Bundle
    \/ Poll
    \/ CreateStream
    \/ CheckPermission
    \/ Grant
    \/ StakeOnce
    \/ StartBeating
    \/ Beat
    \/ Published
    \/ Crash
    \/ Terminate

HeartbeatSpec == HeartbeatInit /\ [][HeartbeatNext]_heartbeatVars

-----------------------------------------------------------------------------
\* The service stakes at most once, whatever is repeated after a crash, and it
\* publishes without a stake only after a process ended between opening the
\* stream and staking: the permission stands for the stake, and no later start
\* makes up for it (Heartbeat.init).
StakedOnceOrCutShort ==
    /\ timesStaked <= 1
    /\ beats > 0 /\ timesStaked = 0 => cutShort

=============================================================================
