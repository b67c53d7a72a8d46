---------------------------- MODULE OrderedCalls ----------------------------
(***************************************************************************)
(* pOrderedResolve of the client (client/src/utils/promises.ts): functions *)
(* run side by side and their results are handed out in the order of the   *)
(* calls.  Each call queues a deferred result in a queue that takes one at *)
(* a time; clear() forgets those that the queue has not taken.             *)
(***************************************************************************)
EXTENDS Integers, SequencesExt

CONSTANTS
    OrderedCallers,   \* each calls once
    NoResult          \* no deferred result is taken

VARIABLES
    called,     \* the callers in the order of their calls
    task,       \* what the function of each caller does
    waiting,    \* the queue of deferred results
    taken,      \* the deferred result that the queue waits for
    returned,   \* the callers that got their result, in that order
    cleared     \* the callers whose deferred results were forgotten

orderedVars == <<called, task, waiting, taken, returned, cleared>>

-----------------------------------------------------------------------------
\* Mutant: the queue takes whichever result is there.
AnySettled(c) == task[c] = "settled"
\* Mutant: the queue goes on only after a success in the order of the calls.
NeverReleases(c) == task[c] = "settled" /\ c = called[1]

-----------------------------------------------------------------------------
NextInQueue(c) == c = Head(waiting)
Released(c) == task[c] = "settled"

\* fn is called after its deferred result was queued.  When it throws before it
\* gives a promise the caller is told, and nobody settles the deferred result.
CallOrdered(c) ==
    /\ task[c] = "idle"
    /\ called' = Append(called, c)
    /\ waiting' = Append(waiting, c)
    /\ \E t \in {"running", "threw"} : task' = [task EXCEPT ![c] = t]
    /\ UNCHANGED <<taken, returned, cleared>>

\* The promise of fn is fulfilled or rejected, and so is the deferred result.
SettleOrdered(c) ==
    /\ task[c] = "running"
    /\ task' = [task EXCEPT ![c] = "settled"]
    /\ UNCHANGED <<called, waiting, taken, returned, cleared>>

\* The queue takes the next deferred result.
Take ==
    /\ taken = NoResult
    /\ \E i \in DOMAIN waiting :
         /\ NextInQueue(waiting[i])
         /\ taken' = waiting[i]
         /\ waiting' = RemoveAt(waiting, i)
    /\ UNCHANGED <<called, task, returned, cleared>>

\* The result that was taken is settled: its caller returns with it.
Release ==
    /\ taken # NoResult
    /\ Released(taken)
    /\ returned' = Append(returned, taken)
    /\ taken' = NoResult
    /\ UNCHANGED <<called, task, waiting, cleared>>

Clear ==
    /\ waiting # <<>>
    /\ cleared' = cleared \cup {waiting[i] : i \in DOMAIN waiting}
    /\ waiting' = <<>>
    /\ UNCHANGED <<called, task, taken, returned>>

-----------------------------------------------------------------------------
OrderedInit ==
    /\ called = <<>> /\ waiting = <<>> /\ returned = <<>>
    /\ task = [c \in OrderedCallers |-> "idle"]
    /\ taken = NoResult
    /\ cleared = {}

OrderedNext ==
    \/ \E c \in OrderedCallers : CallOrdered(c) \/ SettleOrdered(c)
    \/ Take
    \/ Release
    \/ Clear

\* The functions come to an end and the queue's tasks run.
OrderedFairness ==
    /\ \A c \in OrderedCallers : WF_orderedVars(SettleOrdered(c))
    /\ WF_orderedVars(Take)
    /\ WF_orderedVars(Release)

OrderedSpec == OrderedInit /\ [][OrderedNext]_orderedVars /\ OrderedFairness

-----------------------------------------------------------------------------
Position(s, c) == CHOOSE i \in DOMAIN s : s[i] = c

\* "ensure they resolve in the order they were executed" (promises.ts:6): the
\* results come in the order of the calls, also around a clear.
ReturnsInOrder ==
    \A i, j \in DOMAIN returned :
        i < j => Position(called, returned[i]) < Position(called, returned[j])

\* Whoever's function has settled gets the result, unless it was cleared or the
\* function of an earlier call threw at once: that one blocks the queue for good.
SettledReturn ==
    \A c \in OrderedCallers :
        task[c] = "settled" ~>
            \/ \E i \in DOMAIN returned : returned[i] = c
            \/ c \in cleared
            \/ taken # NoResult /\ task[taken] = "threw"

=============================================================================
