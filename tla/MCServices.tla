----------------------------- MODULE MCServices -----------------------------
(***************************************************************************)
(* Instance for TLC of what runs around the client and the contracts: the  *)
(* staking commands, the reports and messages of the nodes, the deployment *)
(* scripts and the heartbeat.  They share no state: each behaviour         *)
(* exercises one of them, the part it was begun with.                      *)
(***************************************************************************)
EXTENDS StakingFlow, SystemReports, SystemMessages, Deployment, Heartbeat

CONSTANTS wallet, queryManager, cliJob, clientJob

\* Two jobs of one wallet that stake for queries, one of the CLI and one of the
\* client.  The client's asks for 5, which with two bits is rounded to 4.
MCJobs == {cliJob, clientJob}
MCHolders == {wallet, queryManager}
MCJobOf ==
    (cliJob :> [wallet |-> wallet, manager |-> queryManager, requested |-> 2, flow |-> "cli"])
    @@ (clientJob :> [wallet |-> wallet, manager |-> queryManager, requested |-> 5, flow |-> "query"])
MCInitialTokens == [h \in MCHolders |-> IF h = wallet THEN 6 ELSE 0]
MCInitialAllowance == [w \in {wallet} |-> [m \in {queryManager} |-> 1]]
MCListTargets == {queryManager}

\* A report, the same with an event, and the same with its nodes in the other
\* order.  The amounts have one digit, two, and more than a byte.
MCAmounts == {-256, -1, 0, 5, 16, 255, 256}
MCEntry(k, n) == [key |-> <<k>>, value |-> BigNumber(n)]
MCReport(nodes, events) ==
    [s |-> FALSE, v |-> V1, id |-> <<"r">>, height |-> 4, treasury |-> BigNumber(-1),
     streams |-> <<[id |-> <<"s1">>, capture |-> BigNumber(256), bytes |-> 3],
                   [id |-> <<"s2">>, capture |-> BigNumber(0), bytes |-> 0]>>,
     consumers |-> <<[id |-> <<"c">>, capture |-> BigNumber(16), bytes |-> 2]>>,
     nodes |-> nodes,
     delegates |-> <<[key |-> <<"d1">>,
                      value |-> <<MCEntry("n1", 255), MCEntry("n2", -256)>>],
                     [key |-> <<"d2">>, value |-> <<>>]>>,
     events |-> events]
MCNodes == <<MCEntry("n1", 5), MCEntry("n2", -1)>>
MCReports ==
    {MCReport(MCNodes, <<>>), MCReport(MCNodes, <<<<"e">>>>),
     MCReport(<<MCNodes[2], MCNodes[1]>>, <<>>)}

\* What the proof about the reports assumes holds of these.
ASSUME ReportsPackApart

\* A message of every kind, with and without what may be left out, and two that
\* only a later release can read.
MCRange ==
    [version |-> VERSION, messageType |-> QueryRequest, requestId |-> "q",
     consumerId |-> "c", streamId |-> "s", partition |-> "0", queryType |-> "range",
     queryOptions |->
         [fromTimestamp |-> "1", fromSequence |-> Undefined, toTimestamp |-> "5",
          toSequence |-> "2", msgChainId |-> "chain", publisherId |-> "p"]]
MCFrom ==
    [MCRange EXCEPT !.queryType = "from",
                    !.queryOptions = [fromTimestamp |-> "1", fromSequence |-> Undefined,
                                      publisherId |-> Undefined]]
MCLast == [MCRange EXCEPT !.queryType = "last", !.queryOptions = [last |-> "9"]]
MCResponse ==
    [version |-> VERSION, messageType |-> QueryResponse, requestId |-> "q",
     size |-> "3", hash |-> "h", signature |-> "g"]
MCProof ==
    [version |-> VERSION, messageType |-> ProofOfReport, address |-> "a",
     hash |-> "h", toth |-> "t", timestamp |-> "1", signature |-> "g"]
MCStoredProof ==
    [version |-> VERSION, messageType |-> ProofOfMessageStored, streamId |-> "s",
     partition |-> "0", timestamp |-> "1", sequenceNumber |-> "0", size |-> "3",
     hash |-> "h"]
MCMessages == {MCRange, MCFrom, MCLast, MCResponse, MCProof, MCStoredProof}
MCForeign ==
    {[of |-> [version |-> "2"], array |-> <<"2", "1", "x">>],
     [of |-> [version |-> "3"], array |-> <<"1", "4", "x">>]}

\* The batches of two leave a smaller last one.
MCGroups == <<"accounts", Brokers>>
MCGroupSize == [g \in {"accounts", Brokers} |-> IF g = Brokers THEN 1 ELSE 3]

\* The chain of the developers is deployed to and then renewed, repaired or
\* deployed to again, while the other's script may write the file.
MCMaxRuns == [c \in Chains |-> IF c \in DevChains THEN 2 ELSE 1]

-----------------------------------------------------------------------------
Parts == {"staking", "reports", "messages", "deployment", "heartbeat"}

VARIABLE part

ServicesInit ==
    /\ part \in Parts
    /\ FlowInit /\ ReportsInit /\ MessagesInit /\ DeploymentInit /\ HeartbeatInit

Only(p, next) == part = p /\ next /\ UNCHANGED part

ServicesNext ==
    \/ /\ Only("staking", FlowNext)
       /\ UNCHANGED <<reportVars, messageVars, deploymentVars, heartbeatVars>>
    \/ /\ Only("reports", ReportsNext)
       /\ UNCHANGED <<flowVars, messageVars, deploymentVars, heartbeatVars>>
    \/ /\ Only("messages", MessagesNext)
       /\ UNCHANGED <<flowVars, reportVars, deploymentVars, heartbeatVars>>
    \/ /\ Only("deployment", DeploymentNext)
       /\ UNCHANGED <<flowVars, reportVars, messageVars, heartbeatVars>>
    \/ /\ Only("heartbeat", HeartbeatNext)
       /\ UNCHANGED <<flowVars, reportVars, messageVars, deploymentVars>>

servicesVars ==
    <<part, flowVars, reportVars, messageVars, deploymentVars, heartbeatVars>>

ServicesSpec ==
    ServicesInit /\ [][ServicesNext]_servicesVars /\ FlowFairness

=============================================================================
