------------------------------- MODULE Deployment -------------------------------
(***************************************************************************)
(* Upgrades of two stacks that share one implementation per contract: the  *)
(* deploy run that checks storage, deploys, queues and records; the Safe   *)
(* that executes or rejects the proposal; the leftovers of runs that died  *)
(* and of rehearsals on a fork; the compare and the release that follow.   *)
(* The Gateway stands for the StakingVault, too: its script is the same.   *)
(***************************************************************************)
EXTENDS SafeBatch, UpgradeSnapshot

CONSTANTS
    Steps,        \* the scripts of a full deploy in their order, as <<stack, script>>
    Commits,      \* the sources in time: the Treasury and Gateway version of each
    LiveAtStart,  \* states of the stacks to start in
    Compatible,   \* <<contract, from, to>>: `to` keeps the storage layout of `from`
    ListKeepers,  \* Treasury versions that keep a sanctions list
    ListReaders,  \* Gateway versions that ask the Treasury for it
    MaxEvents, MaxQueue   \* bounds

Contracts == {"treasury", "gateway"}

ASSUME DeploymentAssumption ==
    /\ Steps \in Seq(Stacks \X (Contracts \cup {"manager", "list"}))
    /\ Commits \in Seq([Contracts -> Nat]) /\ Commits # <<>>
    /\ \A block \in LiveAtStart :
        /\ block = [s \in Stacks |-> [f \in DOMAIN block[s] |-> block[s][f]]]
        /\ \A s \in Stacks :
            DOMAIN block[s] = Contracts \cup {"proxied", "list", "roles", "whitelist", "owner"}

\* A deploy runs the scripts of both contracts and the list for each stack, and no source has a Gateway
\* that asks for a list its Treasury does not keep; nor does anything live at the start.
ASSUME ListAssumption ==
    /\ \A s \in Stacks : {s} \X (Contracts \cup {"list"}) \subseteq ToSet(Steps)
    /\ \A i \in DOMAIN Commits : Commits[i].gateway \in ListReaders => Commits[i].treasury \in ListKeepers
    /\ \A block \in LiveAtStart : \A s \in Stacks :
        block[s].gateway \in ListReaders => block[s].treasury \in ListKeepers /\ block[s].list

VARIABLES
    chain,        \* per stack: live implementations, whether the Treasury is behind a proxy, ...
    source,       \* the commit that is checked out
    implRecord,   \* <contract>_Implementation, one for all stacks
    proxyRecord,  \* the implementation on <alias>_Proxy, as <alias> has it
    solcInputs,   \* the sources on record, by contract
    step, phase,  \* the script the running process is at, and where in it; 0 without a process
    currentImpl,  \* the live implementation as it read it
    events        \* changes, commits, rejections and failures so far

recordVars == <<implRecord, proxyRecord, solcInputs>>
jobVars == <<step, phase, currentImpl>>
vars == <<chain, source, recordVars, jobVars, events, batchVars>>

Code(c) == Commits[source][c]
Upgradable(s) == IF chain[s].proxied THEN Contracts ELSE {}

DeploymentInit ==
    /\ chain \in LiveAtStart
    /\ source = 1
    /\ \E s \in Stacks : implRecord = [c \in Contracts |-> chain[s][c]]
    /\ proxyRecord = [s \in Stacks |-> [c \in Contracts |-> chain[s][c]]]
    /\ solcInputs = [c \in Contracts |-> {chain[s][c] : s \in Stacks}]
    /\ step = 0 /\ phase = "start" /\ currentImpl = 0
    /\ events = 0
    /\ BatchInit

Event == events < MaxEvents /\ events' = events + 1

-----------------------------------------------------------------------------
(* The deploy run.  It may die between any two of these steps.             *)

Stack == Steps[step][1]
Script == Steps[step][2]
Running == step \in 1..Len(Steps)
AtEnd == step > Len(Steps)

GoTo(next) == step' = next /\ phase' = "start" /\ currentImpl' = 0

\* The process ends, having thrown or not.
EndProcess == GoTo(0) /\ batchStarted' = FALSE

UpgradesTo(txs) == {call \in ToSet(txs) : call.do = "upgrade"}

\* What is pending was built from this source: after a proposal the run's log asks to confirm it first.
NothingOlderPending ==
    \A i \in DOMAIN safeQueue : \A call \in UpgradesTo(safeQueue[i]) : call.to = Code(call.contract)

StartDeploy ==
    /\ step = 0
    /\ NothingOlderPending
    /\ GoTo(1)
    /\ UNCHANGED <<chain, source, recordVars, events, batchVars>>

\* isTreasuryMigrated, and the Treasury script's own test: a stack to be migrated keeps its contracts.
SkipScript ==
    /\ Running /\ phase = "start"
    /\ ~chain[Stack].proxied /\ Script # "manager"
    /\ GoTo(step + 1)
    /\ UNCHANGED <<chain, source, recordVars, events, batchVars>>

AtUpgrade == Running /\ Script \in Contracts /\ chain[Stack].proxied

Live == chain[Stack][Script]

\* Mutant: only the source the artifact names is looked at.
LiveSources_OfArtifact(s, c) == {v \in {implRecord[c]} : v = chain[s][c]}

\* findLiveImplementation: the source on record that compiles to the live code.
LiveSources(s, c) == {v \in solcInputs[c] : v = chain[s][c]}

\* checkUpgradeSafety: the live source is found, and the compiled code keeps its storage layout.
UpgradeSafe(s, c) == \E v \in LiveSources(s, c) : v = Code(c) \/ <<c, v, Code(c)>> \in Compatible

\* Mutant: what is deployed already was checked when it was.
MayUpgrade_NewCodeOnly == implRecord[Script] # Code(Script) => UpgradeSafe(Stack, Script)

\* The check is against what is live behind this very proxy, unless that is the compiled code.
MayUpgrade ==
    implRecord[Script] # Code(Script) \/ implRecord[Script] # Live => UpgradeSafe(Stack, Script)

\* Reads the proxy, checks, and deploys the implementation unless it is the recorded one; its source is
\* recorded beside those before it.
DeployImplementation ==
    /\ AtUpgrade /\ phase = "start"
    /\ MayUpgrade
    /\ currentImpl' = Live
    /\ implRecord' = [implRecord EXCEPT ![Script] = Code(Script)]
    /\ solcInputs' = [solcInputs EXCEPT ![Script] = @ \cup {Code(Script)}]
    /\ phase' = "deployed"
    /\ UNCHANGED <<chain, source, proxyRecord, step, events, batchVars>>

\* Mutant: the record says whether the upgrade is still to be made.
UpgradeNeeded_ByRecord == proxyRecord[Stack][Script] # Code(Script)

UpgradeNeeded == currentImpl # Code(Script)

UpgradeCall == [do |-> "upgrade", stack |-> Stack, contract |-> Script, to |-> Code(Script), built |-> "ethereum"]

QueueUpgrade ==
    /\ AtUpgrade /\ phase = "deployed"
    /\ UpgradeNeeded
    /\ SaveForMultiSig("ethereum", UpgradeCall)
    /\ phase' = "queued"
    /\ UNCHANGED <<chain, source, recordVars, step, currentImpl, events>>

\* Mutant: an upgrade is recorded once it is live.
RecordUpgrade_OnceLive ==
    /\ AtUpgrade /\ phase = "queued"
    /\ GoTo(step + 1)
    /\ UNCHANGED <<chain, source, recordVars, events, batchVars>>

\* Proxy and alias record what is queued only.
RecordUpgrade ==
    /\ AtUpgrade /\ phase = "queued"
    /\ proxyRecord' = [proxyRecord EXCEPT ![Stack][Script] = Code(Script)]
    /\ GoTo(step + 1)
    /\ UNCHANGED <<chain, source, implRecord, solcInputs, events, batchVars>>

AtManager == Running /\ Script = "manager"
AtList == Running /\ Script = "list" /\ chain[Stack].proxied

RoleMissing == "manager" \notin chain[Stack].roles

\* Mutant: the list is left for a run after the Treasury's upgrade.
ListMissing_Later == ~chain[Stack].list /\ chain[Stack].treasury \in ListKeepers

\* Also when the live Treasury keeps no list yet: its upgrade is in the batch by now.
ListMissing == ~chain[Stack].list

\* grantRoleIfNeeded for the YieldManager
GrantRole ==
    /\ AtManager
    /\ RoleMissing
    /\ SaveForMultiSig("ethereum", [do |-> "manager", stack |-> Stack, built |-> "ethereum"])
    /\ GoTo(step + 1)
    /\ UNCHANGED <<chain, source, recordVars, events>>

\* deploySanctionsList
SetSanctionsList ==
    /\ AtList
    /\ ListMissing
    /\ SaveForMultiSig("ethereum", [do |-> "list", stack |-> Stack, built |-> "ethereum"])
    /\ GoTo(step + 1)
    /\ UNCHANGED <<chain, source, recordVars, events>>

NothingToQueue ==
    /\ \/ AtUpgrade /\ phase = "deployed" /\ ~UpgradeNeeded
       \/ AtManager /\ ~RoleMissing
       \/ AtList /\ ~ListMissing
    /\ GoTo(step + 1)
    /\ UNCHANGED <<chain, source, recordVars, events, batchVars>>

\* An unsafe upgrade, or a call to save while another run's batch lies there.
Throws ==
    /\ \/ AtUpgrade /\ phase = "start" /\ ~MayUpgrade
       \/ AtUpgrade /\ phase = "deployed" /\ UpgradeNeeded /\ StaleBatch
       \/ ((AtManager /\ RoleMissing) \/ (AtList /\ ListMissing)) /\ StaleBatch
       \/ AtEnd /\ StaleBatch
    /\ EndProcess
    /\ UNCHANGED <<chain, source, recordVars, events, batch, safeQueue>>

NothingToPropose ==
    /\ AtEnd /\ ~HasBatchFile
    /\ EndProcess
    /\ UNCHANGED <<chain, source, recordVars, events, batch, safeQueue>>

MarkBatch ==
    /\ AtEnd /\ phase = "start"
    /\ MarkComplete("ethereum")
    /\ phase' = "propose"
    /\ UNCHANGED <<chain, source, recordVars, step, currentImpl, events>>

\* The proposal is made; the process may die before it deletes the file.
ProposeBatch(unlinked) ==
    /\ AtEnd /\ phase = "propose"
    /\ Len(safeQueue) < MaxQueue
    /\ Propose(unlinked)
    /\ IF unlinked THEN events' = events ELSE Event
    /\ EndProcess
    /\ UNCHANGED <<chain, source, recordVars>>

\* The process is killed, or a call it makes fails: the Safe's service, a node.
Crash ==
    /\ step # 0
    /\ Event
    /\ EndProcess
    /\ UNCHANGED <<chain, source, recordVars, batch, safeQueue>>

-----------------------------------------------------------------------------
(* A fork, the operator and the Safe.                                      *)

\* A rehearsal on a fork, in the same directory, leaves its batch when it dies or a call reverts: calls
\* to implementations that exist on the fork only.
RehearsalDies(complete) ==
    /\ step = 0
    /\ ~HasBatchFile
    /\ Event
    /\ \E s \in Stacks :
        batch' = [network |-> "localhost", complete |-> complete,
                  txs |-> <<[do |-> "upgrade", stack |-> s, contract |-> "gateway", to |-> Code("gateway"),
                             built |-> "localhost"]>>]
    /\ UNCHANGED <<chain, source, recordVars, jobVars, batchStarted, safeQueue>>

\* propose-safe-batch
ProposeLeftover ==
    /\ step = 0
    /\ MayProposeLeftover("ethereum")
    /\ Len(safeQueue) < MaxQueue
    /\ Propose(TRUE)
    /\ UNCHANGED <<chain, source, recordVars, jobVars, events, batchStarted>>

Discard ==
    /\ step = 0
    /\ DiscardBatch
    /\ UNCHANGED <<chain, source, recordVars, jobVars, events>>

\* What a call does; setting a list needs a Treasury that keeps one.
Accepted(block, call) == call.do = "list" => block[call.stack].treasury \in ListKeepers

Done(block, call) ==
    CASE call.do = "upgrade" -> [block EXCEPT ![call.stack][call.contract] = call.to]
      [] call.do = "manager" -> [block EXCEPT ![call.stack].roles = @ \cup {"manager"}]
      [] call.do = "list" -> [block EXCEPT ![call.stack].list = TRUE]

\* A proposal is one transaction.
After(block, txs) ==
    FoldLeft(LAMBDA blocks, call : {Done(b, call) : b \in {b \in blocks : Accepted(b, call)}}, {block}, txs)

\* What others may do to a stack in a transaction of their own.
Others(block) ==
    {[block EXCEPT ![s].whitelist = {"trader"} \ @] : s \in Stacks}
    \cup {[block EXCEPT ![s].roles = IF "trader" \in @ THEN @ \ {"trader"} ELSE @ \cup {"trader"}] : s \in Stacks}
    \cup {[block EXCEPT ![s].owner = "other"] : s \in Stacks}

\* The Safe's next proposal is mined, alone or with a transaction of somebody else in the same block.
SafeExecutes(alone) ==
    /\ safeQueue # <<>>
    /\ \E after \in After(chain, Head(safeQueue)) :
        IF alone THEN chain' = after /\ events' = events ELSE chain' \in Others(after) /\ Event
    /\ safeQueue' = Tail(safeQueue)
    /\ UNCHANGED <<source, recordVars, jobVars, batch, batchStarted>>

SafeRejects ==
    /\ safeQueue # <<>>
    /\ IF After(chain, Head(safeQueue)) = {} THEN events' = events ELSE Event
    /\ safeQueue' = Tail(safeQueue)
    /\ UNCHANGED <<chain, source, recordVars, jobVars, batch, batchStarted>>

Commit ==
    /\ step = 0
    /\ source < Len(Commits)
    /\ source' = source + 1
    /\ UNCHANGED <<chain, recordVars, jobVars, events, batchVars>>

\* The record of a queued upgrade precedes its execution.
UpgradePending(s) == \E c \in Upgradable(s) : proxyRecord[s][c] # chain[s][c]

\* validate-upgrades, over the proxies there are.
ValidateUpgrades == \A s \in Stacks : \A c \in Upgradable(s) : UpgradeSafe(s, c)

\* create-release writes the manifests of all instances or of the one it is given, or none of them.
MayRelease(instances) == \A s \in instances : ~UpgradePending(s)

-----------------------------------------------------------------------------

DeploySteps ==
    \/ SkipScript \/ DeployImplementation \/ QueueUpgrade \/ RecordUpgrade \/ GrantRole \/ SetSanctionsList \/ NothingToQueue
    \/ Throws \/ NothingToPropose \/ MarkBatch \/ ProposeBatch(TRUE)

DeploymentNext ==
    \/ StartDeploy \/ DeploySteps \/ ProposeBatch(FALSE) \/ Crash
    \/ \E complete \in BOOLEAN : RehearsalDies(complete)
    \/ ProposeLeftover \/ Discard
    \/ \E alone \in BOOLEAN : SafeExecutes(alone)
    \/ SafeRejects \/ Commit

DeploymentSpec == DeploymentInit /\ [][DeploymentNext]_vars

-----------------------------------------------------------------------------
(* Properties.                                                             *)

\* index.ts:93-94: no proxy ever gets an implementation whose storage does not fit the one it had, also
\* when the stacks run different ones and share the artifact the check starts from, or a run died between
\* deploying and queueing.
UpgradesCompatible ==
    [][\A s \in Stacks, c \in Contracts :
        chain'[s][c] # chain[s][c] => <<c, chain[s][c], chain'[s][c]>> \in Compatible]_vars

\* A Gateway that asks the Treasury for the sanctions list always finds one: Treasury, Gateway and list go
\* live in one proposal, from whatever run, and not at all before the Treasury is behind a proxy.
GatewayFindsList ==
    \A s \in Stacks :
        chain[s].gateway \in ListReaders => chain[s].treasury \in ListKeepers /\ chain[s].list

\* Nothing a rehearsal left behind reaches the Safe: its implementations exist on the fork only.
RehearsalStaysLocal ==
    \A i \in DOMAIN safeQueue : \A call \in ToSet(safeQueue[i]) : call.built = "ethereum"

\* Some upgrade of this source is refused: the source has to change.
Refused ==
    \E s \in Stacks : \E c \in Upgradable(s) :
        chain[s][c] # Code(c) /\ <<c, chain[s][c], Code(c)>> \notin Compatible

\* upgrade-safety.ts:163-165: validate-upgrades fails only for a layout that does not fit, never for want of the
\* live source: whichever implementation the Safe makes live, and however late, its source is still on record.
FailsOnlyUnsafe == ValidateUpgrades \/ Refused

\* While a manifest may be cut, also in the middle of a run, no proposal waiting in the Safe replaces an
\* implementation the manifest would name.
ReleasedWhenSettled ==
    \A s \in Stacks : MayRelease({s}) =>
        \A i \in DOMAIN safeQueue : \A call \in UpgradesTo(safeQueue[i]) :
            call.stack = s => call.to = chain[s][call.contract]

\* What changed between two blocks, as globs, for every account known at either.
Changes(before, after) ==
    LET known == Candidates(before) \cup Candidates(after)
        moved(s, field) ==
            CASE field = "setting" -> Setting(before[s].gateway) # Setting(after[s].gateway)
              [] field = "whitelist" -> before[s].whitelist # after[s].whitelist
              [] field = "role" -> before[s].roles \cap known # after[s].roles \cap known
    IN {glob \in Stacks \X {"setting", "whitelist", "role"} : moved(glob[1], glob[2])}

\* No proxy has another owner and nothing reverts.
Clean(before, after) ==
    \A s \in Stacks :
        /\ before[s].owner = after[s].owner
        /\ "REVERTED" \notin {Setting(before[s].gateway), Setting(after[s].gateway)}

\* Comparing the block before the Safe's transaction with its own passes if --allow names exactly what the
\* upgrade, the calls bundled with it and the rest of that block changed, and fails with one change less
\* or more; accounts first seen afterwards are compared with what they had.
CompareFindsChanges ==
    [][safeQueue # <<>> /\ safeQueue' = Tail(safeQueue) /\ chain' # chain =>
        LET changes == Changes(chain, chain') IN
        /\ ComparePasses(chain, chain', changes) <=> Clean(chain, chain')
        /\ \A glob \in Stacks \X {"setting", "whitelist", "role"} :
            ~ComparePasses(chain, chain', IF glob \in changes THEN changes \ {glob} ELSE changes \cup {glob})]_vars

-----------------------------------------------------------------------------
(* Liveness: the operator runs the deploy until nothing is left to do.     *)

UpToDate ==
    \A s \in Stacks :
        /\ \A c \in Upgradable(s) : chain[s][c] = Code(c) /\ proxyRecord[s][c] = Code(c)
        /\ chain[s].proxied => chain[s].list
        /\ "manager" \in chain[s].roles

\* A process that is not killed runs on; each step of the operator is owed as long as it keeps being possible.
FairDeploymentSpec ==
    /\ DeploymentSpec
    /\ WF_vars(DeploySteps)
    /\ SF_vars(~UpToDate /\ StartDeploy)
    /\ SF_vars(Discard)
    /\ SF_vars(SafeExecutes(TRUE))
    /\ SF_vars(SafeRejects /\ events' = events)

\* Whatever died or was rejected, re-running the deploy gets every proxy, the lists and the roles to what the
\* source says, with records that let a release be cut.
GetsUpToDate == <>[](UpToDate \/ Refused)

================================================================================
