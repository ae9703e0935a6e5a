--------------------------- MODULE TreasuryMigration ---------------------------
(***************************************************************************)
(* The migration of a PeggedToken from its live Treasury ("old") to one    *)
(* behind a proxy ("new"): the deploy process that builds the Safe batch   *)
(* and records it, the check while it is pending, its execution, and the   *)
(* verification that retires the record.  Meanwhile settings of both       *)
(* Treasuries change, code is committed, and processes die.                *)
(***************************************************************************)
EXTENDS MirrorBatch, SafeBatch

CONSTANTS
    Networks,          \* "ethereum", or the fork "localhost" of a dry run
    LiveTreasuries,    \* states the live Treasury may start in
    LiveAccess,        \* <<token, side>>: whom that token's gated vault lets in then
    WHITELIST_TOKENS,  \* the collateral of the whitelist script
    Grants,            \* <<role, account>> pairs that are granted and revoked
    Bands,             \* peg bands that are set
    Delays,            \* admin delays a change completes to
    LastCode, MaxEvents, MaxDust, MaxQueue   \* bounds

ASSUME MigrationAssumption ==
    /\ \A s \in LiveTreasuries : IsTreasury(s) /\ WellFormed(s)
    /\ WHITELIST_TOKENS \in Seq(Tokens)
    /\ Bands \subseteq Nat
    /\ Networks \subseteq {"ethereum", "localhost"}

VARIABLES
    chain,        \* as in MirrorBatch
    archive,      \* what an archive node says of the block migrate ran in
    artifact,     \* the Treasury the alias records
    proxyRecord,  \* whether <alias>_Proxy exists
    previous,     \* <alias>_Previous, with the MigrationRecord on it
    gatewayImpl,  \* the code of the recorded Gateway_Implementation, shared by the stacks
    code,         \* the compiled Gateway
    net,          \* the network the runs are on
    pc,           \* where the running process is
    seen,         \* its oldState
    calls,        \* its calls; on a fork then those left to execute
    checked,      \* nothing has changed since the pending check passed
    events        \* changes, dust, commits and dead processes so far

recordVars == <<artifact, proxyRecord, previous>>
jobVars == <<pc, seen, calls>>
worldVars == <<code, net, checked, events>>
vars == <<chain, archive, recordVars, gatewayImpl, jobVars, worldVars, batchVars>>

NoPrevious == [kept |-> FALSE, calls |-> <<>>, gateway |-> 0]
NoTreasury == Fresh("none")
NotMigrated == [ran |-> FALSE]

\* Gateway code 0 has the peg bands, later code reads the Treasury's.
MigrationInit ==
    /\ \E old \in LiveTreasuries :
        chain = [old |-> old, new |-> NoTreasury, token |-> "old", access |-> LiveAccess, gateway |-> 0,
                 held |-> [old |-> 1, new |-> 0]]
    /\ archive = NotMigrated
    /\ artifact = "old" /\ proxyRecord = FALSE /\ previous = NoPrevious
    /\ gatewayImpl = 0 /\ code = 1
    /\ net \in Networks
    /\ pc = "idle" /\ seen = NoTreasury /\ calls = <<>>
    /\ checked = FALSE /\ events = 0
    /\ BatchInit

\* A change, dust that arrives, a commit or a process that dies.
Event == events < MaxEvents /\ events' = events + 1

-----------------------------------------------------------------------------
(* What the scripts ask first.                                             *)

\* Mutant: the Gateway's own script always upgrades it.
BehindProxy_Always == TRUE

\* isTreasuryMigrated: the token's Treasury is behind a proxy.
BehindProxy == chain.token = "new"

\* Mutant: what is pending is not looked at.
MigrationPending_Never == FALSE

\* isTreasuryMigrationPending
MigrationPending == chain.token # artifact

NoAdminChangePending(s) == s.pending = "none"

\* assertSafeCanSign; the Safe owns the token and maintains the gated vaults.
SafeCanSign(s) == s.admin = Safe /\ NoAdminChangePending(s)

\* assertNothingQueuedFor
NothingQueuedFor(sides) ==
    /\ ~StaleBatch
    /\ \A call \in ToSet(Queued) : SentTo(call) \notin sides

\* gatewayUpgradeCall
GatewayUpgradeCall(impl) ==
    When(chain.gateway # impl, [do |-> "upgradeGateway", value |-> impl])

-----------------------------------------------------------------------------
(* The deploy process.  It may die, and the chain may move, between any    *)
(* two of these steps.                                                     *)

\* The process ends, having thrown or not; a batch file it leaves is a leftover from then on.
EndProcess ==
    /\ pc' = "idle" /\ seen' = NoTreasury /\ calls' = <<>>
    /\ batchStarted' = FALSE

\* The scripts that run before the migration's: the Gateway's upgrade, ...
GatewayCalls ==
    When(BehindProxy /\ chain.gateway # code, [do |-> "upgradeGateway", value |-> code])

\* ... the token's Treasury ...
ConnectionCalls == When(chain.token # artifact, [do |-> "updateTreasury", on |-> artifact])

\* ... and the collateral of the whitelist script.
WhitelistCalls ==
    ForEach(WHITELIST_TOKENS,
            [t \in Tokens |-> When(~HasToken(chain[artifact], t),
                [do |-> "addToWhitelist", on |-> artifact, token |-> t, value |-> "listed"])])

\* On a fork the deployer itself whitelists, which is the admin's to do: the call reverts, and the run ends.
RefusedAtWhitelist == net = "localhost" /\ ~MigrationPending /\ WhitelistCalls # <<>>

\* A pending migration owns the last two.  The YieldManager's script, which may grant it the role it needs
\* on the live Treasury, and the upgrade of a Treasury behind a proxy are left out.
ScriptCalls ==
    GatewayCalls
    \o IF MigrationPending THEN <<>>
       ELSE ConnectionCalls \o IF RefusedAtWhitelist THEN <<>> ELSE WhitelistCalls

\* A deploy with the migration's own tags: nothing runs before it.
StartOwnTags(script) ==
    /\ pc = "idle"
    /\ pc' = script
    /\ UNCHANGED <<chain, archive, recordVars, gatewayImpl, seen, calls, worldVars, batchVars>>

\* A full deploy.  A call it saves finds a leftover file: the process ends as it began.
StartFull(script) ==
    /\ pc = "idle"
    /\ ScriptCalls # <<>>
    /\ SaveAll(net, ScriptCalls)
    /\ gatewayImpl' = IF BehindProxy THEN code ELSE gatewayImpl
    /\ pc' = IF RefusedAtWhitelist THEN "failed" ELSE script
    /\ UNCHANGED <<chain, archive, recordVars, seen, calls, worldVars>>

\* What StartMigration and StartRebuild require, but that the compiled Gateway's storage suits the live one:
\* Deployment has that check, and a process that fails it ends as one that crashes.  So does one that
\* finds the new proxy's admin not owned by the live Treasury's, which nothing here takes from it.
MayMigrate == ~proxyRecord /\ SafeCanSign(chain.old) /\ NothingQueuedFor({"old"})
MayRebuild == SafeCanSign(chain.old) /\ NothingQueuedFor({"old", "new"})

\* Mutant: the live record is not kept.
StartMigration_NotKept ==
    /\ pc = "migrate" /\ chain.token = "old" /\ artifact = "old"
    /\ MayMigrate
    /\ seen' = chain.old
    /\ pc' = "deploy"
    /\ UNCHANGED <<chain, archive, recordVars, gatewayImpl, calls, worldVars, batchVars>>

\* With MIGRATE_TREASURY=true the live Treasury is recorded before anything is deployed.
StartMigration ==
    /\ pc = "migrate" /\ chain.token = "old" /\ artifact = "old"
    /\ MayMigrate
    /\ previous' = [NoPrevious EXCEPT !.kept = TRUE]
    /\ seen' = chain.old
    /\ pc' = "deploy"
    /\ UNCHANGED <<chain, archive, artifact, proxyRecord, gatewayImpl, calls, worldVars, batchVars>>

\* deployUpgradable deploys the proxy, which records itself ...
DeployProxy ==
    /\ pc = "deploy"
    /\ chain' = [chain EXCEPT !.new = Fresh(seen.admin)]
    /\ proxyRecord' = TRUE
    /\ pc' = "alias"
    /\ UNCHANGED <<archive, artifact, previous, gatewayImpl, seen, calls, worldVars, batchVars>>

\* ... and then saves the alias.
SaveAlias ==
    /\ pc = "alias"
    /\ artifact' = "new"
    /\ pc' = "build"
    /\ UNCHANGED <<chain, archive, proxyRecord, previous, gatewayImpl, seen, calls, worldVars, batchVars>>

\* A run that finds the new Treasury deployed rebuilds the batch for it.
StartRebuild ==
    /\ pc = "migrate" /\ chain.token = "old" /\ artifact = "new"
    /\ previous.kept
    /\ MayRebuild
    /\ seen' = chain.old
    /\ pc' = "build"
    /\ UNCHANGED <<chain, archive, recordVars, gatewayImpl, calls, worldVars, batchVars>>

Buildable(old) == old.delay = chain.new.delay /\ ~MirrorRefused(old, chain.new)

BuildBatch ==
    /\ pc = "build"
    /\ Buildable(seen)
    /\ calls' = BuildMirrorBatch(seen, chain.new, chain.access)
    /\ SaveAll(net, calls')
    /\ pc' = "gateway"
    /\ UNCHANGED <<chain, archive, recordVars, gatewayImpl, seen, worldVars>>

\* upgradeGateway deploys the compiled implementation and queues the upgrade.
UpgradeGateway ==
    /\ pc = "gateway"
    /\ gatewayImpl' = code
    /\ calls' = calls \o GatewayUpgradeCall(code)
    /\ SaveAll(net, calls')
    /\ pc' = "record"
    /\ UNCHANGED <<chain, archive, recordVars, seen, worldVars>>

SaveRecord ==
    /\ pc = "record"
    /\ previous' = [kept |-> TRUE, calls |-> calls, gateway |-> gatewayImpl]
    /\ pc' = "end"
    /\ UNCHANGED <<chain, archive, artifact, proxyRecord, gatewayImpl, seen, calls, worldVars, batchVars>>

-----------------------------------------------------------------------------
(* Without the flag.                                                       *)

Rebuilt ==
    BuildMirrorBatch(chain.old, chain.new, chain.access) \o GatewayUpgradeCall(previous.gateway)

\* Mutant: the recorded batch is not compared with one built now.
BatchStillHolds_NotRebuilt ==
    /\ NoAdminChangePending(chain.old)
    /\ previous.calls # <<>>
    /\ gatewayImpl = code /\ previous.gateway = code

\* checkPendingBatch, what it requires
BatchStillHolds ==
    /\ NoAdminChangePending(chain.old)
    /\ previous.calls # <<>>
    /\ ~MirrorRefused(chain.old, chain.new)
    /\ gatewayImpl = code /\ previous.gateway = code
    /\ Rebuilt = previous.calls

CheckPending ==
    /\ pc = "check" /\ chain.token = "old" /\ artifact = "new"
    /\ previous.kept
    /\ BatchStillHolds
    /\ checked' = TRUE
    /\ pc' = "end"
    /\ UNCHANGED <<chain, archive, recordVars, gatewayImpl, seen, calls, code, net, events, batchVars>>

\* Read at the block before: the Gateway's upgrade is in the batch.
BandsAtExecution == archive.before

\* Read now: it follows migrate, and on a fork every call has a block of its own.
GatewayToVerify == chain.gateway

\* Mutant: what is sent to the old Treasury later in the block counts.
StrandedAfter_WithDust == archive.at.held.old

\* strandedAfter
StrandedAfter == archive.at.held.old - archive.late

\* verifyMigrated, what it requires; both Treasuries as of the migration's block
Verifies ==
    LET old == archive.at.old new == archive.at.new IN
    /\ archive.ran
    /\ archive.at.token = "new"
    /\ BandsAtExecution.gateway = 0
    /\ previous.gateway # 0 => GatewayToVerify = previous.gateway
    /\ ExactCopy(old, new)
    /\ StrandedAfter = 0
    /\ \A t \in ToSet(old.tokens) \cap Gated :
            <<t, "new">> \in archive.at.access /\ <<t, "old">> \notin chain.access

\* Verified once, then _Previous is deleted.
VerifyMigrated ==
    /\ artifact = "new" /\ chain.token = "new" /\ pc \in {"check", "migrate"}
    /\ previous.kept
    /\ Verifies
    /\ previous' = NoPrevious
    /\ pc' = "end"
    /\ UNCHANGED <<chain, archive, artifact, proxyRecord, gatewayImpl, seen, calls, worldVars, batchVars>>

\* Nothing asked for and nothing pending, or a Treasury behind a proxy already.
NothingToMigrate ==
    /\ artifact = chain.token /\ (pc = "check" \/ (pc = "migrate" /\ artifact = "new"))
    /\ ~(artifact = "new" /\ previous.kept)
    /\ pc' = "end"
    /\ UNCHANGED <<chain, archive, recordVars, gatewayImpl, seen, calls, worldVars, batchVars>>

\* What each case of migrateTreasuryIfRequested requires; anything else throws.
Passes ==
    \/ artifact = "old" /\ chain.token = "old" /\ (pc = "migrate" => MayMigrate)
    \/ /\ artifact = "new" /\ chain.token = "old" /\ previous.kept
       /\ IF pc = "migrate" THEN MayRebuild ELSE BatchStillHolds
    \/ artifact = "new" /\ chain.token = "new" /\ (previous.kept => Verifies)

Throws ==
    /\ \/ pc \in {"migrate", "check"} /\ ~Passes
       \/ pc = "build" /\ ~Buildable(seen)
       \/ pc = "failed"
    /\ EndProcess
    /\ UNCHANGED <<chain, archive, recordVars, gatewayImpl, worldVars, batch, safeQueue>>

-----------------------------------------------------------------------------
(* What role holders may do to a Treasury.                                 *)

\* EnumerableSet.remove: the last token takes the place of the one that goes.
Without(list, t) == [i \in 1..Len(list) - 1 |-> IF list[i] = t THEN Last(list) ELSE list[i]]

\* What a Treasury can be given, one call of a role holder at a time: roles and flags, ...
SettingsChanged(s) ==
    {[s EXCEPT !.roles = IF g \in @ THEN @ \ {g} ELSE @ \cup {g}] : g \in Grants}
    \cup {[s EXCEPT !.cfg[t].deposit = ~@] : t \in ToSet(s.tokens)}
    \cup {[s EXCEPT !.cfg[t].withdraw = ~@] : t \in ToSet(s.tokens)}

\* ... peg bands, ...
BandsChanged(s) == {[s EXCEPT !.cfg[t].band = b] : t \in ToSet(s.tokens), b \in Bands}

\* ... collateral ...
ListChanged(s) ==
    {[s EXCEPT !.tokens = Append(@, t), !.cfg[t] = Opened("listed")] : t \in Tokens \ ToSet(s.tokens)}
    \cup {[s EXCEPT !.tokens = Without(@, t), !.cfg[t] = Unlisted] : t \in ToSet(s.tokens)}

\* ... and an admin change that is proposed, withdrawn or accepted.
AdminChanged(s) ==
    {[s EXCEPT !.pending = p] : p \in {"none", "delay change"}}
    \cup {[s EXCEPT !.delay = d, !.pending = "none"] : d \in IF s.pending = "none" THEN {} ELSE Delays}

\* Without its bands, which for the old Treasury are kept by the Gateway as it was before the upgrade.
ChangedButBands(s) == SettingsChanged(s) \cup ListChanged(s) \cup AdminChanged(s)
Changed(s) == ChangedButBands(s) \cup BandsChanged(s)

\* Of what the migration left: nothing more in its block, or one change of either Treasury.
LaterInBlock(after) ==
    {after}
    \cup {[after EXCEPT !.new = s] : s \in Changed(after.new)}
    \cup {[after EXCEPT !.old = s] : s \in ChangedButBands(after.old)}

-----------------------------------------------------------------------------
(* The last script and the Safe.                                           *)

\* Nothing was queued.
NothingToPropose ==
    /\ pc = "end"
    /\ ~HasBatchFile
    /\ EndProcess
    /\ UNCHANGED <<chain, archive, recordVars, gatewayImpl, worldVars, batch, safeQueue>>

\* A leftover of another run is not this one's to propose.
LeftoverAtEnd ==
    /\ pc = "end"
    /\ StaleBatch
    /\ EndProcess
    /\ UNCHANGED <<chain, archive, recordVars, gatewayImpl, worldVars, batch, safeQueue>>

MarkBatch ==
    /\ pc = "end"
    /\ MarkComplete(net)
    /\ pc' = "propose"
    /\ calls' = batch.txs
    /\ UNCHANGED <<chain, archive, recordVars, gatewayImpl, seen, worldVars>>

\* The process may die when the proposal is made and the file is not deleted yet.
ProposeBatch(unlinked) ==
    /\ pc = "propose" /\ net = "ethereum"
    /\ Len(safeQueue) < MaxQueue
    /\ Propose(unlinked)
    /\ IF unlinked THEN events' = events ELSE Event
    /\ EndProcess
    /\ UNCHANGED <<chain, archive, recordVars, gatewayImpl, code, net, checked>>

\* The migration executed on `before` and left `after`; by the end of its block role holders had made
\* `end` of that, and `late` dust had arrived.
Archive(before, after, end, late) ==
    [ran |-> TRUE, before |-> before, late |-> late, changed |-> end # after,
     at |-> [end EXCEPT !.held.old = @ + late]]

Migrates(call) == call.do = "migrate"
IsMigration(txs) == \E i \in DOMAIN txs : Migrates(txs[i])

\* proposeSafeTransaction on a fork: the impersonated Safe sends each call in a block of its own ...
ForkCall ==
    /\ pc = "propose" /\ net = "localhost"
    /\ calls # <<>> /\ Accepts(chain, Head(calls))
    /\ chain' = Effect(chain, Head(calls))
    /\ archive' = IF Migrates(Head(calls)) THEN Archive(chain, chain', chain', 0) ELSE archive
    /\ calls' = Tail(calls)
    /\ UNCHANGED <<recordVars, gatewayImpl, pc, seen, worldVars, batchVars>>

\* ... until all are executed and the file is deleted.  No call reverts: only the process acts on a fork.
ForkDone ==
    /\ pc = "propose" /\ net = "localhost"
    /\ calls = <<>>
    /\ batch' = NoBatch
    /\ EndProcess
    /\ UNCHANGED <<chain, archive, recordVars, gatewayImpl, worldVars, safeQueue>>

\* The Safe executes its next proposal as one transaction.  Behind a migration, in the same block, `late`
\* dust lands and a role holder may change either Treasury.  The operator lets a migration go ahead right
\* after its check passed, and nothing that would revert.
SafeExecutes(late) ==
    /\ safeQueue # <<>>
    /\ \E after \in RunCalls(chain, Head(safeQueue)) :
        IF IsMigration(Head(safeQueue))
        THEN /\ checked
             /\ \E end \in LaterInBlock(after) :
                    /\ archive' = Archive(chain, after, end, late)
                    /\ IF end = after /\ late = 0 THEN events' = events ELSE Event
             /\ chain' = archive'.at
        ELSE chain' = after /\ UNCHANGED <<archive, events>>
    /\ safeQueue' = Tail(safeQueue)
    /\ checked' = FALSE
    /\ UNCHANGED <<recordVars, gatewayImpl, jobVars, code, net, batch, batchStarted>>

\* A proposal that would revert, or whose check fails, is rejected.
SafeRejects ==
    /\ safeQueue # <<>>
    /\ \/ RunCalls(chain, Head(safeQueue)) = {}
       \/ IsMigration(Head(safeQueue)) /\ (Head(safeQueue) # previous.calls \/ ~BatchStillHolds)
    /\ safeQueue' = Tail(safeQueue)
    /\ UNCHANGED <<chain, archive, recordVars, gatewayImpl, jobVars, worldVars, batch, batchStarted>>

-----------------------------------------------------------------------------
(* The operator's other steps, as docs/OPERATIONS.md has them.             *)

\* The process is killed, or a call it makes fails.
Crash ==
    /\ pc # "idle"
    /\ Event
    /\ EndProcess
    /\ UNCHANGED <<chain, archive, recordVars, gatewayImpl, code, net, checked, batch, safeQueue>>

\* propose-safe-batch.  On a fork it would execute a dead process's batch: a dry run that died is not taken up.
ProposeLeftover ==
    /\ pc = "idle" /\ net = "ethereum"
    /\ MayProposeLeftover(net)
    /\ Len(safeQueue) < MaxQueue
    /\ Propose(TRUE)
    /\ UNCHANGED <<chain, archive, recordVars, gatewayImpl, jobVars, worldVars, batchStarted>>

Discard ==
    /\ pc = "idle"
    /\ DiscardBatch
    /\ UNCHANGED <<chain, archive, recordVars, gatewayImpl, jobVars, worldVars>>

\* The proxy a process deployed before it died is forgotten, as the error asks.
DeleteOrphan ==
    /\ pc = "idle"
    /\ artifact = "old" /\ proxyRecord
    /\ proxyRecord' = FALSE
    /\ chain' = [chain EXCEPT !.new = NoTreasury]
    /\ UNCHANGED <<archive, artifact, previous, gatewayImpl, jobVars, worldVars, batchVars>>

\* A pending migration is abandoned: its records go, its proposals and its batch file too.
Abandon ==
    /\ pc = "idle" /\ net = "ethereum"
    /\ artifact = "new" /\ chain.token = "old"
    /\ Event
    /\ artifact' = "old" /\ proxyRecord' = FALSE /\ previous' = NoPrevious
    /\ chain' = [chain EXCEPT !.new = NoTreasury]
    /\ safeQueue' = ForEach(safeQueue, [txs \in ToSet(safeQueue) |-> When(~IsMigration(txs), txs)])
    /\ batch' = NoBatch
    /\ checked' = FALSE
    /\ UNCHANGED <<archive, gatewayImpl, jobVars, code, net, batchStarted>>

\* A difference that arose in the migration's own block stays one: once it is explained, or applied to
\* the new Treasury, _Previous is deleted by hand.
DeleteRecord ==
    /\ pc = "idle" /\ net = "ethereum"
    /\ artifact = "new" /\ chain.token = "new" /\ previous.kept
    /\ archive.ran /\ ~Verifies
    /\ previous' = NoPrevious
    /\ UNCHANGED <<chain, archive, artifact, proxyRecord, gatewayImpl, jobVars, worldVars, batchVars>>

-----------------------------------------------------------------------------
(* What else happens to the two Treasuries and the code.                   *)

\* The migration was executed, and verified or its differences settled by hand.
MigrationDone == archive.ran /\ ~previous.kept

\* Only the process acts on a fork; what follows a verified migration is no longer looked at.
Watched == net = "ethereum" /\ ~MigrationDone

\* On the Treasury the token uses.
LiveChange ==
    /\ Watched /\ Event
    /\ \E s \in Changed(chain[chain.token]) \ {chain[chain.token]} :
        chain' = [chain EXCEPT ![chain.token] = s]
    /\ checked' = FALSE
    /\ UNCHANGED <<archive, recordVars, gatewayImpl, jobVars, code, net, batchVars>>

\* The Safe grants a role on the Treasury it is to migrate to.
EarlyGrant ==
    /\ Watched /\ Event
    /\ chain.token = "old" /\ chain.new.admin = Safe
    /\ \E g \in Grants \ chain.new.roles : chain' = [chain EXCEPT !.new.roles = @ \cup {g}]
    /\ checked' = FALSE
    /\ UNCHANGED <<archive, recordVars, gatewayImpl, jobVars, code, net, batchVars>>

\* Anyone sends collateral to the emptied Treasury.
Donate ==
    /\ Watched /\ Event
    /\ chain.token = "new"
    /\ chain' = [chain EXCEPT !.held.old = @ + 1]
    /\ UNCHANGED <<archive, recordVars, gatewayImpl, jobVars, code, net, checked, batchVars>>

\* The Gateway's source changes between runs.
CodeChange ==
    /\ pc = "idle"
    /\ Event
    /\ code < LastCode
    /\ code' = code + 1
    /\ checked' = FALSE
    /\ UNCHANGED <<chain, archive, recordVars, gatewayImpl, jobVars, net, batchVars>>

\* A run of the other stack deploys the implementation both share.
OtherStackUpgrade ==
    /\ pc = "idle"
    /\ gatewayImpl # code
    /\ gatewayImpl' = code
    /\ UNCHANGED <<chain, archive, recordVars, jobVars, worldVars, batchVars>>

-----------------------------------------------------------------------------

DeploySteps ==
    \/ StartMigration \/ DeployProxy \/ SaveAlias \/ StartRebuild \/ BuildBatch \/ UpgradeGateway \/ SaveRecord
    \/ CheckPending \/ VerifyMigrated \/ NothingToMigrate \/ Throws
    \/ NothingToPropose \/ LeftoverAtEnd \/ MarkBatch \/ ProposeBatch(TRUE) \/ ForkCall \/ ForkDone

\* A batch is built only when no earlier one is left in the Safe's queue.
NoOlderBatch == \A i \in DOMAIN safeQueue : ~IsMigration(safeQueue[i])

MigrationNext ==
    \/ NoOlderBatch /\ (StartOwnTags("migrate") \/ StartFull("migrate"))
    \/ StartOwnTags("check") \/ StartFull("check")
    \/ DeploySteps
    \/ \E late \in 0..MaxDust : SafeExecutes(late)
    \/ SafeRejects
    \/ Crash \/ ProposeBatch(FALSE) \/ ProposeLeftover \/ Discard \/ DeleteOrphan \/ Abandon \/ DeleteRecord
    \/ LiveChange \/ EarlyGrant \/ Donate \/ CodeChange \/ OtherStackUpgrade

MigrationSpec == MigrationInit /\ [][MigrationNext]_vars

-----------------------------------------------------------------------------
(* Properties.                                                             *)

\* The Treasury that holds the collateral is on record, under its alias or as _Previous, whatever
\* process died and wherever: without the record a migration can be neither finished nor abandoned.
LiveTreasuryRecorded == chain.token = artifact \/ (chain.token = "old" /\ previous.kept)

\* The new Treasury as a proposal would leave it is the live one of now, with all its collateral and
\* the vaults' access, without what the Safe held for the batch only, and under the compiled Gateway.
Mirrors(txs) ==
    \E after \in RunCalls(chain, txs) :
        /\ ExactCopy(chain.old, after.new)
        /\ after.held.old = 0
        /\ after.gateway = code
        /\ \A t \in ToSet(chain.old.tokens) \cap Gated :
                <<t, "new">> \in after.access /\ <<t, "old">> \notin after.access

\* treasury-migration.ts:711-713: while nothing has changed since the check passed, executing the
\* migration that the Safe holds undoes no change made on either Treasury since it was built.
CheckedBatchMirrors ==
    checked => \A i \in DOMAIN safeQueue : IsMigration(safeQueue[i]) => Mirrors(safeQueue[i])

\* On the main network the token never points at a Treasury without collateral: the routine scripts
\* leave updateTreasury to the migration batch, which moves both in one transaction.
TokenBacked == net = "ethereum" => chain.held[chain.token] > 0

\* The Gateway that prices through the Treasury's peg band never runs over a Treasury without one,
\* whichever script upgrades it, and on a fork not between two calls of the batch either.
GatewayMovesWithTreasury == chain.gateway # 0 => chain.token = "new"

\* Half a migration never reaches the Safe: every proposal that migrates also carries the Gateway's
\* upgrade, which the process queues after the mirror calls and may die before.
ProposalsWhole ==
    \A i \in DOMAIN safeQueue :
        IsMigration(safeQueue[i]) => \E j \in DOMAIN safeQueue[i] : safeQueue[i][j].do = "upgradeGateway"

\* A migration that executed after its check passes the verification, however late that runs:
\* settings changed in later blocks, dust on the emptied Treasury (also in the same block) and the
\* Gateway's upgrade make no difference.  A setting changed on either Treasury later in the migration's own
\* block does (treasury-migration.ts:560).  On an undisturbed fork, where each call has a block of its own,
\* it passes too.
MigrationVerifies ==
    /\ archive.ran /\ previous.kept /\ ~archive.changed
    /\ net = "ethereum" \/ (pc # "propose" /\ events = 0)
    => Verifies

-----------------------------------------------------------------------------
(* Liveness: the operator follows docs/OPERATIONS.md.                      *)

\* A deploy process that is not killed runs on.
ProcessFairness == WF_vars(DeploySteps)

\* The next step of the procedure, by what the operator sees.
AskToMigrate == NoOlderBatch /\ ~HasBatchFile /\ chain.token = "old" /\ StartOwnTags("migrate")
AskToCheck == ~HasBatchFile /\ ~checked /\ chain.token = "old" /\ ~NoOlderBatch /\ StartOwnTags("check")
AskToVerify == archive.ran /\ previous.kept /\ Verifies /\ StartOwnTags("check")

\* Other runs may come in between any number of times, so each step is owed to the operator who keeps
\* finding it possible: strong fairness.
OperatorFairness ==
    /\ SF_vars(Discard)
    /\ SF_vars(DeleteOrphan)
    /\ SF_vars(SafeRejects)
    /\ SF_vars(AskToMigrate)
    /\ SF_vars(AskToCheck)
    /\ SF_vars(AskToVerify \/ DeleteRecord)
    /\ SF_vars(SafeExecutes(0))

FairMigrationSpec == MigrationSpec /\ ProcessFairness /\ OperatorFairness

\* With finitely many changes, code versions and dead processes, the migration is executed and verified,
\* or its differences are settled, unless an admin change stays pending on the live Treasury or its
\* settings cannot be copied.
MigrationCompletes ==
    net = "ethereum" => <>MigrationDone \/ <>[](~NoAdminChangePending(chain.old) \/ ~Buildable(chain.old))

================================================================================
