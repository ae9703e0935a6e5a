# Vetro contracts: TLA+ models and proofs

This directory is a verification development of the Vetro contracts (`src/src/*.sol`) and of
the TypeScript tooling that migrates and upgrades them (`src/deploy`, `src/tasks`). It models
the protocol's transactions and the tooling's steps as TLA+ actions, model-checks them with TLC
on small instances and proves some of the results for every instance with TLAPS. `PROJECT.json`
lists, for machines, what this file explains: components, runs, mutants, the map from
definitions to source lines, hazards, findings and theorems. All paths below are those of
`PROJECT.json`: the repository is `src/`, so the contracts are in `src/src/`; TypeScript files
are named without their directory where no two share a name.

## 1. The system

Vetro issues a *PeggedToken* (VUSD) against collateral (stablecoins) held in a *Treasury*.
Users mint and redeem through a *Gateway*. PeggedToken can be staked in a *StakingVault*
(ERC-4626, sVUSD), which earns what a *YieldDistributor* drips to it; a *YieldManager*
moves harvested yield to the distributor under two caps.

| Part | State | Operations | Talks to |
|---|---|---|---|
| `PeggedToken.sol` | balances, supply, blacklist | mint (Gateway), burnFrom, transfer, addToBlacklist, removeFromBlacklist | Treasury (roles) |
| `SanctionsList.sol` | none | `isSanctioned` = blacklist or oracle | PeggedToken, sanctions oracle |
| `Treasury.sol` | whitelist, per-token config (oracle, stale period, switches, cap, netDeposited, peg band), price tolerance, sanctions list, swapper | deposit, withdraw (Gateway only); harvest (UMM); pull, push, swap, switches (keeper); listing, sweep, oracles, bands, tolerance, caps (admin, maintainer) | collateral, yield vaults, feeds, Gateway (`amoSupply`), PeggedToken |
| `Gateway.sol` | redeem requests, amoSupply and its limit, mintLimit, fees, delay and its switch, exemptions | deposit, mint, redeem, withdraw, requestRedeem, cancelRedeemRequest (users); mintToAMO, burnFromAMO (UMM); settings | Treasury, PeggedToken |
| `StakingVault.sol` | shares, cooldown requests and their per-owner index, totalAssetsInCooldown, cooldown settings, exemptions, distributor link | deposit, mint, redeem, withdraw, requestRedeem/Withdraw, claimWithdraw(Batch), cancelWithdraw, share transfers, owner's settings | YieldDistributor (pullYield in each operation), Treasury (sanctions), asset |
| `YieldDistributor.sol` | periodFinish, rewardRate, lastUpdateTime, yieldDuration | distribute (funders), pullYield (vault), updateYieldDuration, rescueTokens | StakingVault (supply), asset |
| `YieldManager.sol` | absoluteCap, maxAprBps; its balance is the buffer | harvest, distribute, harvestAndDistribute (keepers), caps, sweep (admin) | Treasury, YieldDistributor, StakingVault |
| feed adapters | Chainlink adapter: feed and pending feed; others none | two-step feed update; arithmetic over feeds | Treasury reads them |
| `treasury-migration.ts` | the Treasury's alias, `_Proxy` and `_Previous` records | build, rebuild, check, verify a migration | both Treasuries, PeggedToken, yield vaults, batch file, `deployUpgradable` |
| `gnosis-safe.ts`, `propose-safe-batch.ts` | the batch file; whether this process started it | save a call, propose or execute, propose a leftover | the Safe's service, or a fork |
| `helpers/index.ts`, `upgrade-safety.ts`, `gateway.ts`, `sanctions-list.ts`, scripts | implementation and proxy records, solc inputs | check storage, deploy, queue, record; grant roles; set the list | proxies, batch file |
| `upgrade-snapshot.ts`, `create-release.ts`, `validate-upgrades.ts` | none; snapshots and manifests | compare two blocks, cut a release, check all proxies | records, chain |
| configuration, shell and Morpho scripts | none | development tooling | |

**Concurrency and failure.** The EVM runs one transaction at a time and a revert undoes all
of it, so an action of the models is a whole transaction and its guards are every condition
whose failure reverts. What is hard is what comes *between* transactions: users, keepers,
the AMO, the admin, feeds, sanctions and the clock move in any order; a price or a list is
read in one transaction and differs in the next; a request lives through setting changes;
rounding errors of long sequences add up in somebody's favour; one failing dependency stops
the transactions that need it.

The tooling is the opposite: one deploy is dozens of steps of a process that may die after any
of them and leaves behind files, records and contracts that the next process finds. Between its
steps, and for days between a proposal and its execution, the chain moves: settings change,
signers reject, collateral arrives, code is committed, the other stack is upgraded. Rehearsals
on a fork run in the same directory. The Safe executes a batch as one transaction, a fork as one
transaction per call.

**What makes each part correct.**

* *Gateway*: amoSupply stays within supply and its limit; backed supply stays within
  mintLimit; every locked token is in the Gateway; each lock of a request waits its
  delay, or a lower one under which its owner locked more later; a position can be taken back unless it is listed.
* *Treasury*: trades never eat into what backs other holders; a harvest takes surplus only;
  room under a cap reopens only by redemption; bands stay inside the tolerance; a delisted token
  leaves nothing behind.
* *StakingVault*: cooldown books are exact and funded; requests keep their date and amount;
  the share price never falls; a sanctioned account is frozen.
* *YieldDistributor*: it holds what it promises; nobody earns for time the vault was empty.
* *YieldManager*: the amount it clamps to passes the drip check, and a repeated call has
  nothing left to add.
* *Treasury migration*: the Treasury with the collateral is always on record; a checked batch
  undoes nothing; the token never points at an empty Treasury; the Gateway moves with it; what
  was executed verifies, and the procedure ends.
* *Safe batch*: no half batch and no rehearsal reaches the Safe; a leftover blocks nobody forever.
* *Upgrades*: storage always fits; the Gateway finds its sanctions list; the tasks that check
  and record an upgrade tell the truth; re-running the deploy gets everything up to date.

## 2. Modules

Two compositions of contracts share `FixedPoint` (mulDiv down and up, min, clamped subtraction);
two of the tooling share `SafeBatch`.

```
FixedPoint <- Externals <- PeggedToken <- Treasury <- Gateway <- Vetro <- VetroHistory
                                                                  |  INSTANCE ParReserve
FixedPoint <- StakedAsset <- YieldDistributor <- StakingVault <- Staking <- YieldManager
MirrorBatch, SafeBatch <- TreasuryMigration
SafeBatch, UpgradeSnapshot <- Deployment

ArithmeticProofs (of FixedPoint, and of sums over finite sets) is extended by all of these:
VetroHistory <- VetroProofs
Staking <- StakingProofs <- YieldManagerProofs (with YieldManager)
MirrorBatch <- MirrorProofs <- MigrationProofs (with TreasuryMigration) <- PendingProofs
Deployment <- DeploymentProofs

MCVetro, MCVetroHistory, MCStaking, MCYieldManager, MCMigration, MCDeployment: constants for TLC
```

* `Externals`: the clock, the price feeds (any answer of `Prices`, dated now or later),
  the sanctions oracle, collateral held idle or in a yield vault. A vault is its book value
  `invested[t]`; it earns, loses and receives donations. External code, modelled from use.
* `PeggedToken`, `Treasury`, `Gateway`: one action per external function, named after it.
  Effects of one contract's call in another (mint, burn, deposit, withdraw) are conjuncts of
  the caller's action. Roles are implicit. `OracleAnswers`, `Priced`, `MintPrice`,
  `RedeemPrice` and the four previews keep the order of the code's roundings.
* `Vetro`: the composition and its properties. `VetroHistory` adds one history variable:
  for each open request the locks it was merged from, each with its time and its delay, of which the code keeps one date. `ParReserve` is the abstract
  specification of the reserve: assets cover liabilities, trades keep the surplus, releases
  take only surplus. `BackedAtPar` says Vetro implements it (assets: collateral at par;
  liabilities: supply less amoSupply), as long as vaults do not lose and the admin
  sweeps nothing.
* `StakedAsset`: the clock (from 1, since 0 means "never funded" in the distributor),
  the asset's ledger and blacklist, the sanctions oracle.
* `YieldDistributor`: the linear drip with its scaled, rounded-down rate. `PullYield` and the
  functions `LastUpdateAfterPull`, `PeriodFinishAfterPull`, `Pulled` are `_pullYield`: it
  pays what accrued, or slides the schedule while the vault is empty.
* `StakingVault`: every operation first pulls, so its amounts are computed on `Ledger`, the
  asset ledger after the pull. A request is claimed alone or in a batch (`ClaimWithdraw` on a
  set of ids); duplicate ids revert in the code and have no step. Share allowances are
  unlimited (`Delegations`).
* `Staking`: the composition and its properties. `YieldManager` puts the manager on top: a
  funder whose clamp, drip and check are the code's.

* `SafeBatch`: the batch file, the flag of the process that started it, and the Safe's queue.
  A file this process did not start is a leftover (`StaleBatch`).
* `MirrorBatch`: a Treasury as `readState` reads it, the calls `buildMirrorBatch` makes of two such
  states (`BuildMirrorBatch`, or `MirrorRefused` where it throws), what each call requires and does
  on chain (`Accepts`, `Effect`), and the equality `verifyMigrated` asks for (`ExactCopy`). An
  address, an oracle or a vault is a model value; vault, oracle and stale period of a token are one value.
* `TreasuryMigration`: `migrateTreasuryIfRequested` one persistent step at a time: keep the
  record, deploy the proxy, save the alias, queue the mirror calls, queue the Gateway's upgrade, record
  the batch, propose. `MIGRATE_TREASURY=true` is a process that starts at "migrate", a run
  without it starts at "check". A full deploy first queues what the scripts before it queue.
  `archive` is what an archive node says of the block of the migration and the one before. Later in that block dust may
  arrive and a role holder may change either Treasury (`LaterInBlock`); what the verification then reports for good is
  settled by hand (`DeleteRecord`). Left out: the role that the YieldManager's script may grant, the upgrade of
  a Treasury that is behind a proxy, the throws of the Gateway's storage check and of a wrong ProxyAdmin owner (both end the
  process before it saves anything, as a crash does), and a leftover that a dead dry run leaves to be executed on the fork.
* `UpgradeSnapshot`: two blocks compared. A stack is reduced to one reading of each kind that the
  comparison treats differently: a plain value that may revert, an enumerable list, a role per account.
* `Deployment`: a deploy as a walk through the scripts of two stacks; per upgradable contract it
  reads the proxy, checks, deploys, queues and records. The source is a sequence of `Commits`,
  compatibility of storage layouts a relation on versions. Treasury and Gateway stand for the
  four upgradable contracts: the StakingVault's script skips like the Gateway's, the
  YieldDistributor's never does.

Slippage arguments, permit, reentrancy guards, events and ERC-4626 `max*` views that no
action reads are left out; they restrict or describe, and change no state.
`*_Something` operators before a definition are its mutants: plausible bugs, each of which
breaks the property named with it in `PROJECT.json`.

## 3. Runs

All state is finite by the constants of each `.cfg`; an empty set switches off the
transactions that draw from it. Deadlock is checked everywhere (the system never stops).
Every run takes at most about two and a half minutes.

| Run (cfg) | Question | Bounds and why they suffice |
|---|---|---|
| `amo` (VetroAmo) | Do AMO mints and burns, redemptions, yield and harvests in any order keep amoSupply within supply and limit, and minting within mintLimit? | one token at par with two pegged units to a collateral unit, so that rounding lets `maxWithdraw` pass a burn that only `_checkAmoBacking` stops; limits are met exactly and overrun attempts are there |
| `redeem` (VetroRedeem) | Is every locked token in the Gateway, are requests consistent, does each lock wait its delay, are listed positions frozen and all others free? | two users, clock 0..2, delays 1 and 2, the switch and the exemption changing: a request merges, matures, is used in part, exactly and beyond, and is cancelled; a user is listed, the user and the Gateway blacklisted, the sanctions list set and cleared while requests are open |
| `reserve` (VetroReserve) | Do all roundings, fees, bands and prices keep the backing? | par is 4, prices 3..5, fee 1/4, two pegged units to one collateral unit: every division has a remainder; the vault gains and loses |
| `harvest` (VetroHarvest) | Does Vetro implement ParReserve? | two tokens with different feeds that part, turn zero, are dated in the future or go stale; keeper moves, donations, vault gains |
| `settings` (VetroSettings) | Do the Treasury's own transactions keep bands and lists consistent? | two tokens, relisted, swapped, swept; bands and tolerances at and beyond each other; type(uint256).max as 99 |
| `share_price` (StakingPrice) | Does the share price ever fall, is the distributor solvent, does an empty vault accrue? | rate scale 2, durations 1..3, clock 1..4, amounts 1..3 and donations: rates and shares round at every step; the vault empties and refills |
| `cooldown` (StakingCooldown) | Are cooldown books exact, funded and stable, are sanctioned stakers frozen, can everybody else claim? | two stakers, one delegated, two requests (a batch of two), durations inside and outside the limits, the switch, an exemption, the distributor cleared and set; one staker is listed, the other blacklisted, while holding shares and requests |
| `manager` (YieldManager) | Does the clamp agree with the check? | a rate scale that does not divide the amounts, caps above and below the buffer, APR values inside and outside the limit |
| `migration` (Migration) | Does a migration carry over exactly what is live, whoever dies and whatever changes, and does it end? | two stablecoins, both gated, two live Treasuries (a paused token with a band that only a raised tolerance admits and a swapper; another token order with the Safe a keeper for good), a main network and a fork; two events, each a dead process, a changed setting, a commit, dust or an abandoned migration, and again a change or dust later in the migration's block: enough for a change on either side of a check and for a crash during the recovery of a crash; two proposals |
| `migration_delay` (MigrationDelay, violation) | Does the check also see a completed admin delay change? | see findings |
| `deployment` (Deployment) | Do upgrades fit, does nothing of a rehearsal escape, do validate-upgrades, upgrade-snapshot and create-release tell the truth, does the deploy converge? | two stacks, both behind proxies with different live Gateways or one not migrated yet; two commits, the first refused by one stack's storage; two events, each a dead process, a rehearsal, a rejection or another's transaction in the block |
| `relink` (StakingRelink, violation) | Does nobody earn while the vault is empty, also when the distributor is cleared and set again? | see findings |

The bounds that are not limits of the code are `MaxHeld`, `MaxTime`, `RequestIds`, `MaxAssets`,
`MaxEvents`, `MaxDust`, `MaxQueue` and `LastCode`. They cap what the environment creates (yield, ticks,
requests, harvests, failures, proposals). One also bounds users and the keeper: no deposit, gift, yield or swap takes what
the Treasury holds of a token beyond `MaxHeld`, so deposits stop there as they would at a cap. Small rate
scales and par values stand for 10**18 and 10**8: rounding is then large compared with the
amounts, so an error that costs one unit shows at once.

**Vault shares.** The Treasury's shares of a yield vault are modelled by the assets they are worth, one for one: exact if the
Treasury is the vault's only holder, as in the repository's invariant tests
(`test/invariant/TreasurySolvency.invariant.t.sol`). The vault's own rounding when it mints or burns shares and the `ZeroShares`
revert of a deposit too small to buy one (`Treasury.sol:205`, 275) are dropped, so `SupplyStepsKeepBacking`,
`HarvestTakesOnlySurplus` and `BackedAtPar` hold for exact shares. Nor can anyone send vault shares to the Treasury; a gift to the
vault reaches a listed token only (`NothingLeftBehind` is about what the Treasury itself leaves there).

**Fairness and liveness.** The contracts' specifications have no fairness condition. Nothing in
the contracts runs by itself: each step is somebody's transaction, and the code obliges nobody to
send one. What the contracts promise is that a transaction *can* be sent: `CancelAlwaysPossible`
and `ClaimAlwaysPossible` state this as ENABLED.

The tooling does promise an end, to the operator who follows `docs/OPERATIONS.md`
("Upgrading Proxies", line 588, and "Migrating a Treasury", line 658).

* A process runs on unless it is killed: weak fairness of its steps (`DeploySteps`).
* The operator does the next step of the procedure whenever it keeps being possible: discard a
  leftover, start the run that is due, check, confirm what was checked, reject what fails,
  verify after the execution, or delete the record where the verification reports a difference.
  This is strong fairness, since a run that was started in between disables the step for a while.
* Crashes, changes and rejections are not fair, and finite (`MaxEvents`).

`MigrationCompletes`: the migration is executed, verified and its record retired, unless an admin
change stays pending or the live settings cannot be copied (the code refuses both).
`GetsUpToDate`: every proxy, role and list gets to what the source says, with records that let a
release be cut, unless the storage check refuses the source.

**Assumed of the operator.** A proposal is confirmed or rejected before the next run that builds
one (`NothingOlderPending`, `NoOlderBatch`), as the log asks after each proposal
(`gnosis-safe.ts:185`). The tooling does not enforce it: it checks storage against what is live,
and takes the nonce behind whatever is pending. A migration is executed right after a check passed, as the
procedure says (`OPERATIONS.md:710`, 721-723); nothing on chain enforces that. What is changed later in the same block cannot be seen by any check: the
verification reports it as a difference that stays (`treasury-migration.ts:560`, `OPERATIONS.md:750-752`), so `MigrationVerifies`
is claimed without such a change, and `MigrationCompletes` with it.

### Findings

* **Clearing and resetting the distributor** (`relink`). `YieldDistributor.sol:237`: "Nobody
  earns while the vault is empty". The schedule slides only when the vault pulls. If the
  owner clears the vault's distributor while the vault is empty, the next deposit makes shares with the yield of the
  empty time pending: the run shows that state. Once the link is set again, the next pull pays the backlog to that depositor.
* **A completed delay change is not seen by the pending check** (`migration_delay`).
  `treasury-migration.ts:711-713`: the recorded batch must still be what live state calls for. An
  admin delay change of the live Treasury that is scheduled after the build and completes before
  the check changes no call of the batch, and only the build compares the delays (line 900). The
  check passes, executing the batch puts the old delay back, and the verification then fails.

Three sentences of the docs differ from the code in plain sight and have no run: `docs/OPERATIONS.md:124`
says that `push` of amount 0 sends the entire balance (in the code only `type(uint256).max` does,
`Treasury.sol:271`; 0 sends nothing); `docs/StakingVault-YieldDistributor-Spec.md` says claims are
"by anyone" (line 76; `_claimWithdraw` reverts with NotRequestOwner for all but the owner) and exits "even if yield systems fail" (line 129;
every exit pulls first, and reverts with the pull until the owner clears the distributor).

That a second request resets the timer is documented (`src/README.md:69`), and a lower delay then counts for the tokens locked before too.

## 4. Proofs

Each theorem holds for every value of the constants that satisfies the `ASSUME`s of the modules. They
are named in the modules and TLC evaluates them in every run. Beyond types they say this.

* Sets that are summed over are finite: `Accounts`, `Tokens`, `Stakers`, `RequestIds`. On chain they are
  mappings that only ever hold finitely many entries.
* Scales, precisions and durations that divide are positive; contracts, users and funders have different
  addresses (`StakedAssetAssumption`); amounts are naturals.
* `MigrationAssumption`: what is live at the start is a Treasury as `readState` reads it: no token listed twice
  (an EnumerableSet), a whole configuration for each, tolerance and bands naturals.
* `DeploymentAssumption`: `Commits` and `Steps` are sequences, a live block has the fields of a block.
* `ListAssumption`: each stack's deploy runs the scripts of the Treasury, the Gateway and the list
  (`src/deploy/scripts/ethereum/*`); no commit, and nothing live, has a Gateway that asks a Treasury for
  a list the Treasury does not keep. The last part is about sources: the contracts that call each other are
  compiled from one commit, so a commit that breaks it does not compile.

`ArithmeticProofs` holds what the others share: types and bounds of the roundings, how mulDiv grows and
how far two roundings are apart (`RoundingsClose`), and sums over finite sets. The sum of a
community module is a recursion over a set. That it exists for every finite set (`SumsExist`) is an induction on
cardinality, done with a set of subsets in place of a predicate (`SubsetInduction`), and so within
first-order reach; from there on come changing one summand (`SumChange`), splitting (`SumSplit`) and bounds. `FromZeroUp`
is induction on Nat with a set in place of a predicate; the traces of folds rest on it.

### The core (`Vetro`)

`VetroProofs`, from `CoreInv == TypeOK /\ AmoWithinSupply`, which is inductive:

* `TypeCorrect`: `Spec => []TypeOK`. Most of it is about Nat: no balance, supply,
  request, netDeposited or vault position underflows.
* `AmoSupplyBacked`: `Spec => []AmoWithinSupply`. `Treasury._excessTokens` subtracts amoSupply
  from totalSupply and relies on it.

`AmoWithinSupply` alone is not inductive: that a redemption keeps it uses the type of the burned amount,
that an AMO burn keeps it uses that it retires both by the same natural number. Lemmas go from prices
(the mint price is at most par and positive, the redeem price at least par) over the four previews
to the handlers, one lemma per group of actions.

Each of these is inductive together with `CoreInv`:

* `AmoLimitHolds`: `[]AmoWithinLimit`. Only three transactions touch the AMO's books (`AmoBooks`).
* `RequestsStayConsistent`: `[]RequestsConsistent`. A redemption replaces at most one request, by
  one that is consistent: deleted, or reduced to more than nothing.
* `PegBandsStayInside`: `[]PegBandWithinTolerance`, and `DelistedLeavesNothing`:
  `[]NothingLeftBehind`. Trades reach whitelisted tokens only and leave bands alone
  (`TradesKeepBands`).
* `MintLimitHolds`: the action property `MintLimitRespected`. Backed supply grows in deposits and
  mints only (`OnlyDepositsGrow`), because AMO operations move supply and amoSupply
  alike and the clamp in `UserSupply` is never used (`AmoWithinSupply`).

The rest is about custody and collateral. A lemma (`Steps`) first sorts the transactions into eight kinds, with
the bounds their previews put on the amounts:

* `CustodyHolds`: `[]GatewayCustody`. The Gateway's balance is at least the sum of all locked tokens: a request
  moves the same amount into both, a redemption takes it from both, and nobody transfers out of the Gateway.
  `RequestsFunded` is its consequence for one user: what is locked can be paid, which is the half of
  `CancelAlwaysPossible` that is about tokens.
* `SanctionedRequestsFrozen`: `FrozenWhileSanctioned`. A request moves by its owner's transaction only, and each of
  them asks `SanctionsList` for the owner (`RequestsMovedByOwner`).
* `NoEarlyExitHolds`: `HistorySpec => NoEarlyExit`. Inductive with `Dated`: as long as anything is locked, the one date the Gateway
  keeps is not before the end of any of the request's locks. A redemption asks for that date only; the lemma is what makes it
  speak for all the locks. A lock's delay is lowered in the history only by its owner's next lock under a lower one (`LocksAfter`).
* `SurplusKept`: `SupplyStepsKeepBacking`. For one trade it is arithmetic: the mint price is at most and the
  redeem price at least par, and roundings go against the user. For the Treasury it needs the sum
  over tokens to move by that token's summand only (`ParValueChange`).
* `RoomOpensByRedemption`: `RoomOpensOnlyByRedemption`. Only a redemption lowers a netDeposited, by no more
  than the supply it burns is worth.
* `HarvestsTakeSurplus`: `HarvestTakesOnlySurplus`. Inductive with `OraclesKnown` (a listed token's oracle is
  one of `Oracles`, so its price is a price): what `_excessTokens` adds up over the other
  tokens is at most what they are worth at par, so what stays covers the supply.
* `ImplementsParReserve`: every behaviour of `OrdinaryNext` implements `ParReserve`, step by step; `CollateralCovers`
  concludes that collateral at par covers the backed supply. `OrdinaryNext` leaves out what
  takes collateral without a trade: the loss of a yield vault, the sweep and the swap of a delisted token.
  `BackedWithoutLosses` is the property of the run `harvest`: with `LossAmounts`, `Removable` and
  `Swappers` empty, `Spec => BackedAtPar`.
* `DeficitsOnlyByOutflow` needs none of these to be empty: in every behaviour of `Spec` a step in which the surplus at par
  shrinks is a harvest that leaves the supply covered, or one of the three that `OrdinaryNext` leaves out (`Outflow`).
  The core can be under water after one of those; no trade, price or setting takes it there, and none makes it worse.

### Staking (`Staking`, `YieldManager`)

`StakingProofs`, first about the distributor:

* `DistributorAlwaysSolvent`: `[]DistributorSolvent`. The distributor's balance
  covers the rest of its schedule, so no pull can fail for want of assets. The inductive invariant
  `DistInv` does not need the types of the vault's variables: the vault's payments leave the distributor alone
  whatever their amount (`TransferredLedger`, `VaultStep`). `PendingCovered` is the heart: what is pending
  never exceeds the balance, and what is left after paying it covers the rest of the schedule, also after a slide.
  In `DistributeStep` roll-over and new rate are rounded down, so the new promise is at most balance times scale.

Then about the vault, from `VaultInv == DistInv /\ Books`. `Books` says that shares add up to totalShares, open
requests add up to totalAssetsInCooldown, the vault holds at least that much, and every open request was made
before `nextRequestId` (`LiveBelow`). The conjuncts need each other: totalAssets subtracts the cooldown from the balance, so
that an exit is worth at most what is staked uses `CooldownFunded`, and a claim keeps that only because the
request is part of the sum.

* `StakingTypeCorrect` (`[]TypeOK`), `CooldownIsAccounted` (`[]CooldownAccounted`), `CooldownIsFunded` (`[]CooldownFunded`). A batch
  claims a *set* of requests; `PartOfBook` and `LivePart` say what leaves the sum.
* `ClaimsStayCovered`: in every state, any set of open requests can be paid out of what the vault holds after its pull,
  and that pull can be paid by the distributor: the half of `ClaimAlwaysPossible` that is about assets.
* `RequestsKept`: `RequestsAreKept`. An open request stays as it is until it is claimed, when it is due, or
  cancelled, when its owner gets shares.
* `StakersFrozen`: `FrozenWhileSanctioned`. No transaction of a listed account, or of others in its
  name, moves its shares, its requests or its assets.
* `NoYieldForFirstShares`: whoever makes the first shares with the distributor set finds nothing accrued, also after it was
  cleared and set again. `NoYieldWhileEmpty`: in a vault whose owner never clears the distributor (`DistributorSwitches = {}`),
  `NobodyEarnsWhileEmpty`. Without that condition it is false, see the finding `relink`.
* `SharePriceKept`: `SharePriceNeverFalls`, in the multiplied-out form (assets + 1) / (shares + 1), for every transaction but
  a change of the link. `PriceIn` and `PriceOut` are the roundings; that a request moves assets out of
  the price and a cancellation puts them back are `RequestPrice` and `CancelPrice`; yield, gifts and time only add.

`YieldManagerProofs` puts the manager on top:

* `ManagedStakingSound`: types, solvency and funding hold with the manager as well: it is one more funder.
* `ClampAlwaysMeetsCap`: `[]ClampMeetsCap`. Whatever `previewDistribute` clamps to passes the check on the drip that
  follows: clamp and check count the undistributed rest with roundings in opposite directions (`RemainingCounted`).
* `RepeatsTopUpAtMostOne`: `RepeatTopsUpAtMostOne`. After a distribution that was clamped, the next finds at
  most one unit of room (`RoundingsClose`).

### Migration (`TreasuryMigration`)

`MigrationProofs`: `LiveTreasuryStaysRecorded` (`[]LiveTreasuryRecorded`), `TokenStaysBacked` (`[]TokenBacked`), `GatewayFollowsTreasury`
(`[]GatewayMovesWithTreasury`) and `NoHalfMigration` (`[]ProposalsWhole`), all from one invariant, `MigrationInv`.
None of the four is inductive: whether a list of calls may be executed depends on the state
it is executed in, and that is not the state it was built in. So the invariant says of every list that is still
to be executed (the Safe's queue, the batch file, the calls a fork has yet to send) three things:

* `Ready`: it moves the token only if the alias records the new Treasury, and upgrades the Gateway only
  behind the token's move. Records and token go only forward (`Forward`), so a list once ready stays so (`ReadyLater`).
* `Batchable`: a list that moves the token moves the collateral too; `Whole`: a list that migrates upgrades the Gateway.
* Where the process stands (`JobInv`, `FileInv`, `RecordInv`): the record of the old Treasury is kept before a new proxy is
  deployed, and a file that holds a migration without the upgrade is of a process that is still at "gateway".

The calls of a batch run one after another; `RunTrace` unrolls that fold, `RunKeeps` carries the chain's part of the invariant
along it. `MirrorBatchMoves` shows that what `buildMirrorBatch` makes is of this shape for any two Treasuries.

`MirrorProofs` is about what a batch does. `MirrorIsExact`: for any live Treasury and a new one on which nothing but roles was set,
no call of the batch reverts, and what is left is an exact copy but for an admin delay (`ExactButDelay`; no call sets one) with
all the collateral, the gated vaults open to it and closed to the old Treasury, and none of the roles the Safe was lent. The order of the nine parts of the batch is what it is about: the
roles the settings need are granted before and taken back behind them, the tolerance is raised before the bands that need it, collateral is listed
before it is configured. `Path(c, calls, d)` says that the calls lead from c to d and nowhere else; there is one lemma
per part (`AllowPath`, `CollateralPath`, `BandsPath`, `FlagsPath`, ...), each along the live list token by token, and `PathThen` puts
them together (`MirrorPath`).

`PendingProofs`: `CheckMissesOnlyDelay`, whatever admin delays are set: while nothing has changed since the check passed, the migration in the
Safe makes the new Treasury the live one in all but the delay. So the finding `migration_delay` is the only way it goes wrong:
`CheckedBatchIsRight`, `MigrationSpec => [](chain.old.delay = INIT_DELAY => CheckedBatchMirrors)`. The check compares the recorded batch with
one built from both Treasuries as they are then; that is worth something only if what the Safe holds is the recorded batch, and if the two
Treasuries are what `MirrorIsExact` starts from. So on top of `MigrationInv` (all of it for the main network, where alone there are proposals):

* `ListsInv`: while the token has not moved, every migration in the queue, and in a file that may be proposed, is the
  recorded one; any other list leaves the new Treasury alone (`KnownInv`). A second migration in the queue would be one that nobody checked.
* `BuildInv`: a process that builds found no file, so that what it saves is the batch and nothing else (`AddedToNone`, `AddedOne`).
* `CopyInv`: until the token moves the new Treasury is as `initialize` left it but for its roles, whatever the scripts or a delayed
  proposal list; the live one's list and configurations stay whole through every change, and the Safe its admin.
* `CheckedInv`: what the check required holds until something changes, and a rebuild under way builds the same batch.

None of these says anything about the delay. `DelayInv` does: once a batch is recorded, the live delay is the one of `initialize`, for the process
builds only then (`Buildable`). It is kept if no change of the delay completes (`Delays = {}`), and under this hypothesis
`CheckMissesNothing`: `MigrationSpec => []CheckedBatchMirrors`.

`VerificationFailsOnDifferenceOnly`: once executed on the main network, a migration passes `verifyMigrated` exactly if the new Treasury was a
copy of the old one at the end of the migration's block, and, if no role holder changed either later in that block, exactly if the emptied one had that delay;
all else it compares is as it asks in either case, however late it runs. With `Delays = {}` this gives `ExecutedMigrationVerifies`,
`MigrationSpec => []MigrationVerifies`: what is changed in later blocks, dust and further upgrades of the Gateway make no difference. The verification reads the migration's block from an archive node, but the Gateway and
the old Treasury's access as they are now, so the invariant has to say what may still happen after the execution:

* on the main network `ExecutedInv`: the batch that executed was checked, so it led to the copy (`RebuiltLeads`, shared with
  `CheckMissesOnlyDelay`; dust behind it in the block is taken off again), and what is left in the queue and the file
  then are routine whitelistings of the old Treasury (`QuietInv`), which touch neither Gateway nor vaults (`SameRest`);
* on a fork nothing is checked first and each call has a block of its own. `ForkInv`, as long as nothing disturbs the run (`events = 0`):
  the batch in the file is the one for the chain as it is (`BuiltFork`); while it runs, its calls split at migrate (`Split`): those before it
  lead to a state with the copy in place and the Gateway not upgraded, those after it close the old Treasury's vaults and
  upgrade it (`Coming`, then `Going`). `BatchSplits` gets that split from the parts of `MirrorPath`, and `PathHead` takes one call off.

`MigrationAssumption` names the two networks: the main one, and `localhost` for the chains on which the calls are executed at once
(`gnosis-safe.ts:138`; the in-memory `hardhat` is the other, and ends with its process).

### Upgrades (`Deployment`)

`DeploymentProofs`:

* `RehearsalsStayLocal`: `[]RehearsalStaysLocal`, from `LocalInv`: a batch that this process started, or that names the main
  network, holds only calls made for the main network (`OursByNetwork`); the flag is up only while a process runs
  (`OnlyRunsStart`); a process about to propose has just written its network into the file (`ProposedByNetwork`). The
  name in the file is what the leftover task may trust. The flag dies with its process, and the file stays.
* `ComparesExactly`: `CompareFindsChanges`, from `CompareIsExact`, which is about any two blocks, reachable or not: the
  comparison passes for the changes that happened, and for no other set that differs from it in one entry.
* `StorageAlwaysFits` (`UpgradesCompatible`), `FailuresAreUnsafe` (`[]FailsOnlyUnsafe`), `ReleasesAreSettled`
  (`[]ReleasedWhenSettled`), from `UpgradeInv`. A call is checked when it is queued and executed much later, behind other
  proposals. The invariant says of every upgrade that may still reach the Safe (`Pending`: the queue, and the file if it
  may be proposed) that it names what the proxy's record names and fits the storage that is live *now*, and that it is this run's
  own source while a run is going. So two proposals never lead one proxy to two implementations, and executing one keeps the
  other fitting. `ProgressInv` says what a script that was passed leaves behind: its contract is live, or its call is in the file.
* `ListAlwaysFound`: `[]GatewayFindsList`, from `ListInv` on top of `UpgradeInv`. In each list, an upgrade to a Gateway that asks for the sanctions
  list comes with the Treasury that keeps it and the call that sets it, unless these are live (`WholeIn`). And no two pending calls,
  in whatever lists, put an asking Gateway over a Treasury without a list (`Paired`): rejecting or executing one of two proposals leaves
  the other whole.

The assumption that no older proposal is open when a run builds one (section 3) is used: with
`NothingOlderPending` taken out of the model, `UpgradeInv` is not inductive.

**Only model-checked.**

* `CancelAlwaysPossible` and `ClaimAlwaysPossible`, which are ENABLED; their halves about funds are proved.
* `MigrationCompletes` and `GetsUpToDate`, which are liveness.
* The actions' arguments are drawn from constant sets in the model (`CollateralAmounts`, ...). The theorems hold for any
  such sets of naturals, and so for all amounts; the clocks' and counters' bounds (`MaxTime`, `MaxHeld`, ...) may be any number.

## 5. Not modelled

* PeggedToken's `updateGateway` (a one-time link; `updateTreasury` is in `TreasuryMigration`),
  StakingVault's `vaultRewards` hook, `rescueTokens` (it refuses the asset).
* The feed adapters. The Treasury's feeds may answer anything of `Prices`, so what an
  adapter returns is covered, how it computes it is not.
* First deployments: every proxy but the Treasuries' exists on the main network. A first run that dies
  between the proxy's record and the alias is not repaired by later ones (`index.ts:122-150`).
* Replacing a YieldManager (`redeploy = true`, edited in locally), `executeForcedTxUsingMultiSig`
  (`force` is passed by no script), the adapters' scripts. The vetBTC scripts are the same calls with other aliases.
* How compilers, OpenZeppelin's checks, the Safe's service and archive nodes work: a version fits or does
  not, a source is found or not, a proposal is made or the process dies.
* Configuration, shell wrappers and Morpho scripts.
* Reentrancy (every entry is `nonReentrant`), access control (roles are implicit), upgrades,
  256-bit overflow (amounts are naturals; Solidity reverts on overflow).
* Fee-on-transfer or rebasing collateral, and a yield vault that pays less than it reports.

## 6. Plan

1. Done: the core (`Vetro`), its types and AMO theorem, and staking with the distributor
   theorem, in this order because users' funds are in these two.
2. `ChainlinkFeedAdapter` (pending feed, seven-day timer, replaced or cancelled updates) and
   the arithmetic adapters as operators checked against exact definitions.
3. Done: the tooling that moves users' funds and code (`TreasuryMigration`, `Deployment` on `SafeBatch`), its
   liveness, and the theorems about both.
4. YieldManager's harvest composed with Vetro (the harvest that mints to the manager).
5. Done: proofs about the core, staking and the manager: every invariant and action property that the runs check and
   that is in the prover's reach.
6. Done: proofs about the migration's records and the upgrades' pending calls.
7. Done: proofs about the content of a mirror batch, and from it `CheckedBatchMirrors`.
8. Done: `MigrationVerifies`, on the main network and call by call on a fork.
