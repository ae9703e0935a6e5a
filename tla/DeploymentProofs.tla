---------------------------- MODULE DeploymentProofs ----------------------------
(***************************************************************************)
(* Deployments and upgrades, for any stacks, scripts, sources, live states *)
(* and bounds.                                                             *)
(*                                                                         *)
(* Nothing a rehearsal on a fork left behind reaches the Safe.  What       *)
(* protects the Safe is the network the file names, not the flag: a batch  *)
(* is this run's, or names the main network, only if every call in it was  *)
(* made for the main network.  The flag is up while a process runs, only,  *)
(* and a process that is about to propose has just written its network     *)
(* into the file.                                                          *)
(*                                                                         *)
(* The comparison of two blocks fails for exactly the changes that were    *)
(* not named.  Upgrades fit the live storage, failures to deploy are       *)
(* failures to fit, and what a release names is live when it is cut: every *)
(* upgrade that may still be executed names what the proxy's record names, *)
(* and what it names fits.  A Gateway that asks for the sanctions list     *)
(* finds it, because its upgrade, the Treasury's and the list's call are   *)
(* always waiting together.                                                *)
(***************************************************************************)
EXTENDS Deployment, ArithmeticProofs

Made ==
    [do : {"upgrade"}, stack : Stacks, contract : Contracts, to : Nat, built : {"ethereum"}]
    \cup [do : {"manager", "list"}, stack : Stacks, built : {"ethereum"}]

BatchOurs == batch.txs \in Seq(Made)

OursByNetwork == batch.network = "ethereum" \/ batchStarted => BatchOurs
OnlyRunsStart == step = 0 => ~batchStarted /\ phase # "propose"
ProposedByNetwork == phase = "propose" => batch.network = "ethereum"

LocalInv ==
    /\ source \in DOMAIN Commits
    /\ safeQueue \in Seq(Seq(Made))
    /\ DOMAIN batch = {"network", "complete", "txs"}
    /\ OursByNetwork
    /\ OnlyRunsStart
    /\ ProposedByNetwork

\* The source that is checked out gives every contract a version.
LEMMA CodeType ==
    ASSUME source \in DOMAIN Commits, NEW c \in Contracts
    PROVE  Code(c) \in Nat
  <1>1. Commits[source] \in [Contracts -> Nat]
    BY DeploymentAssumption
  <1> QED
    BY <1>1 DEF Code

\* The script a process is at is one of the deploy's.
LEMMA ScriptType ==
    ASSUME Running
    PROVE  /\ Stack \in Stacks
           /\ Script \in Contracts \cup {"manager", "list"}
           /\ step # 0 /\ step + 1 # 0
  <1>1. Steps[step] \in Stacks \X (Contracts \cup {"manager", "list"})
    BY DeploymentAssumption DEF Running
  <1>2. step \in Nat /\ step # 0
    BY DeploymentAssumption DEF Running
  <1> QED
    BY <1>1, <1>2 DEF Stack, Script

\* The calls a script saves are made for the main network.
LEMMA CallsAreMade ==
    ASSUME source \in DOMAIN Commits, Running
    PROVE  /\ Script \in Contracts => UpgradeCall \in Made
           /\ \A script \in {"manager", "list"} : [do |-> script, stack |-> Stack, built |-> "ethereum"] \in Made
  <1>1. Script \in Contracts => Code(Script) \in Nat
    BY CodeType
  <1> QED
    BY <1>1, ScriptType DEF Made, UpgradeCall

\* A process that saves a call of its own keeps the batch its own, on the main network.
LEMMA SavingKeepsOurs ==
    ASSUME LocalInv, NEW call \in Made, SaveForMultiSig("ethereum", call)
    PROVE  /\ BatchOurs'
           /\ DOMAIN batch' = {"network", "complete", "txs"}
           /\ batch'.network = "ethereum"
           /\ UNCHANGED safeQueue
  <1>1. BatchOurs
    <2>1. <<>> \in Seq(Made)
      OBVIOUS
    <2>2. batch.txs = <<>> \/ batchStarted
      BY DEF SaveForMultiSig, StaleBatch, HasBatchFile
    <2> QED
      BY <2>1, <2>2 DEF LocalInv, OursByNetwork, BatchOurs
  <1>2. Store(batch.txs, call) \in Seq(Made)
    BY <1>1 DEF BatchOurs, Store
  <1> QED
    BY <1>2 DEF SaveForMultiSig, BatchOurs

\* A proposal of calls made for the main network leaves the queue well formed.
LEMMA ProposingKeepsQueue ==
    ASSUME LocalInv, BatchOurs, NEW unlinked \in BOOLEAN, Propose(unlinked)
    PROVE  /\ safeQueue' \in Seq(Seq(Made))
           /\ DOMAIN batch' = {"network", "complete", "txs"}
           /\ BatchOurs'
  BY DEF LocalInv, BatchOurs, Propose, NoBatch

LEMMA LocalInvInit == DeploymentInit => LocalInv
  BY DeploymentAssumption
  DEF DeploymentInit, BatchInit, NoBatch, LocalInv, OursByNetwork, OnlyRunsStart, ProposedByNetwork, BatchOurs

LEMMA LocalInvNext == LocalInv /\ [DeploymentNext]_vars => LocalInv'
  <1> SUFFICES ASSUME LocalInv, [DeploymentNext]_vars
               PROVE  LocalInv'
    OBVIOUS
  <1> USE DEF LocalInv, OursByNetwork, OnlyRunsStart, ProposedByNetwork
  <1>1. CASE StartDeploy
    BY <1>1 DEF StartDeploy, GoTo, batchVars, recordVars, BatchOurs
  <1>2. CASE SkipScript
    BY <1>2, ScriptType DEF SkipScript, GoTo, batchVars, recordVars, BatchOurs
  <1>3. CASE DeployImplementation
    BY <1>3, ScriptType DEF DeployImplementation, AtUpgrade, batchVars, recordVars, BatchOurs
  <1>4. CASE QueueUpgrade
    <2>1. Running /\ UpgradeCall \in Made
      BY <1>4, CallsAreMade DEF QueueUpgrade, AtUpgrade
    <2>2. /\ BatchOurs' /\ batch'.network = "ethereum" /\ UNCHANGED safeQueue
          /\ DOMAIN batch' = {"network", "complete", "txs"}
      BY <1>4, <2>1, SavingKeepsOurs DEF QueueUpgrade
    <2> QED
      BY <1>4, <2>1, <2>2, ScriptType DEF QueueUpgrade, recordVars
  <1>5. CASE RecordUpgrade
    BY <1>5, ScriptType DEF RecordUpgrade, AtUpgrade, GoTo, batchVars, BatchOurs
  <1>6. CASE GrantRole
    <2> DEFINE call == [do |-> "manager", stack |-> Stack, built |-> "ethereum"]
    <2>1. Running /\ SaveForMultiSig("ethereum", call)
      BY <1>6 DEF GrantRole, AtManager
    <2>2. call \in Made
      BY <2>1, CallsAreMade
    <2>3. /\ BatchOurs' /\ batch'.network = "ethereum" /\ UNCHANGED safeQueue
          /\ DOMAIN batch' = {"network", "complete", "txs"}
      <3> HIDE DEF call
      <3> QED
        BY <2>1, <2>2, SavingKeepsOurs
    <2> QED
      BY <1>6, <2>1, <2>3, ScriptType DEF GrantRole, GoTo, recordVars
  <1>7. CASE SetSanctionsList
    <2> DEFINE call == [do |-> "list", stack |-> Stack, built |-> "ethereum"]
    <2>1. Running /\ SaveForMultiSig("ethereum", call)
      BY <1>7 DEF SetSanctionsList, AtList
    <2>2. call \in Made
      BY <2>1, CallsAreMade
    <2>3. /\ BatchOurs' /\ batch'.network = "ethereum" /\ UNCHANGED safeQueue
          /\ DOMAIN batch' = {"network", "complete", "txs"}
      <3> HIDE DEF call
      <3> QED
        BY <2>1, <2>2, SavingKeepsOurs
    <2> QED
      BY <1>7, <2>1, <2>3, ScriptType DEF SetSanctionsList, GoTo, recordVars
  <1>8. CASE NothingToQueue
    BY <1>8, ScriptType DEF NothingToQueue, AtUpgrade, AtManager, AtList, GoTo, batchVars, recordVars, BatchOurs
  <1>9. CASE Throws
    BY <1>9 DEF Throws, EndProcess, GoTo, recordVars, BatchOurs
  <1>10. CASE NothingToPropose
    BY <1>10 DEF NothingToPropose, EndProcess, GoTo, recordVars, BatchOurs
  <1>11. CASE MarkBatch
    <2>1. BatchOurs
      BY <1>11 DEF MarkBatch, MarkComplete, StaleBatch, HasBatchFile
    <2>2. /\ batch'.txs = batch.txs /\ batch'.network = "ethereum"
          /\ DOMAIN batch' = {"network", "complete", "txs"}
      BY <1>11 DEF MarkBatch, MarkComplete
    <2>3. step # 0
      BY <1>11, DeploymentAssumption DEF MarkBatch, AtEnd
    <2> QED
      BY <1>11, <2>1, <2>2, <2>3 DEF MarkBatch, MarkComplete, BatchOurs, recordVars
  <1>12. ASSUME NEW unlinked \in BOOLEAN, ProposeBatch(unlinked)
         PROVE  LocalInv'
    <2>1. BatchOurs /\ Propose(unlinked)
      BY <1>12 DEF ProposeBatch
    <2>2. /\ safeQueue' \in Seq(Seq(Made)) /\ BatchOurs'
          /\ DOMAIN batch' = {"network", "complete", "txs"}
      BY <2>1, ProposingKeepsQueue
    <2> QED
      BY <1>12, <2>2 DEF ProposeBatch, EndProcess, GoTo
  <1>13. CASE Crash
    BY <1>13 DEF Crash, EndProcess, GoTo, recordVars, BatchOurs
  <1>14. ASSUME NEW complete \in BOOLEAN, RehearsalDies(complete)
         PROVE  LocalInv'
    BY <1>14 DEF RehearsalDies, jobVars
  <1>15. CASE ProposeLeftover
    <2>1. BatchOurs /\ Propose(TRUE)
      BY <1>15 DEF ProposeLeftover, MayProposeLeftover
    <2>2. /\ safeQueue' \in Seq(Seq(Made)) /\ BatchOurs'
          /\ DOMAIN batch' = {"network", "complete", "txs"}
      BY <2>1, ProposingKeepsQueue
    <2> QED
      BY <1>15, <2>2 DEF ProposeLeftover, jobVars
  <1>16. CASE Discard
    BY <1>16 DEF Discard, DiscardBatch, NoBatch, jobVars, BatchOurs
  <1>17. ASSUME NEW alone \in BOOLEAN, SafeExecutes(alone)
         PROVE  LocalInv'
    BY <1>17 DEF SafeExecutes, jobVars, BatchOurs
  <1>18. CASE SafeRejects
    BY <1>18 DEF SafeRejects, jobVars, BatchOurs
  <1>19. CASE Commit
    BY <1>19, DeploymentAssumption DEF Commit, jobVars, batchVars, BatchOurs
  <1>20. CASE UNCHANGED vars
    BY <1>20 DEF vars, jobVars, batchVars, BatchOurs
  <1> QED
    BY <1>1, <1>2, <1>3, <1>4, <1>5, <1>6, <1>7, <1>8, <1>9, <1>10, <1>11, <1>12, <1>13, <1>14, <1>15,
       <1>16, <1>17, <1>18, <1>19, <1>20 DEF DeploymentNext, DeploySteps

LEMMA LocalInvLocal == LocalInv => RehearsalStaysLocal
  <1> SUFFICES ASSUME LocalInv, NEW i \in DOMAIN safeQueue, NEW call \in ToSet(safeQueue[i])
               PROVE  call.built = "ethereum"
    BY DEF RehearsalStaysLocal
  <1>1. safeQueue[i] \in Seq(Made)
    BY DEF LocalInv
  <1>2. call \in Made
    BY <1>1 DEF ToSet
  <1> QED
    BY <1>2 DEF Made

\* No proposal ever holds a call to what exists on a fork only: whatever order deploys, dead processes,
\* rehearsals and propose-safe-batch come in.
THEOREM RehearsalsStayLocal == DeploymentSpec => []RehearsalStaysLocal
  <1>1. DeploymentInit => LocalInv
    BY LocalInvInit
  <1>2. LocalInv /\ [DeploymentNext]_vars => LocalInv'
    BY LocalInvNext
  <1> QED
    BY <1>1, <1>2, LocalInvLocal, PTL DEF DeploymentSpec

-----------------------------------------------------------------------------
(* The compare of two blocks.                                              *)

Fields == {"setting", "whitelist", "role"}

\* What the baseline lacks is read again, so both blocks are read for the same accounts.
LEMMA BaselineComplete ==
    ASSUME NEW before, NEW after, NEW s \in Stacks
    PROVE  Baseline(before, after, s) = Readings(before[s], Accounts(before, after))
  <1> DEFINE stack == before[s]
             known == Candidates(before)
             all == Accounts(before, after)
             recorded == Readings(stack, known)
             reread == Readings(stack, known \cup (all \ known))
  <1>1. known \subseteq all /\ stack.whitelist \subseteq known
    BY DEF Accounts, Candidates
  <1>2. known \cup (all \ known) = all
    BY <1>1
  <1>3. Baseline(before, after, s) =
            recorded \cup {r \in reread : r[2] \in all \ known /\ Key(r) \notin Keys(recorded)}
    BY DEF Baseline
  <1> HIDE DEF stack, known, all
  <1>4. Readings(stack, known) \subseteq Readings(stack, all)
    BY <1>1 DEF Readings
  <1>5. ASSUME NEW r \in Readings(stack, all), r \notin recorded
        PROVE  r[2] \in all \ known /\ Key(r) \notin Keys(recorded)
    <2>1. PICK a \in all : r = <<"role", a, IF a \in stack.roles THEN "held" ELSE "not held">> /\ a \notin known
      BY <1>5 DEF Readings
    <2>2. Key(r) = <<"role", a>> /\ r[2] = a
      BY <2>1 DEF Key
    <2>3. <<"role", a>> \notin Keys(recorded)
      <3>1. SUFFICES ASSUME NEW x \in recorded, Key(x) = <<"role", a>> PROVE FALSE
        BY DEF Keys
      <3>2. CASE x = <<"setting", "-", Setting(stack.gateway)>>
        BY <3>1, <3>2 DEF Key
      <3>3. CASE \E b \in stack.whitelist : x = <<"whitelist", b, "in">>
        BY <3>1, <3>3 DEF Key
      <3>4. CASE \E b \in known : x = <<"role", b, IF b \in stack.roles THEN "held" ELSE "not held">>
        <4>1. PICK b \in known : x = <<"role", b, IF b \in stack.roles THEN "held" ELSE "not held">>
          BY <3>4
        <4>2. Key(x) = <<"role", b>>
          BY <4>1 DEF Key
        <4>3. b = a
          BY <3>1, <4>2
        <4> QED
          BY <2>1, <4>3
      <3> QED
        BY <3>2, <3>3, <3>4 DEF Readings
    <2> QED
      BY <2>1, <2>2, <2>3
  <1>6. reread = Readings(stack, all)
    BY <1>2
  <1> HIDE DEF recorded, reread
  <1>7. recorded \subseteq reread
    BY <1>4, <1>6 DEF recorded
  <1> QED
    BY <1>3, <1>5, <1>6, <1>7 DEF stack, all

\* Whether a field of a stack reads differently, for the accounts `known`.
Moved(was, is, field, known) ==
    CASE field = "setting" -> Setting(was.gateway) # Setting(is.gateway)
      [] field = "whitelist" -> was.whitelist # is.whitelist
      [] field = "role" -> was.roles \cap known # is.roles \cap known

Held(stack, a) == IF a \in stack.roles THEN "held" ELSE "not held"

LEMMA ReadingCases ==
    ASSUME NEW stack, NEW known, NEW r
    PROVE  r \in Readings(stack, known) <=>
               \/ r = <<"setting", "-", Setting(stack.gateway)>>
               \/ \E a \in stack.whitelist : r = <<"whitelist", a, "in">>
               \/ \E a \in known : r = <<"role", a, Held(stack, a)>>
  BY DEF Readings, Held

\* A field has a reading that differs exactly if it moved.
LEMMA FieldsThatDiffer ==
    ASSUME NEW was, NEW is, NEW known, NEW field \in Fields
    PROVE  (\E key \in Differing(Readings(was, known), Readings(is, known)) : key[1] = field)
               <=> Moved(was, is, field, known)
  <1> DEFINE a == Readings(was, known)
             b == Readings(is, known)
  <1>1. ASSUME NEW r
        PROVE  /\ r \in a <=> \/ r = <<"setting", "-", Setting(was.gateway)>>
                              \/ \E x \in was.whitelist : r = <<"whitelist", x, "in">>
                              \/ \E x \in known : r = <<"role", x, Held(was, x)>>
               /\ r \in b <=> \/ r = <<"setting", "-", Setting(is.gateway)>>
                              \/ \E x \in is.whitelist : r = <<"whitelist", x, "in">>
                              \/ \E x \in known : r = <<"role", x, Held(is, x)>>
    BY ReadingCases
  <1> SUFFICES (\E key \in Differing(a, b) : key[1] = field) <=> Moved(was, is, field, known)
    OBVIOUS
  <1> HIDE DEF a, b
  <1>2. (\E key \in Differing(a, b) : key[1] = field) <=> \E r \in (a \ b) \cup (b \ a) : r[1] = field
    <2> DEFINE either == (a \ b) \cup (b \ a)
    <2>1. ASSUME NEW r PROVE Key(r)[1] = r[1]
      BY DEF Key
    <2>2. Differing(a, b) = {Key(r) : r \in either}
      BY DEF Differing
    <2> HIDE DEF either
    <2>3. (\E key \in Differing(a, b) : key[1] = field) <=> \E r \in either : Key(r)[1] = field
      BY <2>2
    <2> QED
      BY <2>1, <2>3 DEF either
  <1>3. CASE field = "setting"
    <2> DEFINE v == Setting(was.gateway)
               w == Setting(is.gateway)
    <2> HIDE DEF v, w
    <2>1. ASSUME v # w PROVE \E r \in a \ b : r[1] = "setting"
      <3>1. <<"setting", "-", v>> \in a
        BY <1>1 DEF v
      <3>2. <<"setting", "-", v>> \notin b
        BY <1>1, <2>1 DEF w
      <3> QED
        BY <3>1, <3>2
    <2>2. ASSUME NEW r \in (a \ b) \cup (b \ a), r[1] = "setting" PROVE v # w
      BY <1>1, <2>2 DEF v, w
    <2> QED
      BY <1>2, <1>3, <2>1, <2>2 DEF Moved, v, w
  <1>4. CASE field = "whitelist"
    <2>1. ASSUME was.whitelist # is.whitelist PROVE \E r \in (a \ b) \cup (b \ a) : r[1] = "whitelist"
      <3>1. PICK x : x \in was.whitelist <=> x \notin is.whitelist
        BY <2>1
      <3>2. <<"whitelist", x, "in">> \in a <=> x \in was.whitelist
        BY <1>1
      <3>3. <<"whitelist", x, "in">> \in b <=> x \in is.whitelist
        BY <1>1
      <3> QED
        BY <3>1, <3>2, <3>3
    <2>2. ASSUME NEW r \in (a \ b) \cup (b \ a), r[1] = "whitelist" PROVE was.whitelist # is.whitelist
      BY <1>1, <2>2
    <2> QED
      BY <1>2, <1>4, <2>1, <2>2 DEF Moved
  <1>5. CASE field = "role"
    <2>1. ASSUME was.roles \cap known # is.roles \cap known
          PROVE  \E r \in (a \ b) \cup (b \ a) : r[1] = "role"
      <3>1. PICK x \in known : x \in was.roles <=> x \notin is.roles
        BY <2>1
      <3>2. Held(was, x) # Held(is, x)
        BY <3>1 DEF Held
      <3>3. <<"role", x, Held(was, x)>> \in a
        BY <1>1
      <3>4. <<"role", x, Held(was, x)>> \notin b
        BY <1>1, <3>2
      <3> QED
        BY <3>3, <3>4
    <2>2. ASSUME NEW r \in (a \ b) \cup (b \ a), r[1] = "role" PROVE was.roles \cap known # is.roles \cap known
      <3>1. SUFFICES ASSUME was.roles \cap known = is.roles \cap known PROVE FALSE
        OBVIOUS
      <3>2. \A x \in known : Held(was, x) = Held(is, x)
        BY <3>1 DEF Held
      <3> QED
        BY <1>1, <2>2, <3>2
    <2> QED
      BY <1>2, <1>5, <2>1, <2>2 DEF Moved
  <1> QED
    BY <1>3, <1>4, <1>5 DEF Fields

\* A block's readings show a revert exactly if the getter of the setting reverts.
LEMMA RevertedReadings ==
    ASSUME NEW stack, NEW known
    PROVE  Reverted(Readings(stack, known)) = {} <=> Setting(stack.gateway) # "REVERTED"
  <1>1. ASSUME NEW r \in Readings(stack, known), r[3] = "REVERTED" PROVE Setting(stack.gateway) = "REVERTED"
    <2>1. ASSUME NEW a \in known, r = <<"role", a, Held(stack, a)>> PROVE FALSE
      BY <1>1, <2>1 DEF Held
    <2>2. ASSUME NEW a \in stack.whitelist, r = <<"whitelist", a, "in">> PROVE FALSE
      BY <1>1, <2>2
    <2>3. r = <<"setting", "-", Setting(stack.gateway)>>
      BY <2>1, <2>2, ReadingCases
    <2> QED
      BY <1>1, <2>3
  <1>2. <<"setting", "-", Setting(stack.gateway)>> \in Readings(stack, known)
    BY ReadingCases
  <1> QED
    BY <1>1, <1>2 DEF Reverted

\* The comparison passes if nothing reverts, no owner changes, and --allow names what moved.
LEMMA PassesIfNamed ==
    ASSUME NEW before, NEW after, NEW allow \in SUBSET (Stacks \X Fields)
    PROVE  ComparePasses(before, after, allow) <=> Clean(before, after) /\ allow = Changes(before, after)
  <1> DEFINE all == Accounts(before, after)
             was(s) == Baseline(before, after, s)
             is(s) == Readings(after[s], all)
             changed == UNION {{s} \X Differing(was(s), is(s)) : s \in Stacks}
             reverted == UNION {Reverted(was(s)) \cup Reverted(is(s)) : s \in Stacks}
             changes == Changes(before, after)
  <1>1. ASSUME NEW s \in Stacks PROVE was(s) = Readings(before[s], all)
    BY BaselineComplete
  <1>2. Owners(before) = Owners(after) <=> \A s \in Stacks : before[s].owner = after[s].owner
    BY DEF Owners
  <1>3. reverted = {} <=> \A s \in Stacks : "REVERTED" \notin {Setting(before[s].gateway), Setting(after[s].gateway)}
    <2>1. reverted = {} <=> \A s \in Stacks : Reverted(was(s)) = {} /\ Reverted(is(s)) = {}
      OBVIOUS
    <2>2. ASSUME NEW s \in Stacks
          PROVE  /\ Reverted(was(s)) = {} <=> Setting(before[s].gateway) # "REVERTED"
                 /\ Reverted(is(s)) = {} <=> Setting(after[s].gateway) # "REVERTED"
      BY <1>1, RevertedReadings
    <2> HIDE DEF reverted, was, is
    <2> QED
      BY <2>1, <2>2
  <1>4. ASSUME NEW s \in Stacks, NEW field \in Fields
        PROVE  (\E change \in changed : <<change[1], change[2][1]>> = <<s, field>>) <=> <<s, field>> \in changes
    <2>1. (\E change \in changed : <<change[1], change[2][1]>> = <<s, field>>)
              <=> \E key \in Differing(was(s), is(s)) : key[1] = field
      <3> HIDE DEF was, is
      <3>1. ASSUME NEW key \in Differing(was(s), is(s)), key[1] = field
            PROVE  \E change \in changed : <<change[1], change[2][1]>> = <<s, field>>
        <4>1. <<s, key>> \in changed
          OBVIOUS
        <4> QED
          BY <3>1, <4>1
      <3>2. ASSUME NEW change \in changed, <<change[1], change[2][1]>> = <<s, field>>
            PROVE  \E key \in Differing(was(s), is(s)) : key[1] = field
        <4>1. PICK u \in Stacks : change \in {u} \X Differing(was(u), is(u))
          OBVIOUS
        <4> QED
          BY <3>2, <4>1
      <3> QED
        BY <3>1, <3>2
    <2>2. (\E key \in Differing(was(s), is(s)) : key[1] = field) <=> Moved(before[s], after[s], field, all)
      BY <1>1, FieldsThatDiffer
    <2>3. <<s, field>> \in changes <=> Moved(before[s], after[s], field, all)
      BY DEF Changes, Moved, Accounts, Fields
    <2> QED
      BY <2>1, <2>2, <2>3
  <1>5. ASSUME NEW change \in changed PROVE <<change[1], change[2][1]>> \in Stacks \X Fields
    <2>1. PICK s \in Stacks : change \in {s} \X Differing(was(s), is(s))
      OBVIOUS
    <2>2. PICK r \in was(s) \cup is(s) : change[2] = Key(r)
      BY <2>1 DEF Differing
    <2>3. r[1] \in Fields
      BY <1>1, <2>2, ReadingCases DEF Fields
    <2> HIDE DEF was, is
    <2> QED
      BY <2>1, <2>2, <2>3 DEF Key
  <1>6. changes \subseteq Stacks \X Fields
    BY DEF Changes, Fields
  <1>7. ComparePasses(before, after, allow) <=>
            /\ Owners(before) = Owners(after)
            /\ reverted = {}
            /\ \A change \in changed : \E glob \in allow : Covers(glob, change)
            /\ \A glob \in allow : \E change \in changed : Covers(glob, change)
    BY DEF ComparePasses
  <1> HIDE DEF all, was, is, changed, reverted, changes
  <1>8. (\A change \in changed : \E glob \in allow : Covers(glob, change)) <=> changes \subseteq allow
    <2>1. ASSUME \A change \in changed : \E glob \in allow : Covers(glob, change), NEW g \in changes
          PROVE  g \in allow
      BY <1>4, <1>6, <2>1 DEF Covers
    <2>2. ASSUME changes \subseteq allow, NEW change \in changed
          PROVE  \E glob \in allow : Covers(glob, change)
      BY <1>4, <1>5, <2>2 DEF Covers
    <2> QED
      BY <2>1, <2>2
  <1>9. (\A glob \in allow : \E change \in changed : Covers(glob, change)) <=> allow \subseteq changes
    BY <1>4 DEF Covers
  <1> QED
    BY <1>2, <1>3, <1>7, <1>8, <1>9 DEF Clean, changes

\* What the comparison is asked to do it does for any two blocks, with any accounts known beforehand.
LEMMA CompareIsExact ==
    ASSUME NEW before, NEW after
    PROVE  LET changes == Changes(before, after) IN
           /\ ComparePasses(before, after, changes) <=> Clean(before, after)
           /\ \A glob \in Stacks \X {"setting", "whitelist", "role"} :
                  ~ComparePasses(before, after, IF glob \in changes THEN changes \ {glob} ELSE changes \cup {glob})
  <1> DEFINE changes == Changes(before, after)
  <1>1. changes \in SUBSET (Stacks \X Fields)
    BY DEF Changes, Fields
  <1> HIDE DEF changes
  <1>2. ASSUME NEW glob \in Stacks \X Fields
        PROVE  ~ComparePasses(before, after, IF glob \in changes THEN changes \ {glob} ELSE changes \cup {glob})
    <2> DEFINE allow == IF glob \in changes THEN changes \ {glob} ELSE changes \cup {glob}
    <2>1. allow \in SUBSET (Stacks \X Fields) /\ allow # changes
      BY <1>1
    <2> HIDE DEF allow
    <2>2. ~ComparePasses(before, after, allow)
      BY <2>1, PassesIfNamed DEF changes
    <2> QED
      BY <2>2 DEF allow
  <1>3. ComparePasses(before, after, changes) <=> Clean(before, after)
    BY <1>1, PassesIfNamed DEF changes
  <1> QED
    BY <1>2, <1>3 DEF changes, Fields

LEMMA ComparedStep ==
    safeQueue # <<>> /\ safeQueue' = Tail(safeQueue) /\ chain' # chain =>
        LET changes == Changes(chain, chain') IN
        /\ ComparePasses(chain, chain', changes) <=> Clean(chain, chain')
        /\ \A glob \in Stacks \X {"setting", "whitelist", "role"} :
            ~ComparePasses(chain, chain', IF glob \in changes THEN changes \ {glob} ELSE changes \cup {glob})
  BY CompareIsExact

\* upgrade-snapshot --compare passes if --allow names exactly what changed between two blocks, and fails with
\* one change less or more: for any stacks, any accounts and whatever else is in the blocks.
THEOREM ComparesExactly == DeploymentSpec => CompareFindsChanges
  <1>1. [DeploymentNext]_vars =>
            [safeQueue # <<>> /\ safeQueue' = Tail(safeQueue) /\ chain' # chain =>
                LET changes == Changes(chain, chain') IN
                /\ ComparePasses(chain, chain', changes) <=> Clean(chain, chain')
                /\ \A glob \in Stacks \X {"setting", "whitelist", "role"} :
                    ~ComparePasses(chain, chain', IF glob \in changes THEN changes \ {glob} ELSE changes \cup {glob})]_vars
    BY ComparedStep
  <1> QED
    BY <1>1, PTL DEF DeploymentSpec, CompareFindsChanges

-----------------------------------------------------------------------------
(* What the calls of a proposal do, one after another.                     *)

IsUpgrade(call, s, c) == call.do = "upgrade" /\ call.stack = s /\ call.contract = c
IsList(call, s) == call.do = "list" /\ call.stack = s

StackFields == Contracts \cup {"proxied", "list", "roles", "whitelist", "owner"}

Shaped(block) ==
    /\ block = [s \in Stacks |-> [f \in DOMAIN block[s] |-> block[s][f]]]
    /\ \A s \in Stacks : DOMAIN block[s] = StackFields

\* What a block may owe to a set of calls.
Ran(before, after, calls) ==
    /\ Shaped(after)
    /\ \A s \in Stacks :
        /\ after[s].proxied = before[s].proxied
        /\ before[s].list => after[s].list
        /\ (\E call \in calls : IsList(call, s)) => after[s].list
        /\ \A c \in Contracts :
            \/ after[s][c] = before[s][c] /\ ~\E call \in calls : IsUpgrade(call, s, c)
            \/ \E call \in calls : IsUpgrade(call, s, c) /\ after[s][c] = call.to

LEMMA UpgradeDone ==
    ASSUME NEW block, Shaped(block), NEW call \in Made, call.do = "upgrade"
    PROVE  /\ Shaped(Done(block, call))
           /\ \A s \in Stacks : /\ Done(block, call)[s].proxied = block[s].proxied
                                /\ Done(block, call)[s].list = block[s].list
                                /\ \A c \in Contracts : Done(block, call)[s][c] =
                                       IF IsUpgrade(call, s, c) THEN call.to ELSE block[s][c]
  <1> DEFINE u == call.stack
             d == call.contract
             next == [block EXCEPT ![u][d] = call.to]
  <1>1. Done(block, call) = next
    BY DEF Done
  <1>2. u \in Stacks /\ d \in Contracts
    BY DEF Made
  <1>3. DOMAIN block = Stacks /\ DOMAIN block[u] = StackFields /\ d \in StackFields
    BY <1>2 DEF Shaped, StackFields
  <1>4. ASSUME NEW s \in Stacks
        PROVE  next[s] = IF s = u THEN [block[u] EXCEPT ![d] = call.to] ELSE block[s]
    BY <1>2, <1>3
  <1>5. next = [s \in Stacks |-> next[s]]
    BY <1>3
  <1> HIDE DEF next, u, d
  <1>6. ASSUME NEW s \in Stacks
        PROVE  /\ DOMAIN next[s] = StackFields
               /\ next[s] = [f \in StackFields |-> next[s][f]]
               /\ \A f \in StackFields : next[s][f] = IF s = u /\ f = d THEN call.to ELSE block[s][f]
    <2>1. block[s] = [f \in StackFields |-> block[s][f]]
      BY DEF Shaped
    <2> QED
      BY <1>3, <1>4, <2>1
  <1>7. Shaped(next)
    BY <1>5, <1>6 DEF Shaped
  <1>8. "proxied" \in StackFields /\ "list" \in StackFields /\ Contracts \subseteq StackFields
    BY DEF StackFields
  <1>9. d # "proxied" /\ d # "list"
    BY <1>2 DEF Contracts
  <1> QED
    <2>1. ASSUME NEW s \in Stacks
          PROVE  next[s].proxied = block[s].proxied /\ next[s].list = block[s].list
      BY <1>6, <1>8, <1>9
    <2>2. ASSUME NEW s \in Stacks, NEW c \in Contracts
          PROVE  next[s][c] = IF IsUpgrade(call, s, c) THEN call.to ELSE block[s][c]
      BY <1>6, <1>8 DEF IsUpgrade, u, d
    <2> QED
      BY <1>1, <1>7, <2>1, <2>2

LEMMA OtherDone ==
    ASSUME NEW block, Shaped(block), NEW call \in Made, call.do # "upgrade"
    PROVE  /\ Shaped(Done(block, call))
           /\ \A s \in Stacks : /\ Done(block, call)[s].proxied = block[s].proxied
                                /\ block[s].list \/ IsList(call, s) => Done(block, call)[s].list
                                /\ \A c \in Contracts : Done(block, call)[s][c] = block[s][c]
  <1> DEFINE u == call.stack
             f == IF call.do = "list" THEN "list" ELSE "roles"
             v == IF call.do = "list" THEN TRUE ELSE block[u].roles \cup {"manager"}
             next == [block EXCEPT ![u][f] = v]
  <1>1. call.do \in {"list", "manager"} /\ u \in Stacks
    BY DEF Made
  <1>2. Done(block, call) = next
    <2>1. CASE call.do = "list"
      BY <2>1 DEF Done
    <2>2. CASE call.do = "manager"
      <3>1. Done(block, call) = [block EXCEPT ![u].roles = @ \cup {"manager"}]
        BY <2>2 DEF Done
      <3>2. DOMAIN block = Stacks /\ "roles" \in DOMAIN block[u]
        BY <1>1 DEF Shaped, StackFields
      <3> QED
        BY <2>2, <3>1, <3>2, <1>1
    <2> QED
      BY <1>1, <2>1, <2>2
  <1>3. DOMAIN block = Stacks /\ DOMAIN block[u] = StackFields /\ f \in StackFields
    BY <1>1 DEF Shaped, StackFields
  <1>4. ASSUME NEW s \in Stacks
        PROVE  next[s] = IF s = u THEN [block[u] EXCEPT ![f] = v] ELSE block[s]
    BY <1>1, <1>3
  <1>5. next = [s \in Stacks |-> next[s]]
    BY <1>3
  <1>6. f \notin Contracts /\ f # "proxied" /\ (call.do = "list" => f = "list" /\ v = TRUE)
        /\ (call.do # "list" => f # "list")
    BY DEF Contracts
  <1> HIDE DEF next, u, f, v
  <1>7. ASSUME NEW s \in Stacks
        PROVE  /\ DOMAIN next[s] = StackFields
               /\ next[s] = [g \in StackFields |-> next[s][g]]
               /\ \A g \in StackFields : next[s][g] = IF s = u /\ g = f THEN v ELSE block[s][g]
    <2>1. block[s] = [g \in StackFields |-> block[s][g]]
      BY DEF Shaped
    <2> QED
      BY <1>3, <1>4, <2>1
  <1>8. Shaped(next)
    BY <1>5, <1>7 DEF Shaped
  <1>9. "proxied" \in StackFields /\ "list" \in StackFields /\ Contracts \subseteq StackFields
    BY DEF StackFields
  <1> QED
    <2>1. ASSUME NEW s \in Stacks
          PROVE  /\ next[s].proxied = block[s].proxied
                 /\ \A c \in Contracts : next[s][c] = block[s][c]
      BY <1>6, <1>7, <1>9
    <2>2. ASSUME NEW s \in Stacks, block[s].list
          PROVE  next[s].list
      <3>1. CASE f = "list" /\ s = u
        BY <1>6, <1>7, <1>9, <3>1
      <3>2. CASE ~(f = "list" /\ s = u)
        <4>1. next[s].list = block[s].list
          BY <1>7, <1>9, <3>2
        <4> QED
          BY <2>2, <4>1
      <3> QED
        BY <3>1, <3>2
    <2>3. ASSUME NEW s \in Stacks, IsList(call, s)
          PROVE  next[s].list
      BY <1>6, <1>7, <1>9, <2>3 DEF IsList, u
    <2> QED
      BY <1>2, <1>8, <2>1, <2>2, <2>3

\* One call more.
LEMMA RanOneMore ==
    ASSUME NEW before, NEW block, NEW calls, Ran(before, block, calls), NEW call \in Made
    PROVE  Ran(before, Done(block, call), calls \cup {call})
  <1>1. Shaped(block)
    BY DEF Ran
  <1>2. CASE call.do = "upgrade"
    BY <1>1, <1>2, UpgradeDone DEF Ran, IsUpgrade, IsList
  <1>3. CASE call.do # "upgrade"
    BY <1>1, <1>3, OtherDone DEF Ran, IsUpgrade
  <1> QED
    BY <1>2, <1>3

\* The blocks one call leads to.
RunStep(reached, call) == {Done(b, call) : b \in {b \in reached : Accepted(b, call)}}

\* g gives, for every set of positions up to n, what the calls at them lead to.
RunsOver(g, c, txs, n) ==
    g = [s \in SUBSET (1..n) |-> IF s = {} THEN {c} ELSE RunStep(g[s \ {Max(s)}], txs[Max(s)])]

LEMMA MaxLast ==
    ASSUME NEW n \in Nat, NEW s \in SUBSET (1..n), n \in s
    PROVE  Max(s) = n
<1>1. \A y \in s : n >= y
    OBVIOUS
<1>2. \A x \in s : (\A y \in s : x >= y) => x = n
    OBVIOUS
<1>3. QED
    BY <1>1, <1>2 DEF Max

LEMMA RunsExist ==
    ASSUME NEW c, NEW txs
    PROVE  \A n \in Nat : \E g : RunsOver(g, c, txs, n)
<1> DEFINE G == {n \in Nat : \E g : RunsOver(g, c, txs, n)}
<1>1. 0 \in G
  <2> DEFINE g == [s \in SUBSET (1..0) |-> {c}]
  <2>1. 1..0 = {}
    OBVIOUS
  <2>2. g = [s \in SUBSET (1..0) |-> IF s = {} THEN {c} ELSE RunStep(g[s \ {Max(s)}], txs[Max(s)])]
    BY <2>1
  <2>3. RunsOver(g, c, txs, 0)
    <3> HIDE DEF g
    <3>1. QED
      BY <2>2 DEF RunsOver
  <2> HIDE DEF g
  <2>4. QED
    BY <2>3
<1>2. ASSUME NEW n \in Nat, n \in G
      PROVE  n + 1 \in G
  <2>1. PICK g : RunsOver(g, c, txs, n)
    BY <1>2
  <2> DEFINE h == [s \in SUBSET (1..n + 1) |-> IF n + 1 \in s THEN RunStep(g[s \ {n + 1}], txs[n + 1]) ELSE g[s]]
  <2>2. ASSUME NEW s \in SUBSET (1..n + 1)
        PROVE  h[s] = IF s = {} THEN {c} ELSE RunStep(h[s \ {Max(s)}], txs[Max(s)])
    <3>1. CASE n + 1 \in s
      <4>1. Max(s) = n + 1
        BY <2>2, <3>1, MaxLast
      <4>2. s \ {n + 1} \in SUBSET (1..n + 1) /\ n + 1 \notin s \ {n + 1}
        BY <2>2
      <4>3. h[s \ {n + 1}] = g[s \ {n + 1}] /\ h[s] = RunStep(g[s \ {n + 1}], txs[n + 1])
        BY <2>2, <3>1, <4>2
      <4>4. QED
        BY <3>1, <4>1, <4>3
    <3>2. CASE n + 1 \notin s
      <4>1. s \in SUBSET (1..n) /\ s \ {Max(s)} \in SUBSET (1..n)
        <5>1. \A y \in s : y \in 1..n + 1 /\ y # n + 1
          BY <2>2, <3>2
        <5>2. \A y \in s : y \in 1..n
          BY <5>1
        <5>3. QED
          BY <5>2
      <4>2. h[s] = g[s]
        BY <2>2, <3>2
      <4>3. h[s \ {Max(s)}] = g[s \ {Max(s)}]
        <5>1. s \ {Max(s)} \in SUBSET (1..n + 1) /\ n + 1 \notin s \ {Max(s)}
          BY <4>1
        <5>2. QED
          BY <5>1
      <4>4. g[s] = IF s = {} THEN {c} ELSE RunStep(g[s \ {Max(s)}], txs[Max(s)])
        BY <2>1, <4>1 DEF RunsOver
      <4>5. QED
        BY <4>2, <4>3, <4>4
    <3>3. QED
      BY <3>1, <3>2
  <2>3. h = [s \in SUBSET (1..n + 1) |-> h[s]]
    OBVIOUS
  <2>4. RunsOver(h, c, txs, n + 1)
    <3> HIDE DEF h
    <3>1. QED
      BY <2>2, <2>3 DEF RunsOver
  <2> HIDE DEF h
  <2>5. QED
    BY <2>4
<1>3. Nat \subseteq G
  <2> HIDE DEF G
  <2>1. QED
    BY <1>1, <1>2, FromZeroUp
<1>4. QED
    BY <1>3

\* After is reached call by call.
LEMMA RunTrace ==
    ASSUME NEW c, NEW S, NEW txs \in Seq(S)
    PROVE  \E f : /\ f[0] = {c}
                  /\ \A i \in 1..Len(txs) : f[i] = RunStep(f[i - 1], txs[i])
                  /\ f[Len(txs)] = After(c, txs)
<1> DEFINE n == Len(txs)
           g == CHOOSE h : RunsOver(h, c, txs, n)
           f == [i \in 0..n |-> g[1..i]]
<1>1. n \in Nat /\ DOMAIN txs = 1..n
    OBVIOUS
<1>2. RunsOver(g, c, txs, n)
    BY <1>1, RunsExist
<1>3. After(c, txs) = g[1..n]
    BY <1>1 DEF After, FoldLeft, MapThenFoldSet, RunsOver, RunStep
<1> HIDE DEF g, n
<1>4. f[0] = {c}
  <2>1. 1..0 = {} /\ {} \in SUBSET (1..n)
    OBVIOUS
  <2>2. g[{}] = {c}
    BY <1>2, <2>1 DEF RunsOver
  <2>3. QED
    BY <1>1, <2>1, <2>2
<1>5. ASSUME NEW i \in 1..n
      PROVE  f[i] = RunStep(f[i - 1], txs[i])
  <2>1. 1..i \in SUBSET (1..n) /\ 1..i # {} /\ i \in 1..i /\ i - 1 \in 0..n /\ i \in 0..n
    BY <1>1, <1>5
  <2>2. (1..i) \ {i} = 1..i - 1
    BY <1>1, <1>5
  <2>3. Max(1..i) = i
    BY <1>1, <1>5, MaxLast
  <2>4. g[1..i] = RunStep(g[(1..i) \ {i}], txs[i])
    BY <1>2, <2>1, <2>3 DEF RunsOver
  <2>5. QED
    BY <2>1, <2>2, <2>4
<1>6. f[n] = After(c, txs)
    BY <1>1, <1>3
<1> HIDE DEF f
<1>7. QED
    BY <1>4, <1>5, <1>6 DEF n

\* Whatever a proposal leads to owes every change of an implementation to one of its calls.
LEMMA AfterRan ==
    ASSUME NEW block, Shaped(block), NEW txs \in Seq(Made), NEW after \in After(block, txs)
    PROVE  Ran(block, after, ToSet(txs))
  <1>1. PICK f : /\ f[0] = {block}
                 /\ \A i \in 1..Len(txs) : f[i] = RunStep(f[i - 1], txs[i])
                 /\ f[Len(txs)] = After(block, txs)
    BY RunTrace
  <1> DEFINE upTo(i) == {txs[j] : j \in 1..i}
             G == {i \in Nat : i <= Len(txs) => \A b \in f[i] : Ran(block, b, upTo(i))}
  <1>2. 0 \in G
    BY <1>1 DEF Ran
  <1>3. ASSUME NEW i \in Nat, i \in G
        PROVE  i + 1 \in G
    <2>1. SUFFICES ASSUME i + 1 <= Len(txs), NEW b \in f[i + 1]
                   PROVE  Ran(block, b, upTo(i + 1))
      OBVIOUS
    <2>2. i + 1 \in 1..Len(txs) /\ i <= Len(txs) /\ txs[i + 1] \in Made /\ (i + 1) - 1 = i
      BY <2>1
    <2>3. PICK a \in f[i] : b = Done(a, txs[i + 1])
      BY <1>1, <2>1, <2>2 DEF RunStep
    <2>4. Ran(block, a, upTo(i))
      BY <1>3, <2>2
    <2>5. upTo(i + 1) = upTo(i) \cup {txs[i + 1]}
      OBVIOUS
    <2> HIDE DEF upTo
    <2> QED
      BY <2>2, <2>3, <2>4, <2>5, RanOneMore
  <1>4. Len(txs) \in G
    <2>1. Len(txs) \in Nat
      OBVIOUS
    <2> HIDE DEF G
    <2> QED
      BY <1>2, <1>3, <2>1, FromZeroUp
  <1>5. upTo(Len(txs)) = ToSet(txs)
    BY DEF ToSet
  <1> QED
    BY <1>1, <1>4, <1>5

\* Nor does anybody else's transaction touch implementations or lists.
LEMMA OthersRan ==
    ASSUME NEW before, NEW block, NEW calls, Ran(before, block, calls), NEW other \in Others(block)
    PROVE  Ran(before, other, calls)
  <1>0. PICK s \in Stacks, f \in {"whitelist", "roles", "owner"} : \E v : other = [block EXCEPT ![s][f] = v]
    <2>1. DOMAIN block = Stacks /\ \A s \in Stacks : DOMAIN block[s] = StackFields
      BY DEF Ran, Shaped
    <2>2. ASSUME NEW s \in Stacks, other = [block EXCEPT ![s].whitelist = {"trader"} \ @]
          PROVE  \E v : other = [block EXCEPT ![s]["whitelist"] = v]
      <3>1. other = [block EXCEPT ![s]["whitelist"] = {"trader"} \ block[s].whitelist]
        BY <2>1, <2>2 DEF StackFields
      <3> QED
        BY <3>1
    <2>3. ASSUME NEW s \in Stacks,
                 other = [block EXCEPT ![s].roles = IF "trader" \in @ THEN @ \ {"trader"} ELSE @ \cup {"trader"}]
          PROVE  \E v : other = [block EXCEPT ![s]["roles"] = v]
      <3>1. other = [block EXCEPT ![s]["roles"] =
                        IF "trader" \in block[s].roles THEN block[s].roles \ {"trader"} ELSE block[s].roles \cup {"trader"}]
        BY <2>1, <2>3 DEF StackFields
      <3> QED
        BY <3>1
    <2>4. ASSUME NEW s \in Stacks, other = [block EXCEPT ![s].owner = "other"]
          PROVE  \E v : other = [block EXCEPT ![s]["owner"] = v]
      BY <2>4
    <2> QED
      BY <2>2, <2>3, <2>4 DEF Others
  <1>1. PICK v : other = [block EXCEPT ![s][f] = v]
    BY <1>0
  <1>2. DOMAIN block = Stacks /\ \A u \in Stacks : DOMAIN block[u] = StackFields
    BY DEF Ran, Shaped
  <1>3. f \in StackFields /\ f \notin Contracts /\ f # "proxied" /\ f # "list"
    BY DEF StackFields, Contracts
  <1> DEFINE next == [block EXCEPT ![s][f] = v]
  <1>4. ASSUME NEW u \in Stacks
        PROVE  next[u] = IF u = s THEN [block[s] EXCEPT ![f] = v] ELSE block[u]
    BY <1>2
  <1>5. next = [u \in Stacks |-> next[u]]
    BY <1>2
  <1> HIDE DEF next
  <1>6. ASSUME NEW u \in Stacks
        PROVE  /\ DOMAIN next[u] = StackFields
               /\ next[u] = [g \in StackFields |-> next[u][g]]
               /\ \A g \in StackFields : g # f => next[u][g] = block[u][g]
    <2>1. block[u] = [g \in StackFields |-> block[u][g]]
      BY DEF Ran, Shaped
    <2> QED
      BY <1>2, <1>3, <1>4, <2>1
  <1>7. Shaped(next)
    BY <1>5, <1>6 DEF Shaped
  <1>8. ASSUME NEW u \in Stacks
        PROVE  /\ next[u].proxied = block[u].proxied /\ next[u].list = block[u].list
               /\ \A c \in Contracts : next[u][c] = block[u][c]
    BY <1>3, <1>6 DEF StackFields
  <1>9. Ran(before, next, calls)
    BY <1>7, <1>8 DEF Ran
  <1> QED
    BY <1>1, <1>9 DEF next

-----------------------------------------------------------------------------
(* The invariant of upgrades.                                              *)
(*                                                                         *)
(* A call is checked when it is queued and executed much later, by a Safe  *)
(* that has other proposals before it.  What keeps the check true until    *)
(* then: every call that may still reach the Safe (Pending) names what the *)
(* proxy's record names, so two proposals never lead one proxy to two      *)
(* implementations; and all of a run's were made by the source the run     *)
(* itself is at.                                                           *)

\* The file holds calls that this run or the leftover task may propose.
Proposable == batchStarted \/ (batch.network = "ethereum" /\ batch.complete)
FileCalls == IF Proposable THEN ToSet(batch.txs) ELSE {}
OwnCalls == IF batchStarted THEN ToSet(batch.txs) ELSE {}
QueueCalls == UNION {ToSet(safeQueue[i]) : i \in DOMAIN safeQueue}
Pending == QueueCalls \cup FileCalls

Fits(s, c, v) == chain[s][c] = v \/ <<c, chain[s][c], v>> \in Compatible

Sound(call) ==
    call.do = "upgrade" =>
        /\ chain[call.stack].proxied
        /\ call.to \in solcInputs[call.contract]
        /\ Fits(call.stack, call.contract, call.to)

Recorded(call) == call.do = "upgrade" => call.to = proxyRecord[call.stack][call.contract]
Current(call) == call.do = "upgrade" => call.to = Code(call.contract)

ShapeInv ==
    /\ Shaped(chain)
    /\ proxyRecord = [s \in Stacks |-> [c \in Contracts |-> proxyRecord[s][c]]]
    /\ solcInputs = [c \in Contracts |-> solcInputs[c]]
    /\ step \in Nat
    /\ phase \in {"start", "deployed", "queued", "propose"}
    /\ \A s \in Stacks, c \in Contracts : chain[s][c] \in solcInputs[c]

CallsInv ==
    /\ \A call \in Pending : Sound(call)
    /\ \A call \in QueueCalls : Recorded(call)
    /\ step # 0 => \A call \in QueueCalls : Current(call)
    /\ \A call \in OwnCalls : Current(call)
    /\ \A call \in FileCalls : Recorded(call) \/ (phase = "queued" /\ call = UpgradeCall)

\* Where the process stands.
PhaseInv ==
    /\ phase = "deployed" =>
        /\ AtUpgrade
        /\ Code(Script) \in solcInputs[Script]
        /\ Fits(Stack, Script, Code(Script))
        /\ currentImpl = Code(Script) => Live = Code(Script)
    /\ phase = "queued" => AtUpgrade /\ batchStarted /\ ~batch.complete /\ UpgradeCall \in ToSet(batch.txs)
    /\ phase = "propose" => AtEnd /\ batch.complete

\* What a script that was passed leaves: the contract is live or the call is in the file.
Passed(s, script) ==
    chain[s].proxied =>
        /\ script \in Contracts => chain[s][script] = Code(script) \/ \E call \in OwnCalls : IsUpgrade(call, s, script)
        /\ script = "list" => chain[s].list \/ \E call \in OwnCalls : IsList(call, s)

ProgressInv == \A i \in 1..Len(Steps) : i < step => Passed(Steps[i][1], Steps[i][2])

UpgradeInv == LocalInv /\ ShapeInv /\ CallsInv /\ PhaseInv /\ ProgressInv

-----------------------------------------------------------------------------
(* The invariant of the sanctions list.                                    *)

\* A Gateway that asks for the list is never proposed without the Treasury that keeps it, nor that Treasury
\* replaced under a Gateway that asks.
WholeIn(block, txs) ==
    \A call \in ToSet(txs), s \in Stacks :
        /\ IsUpgrade(call, s, "gateway") /\ call.to \in ListReaders =>
            /\ block[s].treasury \in ListKeepers \/ \E other \in ToSet(txs) : IsUpgrade(other, s, "treasury")
            /\ block[s].list \/ \E other \in ToSet(txs) : IsList(other, s)
        /\ IsUpgrade(call, s, "treasury") /\ call.to \notin ListKeepers =>
            block[s].gateway \notin ListReaders \/ \E other \in ToSet(txs) : IsUpgrade(other, s, "gateway")

\* No two calls put them together.
Paired(calls) ==
    \A one, two \in calls, s \in Stacks :
        IsUpgrade(one, s, "gateway") /\ IsUpgrade(two, s, "treasury") /\ one.to \in ListReaders => two.to \in ListKeepers

WholeInv ==
    /\ \A i \in DOMAIN safeQueue : WholeIn(chain, safeQueue[i])
    /\ batch.network = "ethereum" /\ batch.complete => WholeIn(chain, batch.txs)

ListInv == Paired(Pending) /\ WholeInv /\ GatewayFindsList

-----------------------------------------------------------------------------
(* Steps of the process that save nothing.                                 *)

LEMMA QueueSame == UNCHANGED safeQueue => QueueCalls' = QueueCalls
  BY DEF QueueCalls

LEMMA OwnInFile == OwnCalls \subseteq FileCalls
  BY DEF OwnCalls, FileCalls, Proposable

\* Whatever may reach the Safe was made for the main network.
LEMMA PendingMade ==
    ASSUME LocalInv
    PROVE  Pending \subseteq Made
  <1>1. QueueCalls \subseteq Made
    BY DEF QueueCalls, LocalInv, ToSet
  <1>2. FileCalls \subseteq Made
    <2>1. Proposable => batch.txs \in Seq(Made)
      BY DEF Proposable, LocalInv, OursByNetwork, BatchOurs
    <2> QED
      BY <2>1 DEF FileCalls, ToSet
  <1> QED
    BY <1>1, <1>2 DEF Pending

\* A process that goes on or ends: its file stays, and is its own no longer once it has ended.
LEMMA FileSame ==
    ASSUME UNCHANGED batch, batchStarted' = FALSE \/ batchStarted' = batchStarted
    PROVE  /\ OwnCalls' \subseteq OwnCalls /\ FileCalls' \subseteq FileCalls
           /\ batchStarted' = batchStarted => OwnCalls' = OwnCalls
           /\ ~batchStarted' /\ ~batch.complete => FileCalls' = {}
  BY DEF OwnCalls, FileCalls, Proposable

LEMMA SameCalls ==
    ASSUME UNCHANGED <<chain, source, recordVars>>, NEW call
    PROVE  Sound(call)' = Sound(call) /\ Recorded(call)' = Recorded(call) /\ Current(call)' = Current(call)
  BY DEF recordVars, Sound, Fits, Recorded, Current, Code

LEMMA ControlKeeps ==
    ASSUME UpgradeInv, LocalInv',
           UNCHANGED <<chain, source, recordVars, batch, safeQueue>>,
           step' \in Nat, phase' = "start",
           batchStarted' = FALSE \/ (batchStarted' = batchStarted /\ phase # "queued"),
           step' # 0 => \A call \in QueueCalls : Current(call),
           \A i \in 1..Len(Steps) : i < step' => batchStarted' = batchStarted /\ Passed(Steps[i][1], Steps[i][2])
    PROVE  UpgradeInv'
  <1>1. /\ QueueCalls' = QueueCalls
        /\ OwnCalls' \subseteq OwnCalls /\ FileCalls' \subseteq FileCalls
        /\ batchStarted' = batchStarted => OwnCalls' = OwnCalls
        /\ ~batchStarted' /\ ~batch.complete => FileCalls' = {}
    BY QueueSame, FileSame
  <1>2. Pending' \subseteq Pending
    BY <1>1 DEF Pending
  <1>3. ShapeInv'
    BY DEF UpgradeInv, ShapeInv, recordVars
  <1>4. CallsInv'
    <2>1. \A call \in Pending' : Sound(call)'
      BY <1>2, SameCalls DEF UpgradeInv, CallsInv
    <2>2. \A call \in QueueCalls' : Recorded(call)'
      BY <1>1, SameCalls DEF UpgradeInv, CallsInv
    <2>3. step' # 0 => \A call \in QueueCalls' : Current(call)'
      BY <1>1, SameCalls
    <2>4. \A call \in OwnCalls' : Current(call)'
      BY <1>1, SameCalls DEF UpgradeInv, CallsInv
    <2>5. \A call \in FileCalls' : Recorded(call)'
      <3>1. CASE phase # "queued"
        BY <1>1, <3>1, SameCalls DEF UpgradeInv, CallsInv
      <3>2. CASE phase = "queued"
        BY <1>1, <3>2 DEF UpgradeInv, PhaseInv
      <3> QED
        BY <3>1, <3>2
    <2> QED
      BY <2>1, <2>2, <2>3, <2>4, <2>5 DEF CallsInv
  <1>5. PhaseInv'
    BY DEF PhaseInv
  <1>6. ProgressInv'
    BY <1>1 DEF ProgressInv, Passed, Code
  <1> QED
    BY <1>3, <1>4, <1>5, <1>6 DEF UpgradeInv

LEMMA ControlKeepsList ==
    ASSUME ListInv, UNCHANGED <<chain, batch, safeQueue>>, batchStarted' = FALSE \/ batchStarted' = batchStarted
    PROVE  ListInv'
  <1>1. Pending' \subseteq Pending
    BY QueueSame, FileSame DEF Pending
  <1>2. Paired(Pending')
    BY <1>1 DEF ListInv, Paired
  <1>3. WholeInv'
    BY DEF ListInv, WholeInv
  <1>4. GatewayFindsList'
    BY DEF ListInv, GatewayFindsList
  <1> QED
    BY <1>2, <1>3, <1>4 DEF ListInv

\* Between two scripts.
LEMMA GoOnKeeps ==
    ASSUME UpgradeInv, LocalInv', UNCHANGED <<chain, source, recordVars, batchVars>>, Running, GoTo(step + 1),
           phase # "queued", Passed(Stack, Script)
    PROVE  UpgradeInv'
  <1>1. step \in Nat /\ step # 0 /\ step' = step + 1 /\ phase' = "start"
    BY ScriptType DEF UpgradeInv, ShapeInv, GoTo
  <1>2. UNCHANGED <<chain, source, recordVars, batch, safeQueue>> /\ batchStarted' = batchStarted
    BY DEF batchVars
  <1>3. \A i \in 1..Len(Steps) : i < step' => Passed(Steps[i][1], Steps[i][2])
    <2>1. SUFFICES ASSUME NEW i \in 1..Len(Steps), i < step + 1 PROVE Passed(Steps[i][1], Steps[i][2])
      BY <1>1
    <2>2. CASE i < step
      BY <2>2 DEF UpgradeInv, ProgressInv
    <2>3. CASE i = step
      BY <2>3 DEF Stack, Script
    <2> QED
      BY <1>1, <2>1, <2>2, <2>3
  <1>4. \A call \in QueueCalls : Current(call)
    BY <1>1 DEF UpgradeInv, CallsInv
  <1> QED
    BY <1>1, <1>2, <1>3, <1>4, ControlKeeps

\* The process ends.
LEMMA EndKeeps ==
    ASSUME UpgradeInv, LocalInv', UNCHANGED <<chain, source, recordVars, batch, safeQueue>>, EndProcess
    PROVE  UpgradeInv'
  <1>1. step' = 0 /\ phase' = "start" /\ batchStarted' = FALSE
    BY DEF EndProcess, GoTo
  <1>2. step' \in Nat /\ \A i \in 1..Len(Steps) : ~(i < step')
    BY <1>1, DeploymentAssumption
  <1> QED
    BY <1>1, <1>2, ControlKeeps

LEMMA StartDeployKeeps ==
    ASSUME UpgradeInv, LocalInv', StartDeploy
    PROVE  UpgradeInv'
  <1>1. /\ UNCHANGED <<chain, source, recordVars, batch, safeQueue>> /\ batchStarted' = batchStarted
        /\ step' = 1 /\ phase' = "start"
    BY DEF StartDeploy, GoTo, batchVars
  <1>2. ASSUME NEW call \in QueueCalls
        PROVE  Current(call)
    BY DEF StartDeploy, NothingOlderPending, UpgradesTo, QueueCalls, Current
  <1>3. phase # "queued"
    BY ScriptType DEF UpgradeInv, PhaseInv, AtUpgrade, StartDeploy
  <1>4. \A i \in 1..Len(Steps) : ~(i < step')
    BY <1>1
  <1> QED
    BY <1>1, <1>2, <1>3, <1>4, ControlKeeps

LEMMA SkipScriptKeeps ==
    ASSUME UpgradeInv, LocalInv', SkipScript
    PROVE  UpgradeInv'
  BY GoOnKeeps DEF SkipScript, Passed

LEMMA NothingToQueueKeeps ==
    ASSUME UpgradeInv, LocalInv', NothingToQueue
    PROVE  UpgradeInv'
  <1>1. Running /\ GoTo(step + 1) /\ UNCHANGED <<chain, source, recordVars, batchVars>>
    BY DEF NothingToQueue, AtUpgrade, AtManager, AtList
  <1>2. phase # "queued" /\ Passed(Stack, Script)
    <2>1. CASE AtUpgrade /\ phase = "deployed" /\ ~UpgradeNeeded
      <3>1. Live = Code(Script)
        BY <2>1 DEF UpgradeInv, PhaseInv, UpgradeNeeded
      <3> QED
        BY <2>1, <3>1 DEF Passed, Live, AtUpgrade, Contracts
    <2>2. CASE AtManager /\ ~RoleMissing
      BY <2>2 DEF AtManager, Passed, Contracts, UpgradeInv, PhaseInv, AtUpgrade
    <2>3. CASE AtList /\ ~ListMissing
      BY <2>3 DEF AtList, ListMissing, Passed, Contracts, UpgradeInv, PhaseInv, AtUpgrade
    <2> QED
      BY <2>1, <2>2, <2>3 DEF NothingToQueue
  <1> QED
    BY <1>1, <1>2, GoOnKeeps

\* The live source is on record and the code fits it.
LEMMA DeployKeeps ==
    ASSUME UpgradeInv, LocalInv', DeployImplementation
    PROVE  UpgradeInv'
  <1>1. /\ UNCHANGED <<chain, source, proxyRecord, step, batch, batchStarted, safeQueue>>
        /\ AtUpgrade /\ phase = "start" /\ phase' = "deployed" /\ currentImpl' = Live
        /\ solcInputs' = [solcInputs EXCEPT ![Script] = @ \cup {Code(Script)}]
    BY DEF DeployImplementation, batchVars
  <1>2. Stack \in Stacks /\ Script \in Contracts
    BY <1>1, ScriptType DEF AtUpgrade
  <1>3. /\ QueueCalls' = QueueCalls /\ OwnCalls' = OwnCalls /\ FileCalls' = FileCalls /\ Pending' = Pending
        /\ Stack' = Stack /\ Script' = Script /\ Live' = Live
        /\ \A c : Code(c)' = Code(c)
        /\ \A s, c, v : Fits(s, c, v)' = Fits(s, c, v)
        /\ AtUpgrade' = AtUpgrade
    BY <1>1 DEF QueueCalls, OwnCalls, FileCalls, Proposable, Pending, Stack, Script, Live, Code, Fits, AtUpgrade, Running
  <1>4. \A c \in Contracts : solcInputs[c] \subseteq solcInputs'[c]
    BY <1>1, <1>2 DEF UpgradeInv, ShapeInv
  <1>5. Code(Script) \in solcInputs'[Script]
    BY <1>1, <1>2 DEF UpgradeInv, ShapeInv
  <1>6. solcInputs' = [c \in Contracts |-> solcInputs'[c]]
    BY <1>1, <1>2 DEF UpgradeInv, ShapeInv
  <1>7. ShapeInv'
    BY <1>1, <1>4, <1>6 DEF UpgradeInv, ShapeInv
  <1>8. CallsInv'
    <2>1. ASSUME NEW call \in Pending PROVE Sound(call)'
      <3>1. call.do = "upgrade" => call.contract \in Contracts
        BY PendingMade, <2>1 DEF UpgradeInv, Made
      <3> QED
        BY <1>1, <1>3, <1>4, <2>1, <3>1 DEF UpgradeInv, CallsInv, Sound
    <2>2. \A call : Recorded(call)' = Recorded(call) /\ Current(call)' = Current(call)
      BY <1>1, <1>3 DEF Recorded, Current
    <2> QED
      BY <1>1, <1>3, <2>1, <2>2 DEF UpgradeInv, CallsInv
  <1>9. PhaseInv'
    <2>1. Fits(Stack, Script, Code(Script))
      BY <1>1 DEF DeployImplementation, MayUpgrade, UpgradeSafe, LiveSources, Fits, Live
    <2>2. currentImpl' = Code(Script) => Live = Code(Script)
      BY <1>1
    <2> QED
      BY <1>1, <1>3, <1>5, <2>1, <2>2 DEF PhaseInv
  <1>10. ProgressInv'
    BY <1>1, <1>3 DEF UpgradeInv, ProgressInv, Passed
  <1> QED
    BY <1>7, <1>8, <1>9, <1>10 DEF UpgradeInv

-----------------------------------------------------------------------------
(* Steps that save a call.                                                 *)

LEMMA StoreType ==
    ASSUME NEW S, NEW txs \in Seq(S), NEW call
    PROVE  ToSet(Store(txs, call)) = ToSet(txs) \cup {call}
  <1>1. CASE Contains(txs, call)
    BY <1>1 DEF Store, Contains, ToSet
  <1>2. CASE ~Contains(txs, call)
    <2>1. ToSet(Append(txs, call)) = ToSet(txs) \cup {call}
      <3>1. /\ DOMAIN Append(txs, call) = DOMAIN txs \cup {Len(txs) + 1}
            /\ Append(txs, call)[Len(txs) + 1] = call
            /\ \A i \in DOMAIN txs : Append(txs, call)[i] = txs[i]
        OBVIOUS
      <3> QED
        BY <3>1 DEF ToSet
    <2> QED
      BY <1>2, <2>1 DEF Store
  <1> QED
    BY <1>1, <1>2

LEMMA SavedSets ==
    ASSUME LocalInv, NEW call, SaveForMultiSig("ethereum", call)
    PROVE  /\ batchStarted' /\ ~batch'.complete
           /\ OwnCalls' = OwnCalls \cup {call}
           /\ FileCalls' = OwnCalls \cup {call}
           /\ ToSet(batch'.txs) = OwnCalls \cup {call}
           /\ QueueCalls' = QueueCalls
  <1>1. batchStarted' = TRUE /\ batch' = [network |-> "ethereum", complete |-> FALSE, txs |-> Store(batch.txs, call)]
        /\ UNCHANGED safeQueue
    BY DEF SaveForMultiSig
  <1>2. CASE batchStarted
    <2>1. batch.txs \in Seq(Made)
      BY <1>2 DEF LocalInv, OursByNetwork, BatchOurs
    <2>2. ToSet(Store(batch.txs, call)) = ToSet(batch.txs) \cup {call}
      BY <2>1, StoreType
    <2> QED
      BY <1>1, <1>2, <2>2 DEF OwnCalls, FileCalls, Proposable, QueueCalls
  <1>3. CASE ~batchStarted
    <2>1. batch.txs = <<>>
      BY <1>3 DEF SaveForMultiSig, StaleBatch, HasBatchFile
    <2>2. batch.txs \in Seq(Made) /\ ToSet(batch.txs) = {}
      BY <2>1 DEF ToSet
    <2>3. ToSet(Store(batch.txs, call)) = {call}
      <3>1. ToSet(Store(batch.txs, call)) = ToSet(batch.txs) \cup {call}
        BY <2>2, StoreType
      <3> QED
        BY <2>2, <3>1
    <2> QED
      BY <1>1, <1>3, <2>3 DEF OwnCalls, FileCalls, Proposable, QueueCalls
  <1> QED
    BY <1>2, <1>3

\* A call of the run's own source that is sound when it is saved.
LEMMA SavedKeeps ==
    ASSUME UpgradeInv, NEW call \in Made, SaveForMultiSig("ethereum", call), UNCHANGED <<chain, source, recordVars>>,
           Sound(call), Current(call), step # 0, phase # "queued",
           Recorded(call) \/ (phase' = "queued" /\ call = UpgradeCall')
    PROVE  CallsInv'
  <1>1. /\ OwnCalls' = OwnCalls \cup {call} /\ FileCalls' = OwnCalls \cup {call} /\ QueueCalls' = QueueCalls
    BY SavedSets DEF UpgradeInv
  <1>2. Pending' \subseteq Pending \cup {call}
    BY <1>1, OwnInFile DEF Pending
  <1>3. \A c \in Pending' : Sound(c)'
    BY <1>2, SameCalls DEF UpgradeInv, CallsInv
  <1>4. \A c \in QueueCalls' : Recorded(c)' /\ Current(c)'
    BY <1>1, SameCalls DEF UpgradeInv, CallsInv
  <1>5. \A c \in OwnCalls' : Current(c)'
    BY <1>1, SameCalls DEF UpgradeInv, CallsInv
  <1>6. \A c \in FileCalls' : Recorded(c)' \/ (phase' = "queued" /\ c = UpgradeCall')
    BY <1>1, OwnInFile, SameCalls DEF UpgradeInv, CallsInv
  <1> QED
    BY <1>3, <1>4, <1>5, <1>6 DEF CallsInv

\* Whatever a source makes for two contracts fits together.
LEMMA CurrentPair ==
    ASSUME source \in DOMAIN Commits, NEW calls, \A call \in calls : Current(call)
    PROVE  Paired(calls)
  <1>1. Code("gateway") \in ListReaders => Code("treasury") \in ListKeepers
    BY ListAssumption DEF Code
  <1> QED
    BY <1>1 DEF Paired, IsUpgrade, Current

LEMMA SavedKeepsList ==
    ASSUME UpgradeInv, ListInv, NEW call \in Made, SaveForMultiSig("ethereum", call), UNCHANGED chain,
           Current(call), step # 0
    PROVE  ListInv'
  <1>1. /\ OwnCalls' = OwnCalls \cup {call} /\ FileCalls' = OwnCalls \cup {call} /\ QueueCalls' = QueueCalls
        /\ ~batch'.complete
    BY SavedSets DEF UpgradeInv
  <1>2. Paired(Pending')
    <2>1. \A c \in QueueCalls \cup OwnCalls \cup {call} : Current(c)
      BY DEF UpgradeInv, CallsInv
    <2>2. Pending' = QueueCalls \cup OwnCalls \cup {call}
      BY <1>1 DEF Pending
    <2> QED
      BY <2>1, <2>2, CurrentPair DEF UpgradeInv, LocalInv
  <1>3. WholeInv'
    BY <1>1 DEF ListInv, WholeInv, SaveForMultiSig
  <1>4. GatewayFindsList'
    BY DEF ListInv, GatewayFindsList
  <1> QED
    BY <1>2, <1>3, <1>4 DEF ListInv

LEMMA QueueUpgradeKeeps ==
    ASSUME UpgradeInv, LocalInv', QueueUpgrade
    PROVE  UpgradeInv'
  <1>1. /\ UNCHANGED <<chain, source, recordVars, step, currentImpl>> /\ phase' = "queued"
        /\ AtUpgrade /\ phase = "deployed" /\ SaveForMultiSig("ethereum", UpgradeCall)
    BY DEF QueueUpgrade
  <1>2. Running /\ Script \in Contracts /\ step # 0 /\ UpgradeCall \in Made
    BY <1>1, ScriptType, CallsAreMade DEF AtUpgrade, UpgradeInv, LocalInv
  <1>3. Stack' = Stack /\ Script' = Script /\ AtUpgrade' = AtUpgrade /\ UpgradeCall' = UpgradeCall
        /\ \A c : Code(c)' = Code(c)
    BY <1>1 DEF Stack, Script, AtUpgrade, Running, UpgradeCall, Code
  <1>4. Sound(UpgradeCall) /\ Current(UpgradeCall)
    BY <1>1 DEF UpgradeInv, PhaseInv, Sound, Current, UpgradeCall, AtUpgrade
  <1>5. CallsInv'
    <2> DEFINE call == UpgradeCall
    <2>1. Sound(call) /\ Current(call) /\ call \in Made /\ SaveForMultiSig("ethereum", call) /\ call = UpgradeCall'
      BY <1>1, <1>2, <1>3, <1>4
    <2> HIDE DEF call
    <2> QED
      BY <1>1, <1>2, <2>1, SavedKeeps
  <1>6. batchStarted' /\ ~batch'.complete /\ UpgradeCall \in ToSet(batch'.txs) /\ OwnCalls \subseteq OwnCalls'
    BY <1>1, SavedSets DEF UpgradeInv
  <1>7. ShapeInv'
    BY <1>1 DEF UpgradeInv, ShapeInv, recordVars
  <1>8. PhaseInv'
    BY <1>1, <1>3, <1>6 DEF PhaseInv
  <1>9. ProgressInv'
    BY <1>1, <1>3, <1>6 DEF UpgradeInv, ProgressInv, Passed
  <1> QED
    BY <1>5, <1>7, <1>8, <1>9 DEF UpgradeInv

\* A script that saves a call other than an upgrade, and is done.
LEMMA SavedAndDone ==
    ASSUME UpgradeInv, LocalInv', NEW name \in {"manager", "list"}, Running, Script = name,
           SaveForMultiSig("ethereum", [do |-> name, stack |-> Stack, built |-> "ethereum"]),
           GoTo(step + 1), UNCHANGED <<chain, source, recordVars>>
    PROVE  UpgradeInv'
  <1> DEFINE call == [do |-> name, stack |-> Stack, built |-> "ethereum"]
  <1>1. step \in Nat /\ step # 0 /\ step' = step + 1 /\ phase' = "start"
    BY ScriptType DEF UpgradeInv, ShapeInv, GoTo
  <1>2. call \in Made /\ call.do = name /\ call.stack = Stack
    BY CallsAreMade DEF UpgradeInv, LocalInv
  <1>3. phase # "queued" /\ Script \notin Contracts
    BY DEF Contracts, UpgradeInv, PhaseInv, AtUpgrade
  <1>4. SaveForMultiSig("ethereum", call)
    OBVIOUS
  <1> HIDE DEF call
  <1>5. Sound(call) /\ Current(call) /\ Recorded(call)
    BY <1>2 DEF Sound, Current, Recorded
  <1>6. CallsInv'
    BY <1>1, <1>2, <1>3, <1>4, <1>5, SavedKeeps
  <1>7. OwnCalls' = OwnCalls \cup {call}
    BY <1>4, SavedSets DEF UpgradeInv
  <1>8. ShapeInv'
    BY <1>1 DEF UpgradeInv, ShapeInv, recordVars
  <1>9. PhaseInv'
    BY <1>1 DEF PhaseInv
  <1>10. ProgressInv'
    <2>1. ASSUME NEW i \in 1..Len(Steps), i < step + 1
          PROVE  Passed(Steps[i][1], Steps[i][2])'
      <3>1. CASE i < step
        BY <1>7, <3>1 DEF UpgradeInv, ProgressInv, Passed, Code
      <3>2. CASE i = step
        BY <1>2, <1>3, <1>7, <3>2 DEF Passed, IsList, Stack, Script
      <3> QED
        BY <1>1, <2>1, <3>1, <3>2
    <2> QED
      BY <1>1, <2>1 DEF ProgressInv
  <1> QED
    BY <1>6, <1>8, <1>9, <1>10 DEF UpgradeInv

LEMMA GrantRoleKeeps ==
    ASSUME UpgradeInv, LocalInv', GrantRole
    PROVE  UpgradeInv'
  BY SavedAndDone DEF GrantRole, AtManager

LEMMA SetSanctionsListKeeps ==
    ASSUME UpgradeInv, LocalInv', SetSanctionsList
    PROVE  UpgradeInv'
  BY SavedAndDone DEF SetSanctionsList, AtList

\* What is recorded is in the file.
LEMMA RecordKeeps ==
    ASSUME UpgradeInv, LocalInv', RecordUpgrade
    PROVE  UpgradeInv'
  <1>1. /\ UNCHANGED <<chain, source, solcInputs, batch, batchStarted, safeQueue>>
        /\ AtUpgrade /\ phase = "queued" /\ step' = step + 1 /\ phase' = "start"
        /\ proxyRecord' = [proxyRecord EXCEPT ![Stack][Script] = Code(Script)]
    BY DEF RecordUpgrade, GoTo, batchVars
  <1>2. Stack \in Stacks /\ Script \in Contracts /\ step # 0 /\ step \in Nat
    BY <1>1, ScriptType DEF AtUpgrade, UpgradeInv, ShapeInv
  <1>3. /\ QueueCalls' = QueueCalls /\ OwnCalls' = OwnCalls /\ FileCalls' = FileCalls /\ Pending' = Pending
        /\ \A c : Code(c)' = Code(c)
        /\ batchStarted /\ OwnCalls = FileCalls /\ UpgradeCall \in OwnCalls
    BY <1>1 DEF QueueCalls, OwnCalls, FileCalls, Proposable, Pending, Code, UpgradeInv, PhaseInv
  <1>4. ASSUME NEW s \in Stacks, NEW c \in Contracts
        PROVE  proxyRecord'[s][c] = IF s = Stack /\ c = Script THEN Code(Script) ELSE proxyRecord[s][c]
    BY <1>1, <1>2 DEF UpgradeInv, ShapeInv
  <1>5. proxyRecord' = [s \in Stacks |-> [c \in Contracts |-> proxyRecord'[s][c]]]
    BY <1>1, <1>2 DEF UpgradeInv, ShapeInv
  <1>6. ShapeInv'
    BY <1>1, <1>2, <1>5 DEF UpgradeInv, ShapeInv
  <1>7. CallsInv'
    <2>1. \A call : Sound(call)' = Sound(call) /\ Current(call)' = Current(call)
      BY <1>1, <1>3 DEF Sound, Fits, Current
    <2>2. ASSUME NEW call \in Pending PROVE Recorded(call)'
      <3>1. CASE call.do = "upgrade"
        <4>1. call.stack \in Stacks /\ call.contract \in Contracts
          BY <2>2, <3>1, PendingMade DEF UpgradeInv, Made
        <4>2. call.to = Code(call.contract)
          BY <1>2, <1>3, <2>2, <3>1 DEF UpgradeInv, CallsInv, Pending, Current
        <4>3. Recorded(call) \/ call = UpgradeCall
          BY <2>2 DEF UpgradeInv, CallsInv, Pending
        <4>4. CASE call.stack = Stack /\ call.contract = Script
          BY <1>4, <4>1, <4>2, <4>4 DEF Recorded
        <4>5. CASE ~(call.stack = Stack /\ call.contract = Script)
          <5>1. call # UpgradeCall
            BY <4>5 DEF UpgradeCall
          <5> QED
            BY <1>4, <3>1, <4>1, <4>3, <4>5, <5>1 DEF Recorded
        <4> QED
          BY <4>4, <4>5
      <3>2. CASE call.do # "upgrade"
        BY <3>2 DEF Recorded
      <3> QED
        BY <3>1, <3>2
    <2> QED
      BY <1>2, <1>3, <2>1, <2>2 DEF UpgradeInv, CallsInv, Pending
  <1>8. PhaseInv'
    BY <1>1 DEF PhaseInv
  <1>9. ProgressInv'
    <2>1. ASSUME NEW i \in 1..Len(Steps), i < step + 1
          PROVE  Passed(Steps[i][1], Steps[i][2])'
      <3>1. CASE i < step
        BY <1>1, <1>3, <3>1 DEF UpgradeInv, ProgressInv, Passed
      <3>2. CASE i = step
        <4>1. Steps[i][1] = Stack /\ Steps[i][2] = Script
          BY <3>2 DEF Stack, Script
        <4>2. IsUpgrade(UpgradeCall, Stack, Script)
          BY DEF IsUpgrade, UpgradeCall
        <4>3. Script # "list"
          BY <1>2 DEF Contracts
        <4> QED
          BY <1>1, <1>3, <4>1, <4>2, <4>3 DEF Passed
      <3> QED
        BY <1>2, <2>1, <3>1, <3>2
    <2> QED
      BY <1>1, <2>1 DEF ProgressInv
  <1> QED
    BY <1>6, <1>7, <1>8, <1>9 DEF UpgradeInv

-----------------------------------------------------------------------------
(* The file, proposed or thrown away.                                      *)

\* A run that gets to its end has for every stack what the list needs.
LEMMA WholeAtEnd ==
    ASSUME UpgradeInv, AtEnd, batchStarted
    PROVE  WholeIn(chain, batch.txs)
  <1>1. OwnCalls = ToSet(batch.txs)
    BY DEF OwnCalls
  <1>2. ASSUME NEW s \in Stacks, NEW script \in Contracts \cup {"list"}
        PROVE  Passed(s, script)
    <2>1. <<s, script>> \in ToSet(Steps)
      BY ListAssumption
    <2>2. PICK i \in DOMAIN Steps : Steps[i] = <<s, script>>
      BY <2>1 DEF ToSet
    <2>3. i \in 1..Len(Steps) /\ i < step
      BY <2>2, DeploymentAssumption DEF AtEnd, UpgradeInv, ShapeInv
    <2> QED
      BY <2>2, <2>3 DEF UpgradeInv, ProgressInv
  <1>3. Code("gateway") \in ListReaders => Code("treasury") \in ListKeepers
    BY ListAssumption DEF Code, UpgradeInv, LocalInv
  <1>4. ASSUME NEW call \in ToSet(batch.txs), NEW s \in Stacks, NEW c \in Contracts, IsUpgrade(call, s, c)
        PROVE  chain[s].proxied /\ call.to = Code(c)
    <2>1. call \in OwnCalls /\ call \in Pending
      BY <1>1, OwnInFile DEF Pending
    <2> QED
      BY <1>4, <2>1 DEF UpgradeInv, CallsInv, Sound, Current, IsUpgrade
  <1>5. "gateway" \in Contracts /\ "treasury" \in Contracts
    BY DEF Contracts
  <1>6. ASSUME NEW call \in ToSet(batch.txs), NEW s \in Stacks, IsUpgrade(call, s, "gateway"), call.to \in ListReaders
        PROVE  /\ chain[s].treasury \in ListKeepers \/ \E other \in ToSet(batch.txs) : IsUpgrade(other, s, "treasury")
               /\ chain[s].list \/ \E other \in ToSet(batch.txs) : IsList(other, s)
    <2>1. chain[s].proxied /\ Code("treasury") \in ListKeepers
      BY <1>3, <1>4, <1>5, <1>6
    <2>2. Passed(s, "treasury") /\ Passed(s, "list")
      BY <1>2, <1>5
    <2> QED
      BY <1>1, <1>5, <2>1, <2>2 DEF Passed
  <1>7. ASSUME NEW call \in ToSet(batch.txs), NEW s \in Stacks, IsUpgrade(call, s, "treasury"), call.to \notin ListKeepers
        PROVE  chain[s].gateway \notin ListReaders \/ \E other \in ToSet(batch.txs) : IsUpgrade(other, s, "gateway")
    <2>1. chain[s].proxied /\ Code("gateway") \notin ListReaders
      BY <1>3, <1>4, <1>5, <1>7
    <2>2. Passed(s, "gateway")
      BY <1>2, <1>5
    <2> QED
      BY <1>1, <1>5, <2>1, <2>2 DEF Passed
  <1> QED
    BY <1>6, <1>7 DEF WholeIn

LEMMA MarkSets ==
    ASSUME LocalInv, MarkBatch
    PROVE  /\ batchStarted /\ batch'.complete /\ batch'.network = "ethereum" /\ batch'.txs = batch.txs
           /\ OwnCalls' = OwnCalls /\ FileCalls' = FileCalls /\ QueueCalls' = QueueCalls /\ Pending' = Pending
  <1>1. batchStarted /\ UNCHANGED <<batchStarted, safeQueue>>
    BY DEF MarkBatch, MarkComplete, StaleBatch
  <1>2. batch'.complete /\ batch'.network = "ethereum" /\ batch'.txs = batch.txs
    BY DEF MarkBatch, MarkComplete, LocalInv
  <1> QED
    BY <1>1, <1>2 DEF OwnCalls, FileCalls, Proposable, QueueCalls, Pending

LEMMA MarkKeeps ==
    ASSUME UpgradeInv, LocalInv', MarkBatch
    PROVE  UpgradeInv'
  <1>1. /\ UNCHANGED <<chain, source, recordVars, step, batchStarted>> /\ AtEnd /\ phase' = "propose" /\ phase = "start"
    BY DEF MarkBatch, MarkComplete
  <1>2. /\ batch'.complete /\ OwnCalls' = OwnCalls /\ FileCalls' = FileCalls /\ QueueCalls' = QueueCalls
        /\ Pending' = Pending /\ \A c : Code(c)' = Code(c)
    BY <1>1, MarkSets DEF UpgradeInv, Code
  <1>3. ShapeInv'
    BY <1>1 DEF UpgradeInv, ShapeInv, recordVars
  <1>4. CallsInv'
    BY <1>1, <1>2, SameCalls DEF UpgradeInv, CallsInv
  <1>5. PhaseInv'
    BY <1>1, <1>2 DEF PhaseInv, AtEnd
  <1>6. ProgressInv'
    BY <1>1, <1>2 DEF UpgradeInv, ProgressInv, Passed
  <1> QED
    BY <1>3, <1>4, <1>5, <1>6 DEF UpgradeInv

LEMMA MarkKeepsList ==
    ASSUME UpgradeInv, ListInv, MarkBatch
    PROVE  ListInv'
  <1>1. /\ batchStarted /\ batch'.txs = batch.txs /\ Pending' = Pending
        /\ UNCHANGED <<chain, safeQueue>> /\ AtEnd
    BY MarkSets DEF UpgradeInv, MarkBatch, MarkComplete
  <1>2. WholeIn(chain, batch.txs)
    BY <1>1, WholeAtEnd
  <1>3. WholeInv'
    BY <1>1, <1>2 DEF ListInv, WholeInv
  <1>4. GatewayFindsList'
    BY <1>1 DEF ListInv, GatewayFindsList
  <1> QED
    BY <1>1, <1>3, <1>4 DEF ListInv

\* A proposal of a complete batch adds the file's calls to the queue's.
LEMMA ProposedSets ==
    ASSUME LocalInv, batch.network = "ethereum", batch.complete, NEW unlinked \in BOOLEAN, Propose(unlinked),
           batchStarted' = FALSE
    PROVE  /\ QueueCalls' = QueueCalls \cup FileCalls
           /\ FileCalls' \subseteq FileCalls /\ OwnCalls' = {}
           /\ \A i \in DOMAIN safeQueue' :
                  (i \in DOMAIN safeQueue /\ safeQueue'[i] = safeQueue[i]) \/ safeQueue'[i] = batch.txs
           /\ batch'.complete => batch' = batch
  <1>1. safeQueue \in Seq(Seq(Made)) /\ safeQueue' = Append(safeQueue, batch.txs)
    BY DEF LocalInv, Propose
  <1>2. FileCalls = ToSet(batch.txs)
    BY DEF FileCalls, Proposable
  <1>3. /\ DOMAIN safeQueue' = DOMAIN safeQueue \cup {Len(safeQueue) + 1}
        /\ safeQueue'[Len(safeQueue) + 1] = batch.txs
        /\ \A i \in DOMAIN safeQueue : safeQueue'[i] = safeQueue[i]
    BY <1>1
  <1>4. QueueCalls' = QueueCalls \cup FileCalls
    BY <1>2, <1>3 DEF QueueCalls
  <1>5. FileCalls' \subseteq FileCalls
    BY DEF Propose, FileCalls, Proposable, NoBatch
  <1>6. OwnCalls' = {}
    BY DEF OwnCalls
  <1>7. batch'.complete => batch' = batch
    BY DEF Propose, NoBatch
  <1> QED
    BY <1>3, <1>4, <1>5, <1>6, <1>7

LEMMA ProposedKeeps ==
    ASSUME UpgradeInv, LocalInv', batch.network = "ethereum", batch.complete, NEW unlinked \in BOOLEAN, Propose(unlinked),
           UNCHANGED <<chain, source, recordVars>>, batchStarted' = FALSE, step' = 0, phase' = "start"
    PROVE  UpgradeInv'
  <1>1. QueueCalls' = QueueCalls \cup FileCalls /\ FileCalls' \subseteq FileCalls /\ OwnCalls' = {}
    BY ProposedSets DEF UpgradeInv
  <1>2. phase # "queued"
    BY DEF UpgradeInv, PhaseInv
  <1>3. \A call \in FileCalls : Recorded(call)
    BY <1>2 DEF UpgradeInv, CallsInv
  <1>4. Pending' \subseteq Pending
    BY <1>1 DEF Pending
  <1>5. CallsInv'
    BY <1>1, <1>3, <1>4, SameCalls DEF UpgradeInv, CallsInv
  <1>6. ShapeInv'
    BY DEF UpgradeInv, ShapeInv, recordVars
  <1>7. PhaseInv'
    BY DEF PhaseInv
  <1>8. ProgressInv'
    <2>1. \A i \in 1..Len(Steps) : ~(i < step')
      BY DeploymentAssumption
    <2> QED
      BY <2>1 DEF ProgressInv
  <1> QED
    BY <1>5, <1>6, <1>7, <1>8 DEF UpgradeInv

LEMMA ProposedKeepsList ==
    ASSUME LocalInv, ListInv, batch.network = "ethereum", batch.complete, NEW unlinked \in BOOLEAN, Propose(unlinked),
           UNCHANGED chain, batchStarted' = FALSE
    PROVE  ListInv'
  <1>1. /\ QueueCalls' = QueueCalls \cup FileCalls
        /\ FileCalls' \subseteq FileCalls
        /\ \A i \in DOMAIN safeQueue' :
               (i \in DOMAIN safeQueue /\ safeQueue'[i] = safeQueue[i]) \/ safeQueue'[i] = batch.txs
        /\ batch'.complete => batch' = batch
    BY ProposedSets
  <1>2. Pending' \subseteq Pending
    BY <1>1 DEF Pending
  <1>3. Paired(Pending')
    BY <1>2 DEF ListInv, Paired
  <1>4. WholeInv'
    BY <1>1 DEF ListInv, WholeInv
  <1>5. GatewayFindsList'
    BY DEF ListInv, GatewayFindsList
  <1> QED
    BY <1>3, <1>4, <1>5 DEF ListInv

\* Between two processes.
LEMMA IdlePhase == UpgradeInv /\ step = 0 => phase = "start" /\ ~batchStarted /\ OwnCalls = {}
  BY ScriptType DEF UpgradeInv, ShapeInv, PhaseInv, AtUpgrade, LocalInv, OnlyRunsStart, OwnCalls

\* A file that nobody proposes, or none, in place of the one there is.
LEMMA FileReplacedKeeps ==
    ASSUME UpgradeInv, LocalInv', step = 0, UNCHANGED <<chain, source, recordVars, jobVars, batchStarted, safeQueue>>,
           ~batch'.complete \/ batch'.network # "ethereum"
    PROVE  UpgradeInv'
  <1>1. phase = "start" /\ ~batchStarted /\ OwnCalls = {} /\ step' = 0 /\ phase' = "start"
    BY IdlePhase DEF jobVars
  <1>2. QueueCalls' = QueueCalls /\ OwnCalls' = {} /\ FileCalls' = {} /\ Pending' \subseteq Pending
    BY <1>1 DEF QueueCalls, OwnCalls, FileCalls, Proposable, Pending
  <1>3. CallsInv'
    BY <1>1, <1>2, SameCalls DEF UpgradeInv, CallsInv
  <1>4. ShapeInv'
    BY DEF UpgradeInv, ShapeInv, recordVars, jobVars
  <1>5. PhaseInv'
    BY <1>1 DEF PhaseInv
  <1>6. ProgressInv'
    <2>1. \A i \in 1..Len(Steps) : ~(i < step')
      BY <1>1, DeploymentAssumption
    <2> QED
      BY <2>1 DEF ProgressInv
  <1> QED
    BY <1>3, <1>4, <1>5, <1>6 DEF UpgradeInv

LEMMA FileReplacedKeepsList ==
    ASSUME UpgradeInv, ListInv, step = 0, UNCHANGED <<chain, batchStarted, safeQueue>>,
           ~batch'.complete \/ batch'.network # "ethereum"
    PROVE  ListInv'
  <1>1. Pending' \subseteq Pending
    BY IdlePhase DEF QueueCalls, FileCalls, Proposable, Pending
  <1>2. Paired(Pending')
    BY <1>1 DEF ListInv, Paired
  <1>3. WholeInv'
    BY DEF ListInv, WholeInv
  <1>4. GatewayFindsList'
    BY DEF ListInv, GatewayFindsList
  <1> QED
    BY <1>2, <1>3, <1>4 DEF ListInv

LEMMA CommitKeeps ==
    ASSUME UpgradeInv, LocalInv', Commit
    PROVE  UpgradeInv'
  <1>1. UNCHANGED <<chain, recordVars, jobVars, batchVars>> /\ step = 0
    BY DEF Commit
  <1>2. phase = "start" /\ ~batchStarted /\ OwnCalls = {} /\ step' = 0 /\ phase' = "start"
    BY <1>1, IdlePhase DEF jobVars
  <1>3. QueueCalls' = QueueCalls /\ OwnCalls' = {} /\ FileCalls' = FileCalls /\ Pending' = Pending
    BY <1>1, <1>2 DEF batchVars, QueueCalls, OwnCalls, FileCalls, Proposable, Pending
  <1>4. \A call : Sound(call)' = Sound(call) /\ Recorded(call)' = Recorded(call)
    BY <1>1 DEF recordVars, Sound, Fits, Recorded
  <1>5. CallsInv'
    BY <1>2, <1>3, <1>4 DEF UpgradeInv, CallsInv
  <1>6. ShapeInv'
    BY <1>1 DEF UpgradeInv, ShapeInv, recordVars, jobVars
  <1>7. PhaseInv'
    BY <1>2 DEF PhaseInv
  <1>8. ProgressInv'
    <2>1. \A i \in 1..Len(Steps) : ~(i < step')
      BY <1>2, DeploymentAssumption
    <2> QED
      BY <2>1 DEF ProgressInv
  <1> QED
    BY <1>5, <1>6, <1>7, <1>8 DEF UpgradeInv

-----------------------------------------------------------------------------
(* The Safe.                                                               *)

LEMMA QueueTail ==
    ASSUME LocalInv, safeQueue # <<>>, safeQueue' = Tail(safeQueue)
    PROVE  /\ Head(safeQueue) \in Seq(Made)
           /\ ToSet(Head(safeQueue)) \subseteq QueueCalls
           /\ QueueCalls' \subseteq QueueCalls
           /\ \A i \in DOMAIN safeQueue' : \E j \in DOMAIN safeQueue : safeQueue'[i] = safeQueue[j]
           /\ 1 \in DOMAIN safeQueue /\ Head(safeQueue) = safeQueue[1]
  <1>1. safeQueue \in Seq(Seq(Made)) /\ Len(safeQueue) \in Nat \ {0}
    BY DEF LocalInv
  <1>2. 1 \in DOMAIN safeQueue /\ Head(safeQueue) = safeQueue[1] /\ Head(safeQueue) \in Seq(Made)
    BY <1>1
  <1>3. ASSUME NEW i \in DOMAIN safeQueue'
        PROVE  i + 1 \in DOMAIN safeQueue /\ safeQueue'[i] = safeQueue[i + 1]
    BY <1>1, <1>3
  <1>4. QueueCalls' \subseteq QueueCalls
    BY <1>3 DEF QueueCalls
  <1> QED
    BY <1>2, <1>3, <1>4 DEF QueueCalls

\* Whatever leaves the queue, the rest stays as it is.
LEMMA TailKeeps ==
    ASSUME UpgradeInv, LocalInv', safeQueue # <<>>, safeQueue' = Tail(safeQueue),
           UNCHANGED <<chain, source, recordVars, jobVars, batch, batchStarted>>
    PROVE  UpgradeInv'
  <1>1. QueueCalls' \subseteq QueueCalls
    BY QueueTail DEF UpgradeInv
  <1>2. /\ OwnCalls' = OwnCalls /\ FileCalls' = FileCalls /\ Pending' \subseteq Pending
        /\ UpgradeCall' = UpgradeCall /\ AtUpgrade' = AtUpgrade /\ AtEnd' = AtEnd
        /\ Stack' = Stack /\ Script' = Script /\ \A c : Code(c)' = Code(c)
    BY <1>1 DEF OwnCalls, FileCalls, Proposable, Pending, UpgradeCall, AtUpgrade, Running, AtEnd, Stack, Script, Code, jobVars
  <1>3. CallsInv'
    BY <1>1, <1>2, SameCalls DEF UpgradeInv, CallsInv, jobVars
  <1>4. ShapeInv'
    BY DEF UpgradeInv, ShapeInv, recordVars, jobVars
  <1>5. PhaseInv'
    BY <1>2 DEF UpgradeInv, PhaseInv, jobVars, recordVars, Fits, Live
  <1>6. ProgressInv'
    BY <1>2 DEF UpgradeInv, ProgressInv, Passed, jobVars
  <1> QED
    BY <1>3, <1>4, <1>5, <1>6 DEF UpgradeInv

LEMMA TailKeepsList ==
    ASSUME UpgradeInv, ListInv, safeQueue # <<>>, safeQueue' = Tail(safeQueue), UNCHANGED <<chain, batch, batchStarted>>
    PROVE  ListInv'
  <1>1. /\ QueueCalls' \subseteq QueueCalls
        /\ \A i \in DOMAIN safeQueue' : \E j \in DOMAIN safeQueue : safeQueue'[i] = safeQueue[j]
    BY QueueTail DEF UpgradeInv
  <1>2. Paired(Pending')
    BY <1>1 DEF ListInv, Paired, Pending, FileCalls, Proposable
  <1>3. WholeInv'
    BY <1>1 DEF ListInv, WholeInv
  <1>4. GatewayFindsList'
    BY DEF ListInv, GatewayFindsList
  <1> QED
    BY <1>2, <1>3, <1>4 DEF ListInv

LEMMA ExecutedRan ==
    ASSUME UpgradeInv, NEW alone \in BOOLEAN, SafeExecutes(alone)
    PROVE  Ran(chain, chain', ToSet(Head(safeQueue)))
  <1>1. PICK after \in After(chain, Head(safeQueue)) : chain' = after \/ chain' \in Others(after)
    BY DEF SafeExecutes
  <1>2. Head(safeQueue) \in Seq(Made)
    BY QueueTail DEF SafeExecutes, UpgradeInv
  <1>3. Ran(chain, after, ToSet(Head(safeQueue)))
    BY <1>2, AfterRan DEF UpgradeInv, ShapeInv
  <1> QED
    BY <1>1, <1>3, OthersRan

\* An implementation that changes is the one on its proxy's record, fits the one before, and is the run's own
\* while there is a run.
LEMMA ChainMoves ==
    ASSUME UpgradeInv, NEW calls \in SUBSET QueueCalls, Ran(chain, chain', calls),
           NEW s \in Stacks, NEW c \in Contracts, chain'[s][c] # chain[s][c]
    PROVE  /\ \E call \in calls : IsUpgrade(call, s, c) /\ chain'[s][c] = call.to
           /\ chain'[s][c] = proxyRecord[s][c]
           /\ chain'[s][c] \in solcInputs[c]
           /\ <<c, chain[s][c], chain'[s][c]>> \in Compatible
           /\ step # 0 => chain'[s][c] = Code(c)
  <1>1. PICK call \in calls : IsUpgrade(call, s, c) /\ chain'[s][c] = call.to
    BY DEF Ran
  <1>2. call \in QueueCalls /\ call \in Pending
    BY DEF Pending
  <1>3. Sound(call) /\ Recorded(call) /\ (step # 0 => Current(call))
    BY <1>2 DEF UpgradeInv, CallsInv
  <1> QED
    BY <1>1, <1>3 DEF Sound, Recorded, Current, Fits, IsUpgrade

LEMMA ExecuteKeeps ==
    ASSUME UpgradeInv, LocalInv', NEW alone \in BOOLEAN, SafeExecutes(alone)
    PROVE  UpgradeInv'
  <1> DEFINE calls == ToSet(Head(safeQueue))
  <1>1. /\ UNCHANGED <<source, recordVars, jobVars, batch, batchStarted>>
        /\ safeQueue # <<>> /\ safeQueue' = Tail(safeQueue)
    BY DEF SafeExecutes
  <1>2. Ran(chain, chain', calls) /\ calls \in SUBSET QueueCalls /\ QueueCalls' \subseteq QueueCalls
    BY <1>1, ExecutedRan, QueueTail DEF UpgradeInv
  <1> HIDE DEF calls
  <1>3. /\ Shaped(chain')
        /\ \A s \in Stacks : chain'[s].proxied = chain[s].proxied /\ (chain[s].list => chain'[s].list)
    BY <1>2 DEF Ran
  <1>4. ASSUME NEW s \in Stacks, NEW c \in Contracts
        PROVE  \/ chain'[s][c] = chain[s][c]
               \/ /\ chain'[s][c] = proxyRecord[s][c]
                  /\ chain'[s][c] \in solcInputs[c]
                  /\ step # 0 => chain'[s][c] = Code(c)
    BY <1>2, ChainMoves
  <1>5. /\ OwnCalls' = OwnCalls /\ FileCalls' = FileCalls /\ Pending' \subseteq Pending
        /\ UpgradeCall' = UpgradeCall /\ AtEnd' = AtEnd
        /\ Stack' = Stack /\ Script' = Script /\ Running' = Running /\ \A c : Code(c)' = Code(c)
        /\ step' = step /\ phase' = phase /\ currentImpl' = currentImpl
        /\ proxyRecord' = proxyRecord /\ solcInputs' = solcInputs
    BY <1>1, <1>2 DEF OwnCalls, FileCalls, Proposable, Pending, UpgradeCall, Running, AtEnd, Stack, Script, Code, jobVars, recordVars
  <1>6. AtUpgrade' = AtUpgrade
    <2>1. Running => Stack \in Stacks
      BY ScriptType
    <2> QED
      BY <1>3, <1>5, <2>1 DEF AtUpgrade
  <1>7. ShapeInv'
    BY <1>3, <1>4, <1>5 DEF UpgradeInv, ShapeInv
  <1>8. CallsInv'
    <2>1. \A call : Recorded(call)' = Recorded(call) /\ Current(call)' = Current(call)
      BY <1>5 DEF Recorded, Current
    <2>2. ASSUME NEW call \in Pending PROVE Sound(call)'
      <3>1. CASE call.do = "upgrade"
        <4>1. call.stack \in Stacks /\ call.contract \in Contracts
          BY <3>1, <2>2, PendingMade DEF UpgradeInv, Made
        <4>2. Sound(call)
          BY <2>2 DEF UpgradeInv, CallsInv
        <4>3. Recorded(call) \/ (step # 0 /\ Current(call))
          <5>1. phase = "queued" => step # 0 /\ OwnCalls = FileCalls
            BY ScriptType DEF UpgradeInv, PhaseInv, AtUpgrade, OwnCalls, FileCalls, Proposable
          <5> QED
            BY <2>2, <5>1 DEF UpgradeInv, CallsInv, Pending
        <4>4. Fits(call.stack, call.contract, call.to)'
          BY <1>4, <3>1, <4>1, <4>2, <4>3 DEF Sound, Recorded, Current, Fits
        <4> QED
          BY <1>3, <1>5, <3>1, <4>1, <4>2, <4>4 DEF Sound
      <3>2. CASE call.do # "upgrade"
        BY <3>2 DEF Sound
      <3> QED
        BY <3>1, <3>2
    <2> QED
      BY <1>2, <1>5, <2>1, <2>2 DEF UpgradeInv, CallsInv
  <1>9. PhaseInv'
    <2>1. ASSUME phase = "deployed"
          PROVE  Fits(Stack, Script, Code(Script))' /\ (currentImpl = Code(Script) => Live' = Code(Script))
      <3>1. /\ Fits(Stack, Script, Code(Script)) /\ (currentImpl = Code(Script) => Live = Code(Script))
            /\ step # 0 /\ Stack \in Stacks /\ Script \in Contracts
        BY <2>1, ScriptType DEF UpgradeInv, PhaseInv, AtUpgrade
      <3>2. chain'[Stack][Script] = chain[Stack][Script] \/ chain'[Stack][Script] = Code(Script)
        BY <1>4, <3>1
      <3> QED
        BY <1>5, <3>1, <3>2 DEF Fits, Live
    <2> QED
      BY <1>1, <1>5, <1>6, <2>1 DEF UpgradeInv, PhaseInv
  <1>10. ProgressInv'
    <2>1. ASSUME NEW i \in 1..Len(Steps), i < step
          PROVE  Passed(Steps[i][1], Steps[i][2])'
      <3>1. Passed(Steps[i][1], Steps[i][2])
        BY <2>1 DEF UpgradeInv, ProgressInv
      <3>2. Steps[i][1] \in Stacks
        BY DeploymentAssumption
      <3>3. step # 0
        BY <2>1 DEF UpgradeInv, ShapeInv
      <3> QED
        BY <1>3, <1>4, <1>5, <3>1, <3>2, <3>3 DEF Passed
    <2> QED
      BY <1>5, <2>1 DEF ProgressInv
  <1> QED
    BY <1>7, <1>8, <1>9, <1>10 DEF UpgradeInv

LEMMA ExecuteKeepsList ==
    ASSUME UpgradeInv, ListInv, NEW alone \in BOOLEAN, SafeExecutes(alone)
    PROVE  ListInv'
  <1> DEFINE txs == Head(safeQueue)
             calls == ToSet(txs)
  <1>1. safeQueue # <<>> /\ safeQueue' = Tail(safeQueue) /\ UNCHANGED <<batch, batchStarted>>
    BY DEF SafeExecutes
  <1>2. /\ calls \in SUBSET QueueCalls /\ QueueCalls' \subseteq QueueCalls
        /\ \A i \in DOMAIN safeQueue' : \E j \in DOMAIN safeQueue : safeQueue'[i] = safeQueue[j]
        /\ WholeIn(chain, txs)
    BY <1>1, QueueTail DEF UpgradeInv, ListInv, WholeInv
  <1>3. Ran(chain, chain', calls)
    BY ExecutedRan
  <1>4. calls \subseteq Pending /\ Pending' \subseteq Pending
    BY <1>1, <1>2 DEF Pending, FileCalls, Proposable
  <1> HIDE DEF txs
  <1>5. "gateway" \in Contracts /\ "treasury" \in Contracts
    BY DEF Contracts
  <1>6. ASSUME NEW s \in Stacks
        PROVE  /\ \/ chain'[s].gateway = chain[s].gateway /\ ~\E call \in calls : IsUpgrade(call, s, "gateway")
                  \/ \E call \in calls : IsUpgrade(call, s, "gateway") /\ chain'[s].gateway = call.to
               /\ \/ chain'[s].treasury = chain[s].treasury /\ ~\E call \in calls : IsUpgrade(call, s, "treasury")
                  \/ \E call \in calls : IsUpgrade(call, s, "treasury") /\ chain'[s].treasury = call.to
               /\ chain[s].list \/ (\E call \in calls : IsList(call, s)) => chain'[s].list
    <2> HIDE DEF calls
    <2>1. /\ \/ chain'[s]["gateway"] = chain[s]["gateway"] /\ ~\E call \in calls : IsUpgrade(call, s, "gateway")
             \/ \E call \in calls : IsUpgrade(call, s, "gateway") /\ chain'[s]["gateway"] = call.to
          /\ \/ chain'[s]["treasury"] = chain[s]["treasury"] /\ ~\E call \in calls : IsUpgrade(call, s, "treasury")
             \/ \E call \in calls : IsUpgrade(call, s, "treasury") /\ chain'[s]["treasury"] = call.to
      BY <1>3, <1>5 DEF Ran
    <2>2. chain[s].list \/ (\E call \in calls : IsList(call, s)) => chain'[s].list
      BY <1>3 DEF Ran
    <2> QED
      BY <2>1, <2>2
  <1>7. GatewayFindsList'
    <2>1. SUFFICES ASSUME NEW s \in Stacks, chain'[s].gateway \in ListReaders
                   PROVE  chain'[s].treasury \in ListKeepers /\ chain'[s].list
      BY DEF GatewayFindsList
    <2>2. CASE \E call \in calls : IsUpgrade(call, s, "gateway") /\ chain'[s].gateway = call.to
      <3>1. PICK call \in calls : IsUpgrade(call, s, "gateway") /\ call.to \in ListReaders
        BY <2>1, <2>2
      <3>2. /\ chain[s].treasury \in ListKeepers \/ \E other \in calls : IsUpgrade(other, s, "treasury")
            /\ chain[s].list \/ \E other \in calls : IsList(other, s)
        BY <1>2, <3>1 DEF WholeIn
      <3>3. \A other \in calls : IsUpgrade(other, s, "treasury") => other.to \in ListKeepers
        BY <1>4, <3>1 DEF ListInv, Paired
      <3> HIDE DEF calls
      <3> QED
        BY <1>6, <3>2, <3>3
    <2>3. CASE /\ chain'[s].gateway = chain[s].gateway
               /\ ~\E call \in calls : IsUpgrade(call, s, "gateway")
      <3>1. chain[s].treasury \in ListKeepers /\ chain[s].list
        BY <2>1, <2>3 DEF ListInv, GatewayFindsList
      <3>2. ASSUME NEW other \in calls, IsUpgrade(other, s, "treasury")
            PROVE  other.to \in ListKeepers
        BY <1>2, <2>1, <2>3, <3>2 DEF WholeIn
      <3> HIDE DEF calls
      <3> QED
        BY <1>6, <3>1, <3>2
    <2> QED
      BY <1>6, <2>2, <2>3
  <1>8. Paired(Pending')
    BY <1>4 DEF ListInv, Paired
  <1>9. ASSUME NEW other, WholeIn(chain, other), ToSet(other) \subseteq Pending
        PROVE  WholeIn(chain', other)
    <2>1. ASSUME NEW call \in ToSet(other), NEW s \in Stacks, IsUpgrade(call, s, "gateway"), call.to \in ListReaders
          PROVE  /\ chain'[s].treasury \in ListKeepers \/ \E o \in ToSet(other) : IsUpgrade(o, s, "treasury")
                 /\ chain'[s].list \/ \E o \in ToSet(other) : IsList(o, s)
      <3>1. /\ chain[s].treasury \in ListKeepers \/ \E o \in ToSet(other) : IsUpgrade(o, s, "treasury")
            /\ chain[s].list \/ \E o \in ToSet(other) : IsList(o, s)
        BY <1>9, <2>1 DEF WholeIn
      <3>2. \A o \in calls : IsUpgrade(o, s, "treasury") => o.to \in ListKeepers
        BY <1>4, <1>9, <2>1 DEF ListInv, Paired
      <3> HIDE DEF calls
      <3> QED
        BY <1>6, <3>1, <3>2
    <2>2. ASSUME NEW call \in ToSet(other), NEW s \in Stacks, IsUpgrade(call, s, "treasury"), call.to \notin ListKeepers
          PROVE  chain'[s].gateway \notin ListReaders \/ \E o \in ToSet(other) : IsUpgrade(o, s, "gateway")
      <3>1. chain[s].gateway \notin ListReaders \/ \E o \in ToSet(other) : IsUpgrade(o, s, "gateway")
        BY <1>9, <2>2 DEF WholeIn
      <3>2. \A o \in calls : IsUpgrade(o, s, "gateway") => o.to \notin ListReaders
        BY <1>4, <1>9, <2>2 DEF ListInv, Paired
      <3> HIDE DEF calls
      <3> QED
        BY <1>6, <3>1, <3>2
    <2> QED
      BY <2>1, <2>2 DEF WholeIn
  <1>10. WholeInv'
    <2>1. ASSUME NEW i \in DOMAIN safeQueue'
          PROVE  WholeIn(chain', safeQueue'[i])
      <3>1. PICK j \in DOMAIN safeQueue : safeQueue'[i] = safeQueue[j]
        BY <1>2, <2>1
      <3>2. WholeIn(chain, safeQueue[j]) /\ ToSet(safeQueue[j]) \subseteq Pending
        BY DEF ListInv, WholeInv, QueueCalls, Pending
      <3> QED
        BY <1>9, <3>1, <3>2
    <2>2. ASSUME batch.network = "ethereum" /\ batch.complete
          PROVE  WholeIn(chain', batch.txs)
      <3>1. WholeIn(chain, batch.txs) /\ ToSet(batch.txs) \subseteq Pending
        BY <2>2 DEF ListInv, WholeInv, FileCalls, Proposable, Pending
      <3> QED
        BY <1>9, <3>1
    <2> QED
      BY <1>1, <2>1, <2>2 DEF WholeInv
  <1> QED
    BY <1>7, <1>8, <1>10 DEF ListInv

-----------------------------------------------------------------------------
(* The invariants hold.                                                    *)

LEMMA UpgradeInvInit == DeploymentInit => UpgradeInv /\ ListInv
  <1> SUFFICES ASSUME DeploymentInit PROVE UpgradeInv /\ ListInv
    OBVIOUS
  <1>1. /\ chain \in LiveAtStart /\ batch = NoBatch /\ batchStarted = FALSE /\ safeQueue = <<>>
        /\ step = 0 /\ phase = "start"
        /\ proxyRecord = [s \in Stacks |-> [c \in Contracts |-> chain[s][c]]]
        /\ solcInputs = [c \in Contracts |-> {chain[s][c] : s \in Stacks}]
    BY DEF DeploymentInit, BatchInit
  <1>2. Shaped(chain)
    BY <1>1, DeploymentAssumption DEF Shaped, StackFields
  <1>3. ShapeInv
    BY <1>1, <1>2 DEF ShapeInv
  <1>4. QueueCalls = {} /\ OwnCalls = {} /\ FileCalls = {} /\ Pending = {}
    BY <1>1 DEF QueueCalls, OwnCalls, FileCalls, Proposable, Pending, NoBatch
  <1>5. CallsInv /\ PhaseInv
    BY <1>1, <1>4 DEF CallsInv, PhaseInv
  <1>6. ProgressInv
    <2>1. \A i \in 1..Len(Steps) : ~(i < step)
      BY <1>1, DeploymentAssumption
    <2> QED
      BY <2>1 DEF ProgressInv
  <1>7. Paired(Pending) /\ WholeInv
    BY <1>1, <1>4 DEF Paired, WholeInv, NoBatch
  <1>8. GatewayFindsList
    BY <1>1, ListAssumption DEF GatewayFindsList
  <1> QED
    BY <1>3, <1>5, <1>6, <1>7, <1>8, LocalInvInit DEF UpgradeInv, ListInv

LEMMA UpgradeInvNext == UpgradeInv /\ [DeploymentNext]_vars => UpgradeInv'
  <1> SUFFICES ASSUME UpgradeInv, [DeploymentNext]_vars PROVE UpgradeInv'
    OBVIOUS
  <1>0. LocalInv'
    BY LocalInvNext DEF UpgradeInv
  <1>1. CASE StartDeploy
    BY <1>0, <1>1, StartDeployKeeps
  <1>2. CASE SkipScript
    BY <1>0, <1>2, SkipScriptKeeps
  <1>3. CASE DeployImplementation
    BY <1>0, <1>3, DeployKeeps
  <1>4. CASE QueueUpgrade
    BY <1>0, <1>4, QueueUpgradeKeeps
  <1>5. CASE RecordUpgrade
    BY <1>0, <1>5, RecordKeeps
  <1>6. CASE GrantRole
    BY <1>0, <1>6, GrantRoleKeeps
  <1>7. CASE SetSanctionsList
    BY <1>0, <1>7, SetSanctionsListKeeps
  <1>8. CASE NothingToQueue
    BY <1>0, <1>8, NothingToQueueKeeps
  <1>9. CASE Throws \/ NothingToPropose \/ Crash
    BY <1>0, <1>9, EndKeeps DEF Throws, NothingToPropose, Crash
  <1>10. CASE MarkBatch
    BY <1>0, <1>10, MarkKeeps
  <1>11. ASSUME NEW unlinked \in BOOLEAN, ProposeBatch(unlinked)
         PROVE  UpgradeInv'
    <2>1. batch.network = "ethereum" /\ batch.complete
      BY <1>11 DEF ProposeBatch, UpgradeInv, LocalInv, ProposedByNetwork, PhaseInv
    <2>2. /\ Propose(unlinked) /\ UNCHANGED <<chain, source, recordVars>>
          /\ batchStarted' = FALSE /\ step' = 0 /\ phase' = "start"
      BY <1>11 DEF ProposeBatch, EndProcess, GoTo
    <2> QED
      BY <1>0, <2>1, <2>2, ProposedKeeps
  <1>12. ASSUME NEW complete \in BOOLEAN, RehearsalDies(complete)
         PROVE  UpgradeInv'
    <2>1. batch'.network # "ethereum"
      BY <1>12 DEF RehearsalDies
    <2>2. step = 0 /\ UNCHANGED <<chain, source, recordVars, jobVars, batchStarted, safeQueue>>
      BY <1>12 DEF RehearsalDies
    <2> QED
      BY <1>0, <2>1, <2>2, FileReplacedKeeps
  <1>13. CASE ProposeLeftover
    <2>1. /\ batch.network = "ethereum" /\ batch.complete /\ step = 0 /\ Propose(TRUE)
          /\ UNCHANGED <<chain, source, recordVars, jobVars, batchStarted>>
      BY <1>13 DEF ProposeLeftover, MayProposeLeftover
    <2>2. batchStarted' = FALSE /\ step' = 0 /\ phase' = "start"
      BY <2>1, IdlePhase DEF jobVars, UpgradeInv, LocalInv
    <2> QED
      BY <1>0, <2>1, <2>2, ProposedKeeps
  <1>14. CASE Discard
    <2>1. /\ ~batch'.complete /\ step = 0
          /\ UNCHANGED <<chain, source, recordVars, jobVars, batchStarted, safeQueue>>
      BY <1>14 DEF Discard, DiscardBatch, NoBatch
    <2> QED
      BY <1>0, <2>1, FileReplacedKeeps
  <1>15. ASSUME NEW alone \in BOOLEAN, SafeExecutes(alone)
         PROVE  UpgradeInv'
    BY <1>0, <1>15, ExecuteKeeps
  <1>16. CASE SafeRejects
    BY <1>0, <1>16, TailKeeps DEF SafeRejects
  <1>17. CASE Commit
    BY <1>0, <1>17, CommitKeeps
  <1>18. CASE UNCHANGED vars
    <2>1. /\ OwnCalls' = OwnCalls /\ FileCalls' = FileCalls /\ QueueCalls' = QueueCalls /\ Pending' = Pending
          /\ UpgradeCall' = UpgradeCall /\ AtUpgrade' = AtUpgrade /\ AtEnd' = AtEnd
          /\ Stack' = Stack /\ Script' = Script /\ Live' = Live /\ \A c : Code(c)' = Code(c)
          /\ \A s, c, v : Fits(s, c, v)' = Fits(s, c, v)
      BY <1>18 DEF vars, jobVars, batchVars, recordVars, OwnCalls, FileCalls, Proposable, QueueCalls, Pending,
                   UpgradeCall, AtUpgrade, Running, AtEnd, Stack, Script, Live, Code, Fits
    <2>2. ShapeInv' /\ PhaseInv' /\ ProgressInv'
      BY <1>18, <2>1 DEF vars, jobVars, batchVars, recordVars, UpgradeInv, ShapeInv, PhaseInv, ProgressInv, Passed
    <2>3. CallsInv'
      BY <1>18, <2>1, SameCalls DEF vars, jobVars, UpgradeInv, CallsInv
    <2> QED
      BY <1>0, <2>2, <2>3 DEF UpgradeInv
  <1> QED
    BY <1>1, <1>2, <1>3, <1>4, <1>5, <1>6, <1>7, <1>8, <1>9, <1>10, <1>11, <1>12, <1>13, <1>14, <1>15,
       <1>16, <1>17, <1>18 DEF DeploymentNext, DeploySteps

LEMMA ListInvNext == UpgradeInv /\ ListInv /\ [DeploymentNext]_vars => ListInv'
  <1> SUFFICES ASSUME UpgradeInv, ListInv, [DeploymentNext]_vars PROVE ListInv'
    OBVIOUS
  <1>1. CASE StartDeploy \/ SkipScript \/ DeployImplementation \/ RecordUpgrade \/ NothingToQueue
    <2>1. UNCHANGED <<chain, batchVars>>
      BY <1>1 DEF StartDeploy, SkipScript, DeployImplementation, RecordUpgrade, NothingToQueue
    <2> QED
      BY <2>1, ControlKeepsList DEF batchVars
  <1>2. CASE QueueUpgrade
    <2> DEFINE call == UpgradeCall
    <2>1. /\ Running /\ call \in Made /\ step # 0 /\ Current(call)
          /\ SaveForMultiSig("ethereum", call) /\ UNCHANGED chain
      BY <1>2, ScriptType, CallsAreMade DEF QueueUpgrade, AtUpgrade, UpgradeInv, LocalInv, Current, UpgradeCall
    <2> HIDE DEF call
    <2> QED
      BY <2>1, SavedKeepsList
  <1>3. ASSUME NEW name \in {"manager", "list"}, Running, UNCHANGED chain,
               SaveForMultiSig("ethereum", [do |-> name, stack |-> Stack, built |-> "ethereum"])
        PROVE  ListInv'
    <2> DEFINE call == [do |-> name, stack |-> Stack, built |-> "ethereum"]
    <2>1. call \in Made /\ step # 0 /\ Current(call)
      BY <1>3, ScriptType, CallsAreMade DEF UpgradeInv, LocalInv, Current
    <2>2. SaveForMultiSig("ethereum", call)
      BY <1>3
    <2> HIDE DEF call
    <2> QED
      BY <1>3, <2>1, <2>2, SavedKeepsList
  <1>4. CASE GrantRole \/ SetSanctionsList
    BY <1>3, <1>4 DEF GrantRole, SetSanctionsList, AtManager, AtList
  <1>5. CASE Throws \/ NothingToPropose \/ Crash
    <2>1. UNCHANGED <<chain, batch, safeQueue>> /\ batchStarted' = FALSE
      BY <1>5 DEF Throws, NothingToPropose, Crash, EndProcess
    <2> QED
      BY <2>1, ControlKeepsList
  <1>6. CASE MarkBatch
    BY <1>6, MarkKeepsList
  <1>7. ASSUME NEW unlinked \in BOOLEAN, ProposeBatch(unlinked)
        PROVE  ListInv'
    <2>1. batch.network = "ethereum" /\ batch.complete
      BY <1>7 DEF ProposeBatch, UpgradeInv, LocalInv, ProposedByNetwork, PhaseInv
    <2>2. Propose(unlinked) /\ UNCHANGED chain /\ batchStarted' = FALSE
      BY <1>7 DEF ProposeBatch, EndProcess
    <2> QED
      BY <2>1, <2>2, ProposedKeepsList DEF UpgradeInv
  <1>8. CASE ProposeLeftover
    <2>1. /\ batch.network = "ethereum" /\ batch.complete /\ step = 0 /\ Propose(TRUE)
          /\ UNCHANGED <<chain, batchStarted>>
      BY <1>8 DEF ProposeLeftover, MayProposeLeftover
    <2>2. batchStarted' = FALSE
      BY <2>1, IdlePhase DEF UpgradeInv, LocalInv
    <2> QED
      BY <2>1, <2>2, ProposedKeepsList DEF UpgradeInv
  <1>9. ASSUME NEW complete \in BOOLEAN, RehearsalDies(complete)
        PROVE  ListInv'
    <2>1. batch'.network # "ethereum"
      BY <1>9 DEF RehearsalDies
    <2>2. step = 0 /\ UNCHANGED <<chain, batchStarted, safeQueue>>
      BY <1>9 DEF RehearsalDies
    <2> QED
      BY <2>1, <2>2, FileReplacedKeepsList
  <1>10. CASE Discard
    <2>1. ~batch'.complete /\ step = 0 /\ UNCHANGED <<chain, batchStarted, safeQueue>>
      BY <1>10 DEF Discard, DiscardBatch, NoBatch
    <2> QED
      BY <2>1, FileReplacedKeepsList
  <1>11. ASSUME NEW alone \in BOOLEAN, SafeExecutes(alone)
         PROVE  ListInv'
    BY <1>11, ExecuteKeepsList
  <1>12. CASE SafeRejects
    BY <1>12, TailKeepsList DEF SafeRejects
  <1>13. CASE Commit \/ UNCHANGED vars
    BY <1>13, ControlKeepsList DEF Commit, vars, batchVars
  <1> QED
    BY <1>1, <1>2, <1>4, <1>5, <1>6, <1>7, <1>8, <1>9, <1>10, <1>11, <1>12, <1>13 DEF DeploymentNext, DeploySteps

LEMMA UpgradeInvHolds == DeploymentSpec => []UpgradeInv
  <1>1. DeploymentInit => UpgradeInv
    BY UpgradeInvInit
  <1> QED
    BY <1>1, UpgradeInvNext, PTL DEF DeploymentSpec

LEMMA SourceOnRecord == UpgradeInv => FailsOnlyUnsafe
  <1> SUFFICES ASSUME UpgradeInv, ~Refused PROVE ValidateUpgrades
    BY DEF FailsOnlyUnsafe
  <1>1. SUFFICES ASSUME NEW s \in Stacks, NEW c \in Upgradable(s) PROVE UpgradeSafe(s, c)
    BY DEF ValidateUpgrades
  <1>2. c \in Contracts
    BY DEF Upgradable
  <1>3. chain[s][c] \in LiveSources(s, c)
    BY <1>2 DEF UpgradeInv, ShapeInv, LiveSources
  <1>4. chain[s][c] = Code(c) \/ <<c, chain[s][c], Code(c)>> \in Compatible
    BY DEF Refused
  <1> QED
    BY <1>3, <1>4 DEF UpgradeSafe

\* validate-upgrades never fails for want of the live source: whatever the Safe executes, however late, and
\* whatever dies, its source is on record; for any stacks, sources, compatibility and number of events.
THEOREM FailuresAreUnsafe == DeploymentSpec => []FailsOnlyUnsafe
  BY UpgradeInvHolds, SourceOnRecord, PTL

LEMMA SettledQueue == UpgradeInv => ReleasedWhenSettled
  <1> SUFFICES ASSUME UpgradeInv, NEW s \in Stacks, MayRelease({s}),
                      NEW i \in DOMAIN safeQueue, NEW call \in UpgradesTo(safeQueue[i]), call.stack = s
               PROVE  call.to = chain[s][call.contract]
    BY DEF ReleasedWhenSettled
  <1>1. call \in QueueCalls /\ call.do = "upgrade"
    BY DEF QueueCalls, UpgradesTo
  <1>2. call \in Pending /\ call \in Made
    BY <1>1, PendingMade DEF Pending, UpgradeInv
  <1>3. call.to = proxyRecord[s][call.contract] /\ chain[s].proxied
    BY <1>1, <1>2 DEF UpgradeInv, CallsInv, Sound, Recorded
  <1>4. call.contract \in Upgradable(s)
    BY <1>1, <1>2, <1>3 DEF Upgradable, Made
  <1>5. proxyRecord[s][call.contract] = chain[s][call.contract]
    BY <1>4 DEF MayRelease, UpgradePending
  <1> QED
    BY <1>3, <1>5

\* create-release never cuts a manifest while a proposal waits that replaces what the manifest names.
THEOREM ReleasesAreSettled == DeploymentSpec => []ReleasedWhenSettled
  BY UpgradeInvHolds, SettledQueue, PTL

LEMMA UpgradeStep ==
    UpgradeInv /\ [DeploymentNext]_vars =>
        [\A s \in Stacks, c \in Contracts :
            chain'[s][c] # chain[s][c] => <<c, chain[s][c], chain'[s][c]>> \in Compatible]_vars
  <1> SUFFICES ASSUME UpgradeInv, DeploymentNext, NEW s \in Stacks, NEW c \in Contracts, chain'[s][c] # chain[s][c]
               PROVE  <<c, chain[s][c], chain'[s][c]>> \in Compatible
    OBVIOUS
  <1>1. PICK alone \in BOOLEAN : SafeExecutes(alone)
    BY DEF DeploymentNext, DeploySteps, StartDeploy, SkipScript, DeployImplementation, QueueUpgrade, RecordUpgrade,
           GrantRole, SetSanctionsList, NothingToQueue, Throws, NothingToPropose, MarkBatch, ProposeBatch, Crash,
           RehearsalDies, ProposeLeftover, Discard, SafeRejects, Commit
  <1>2. Ran(chain, chain', ToSet(Head(safeQueue))) /\ ToSet(Head(safeQueue)) \subseteq QueueCalls
    BY <1>1, ExecutedRan, QueueTail DEF SafeExecutes, UpgradeInv
  <1> QED
    BY <1>2, ChainMoves

\* No proxy ever gets an implementation whose storage does not fit the one it had, however many stacks share
\* the implementations, whichever run dies and however late the Safe executes.
THEOREM StorageAlwaysFits == DeploymentSpec => UpgradesCompatible
  BY UpgradeInvHolds, UpgradeStep, PTL DEF DeploymentSpec, UpgradesCompatible

\* A Gateway that asks the Treasury for the sanctions list always finds one: Treasury, Gateway and list go live
\* in one proposal, whatever run it is from and whatever is executed or rejected before it.
THEOREM ListAlwaysFound == DeploymentSpec => []GatewayFindsList
  <1>1. DeploymentInit => UpgradeInv /\ ListInv
    BY UpgradeInvInit
  <1>2. ListInv => GatewayFindsList
    BY DEF ListInv
  <1> QED
    BY <1>1, <1>2, UpgradeInvNext, ListInvNext, PTL DEF DeploymentSpec
================================================================================
