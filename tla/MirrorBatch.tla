------------------------------- MODULE MirrorBatch -------------------------------
(***************************************************************************)
(* The Safe calls that turn a new Treasury into a copy of the live one and *)
(* hand the collateral over, and what each of them does on chain.          *)
(* A chain state is a record: both Treasuries, the one the token uses, the *)
(* vaults' whitelists (a vault is named by its token), the Gateway's       *)
(* implementation and the collateral each Treasury holds.                  *)
(***************************************************************************)
EXTENDS Integers, FiniteSets, SequencesExt

CONSTANTS
    Tokens,          \* collateral
    Gated,           \* the tokens whose yield vault whitelists its depositors
    Safe,
    INIT_TOLERANCE,  \* priceTolerance and admin delay initialize sets
    INIT_DELAY

Unlisted == [config |-> "none", deposit |-> FALSE, withdraw |-> FALSE, band |-> 0]
Opened(config) == [config |-> config, deposit |-> TRUE, withdraw |-> TRUE, band |-> 0]

\* A Treasury as initialize leaves it.
Fresh(admin) ==
    [tokens |-> <<>>, cfg |-> [t \in Tokens |-> Unlisted], tolerance |-> INIT_TOLERANCE,
     swapper |-> "none", roles |-> {}, admin |-> admin, delay |-> INIT_DELAY, pending |-> "none"]

HasToken(s, t) == Contains(s.tokens, t)

\* What a Treasury always is: its list is one of collateral, its role holders are finitely many.
IsTreasury(s) ==
    /\ DOMAIN s = {"tokens", "cfg", "tolerance", "swapper", "roles", "admin", "delay", "pending"}
    /\ s.tokens \in Seq(Tokens)
    /\ IsFiniteSet(s.roles)

\* No token is listed twice, each has a whole configuration, and the tolerance is a number.
WellFormed(s) ==
    /\ s.tolerance \in Nat
    /\ \A i, j \in DOMAIN s.tokens : s.tokens[i] = s.tokens[j] => i = j
    /\ s.cfg = [t \in Tokens |-> [config |-> s.cfg[t].config, deposit |-> s.cfg[t].deposit,
                                withdraw |-> s.cfg[t].withdraw, band |-> s.cfg[t].band]]
    /\ \A t \in Tokens : {s.cfg[t].deposit, s.cfg[t].withdraw} \subseteq BOOLEAN /\ s.cfg[t].band \in Nat

-----------------------------------------------------------------------------
(* On chain.                                                               *)

\* The Treasury a call is sent to; one to the token, a vault or the Gateway's ProxyAdmin is to neither.
SentTo(call) ==
    CASE call.do \in {"updateTreasury", "allow", "forbid", "upgradeGateway"} -> "neither"
      [] call.do = "addToWhitelist" -> call.on
      [] call.do = "migrate" -> "old"
      [] OTHER -> "new"

\* Whether the called contract accepts the call from the Safe.
Accepts(c, call) ==
    LET holds(role) == <<role, Safe>> \in c.new.roles IN
    CASE call.do = "addToWhitelist" -> c[call.on].admin = Safe /\ ~HasToken(c[call.on], call.token)
      [] call.do \in {"grantRole", "revokeRole"} -> c.new.admin = Safe
      [] call.do = "updatePriceTolerance" ->
            /\ holds("maintainer")
            /\ \A t \in Tokens : c.new.cfg[t].band = 0 \/ c.new.cfg[t].band < call.value
      [] call.do = "updateSwapper" -> holds("maintainer")
      [] call.do = "updatePegBand" ->
            /\ HasToken(c.new, call.token)
            /\ IF call.value < c.new.cfg[call.token].band THEN holds("maintainer") ELSE c.new.admin = Safe
            /\ call.value = 0 \/ call.value < c.new.tolerance
      [] call.do \in {"setDepositActive", "setWithdrawActive"} -> holds("keeper") /\ HasToken(c.new, call.token)
      [] call.do = "migrate" -> c.old.admin = Safe /\ c.token = "new"
      [] OTHER -> TRUE

Effect(c, call) ==
    CASE call.do = "allow" -> [c EXCEPT !.access = @ \cup {<<call.token, "new">>}]
      [] call.do = "forbid" -> [c EXCEPT !.access = @ \ {<<call.token, "old">>}]
      [] call.do = "addToWhitelist" ->
            [c EXCEPT ![call.on].tokens = Append(@, call.token), ![call.on].cfg[call.token] = Opened(call.value)]
      [] call.do = "grantRole" -> [c EXCEPT !.new.roles = @ \cup {call.grant}]
      [] call.do = "revokeRole" -> [c EXCEPT !.new.roles = @ \ {call.grant}]
      [] call.do = "updatePriceTolerance" -> [c EXCEPT !.new.tolerance = call.value]
      [] call.do = "updateSwapper" -> [c EXCEPT !.new.swapper = call.value]
      [] call.do = "updatePegBand" -> [c EXCEPT !.new.cfg[call.token].band = call.value]
      [] call.do = "setDepositActive" -> [c EXCEPT !.new.cfg[call.token].deposit = call.value]
      [] call.do = "setWithdrawActive" -> [c EXCEPT !.new.cfg[call.token].withdraw = call.value]
      [] call.do = "updateTreasury" -> [c EXCEPT !.token = call.on]
      [] call.do = "migrate" -> [c EXCEPT !.held = [old |-> 0, new |-> @.new + @.old]]
      [] call.do = "upgradeGateway" -> [c EXCEPT !.gateway = call.value]

\* The state the calls lead to, one after another; none if one of them reverts.
RunCalls(c, calls) ==
    FoldLeft(LAMBDA reached, call : {Effect(at, call) : at \in {at \in reached : Accepts(at, call)}}, {c}, calls)

-----------------------------------------------------------------------------
(* buildMirrorBatch, from the two states as read.                          *)

\* What each element of a list contributes, in the order of the list.
ForEach(list, given) == FlattenSeq([i \in DOMAIN list |-> given[list[i]]])
When(condition, call) == IF condition THEN <<call>> ELSE <<>>

Grant(g) == [do |-> "grantRole", grant |-> g]
Revoke(g) == [do |-> "revokeRole", grant |-> g]

\* Steps 1 and 7: a call to each gated vault of the live collateral that lets `side` in, or does not.
VaultCalls(old, access, side, inside, do) ==
    ForEach(old.tokens,
            [t \in Tokens |-> When(t \in Gated /\ (<<t, side>> \in access) = inside, [do |-> do, token |-> t])])

\* Step 2: in the live order, what the new Treasury does not list yet.
Collateral(old, new) ==
    ForEach(old.tokens,
            [t \in Tokens |-> When(~HasToken(new, t),
                [do |-> "addToWhitelist", on |-> "new", token |-> t, value |-> old.cfg[t].config])])

\* Step 4.  addToWhitelist opens both flags.
Flags(new, t) == IF HasToken(new, t) THEN new.cfg[t] ELSE Opened("none")
TokenFlags(old, new, t) ==
    LET from == Flags(new, t) to == old.cfg[t] IN
    When(from.deposit # to.deposit, [do |-> "setDepositActive", token |-> t, value |-> to.deposit])
    \o When(from.withdraw # to.withdraw, [do |-> "setWithdrawActive", token |-> t, value |-> to.withdraw])

Settings(old, new) ==
    When(new.tolerance # old.tolerance, [do |-> "updatePriceTolerance", value |-> old.tolerance])
    \o When(new.swapper # old.swapper, [do |-> "updateSwapper", value |-> old.swapper])
    \o ForEach(old.tokens,
               [t \in Tokens |-> When(new.cfg[t].band # old.cfg[t].band,
                   [do |-> "updatePegBand", token |-> t, value |-> old.cfg[t].band])])
    \o ForEach(old.tokens, [t \in Tokens |-> TokenFlags(old, new, t)])

\* The roles those settings need.
Needs(old, new) ==
    {role \in {"keeper", "maintainer"} :
        IF role = "keeper" THEN \E t \in ToSet(old.tokens) : TokenFlags(old, new, t) # <<>>
        ELSE \/ new.tolerance # old.tolerance
             \/ new.swapper # old.swapper
             \/ \E t \in ToSet(old.tokens) : old.cfg[t].band < new.cfg[t].band}

\* Granted to the Safe for the batch only, unless it holds the role on either Treasury.
Temporary(old, new) ==
    {<<role, Safe>> : role \in Needs(old, new)} \ (old.roles \cup new.roles)

\* What the code throws at instead of building.
MirrorRefused(old, new) ==
    \/ \E t \in ToSet(new.tokens) : ~HasToken(old, t) \/ new.cfg[t].config # old.cfg[t].config
    \/ new.swapper # old.swapper /\ old.swapper = "none"
    \/ \E t \in ToSet(old.tokens) :
            /\ new.cfg[t].band # old.cfg[t].band
            /\ old.cfg[t].band > 0
            /\ old.cfg[t].band >= old.tolerance

BuildMirrorBatch(old, new, access) ==
    VaultCalls(old, access, "new", FALSE, "allow")
    \o Collateral(old, new)
    \o SetToSeq({Grant(g) : g \in old.roles \ new.roles})
    \o SetToSeq({Grant(g) : g \in Temporary(old, new)})
    \o Settings(old, new)
    \o SetToSeq({Revoke(g) : g \in Temporary(old, new)})
    \o SetToSeq({Revoke(g) : g \in new.roles \ old.roles})
    \o <<[do |-> "updateTreasury", on |-> "new"], [do |-> "migrate"]>>
    \o VaultCalls(old, access, "old", TRUE, "forbid")

-----------------------------------------------------------------------------
(* verifyMigrated: what must be equal.                                     *)

ExactCopy(old, new) ==
    /\ old.pending = "none"
    /\ \A field \in {"tokens", "tolerance", "swapper", "roles", "admin", "delay"} : new[field] = old[field]
    /\ \A t \in ToSet(old.tokens) : new.cfg[t] = old.cfg[t]

================================================================================
