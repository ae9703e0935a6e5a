---------------------------- MODULE MigrationProofs ----------------------------
(***************************************************************************)
(* What keeps a migration whole, for any collateral, Treasuries, scripts,  *)
(* roles, code versions and bounds: the Treasury that holds the collateral *)
(* is on record, the token never points at one without collateral, the     *)
(* Gateway moves with the Treasury, and no half migration reaches the Safe.*)
(*                                                                         *)
(* None of the four is inductive.  Whether a list of calls may run depends *)
(* on the state it runs in, which is not the state it was built in: every  *)
(* list in the batch file, in the Safe's queue or still to be sent on a    *)
(* fork must stay one whose calls fit the records (Ready), and every one   *)
(* that moves the token must carry the collateral along (Batchable).       *)
(***************************************************************************)
EXTENDS TreasuryMigration, MirrorProofs

CallNames ==
    {"allow", "forbid", "addToWhitelist", "grantRole", "revokeRole", "updatePriceTolerance", "updateSwapper",
     "updatePegBand", "setDepositActive", "setWithdrawActive", "updateTreasury", "migrate", "upgradeGateway"}

CallOk(call) ==
    /\ call.do \in CallNames
    /\ call.do = "addToWhitelist" => call.on \in {"old", "new"} /\ call.token \in Tokens
    /\ call.do = "updateTreasury" => call.on = "new"

CallList(txs) == txs \in Seq(ToSet(txs)) /\ \A i \in DOMAIN txs : CallOk(txs[i])

Does(txs, name) == \E i \in DOMAIN txs : txs[i].do = name
Moves(txs) == Does(txs, "updateTreasury")

\* A Gateway's upgrade comes after the token's move, in the list or before it.
UpgradesFollow(txs, moved) ==
    \A i \in DOMAIN txs : txs[i].do = "upgradeGateway" =>
        moved \/ \E j \in 1..i - 1 : txs[j].do = "updateTreasury"

\* A list may be executed, by where the alias and the token point.
ReadyAt(txs, recorded, moved) ==
    /\ CallList(txs)
    /\ Moves(txs) => recorded
    /\ UpgradesFollow(txs, moved)

Ready(txs) == ReadyAt(txs, artifact = "new", chain.token = "new")

\* A list that moves the token moves the collateral as well.
Batchable(txs) == Ready(txs) /\ (Moves(txs) => IsMigration(txs))

\* A list that migrates carries the Gateway's upgrade.
Whole(txs) == IsMigration(txs) => Does(txs, "upgradeGateway")

IsChain(c) ==
    /\ DOMAIN c = {"old", "new", "token", "access", "gateway", "held"}
    /\ IsTreasury(c.old) /\ IsTreasury(c.new)
    /\ c.token \in {"old", "new"}
    /\ DOMAIN c.held = {"old", "new"} /\ c.held.old \in Nat /\ c.held.new \in Nat

ChainInv ==
    /\ IsChain(chain)
    /\ TokenBacked
    /\ GatewayMovesWithTreasury

RecordInv ==
    /\ artifact \in {"old", "new"}
    /\ chain.token = "new" => artifact = "new"
    /\ artifact = "new" /\ chain.token = "old" => previous.kept
    /\ pc \in {"deploy", "alias"} => artifact = "old" /\ previous.kept
    /\ pc \in {"build", "gateway", "record"} => artifact = "new"

JobInv ==
    /\ IsTreasury(seen)
    /\ code \in Nat \ {0}
    /\ pc = "idle" => ~batchStarted /\ calls = <<>>
    /\ pc \in {"migrate", "deploy", "alias", "build", "gateway", "record"} => NoOlderBatch
    /\ pc \in {"deploy", "alias", "build", "gateway", "record"} => chain.token = "old"

CallsInv ==
    /\ Ready(calls)
    /\ pc = "gateway" => Batchable(calls) /\ Moves(calls)

FileInv ==
    /\ DOMAIN batch = {"network", "complete", "txs"}
    /\ Batchable(batch.txs)
    /\ batch.complete \/ pc = "propose" \/ (pc \in {"record", "end"} /\ batchStarted) => Whole(batch.txs)
    /\ pc \in {"migrate", "check", "deploy", "alias", "build", "failed"} /\ batchStarted => ~IsMigration(batch.txs)

QueueInv ==
    /\ safeQueue \in Seq(ToSet(safeQueue))
    /\ \A i \in DOMAIN safeQueue : Batchable(safeQueue[i]) /\ Whole(safeQueue[i])

MigrationInv == ChainInv /\ RecordInv /\ JobInv /\ CallsInv /\ FileInv /\ QueueInv

-----------------------------------------------------------------------------
(* What calls do to the chain.                                             *)

\* One call keeps the chain a chain; three kinds touch the token, its collateral and the Gateway.
LEMMA EffectKeeps ==
    ASSUME NEW c, IsChain(c), NEW call, CallOk(call)
    PROVE  LET d == Effect(c, call) IN
           /\ IsChain(d)
           /\ d.token = IF call.do = "updateTreasury" THEN "new" ELSE c.token
           /\ d.held = IF call.do = "migrate" THEN [old |-> 0, new |-> c.held.new + c.held.old] ELSE c.held
           /\ call.do # "upgradeGateway" => d.gateway = c.gateway
<1> USE DEF IsChain
<1>1. CASE call.do \in {"allow", "forbid"}
    BY <1>1 DEF Effect
<1>2. CASE call.do = "addToWhitelist"
  <2>1. call.on \in {"old", "new"} /\ call.token \in Tokens
    BY <1>2 DEF CallOk
  <2>2. Effect(c, call) =
            [c EXCEPT ![call.on].tokens = Append(@, call.token), ![call.on].cfg[call.token] = Opened(call.value)]
    BY <1>2 DEF Effect
  <2>3. Append(c[call.on].tokens, call.token) \in Seq(Tokens)
    BY <2>1 DEF IsTreasury
  <2>4. IsTreasury(Effect(c, call).old) /\ IsTreasury(Effect(c, call).new)
    BY <2>1, <2>2, <2>3 DEF IsTreasury
  <2>5. QED
    BY <1>2, <2>1, <2>2, <2>4
<1>3. CASE call.do \in {"grantRole", "revokeRole"}
  <2>1. IsFiniteSet(c.new.roles \cup {call.grant}) /\ IsFiniteSet(c.new.roles \ {call.grant})
    <3> DEFINE roles == c.new.roles
    <3>1. IsFiniteSet(roles)
        BY DEF IsTreasury
    <3> HIDE DEF roles
    <3>2. IsFiniteSet(roles \cup {call.grant})
        BY <3>1, FS_AddElement
    <3>3. IsFiniteSet(roles \ {call.grant})
        BY <3>1, FS_RemoveElement
    <3>4. QED
        BY <3>2, <3>3 DEF roles
  <2>2. PICK roles : IsFiniteSet(roles) /\ Effect(c, call) = [c EXCEPT !.new.roles = roles]
    <3>1. CASE call.do = "grantRole"
        BY <2>1, <3>1 DEF Effect
    <3>2. CASE call.do = "revokeRole"
        BY <2>1, <3>2 DEF Effect
    <3>3. QED
        BY <1>3, <3>1, <3>2
  <2>3. IsTreasury([c.new EXCEPT !.roles = roles])
    BY <2>2 DEF IsTreasury
  <2>4. QED
    BY <1>3, <2>2, <2>3
<1>4. CASE call.do \in {"updatePriceTolerance", "updateSwapper"}
    BY <1>4 DEF Effect, IsTreasury
<1>5. CASE call.do \in {"updatePegBand", "setDepositActive", "setWithdrawActive"}
    BY <1>5 DEF Effect, IsTreasury
<1>6. CASE call.do = "updateTreasury"
    BY <1>6 DEF Effect, CallOk
<1>7. CASE call.do = "migrate"
    BY <1>7 DEF Effect
<1>8. CASE call.do = "upgradeGateway"
    BY <1>8 DEF Effect
<1>9. QED
    BY <1>1, <1>2, <1>3, <1>4, <1>5, <1>6, <1>7, <1>8 DEF CallOk, CallNames

\* What holds of a state that the first n calls lead to.
AfterCalls(at, c, txs, n) ==
    LET done(name) == \E j \in 1..n : txs[j].do = name IN
    /\ IsChain(at)
    /\ at.token = IF done("updateTreasury") THEN "new" ELSE c.token
    /\ at.held.old + at.held.new = c.held.old + c.held.new
    /\ IF done("migrate") THEN at.held.old = 0 /\ at.token = "new" ELSE at.held = c.held
    /\ at.gateway # 0 => at.token = "new"

LEMMA AfterOneMore ==
    ASSUME NEW c, IsChain(c), NEW txs, UpgradesFollow(txs, c.token = "new"),
           NEW n \in Nat, n + 1 \in DOMAIN txs, CallOk(txs[n + 1]),
           NEW at, AfterCalls(at, c, txs, n), Accepts(at, txs[n + 1])
    PROVE  AfterCalls(Effect(at, txs[n + 1]), c, txs, n + 1)
<1> DEFINE call == txs[n + 1]
           d == Effect(at, call)
           done(name) == \E j \in 1..n : txs[j].do = name
           doneNext(name) == \E j \in 1..n + 1 : txs[j].do = name
<1>1. /\ IsChain(d)
      /\ d.token = IF call.do = "updateTreasury" THEN "new" ELSE at.token
      /\ d.held = IF call.do = "migrate" THEN [old |-> 0, new |-> at.held.new + at.held.old] ELSE at.held
      /\ call.do # "upgradeGateway" => d.gateway = at.gateway
    BY EffectKeeps DEF AfterCalls
<1>2. \A name : doneNext(name) <=> done(name) \/ call.do = name
  <2>1. \A j : j \in 1..n + 1 <=> j \in 1..n \/ j = n + 1
    OBVIOUS
  <2>2. QED
    BY <2>1
<1>3. /\ IsChain(at)
      /\ at.token = IF done("updateTreasury") THEN "new" ELSE c.token
      /\ at.held.old + at.held.new = c.held.old + c.held.new
      /\ IF done("migrate") THEN at.held.old = 0 /\ at.token = "new" ELSE at.held = c.held
      /\ at.gateway # 0 => at.token = "new"
    BY DEF AfterCalls
<1>4. call.do = "migrate" => at.token = "new"
    BY DEF Accepts
<1>5. call.do = "upgradeGateway" => at.token = "new"
  <2>1. SUFFICES ASSUME call.do = "upgradeGateway" PROVE c.token = "new" \/ done("updateTreasury")
    BY <1>3
  <2>2. (n + 1) - 1 = n
    OBVIOUS
  <2>3. QED
    BY <2>1, <2>2 DEF UpgradesFollow
<1>6. d.held.old + d.held.new = c.held.old + c.held.new
  <2>1. at.held.old \in Nat /\ at.held.new \in Nat
    BY <1>3 DEF IsChain
  <2> HIDE DEF call, d, done, doneNext
  <2>2. QED
    BY <1>1, <1>3, <2>1
<1> HIDE DEF call, d, done, doneNext
<1>7. /\ d.token = IF doneNext("updateTreasury") THEN "new" ELSE c.token
      /\ IF doneNext("migrate") THEN d.held.old = 0 /\ d.token = "new" ELSE d.held = c.held
      /\ d.gateway # 0 => d.token = "new"
    BY <1>1, <1>2, <1>3, <1>4, <1>5
<1>8. QED
    BY <1>1, <1>6, <1>7 DEF AfterCalls, d, call, doneNext

\* A proposal that runs leaves the token with its collateral and the Gateway with the token.
LEMMA RunKeeps ==
    ASSUME NEW c, IsChain(c), c.gateway # 0 => c.token = "new",
           NEW txs, CallList(txs), UpgradesFollow(txs, c.token = "new"), NEW after \in RunCalls(c, txs)
    PROVE  AfterCalls(after, c, txs, Len(txs))
<1>1. txs \in Seq(ToSet(txs)) /\ \A i \in DOMAIN txs : CallOk(txs[i])
    BY DEF CallList
<1>2. PICK f : /\ f[0] = {c}
               /\ \A i \in 1..Len(txs) : f[i] = RunStep(f[i - 1], txs[i])
               /\ f[Len(txs)] = RunCalls(c, txs)
    BY <1>1, RunTrace
<1>3. Len(txs) \in Nat /\ DOMAIN txs = 1..Len(txs)
    BY <1>1
<1> DEFINE G == {i \in Nat : i <= Len(txs) => \A at \in f[i] : AfterCalls(at, c, txs, i)}
<1>4. 0 \in G
  <2>1. AfterCalls(c, c, txs, 0)
    BY DEF AfterCalls
  <2>2. QED
    BY <1>2, <2>1
<1>5. ASSUME NEW i \in Nat, i \in G
      PROVE  i + 1 \in G
  <2>1. SUFFICES ASSUME i + 1 <= Len(txs), NEW d \in f[i + 1] PROVE AfterCalls(d, c, txs, i + 1)
    OBVIOUS
  <2>2. i + 1 \in 1..Len(txs) /\ (i + 1) - 1 = i /\ i <= Len(txs)
    BY <1>3, <2>1
  <2>3. f[i + 1] = RunStep(f[i], txs[i + 1])
    BY <1>2, <2>2
  <2>4. PICK at \in f[i] : Accepts(at, txs[i + 1]) /\ d = Effect(at, txs[i + 1])
    BY <2>1, <2>3 DEF RunStep
  <2>5. AfterCalls(at, c, txs, i)
    BY <1>5, <2>2
  <2>6. CallOk(txs[i + 1]) /\ i + 1 \in DOMAIN txs
    BY <1>1, <1>3, <2>2
  <2>7. QED
    BY <2>4, <2>5, <2>6, AfterOneMore
<1>6. Nat \subseteq G
  <2> HIDE DEF G
  <2>1. QED
    BY <1>4, <1>5, FromZeroUp
<1>7. QED
    BY <1>2, <1>3, <1>6

-----------------------------------------------------------------------------
(* Lists of calls.                                                         *)

LEMMA CallListType ==
    ASSUME NEW S, NEW txs \in Seq(S), \A call \in S : CallOk(call)
    PROVE  CallList(txs)
<1>1. \A i \in 1..Len(txs) : txs[i] \in ToSet(txs)
    BY DEF ToSet
<1>2. txs \in Seq(ToSet(txs))
    BY <1>1
<1>3. QED
    BY <1>2 DEF CallList

\* One list behind another.
LEMMA CatCalls ==
    ASSUME NEW s, CallList(s), NEW t, CallList(t)
    PROVE  /\ CallList(s \o t)
           /\ \A i \in DOMAIN (s \o t) :
                \/ i \in DOMAIN s /\ (s \o t)[i] = s[i]
                \/ i - Len(s) \in DOMAIN t /\ (s \o t)[i] = t[i - Len(s)]
           /\ \A i \in DOMAIN s : i \in DOMAIN (s \o t) /\ (s \o t)[i] = s[i]
           /\ \A i \in DOMAIN t : i + Len(s) \in DOMAIN (s \o t) /\ (s \o t)[i + Len(s)] = t[i]
<1> DEFINE S == ToSet(s) \cup ToSet(t)
<1>1. s \in Seq(S) /\ t \in Seq(S)
    BY DEF CallList
<1>2. \A call \in S : CallOk(call)
    BY DEF CallList, ToSet
<1> HIDE DEF S
<1>3. s \o t \in Seq(S)
    BY <1>1
<1>4. CallList(s \o t)
    BY <1>2, <1>3, CallListType
<1>5. QED
    BY <1>1, <1>4

\* A list is made of one list and another behind it.
Parts(whole, s, t) ==
    /\ \A i \in DOMAIN whole :
        \/ i \in DOMAIN s /\ whole[i] = s[i]
        \/ i - Len(s) \in DOMAIN t /\ whole[i] = t[i - Len(s)]
    /\ \A i \in DOMAIN s : i \in DOMAIN whole /\ whole[i] = s[i]
    /\ \A i \in DOMAIN t : i + Len(s) \in DOMAIN whole /\ whole[i + Len(s)] = t[i]

LEMMA CatParts ==
    ASSUME NEW s, CallList(s), NEW t, CallList(t)
    PROVE  Parts(s \o t, s, t)
    BY CatCalls DEF Parts

LEMMA CatDoes ==
    ASSUME NEW s, CallList(s), NEW t, CallList(t)
    PROVE  \A name : Does(s \o t, name) <=> Does(s, name) \/ Does(t, name)
<1> DEFINE whole == s \o t
<1>1. Parts(whole, s, t)
    BY CatParts
<1> HIDE DEF whole
<1>2. \A name : Does(whole, name) <=> Does(s, name) \/ Does(t, name)
    BY <1>1 DEF Does, Parts
<1>3. QED
    BY <1>2 DEF whole

LEMMA CatFollow ==
    ASSUME NEW s, CallList(s), NEW t, CallList(t), NEW moved \in BOOLEAN,
           UpgradesFollow(s, moved), UpgradesFollow(t, moved \/ Moves(s))
    PROVE  UpgradesFollow(s \o t, moved)
<1> DEFINE whole == s \o t
<1>1. Parts(whole, s, t)
    BY CatParts
<1>2. /\ DOMAIN s = 1..Len(s) /\ Len(s) \in Nat
      /\ DOMAIN t = 1..Len(t) /\ Len(t) \in Nat
      /\ DOMAIN whole = 1..Len(s) + Len(t)
    BY DEF CallList
<1> HIDE DEF whole
<1>3. SUFFICES ASSUME NEW i \in DOMAIN whole, whole[i].do = "upgradeGateway", ~moved
               PROVE  \E j \in 1..i - 1 : whole[j].do = "updateTreasury"
    BY DEF UpgradesFollow, whole
<1>4. CASE i \in DOMAIN s /\ whole[i] = s[i]
  <2>1. PICK j \in 1..i - 1 : s[j].do = "updateTreasury"
    BY <1>3, <1>4 DEF UpgradesFollow
  <2>2. j \in DOMAIN s
    BY <1>2, <1>4, <2>1
  <2>3. QED
    BY <1>1, <2>1, <2>2 DEF Parts
<1>5. CASE i - Len(s) \in DOMAIN t /\ whole[i] = t[i - Len(s)]
  <2>1. CASE Moves(s)
    <3>1. PICK j \in DOMAIN s : s[j].do = "updateTreasury"
      BY <2>1 DEF Moves, Does
    <3>2. j \in 1..i - 1
      BY <1>2, <1>5, <3>1
    <3>3. QED
      BY <1>1, <3>1, <3>2 DEF Parts
  <2>2. CASE ~Moves(s)
    <3>1. PICK j \in 1..i - Len(s) - 1 : t[j].do = "updateTreasury"
      BY <1>3, <1>5, <2>2 DEF UpgradesFollow
    <3>2. j \in DOMAIN t /\ j + Len(s) \in 1..i - 1
      BY <1>2, <1>5, <3>1
    <3>3. QED
      BY <1>1, <3>1, <3>2 DEF Parts
  <2>3. QED
    BY <2>1, <2>2
<1>6. QED
    BY <1>1, <1>4, <1>5 DEF Parts

LEMMA EmptyList == CallList(<<>>) /\ \A name : ~Does(<<>>, name)
<1>1. <<>> \in Seq({}) /\ DOMAIN <<>> = {}
    OBVIOUS
<1>2. CallList(<<>>)
    BY <1>1 DEF CallList, ToSet
<1>3. QED
    BY <1>1, <1>2 DEF Does

LEMMA OneCall ==
    ASSUME NEW call, CallOk(call)
    PROVE  /\ CallList(<<call>>)
           /\ \A name : Does(<<call>>, name) <=> call.do = name
<1>1. <<call>> \in Seq({call})
    OBVIOUS
<1>2. CallList(<<call>>)
  <2> DEFINE txs == <<call>>
             S == {call}
  <2>1. txs \in Seq(S) /\ \A x \in S : CallOk(x)
    BY <1>1
  <2> HIDE DEF txs, S
  <2>2. CallList(txs)
    BY <2>1, CallListType
  <2>3. QED
    BY <2>2 DEF txs
<1>3. QED
    BY <1>2 DEF Does

\* Calls that neither move the token, nor its collateral, nor the Gateway.
PlainCall(call) == CallOk(call) /\ call.do \notin {"updateTreasury", "migrate", "upgradeGateway"}
Plain(txs) == CallList(txs) /\ \A i \in DOMAIN txs : PlainCall(txs[i])

LEMMA PlainType ==
    ASSUME NEW S, NEW txs \in Seq(S), \A call \in S : PlainCall(call)
    PROVE  Plain(txs)
<1>1. CallList(txs)
    BY CallListType DEF PlainCall
<1>2. \A i \in DOMAIN txs : txs[i] \in S
    OBVIOUS
<1>3. QED
    BY <1>1, <1>2 DEF Plain

LEMMA PlainCat ==
    ASSUME NEW s, Plain(s), NEW t, Plain(t)
    PROVE  Plain(s \o t)
    BY CatCalls DEF Plain

LEMMA GrantsPlain ==
    ASSUME NEW R, IsFiniteSet(R)
    PROVE  /\ Plain(SetToSeq({Grant(g) : g \in R}))
           /\ Plain(SetToSeq({Revoke(g) : g \in R}))
<1>1. \A call \in {Grant(g) : g \in R} \cup {Revoke(g) : g \in R} : PlainCall(call)
    BY DEF Grant, Revoke, PlainCall, CallOk, CallNames
<1>2. /\ SetToSeq({Grant(g) : g \in R}) \in Seq({Grant(g) : g \in R})
      /\ SetToSeq({Revoke(g) : g \in R}) \in Seq({Revoke(g) : g \in R})
    BY GrantsFinite, SetToSeqType
<1>3. QED
    BY <1>1, <1>2, PlainType

-----------------------------------------------------------------------------
(* The batch that mirrors a Treasury.                                      *)

LEMMA VaultCallsPlain ==
    ASSUME NEW old, IsTreasury(old), NEW access, NEW side, NEW inside, NEW do \in {"allow", "forbid"}
    PROVE  Plain(VaultCalls(old, access, side, inside, do))
<1> DEFINE S == {[do |-> do, token |-> t] : t \in Tokens}
           wanted(t) == t \in Gated /\ (<<t, side>> \in access) = inside
           given == [t \in Tokens |-> When(wanted(t), [do |-> do, token |-> t])]
<1>1. \A call \in S : PlainCall(call)
    BY DEF PlainCall, CallOk, CallNames
<1>2. \A t \in Tokens : given[t] \in Seq(S)
  <2>1. \A t \in Tokens : given[t] = When(wanted(t), [do |-> do, token |-> t])
    OBVIOUS
  <2>2. \A t \in Tokens : [do |-> do, token |-> t] \in S
    OBVIOUS
  <2> HIDE DEF given, wanted, S
  <2>3. QED
    BY <2>1, <2>2, WhenType
<1> HIDE DEF given, S
<1>3. ForEach(old.tokens, given) \in Seq(S)
    BY <1>2, ForEachType DEF IsTreasury
<1>4. Plain(ForEach(old.tokens, given))
    BY <1>1, <1>3, PlainType
<1>5. QED
    BY <1>4 DEF VaultCalls, given

LEMMA CollateralPlain ==
    ASSUME NEW old, IsTreasury(old), NEW new
    PROVE  Plain(Collateral(old, new))
<1> DEFINE call(t) == [do |-> "addToWhitelist", on |-> "new", token |-> t, value |-> old.cfg[t].config]
           S == {call(t) : t \in Tokens}
           given == [t \in Tokens |-> When(~HasToken(new, t), call(t))]
<1>1. \A x \in S : PlainCall(x)
    BY DEF PlainCall, CallOk, CallNames
<1>2. \A t \in Tokens : given[t] \in Seq(S)
  <2>1. \A t \in Tokens : given[t] = When(~HasToken(new, t), call(t)) /\ call(t) \in S
    OBVIOUS
  <2> HIDE DEF given, call, S
  <2>2. QED
    BY <2>1, WhenType
<1> HIDE DEF given, S
<1>3. ForEach(old.tokens, given) \in Seq(S)
    BY <1>2, ForEachType DEF IsTreasury
<1>4. Plain(ForEach(old.tokens, given))
    BY <1>1, <1>3, PlainType
<1>5. QED
    BY <1>4 DEF Collateral, given

LEMMA BandsPlain ==
    ASSUME NEW old, IsTreasury(old), NEW new
    PROVE  Plain(ForEach(old.tokens,
                         [t \in Tokens |-> When(new.cfg[t].band # old.cfg[t].band,
                             [do |-> "updatePegBand", token |-> t, value |-> old.cfg[t].band])]))
<1> DEFINE call(t) == [do |-> "updatePegBand", token |-> t, value |-> old.cfg[t].band]
           S == {call(t) : t \in Tokens}
           given == [t \in Tokens |-> When(new.cfg[t].band # old.cfg[t].band, call(t))]
<1>1. \A x \in S : PlainCall(x)
    BY DEF PlainCall, CallOk, CallNames
<1>2. \A t \in Tokens : given[t] \in Seq(S)
  <2>1. \A t \in Tokens : given[t] = When(new.cfg[t].band # old.cfg[t].band, call(t)) /\ call(t) \in S
    OBVIOUS
  <2> HIDE DEF given, call, S
  <2>2. QED
    BY <2>1, WhenType
<1> HIDE DEF given, S
<1>3. ForEach(old.tokens, given) \in Seq(S)
    BY <1>2, ForEachType DEF IsTreasury
<1>4. Plain(ForEach(old.tokens, given))
    BY <1>1, <1>3, PlainType
<1>5. QED
    BY <1>4 DEF given

LEMMA FlagsPlain ==
    ASSUME NEW old, IsTreasury(old), NEW new
    PROVE  Plain(ForEach(old.tokens, [t \in Tokens |-> TokenFlags(old, new, t)]))
<1> DEFINE deposit(t) == [do |-> "setDepositActive", token |-> t, value |-> old.cfg[t].deposit]
           withdraw(t) == [do |-> "setWithdrawActive", token |-> t, value |-> old.cfg[t].withdraw]
           S == {deposit(t) : t \in Tokens} \cup {withdraw(t) : t \in Tokens}
           given == [t \in Tokens |-> TokenFlags(old, new, t)]
<1>1. \A x \in S : PlainCall(x)
    BY DEF PlainCall, CallOk, CallNames
<1>2. \A t \in Tokens : given[t] \in Seq(S)
  <2>1. SUFFICES ASSUME NEW t \in Tokens PROVE TokenFlags(old, new, t) \in Seq(S)
    OBVIOUS
  <2> DEFINE first == When(Flags(new, t).deposit # old.cfg[t].deposit, deposit(t))
             second == When(Flags(new, t).withdraw # old.cfg[t].withdraw, withdraw(t))
  <2>2. TokenFlags(old, new, t) = first \o second
    BY DEF TokenFlags
  <2>3. deposit(t) \in S /\ withdraw(t) \in S
    OBVIOUS
  <2> HIDE DEF S, deposit, withdraw
  <2>4. first \in Seq(S) /\ second \in Seq(S)
    BY <2>3, WhenType
  <2> HIDE DEF first, second
  <2>5. QED
    BY <2>2, <2>4
<1> HIDE DEF given, S
<1>3. ForEach(old.tokens, given) \in Seq(S)
    BY <1>2, ForEachType DEF IsTreasury
<1>4. Plain(ForEach(old.tokens, given))
    BY <1>1, <1>3, PlainType
<1>5. QED
    BY <1>4 DEF given

LEMMA OnePlain ==
    ASSUME NEW condition, NEW call, PlainCall(call)
    PROVE  Plain(When(condition, call))
<1> DEFINE S == {call}
<1>1. call \in S /\ \A x \in S : PlainCall(x)
    OBVIOUS
<1> HIDE DEF S
<1>2. When(condition, call) \in Seq(S)
    BY <1>1, WhenType
<1>3. QED
    BY <1>1, <1>2, PlainType

LEMMA SettingsPlain ==
    ASSUME NEW old, IsTreasury(old), NEW new
    PROVE  Plain(Settings(old, new))
<1> DEFINE tolerance == When(new.tolerance # old.tolerance, [do |-> "updatePriceTolerance", value |-> old.tolerance])
           swapper == When(new.swapper # old.swapper, [do |-> "updateSwapper", value |-> old.swapper])
           bands == ForEach(old.tokens,
                            [t \in Tokens |-> When(new.cfg[t].band # old.cfg[t].band,
                                [do |-> "updatePegBand", token |-> t, value |-> old.cfg[t].band])])
           flags == ForEach(old.tokens, [t \in Tokens |-> TokenFlags(old, new, t)])
<1>1. /\ PlainCall([do |-> "updatePriceTolerance", value |-> old.tolerance])
      /\ PlainCall([do |-> "updateSwapper", value |-> old.swapper])
    BY DEF PlainCall, CallOk, CallNames
<1>2. Plain(tolerance) /\ Plain(swapper)
    BY <1>1, OnePlain
<1>3. Plain(bands) /\ Plain(flags)
    BY BandsPlain, FlagsPlain
<1>4. Settings(old, new) = tolerance \o swapper \o bands \o flags
    BY DEF Settings
<1> HIDE DEF tolerance, swapper, bands, flags
<1>5. Plain(tolerance \o swapper) /\ Plain((tolerance \o swapper) \o bands)
    BY <1>2, <1>3, PlainCat
<1>6. QED
    BY <1>3, <1>4, <1>5, PlainCat

\* The calls up to the move only prepare it.
LEMMA PreparingPlain ==
    ASSUME NEW old, IsTreasury(old), NEW new, IsTreasury(new), NEW access
    PROVE  Plain(Preparing(old, new, access))
<1> DEFINE allow == VaultCalls(old, access, "new", FALSE, "allow")
           listed == Collateral(old, new)
           grants == SetToSeq({Grant(g) : g \in old.roles \ new.roles})
           loans == SetToSeq({Grant(g) : g \in Temporary(old, new)})
           settings == Settings(old, new)
           returns == SetToSeq({Revoke(g) : g \in Temporary(old, new)})
           revokes == SetToSeq({Revoke(g) : g \in new.roles \ old.roles})
<1>1. Plain(allow)
    BY VaultCallsPlain
<1>2. Plain(listed) /\ Plain(settings)
    BY CollateralPlain, SettingsPlain
<1>3. Plain(grants) /\ Plain(revokes)
    BY FS_Difference, GrantsPlain DEF IsTreasury
<1>4. Plain(loans) /\ Plain(returns)
    BY TemporaryFinite, GrantsPlain
<1>5. Preparing(old, new, access) = allow \o listed \o grants \o loans \o settings \o returns \o revokes
    BY DEF Preparing
<1> HIDE DEF allow, listed, grants, loans, settings, returns, revokes
<1>6. Plain(allow \o listed)
    BY <1>1, <1>2, PlainCat
<1>7. Plain(allow \o listed \o grants)
    BY <1>3, <1>6, PlainCat
<1>8. Plain(allow \o listed \o grants \o loans)
    BY <1>4, <1>7, PlainCat
<1>9. Plain(allow \o listed \o grants \o loans \o settings)
    BY <1>2, <1>8, PlainCat
<1>10. Plain(allow \o listed \o grants \o loans \o settings \o returns)
    BY <1>4, <1>9, PlainCat
<1>11. QED
    BY <1>3, <1>5, <1>10, PlainCat

\* The batch moves the token and its collateral and leaves the Gateway to the step behind it.
LEMMA MirrorBatchMoves ==
    ASSUME NEW old, IsTreasury(old), NEW new, IsTreasury(new), NEW access
    PROVE  LET txs == BuildMirrorBatch(old, new, access) IN
           /\ CallList(txs)
           /\ Does(txs, "updateTreasury")
           /\ Does(txs, "migrate")
           /\ ~Does(txs, "upgradeGateway")
<1> DEFINE move == MoveCalls
           forbid == VaultCalls(old, access, "old", TRUE, "forbid")
           before == Preparing(old, new, access)
<1>1. Plain(forbid)
    BY VaultCallsPlain
<1>2. BuildMirrorBatch(old, new, access) = before \o move \o forbid
    BY DEF BuildMirrorBatch, Preparing, MoveCalls
<1> HIDE DEF forbid
<1>3. Plain(before)
    BY PreparingPlain
<1> HIDE DEF before
<1>4. /\ CallList(move)
      /\ Does(move, "updateTreasury") /\ Does(move, "migrate") /\ ~Does(move, "upgradeGateway")
  <2> DEFINE S == {[do |-> "updateTreasury", on |-> "new"]} \cup {[do |-> "migrate"]}
  <2>1. \A call \in S : CallOk(call)
    BY DEF CallOk, CallNames
  <2>2. move \in Seq(S) /\ DOMAIN move = 1..2 /\ move[1].do = "updateTreasury" /\ move[2].do = "migrate"
    BY DEF MoveCalls
  <2> HIDE DEF S, move
  <2>3. CallList(move)
    BY <2>1, <2>2, CallListType
  <2>4. QED
    BY <2>2, <2>3 DEF Does
<1> HIDE DEF move
<1>5. CallList(before) /\ CallList(forbid) /\ ~Does(before, "upgradeGateway") /\ ~Does(forbid, "upgradeGateway")
    BY <1>1, <1>3 DEF Plain, PlainCall, Does
<1>6. CallList(before \o move)
    BY <1>4, <1>5, CatCalls
<1>7. CallList(before \o move \o forbid)
    BY <1>5, <1>6, CatCalls
<1>8. \A name : Does(before \o move \o forbid, name) <=> Does(before, name) \/ Does(move, name) \/ Does(forbid, name)
    BY <1>4, <1>5, <1>6, CatDoes
<1>9. QED
    BY <1>2, <1>4, <1>5, <1>7, <1>8

-----------------------------------------------------------------------------
(* The batch file.                                                         *)

\* What SaveAll makes of the stored calls and the new ones.
Added(stored, new) == FlattenSeq([i \in DOMAIN new |-> IF Contains(stored, new[i]) THEN <<>> ELSE <<new[i]>>])

\* The first i of the new calls are in the file, in their order.
AddedUpTo(list, stored, new, moved, i) ==
    /\ CallList(list)
    /\ \A j \in 1..i : new[j] \in ToSet(stored) \cup ToSet(list)
    /\ \A k \in DOMAIN list : \E j \in 1..i : list[k] = new[j]
    /\ UpgradesFollow(list, moved \/ Moves(stored))

LEMMA AddedOneMore ==
    ASSUME NEW stored, NEW new, CallList(new), NEW moved \in BOOLEAN, UpgradesFollow(new, moved),
           NEW i \in Nat, i + 1 \in DOMAIN new, NEW list, AddedUpTo(list, stored, new, moved, i)
    PROVE  /\ new[i + 1] \in ToSet(stored) => AddedUpTo(list, stored, new, moved, i + 1)
           /\ AddedUpTo(list \o <<new[i + 1]>>, stored, new, moved, i + 1)
<1> DEFINE x == new[i + 1]
           one == <<x>>
           longer == list \o one
<1>1. CallOk(x)
    BY DEF CallList
<1>2. CallList(one) /\ \A name : Does(one, name) <=> x.do = name
    BY <1>1, OneCall
<1>3. \A j : j \in 1..i + 1 <=> j \in 1..i \/ j = i + 1
    OBVIOUS
<1>4. /\ CallList(list)
      /\ \A j \in 1..i : new[j] \in ToSet(stored) \cup ToSet(list)
      /\ \A k \in DOMAIN list : \E j \in 1..i : list[k] = new[j]
      /\ UpgradesFollow(list, moved \/ Moves(stored))
    BY DEF AddedUpTo
<1>5. x \in ToSet(stored) => AddedUpTo(list, stored, new, moved, i + 1)
    BY <1>3, <1>4 DEF AddedUpTo
<1>6. DOMAIN one = {1} /\ one[1] = x
    OBVIOUS
<1>7. x.do = "upgradeGateway" => moved \/ Moves(stored) \/ Moves(list)
  <2>1. SUFFICES ASSUME x.do = "upgradeGateway", ~moved PROVE Moves(stored) \/ Moves(list)
    OBVIOUS
  <2>2. (i + 1) - 1 = i
    OBVIOUS
  <2>3. PICK j \in 1..i : new[j].do = "updateTreasury"
    BY <2>1, <2>2 DEF UpgradesFollow
  <2>4. QED
    BY <1>4, <2>3 DEF Moves, Does, ToSet
<1>8. UpgradesFollow(one, (moved \/ Moves(stored)) \/ Moves(list))
    BY <1>6, <1>7 DEF UpgradesFollow
<1> HIDE DEF one
<1>9. CallList(longer) /\ UpgradesFollow(longer, moved \/ Moves(stored))
  <2>1. (moved \/ Moves(stored)) \in BOOLEAN
    OBVIOUS
  <2>2. QED
    BY <1>2, <1>4, <1>8, <2>1, CatCalls, CatFollow
<1>10. Parts(longer, list, one)
    BY <1>2, <1>4, CatParts DEF longer
<1> HIDE DEF longer, x
<1>11. \A k \in DOMAIN longer : longer[k] = x \/ \E j \in 1..i : longer[k] = new[j]
    BY <1>4, <1>6, <1>10 DEF Parts
<1>12. ToSet(list) \subseteq ToSet(longer) /\ x \in ToSet(longer)
    BY <1>6, <1>10 DEF ToSet, Parts
<1>13. AddedUpTo(longer, stored, new, moved, i + 1)
  <2>1. \A j \in 1..i + 1 : new[j] \in ToSet(stored) \cup ToSet(longer)
    BY <1>3, <1>4, <1>12 DEF x
  <2>2. \A k \in DOMAIN longer : \E j \in 1..i + 1 : longer[k] = new[j]
    BY <1>3, <1>11 DEF x
  <2>3. QED
    BY <1>9, <2>1, <2>2 DEF AddedUpTo
<1>14. QED
    BY <1>5, <1>13 DEF longer, one, x

\* Saving keeps the file a list that can run, with the stored and the new calls in it.
LEMMA SavedCalls ==
    ASSUME NEW stored, CallList(stored), NEW new, CallList(new), NEW moved \in BOOLEAN,
           UpgradesFollow(stored, moved), UpgradesFollow(new, moved)
    PROVE  LET txs == stored \o Added(stored, new) IN
           /\ CallList(txs)
           /\ \A name : Does(txs, name) <=> Does(stored, name) \/ Does(new, name)
           /\ UpgradesFollow(txs, moved)
<1> DEFINE S == ToSet(new)
           seqs == [i \in DOMAIN new |-> IF Contains(stored, new[i]) THEN <<>> ELSE <<new[i]>>]
           n == Len(new)
<1>1. n \in Nat /\ DOMAIN new = 1..n /\ \A i \in 1..n : new[i] \in S
    BY DEF CallList, ToSet
<1>2. stored \in Seq(ToSet(stored)) /\ \A x : Contains(stored, x) => x \in ToSet(stored)
    BY DEF CallList, Contains, ToSet
<1>3. seqs \in Seq(Seq(S)) /\ Len(seqs) = n
  <2>1. \A i \in 1..n : seqs[i] \in Seq(S)
    <3>1. <<>> \in Seq(S) /\ \A x \in S : <<x>> \in Seq(S)
      OBVIOUS
    <3> HIDE DEF S, n
    <3>2. QED
      BY <1>1, <3>1
  <2>2. DOMAIN seqs = 1..n
    BY <1>1
  <2>3. seqs = [i \in 1..n |-> seqs[i]]
    BY <1>1
  <2> HIDE DEF seqs, n, S
  <2>4. QED
    BY <1>1, <2>1, <2>2, <2>3
<1>4. \A i \in 1..n : \/ new[i] \in ToSet(stored) /\ seqs[i] = <<>>
                      \/ seqs[i] = <<new[i]>>
    BY <1>1, <1>2
<1>5. Added(stored, new) = FlattenSeq(seqs)
    BY DEF Added
<1> HIDE DEF S, seqs, n
<1>6. PICK f : /\ f[0] = <<>>
               /\ \A i \in 1..n : f[i] = Then(f[i - 1], seqs[i])
               /\ \A i \in 0..n : f[i] \in Seq(S)
               /\ f[n] = FlattenSeq(seqs)
    BY <1>3, FlatTrace
<1> DEFINE G == {i \in Nat : i <= n => AddedUpTo(f[i], stored, new, moved, i)}
<1>7. 0 \in G
  <2>1. AddedUpTo(<<>>, stored, new, moved, 0)
    <3>1. DOMAIN <<>> = {} /\ 1..0 = {}
      OBVIOUS
    <3>2. QED
      BY <3>1, EmptyList DEF AddedUpTo, UpgradesFollow
  <2>2. QED
    BY <1>6, <2>1
<1>8. ASSUME NEW i \in Nat, i \in G
      PROVE  i + 1 \in G
  <2>1. SUFFICES ASSUME i + 1 <= n PROVE AddedUpTo(f[i + 1], stored, new, moved, i + 1)
    OBVIOUS
  <2>2. i + 1 \in 1..n /\ (i + 1) - 1 = i /\ i \in 0..n /\ i <= n
    BY <1>1, <1>8, <2>1
  <2>3. AddedUpTo(f[i], stored, new, moved, i)
    BY <1>8, <2>2
  <2>4. f[i + 1] = Then(f[i], seqs[i + 1])
    BY <1>6, <2>2
  <2>5. i + 1 \in DOMAIN new
    BY <1>1, <2>2
  <2>6. /\ new[i + 1] \in ToSet(stored) => AddedUpTo(f[i], stored, new, moved, i + 1)
        /\ AddedUpTo(f[i] \o <<new[i + 1]>>, stored, new, moved, i + 1)
    BY <1>8, <2>3, <2>5, AddedOneMore
  <2>7. f[i] \o <<>> = f[i]
    BY <1>6, <2>2
  <2>8. CASE new[i + 1] \in ToSet(stored) /\ seqs[i + 1] = <<>>
    <3>1. Then(f[i], <<>>) = f[i]
      BY <2>7 DEF Then
    <3>2. f[i + 1] = f[i]
      BY <2>4, <2>8, <3>1
    <3>3. QED
      BY <2>6, <2>8, <3>2
  <2>9. CASE seqs[i + 1] = <<new[i + 1]>>
    <3>1. AddedUpTo(Then(f[i], <<new[i + 1]>>), stored, new, moved, i + 1)
      BY <2>6 DEF Then
    <3>2. f[i + 1] = Then(f[i], <<new[i + 1]>>)
      BY <2>4, <2>9
    <3>3. QED
      BY <3>1, <3>2
  <2>10. QED
    BY <1>4, <2>2, <2>8, <2>9
<1>9. Nat \subseteq G
  <2> HIDE DEF G
  <2>1. QED
    BY <1>7, <1>8, FromZeroUp
<1>10. AddedUpTo(f[n], stored, new, moved, n)
    BY <1>1, <1>9
<1> DEFINE added == f[n]
<1>11. /\ CallList(added)
       /\ \A j \in DOMAIN new : new[j] \in ToSet(stored) \cup ToSet(added)
       /\ \A k \in DOMAIN added : \E j \in DOMAIN new : added[k] = new[j]
       /\ UpgradesFollow(added, moved \/ Moves(stored))
    BY <1>1, <1>10 DEF AddedUpTo
<1>12. Added(stored, new) = added
    BY <1>5, <1>6
<1> HIDE DEF added
<1>13. \A name : Does(stored, name) \/ Does(added, name) <=> Does(stored, name) \/ Does(new, name)
    BY <1>11 DEF Does, ToSet
<1>14. CallList(stored \o added) /\ UpgradesFollow(stored \o added, moved)
    BY <1>11, CatCalls, CatFollow
<1>15. \A name : Does(stored \o added, name) <=> Does(stored, name) \/ Does(added, name)
    BY <1>11, CatDoes
<1>16. QED
    BY <1>12, <1>13, <1>14, <1>15

-----------------------------------------------------------------------------
(* Steps that leave every list as it is.                                   *)

\* The alias and the token point to the new Treasury if they did.
Forward ==
    /\ artifact = "new" => artifact' = "new"
    /\ chain.token = "new" => chain'.token = "new"

LEMMA ReadyLater ==
    ASSUME NEW txs, Ready(txs), Forward
    PROVE  ReadyAt(txs, artifact' = "new", chain'.token = "new")
    BY DEF Ready, ReadyAt, UpgradesFollow, Forward

LEMMA QueueStays == QueueInv /\ Forward /\ UNCHANGED safeQueue => QueueInv'
<1> SUFFICES ASSUME QueueInv, Forward, UNCHANGED safeQueue PROVE QueueInv'
    OBVIOUS
<1>1. \A i \in DOMAIN safeQueue : ReadyAt(safeQueue[i], artifact' = "new", chain'.token = "new")
    BY ReadyLater DEF QueueInv, Batchable
<1>2. QED
    BY <1>1 DEF QueueInv, Batchable, Ready

LEMMA NewIsTreasury == \A admin : IsTreasury(Fresh(admin))
<1>1. <<>> \in Seq(Tokens) /\ IsFiniteSet({})
    BY FS_EmptySet
<1>2. QED
    BY <1>1 DEF Fresh, IsTreasury

LEMMA NothingReady == \A recorded, moved : ReadyAt(<<>>, recorded, moved)
<1>1. DOMAIN <<>> = {}
    OBVIOUS
<1>2. QED
    BY <1>1, EmptyList DEF ReadyAt, Moves, UpgradesFollow

\* A process that ends leaves the chain, the records, the file and the queue to the next one.
LEMMA EndKeeps ==
    ASSUME MigrationInv, EndProcess, UNCHANGED <<chain, artifact, previous, code, net, batch, safeQueue>>
    PROVE  MigrationInv'
<1> USE DEF MigrationInv
<1>1. Forward
    BY DEF Forward
<1>2. ChainInv'
    BY DEF ChainInv, TokenBacked, GatewayMovesWithTreasury
<1>3. RecordInv'
    BY DEF RecordInv, EndProcess
<1>4. JobInv'
    BY NewIsTreasury DEF JobInv, EndProcess, NoTreasury
<1>5. CallsInv'
    BY NothingReady DEF CallsInv, EndProcess, Ready
<1>6. FileInv'
    BY <1>1 DEF FileInv, EndProcess, Batchable, Ready
<1>7. QED
    BY <1>1, <1>2, <1>3, <1>4, <1>5, <1>6, QueueStays

LEMMA StartKeeps ==
    ASSUME MigrationInv, NEW script \in {"migrate", "check"}, script = "migrate" => NoOlderBatch, StartOwnTags(script)
    PROVE  MigrationInv'
<1> USE DEF MigrationInv, StartOwnTags, batchVars, recordVars, worldVars
<1>1. Forward
    BY DEF Forward
<1>2. ChainInv'
    BY DEF ChainInv, TokenBacked, GatewayMovesWithTreasury
<1>3. RecordInv'
    BY DEF RecordInv
<1>4. JobInv'
    BY DEF JobInv, NoOlderBatch
<1>5. CallsInv'
    BY DEF CallsInv, Ready
<1>6. FileInv'
    BY DEF FileInv, JobInv, Batchable, Ready
<1>7. QED
    BY <1>1, <1>2, <1>3, <1>4, <1>5, <1>6, QueueStays

\* The process goes on without a call: to the deployment, the build, the record or its last script; or the
\* operator deletes the record of what was executed.
LEMMA ProcessKeeps ==
    ASSUME MigrationInv,
           StartMigration \/ SaveAlias \/ StartRebuild \/ SaveRecord \/ CheckPending \/ VerifyMigrated
             \/ NothingToMigrate \/ DeleteRecord
    PROVE  MigrationInv'
<1> USE DEF MigrationInv, batchVars, recordVars, worldVars, StartMigration, SaveAlias, StartRebuild, SaveRecord,
            CheckPending, VerifyMigrated, NothingToMigrate, DeleteRecord, jobVars, NoPrevious
<1>1. UNCHANGED <<chain, code, net, calls, batch, batchStarted, safeQueue>>
    OBVIOUS
<1>2. Forward
    BY DEF Forward
<1>3. ChainInv'
    BY <1>1 DEF ChainInv, TokenBacked, GatewayMovesWithTreasury
<1>4. RecordInv'
    BY DEF RecordInv, JobInv
<1>5. JobInv'
  <2>1. IsTreasury(seen')
    BY DEF JobInv, ChainInv, IsChain
  <2>2. QED
    BY <2>1 DEF JobInv, NoOlderBatch
<1>6. CallsInv'
  <2>1. ReadyAt(calls, artifact' = "new", chain'.token = "new")
    BY <1>2, ReadyLater DEF CallsInv
  <2>2. QED
    BY <1>1, <2>1 DEF CallsInv, Ready
<1>7. FileInv'
  <2>1. ReadyAt(batch.txs, artifact' = "new", chain'.token = "new")
    BY <1>2, ReadyLater DEF FileInv, Batchable
  <2>2. QED
    BY <1>1, <2>1 DEF FileInv, Batchable, Ready, Whole
<1>8. QED
    BY <1>1, <1>2, <1>3, <1>4, <1>5, <1>6, <1>7, QueueStays

\* The lists stay what they are while no process and no proposal goes on.
LEMMA ListsStay ==
    ASSUME CallsInv, FileInv, QueueInv, Forward, UNCHANGED <<pc, calls, batchVars>>
    PROVE  CallsInv' /\ FileInv' /\ QueueInv'
<1> USE DEF batchVars
<1>1. CallsInv'
  <2>1. ReadyAt(calls, artifact' = "new", chain'.token = "new")
    BY ReadyLater DEF CallsInv
  <2>2. QED
    BY <2>1 DEF CallsInv, Ready, Batchable
<1>2. FileInv'
  <2>1. ReadyAt(batch.txs, artifact' = "new", chain'.token = "new")
    BY ReadyLater DEF FileInv, Batchable
  <2>2. QED
    BY <2>1 DEF FileInv, Ready, Batchable
<1>3. QED
    BY <1>1, <1>2, QueueStays

\* Settings, donations and the orphan of a process that died move neither the token nor its collateral.
LEMMA ChainMoves ==
    ASSUME MigrationInv, IsChain(chain'), chain'.token = chain.token, chain'.gateway = chain.gateway,
           \A side \in {"old", "new"} : chain'.held[side] >= chain.held[side],
           UNCHANGED <<artifact, previous, code, net, pc, seen, calls, batchVars>>
    PROVE  MigrationInv'
<1> USE DEF MigrationInv, batchVars
<1>1. Forward
    BY DEF Forward
<1>2. ChainInv'
  <2>1. net' = "ethereum" => chain'.held[chain'.token] > 0
    <3>1. chain.token \in {"old", "new"}
      BY DEF ChainInv, IsChain
    <3>2. chain.held[chain.token] \in Nat /\ chain'.held[chain.token] \in Nat
      BY <3>1 DEF ChainInv, IsChain
    <3>3. net = "ethereum" => chain.held[chain.token] > 0
      BY DEF ChainInv, TokenBacked
    <3>4. QED
      BY <3>1, <3>2, <3>3
  <2>2. QED
    BY <2>1 DEF ChainInv, TokenBacked, GatewayMovesWithTreasury
<1>3. RecordInv'
    BY DEF RecordInv
<1>4. JobInv'
    BY DEF JobInv, NoOlderBatch
<1>5. QED
    BY <1>1, <1>2, <1>3, <1>4, ListsStay

LEMMA WithoutType ==
    ASSUME NEW list \in Seq(Tokens), NEW t \in ToSet(list)
    PROVE  Without(list, t) \in Seq(Tokens)
<1>1. Len(list) \in Nat \ {0} /\ Last(list) \in Tokens
    BY DEF ToSet, Last
<1>2. Len(list) - 1 \in Nat /\ \A i \in 1..Len(list) - 1 : list[i] \in Tokens
    BY <1>1
<1> DEFINE n == Len(list) - 1
<1>3. Without(list, t) \in [1..n -> Tokens]
    BY <1>1, <1>2 DEF Without
<1> HIDE DEF n
<1>4. QED
    BY <1>2, <1>3 DEF n

\* A Treasury stays one whatever setting changes.
LEMMA ChangedType ==
    ASSUME NEW s, IsTreasury(s), NEW changed \in Changed(s)
    PROVE  IsTreasury(changed)
<1> USE DEF IsTreasury
<1>1. CASE changed \in SettingsChanged(s)
  <2>1. \A g : IsFiniteSet(s.roles \cup {g}) /\ IsFiniteSet(s.roles \ {g})
    BY FS_AddElement, FS_RemoveElement
  <2>2. CASE changed \in {[s EXCEPT !.roles = IF g \in @ THEN @ \ {g} ELSE @ \cup {g}] : g \in Grants}
    BY <2>1, <2>2
  <2>3. CASE changed \in {[s EXCEPT !.cfg[t].deposit = ~@] : t \in ToSet(s.tokens)}
                    \cup {[s EXCEPT !.cfg[t].withdraw = ~@] : t \in ToSet(s.tokens)}
    BY <2>3
  <2>4. QED
    BY <1>1, <2>2, <2>3 DEF SettingsChanged
<1>2. CASE changed \in ListChanged(s)
  <2>1. \A t \in Tokens : Append(s.tokens, t) \in Seq(Tokens)
    OBVIOUS
  <2>2. \A t \in ToSet(s.tokens) : Without(s.tokens, t) \in Seq(Tokens)
    BY WithoutType
  <2>3. QED
    BY <1>2, <2>1, <2>2 DEF ListChanged
<1>3. CASE changed \in AdminChanged(s)
    BY <1>3 DEF AdminChanged
<1>4. CASE changed \in BandsChanged(s)
    BY <1>4 DEF BandsChanged
<1>5. QED
    BY <1>1, <1>2, <1>3, <1>4 DEF Changed, ChangedButBands

\* What a role holder does in the migration's own block moves neither the token nor its collateral.
LEMMA LaterType ==
    ASSUME NEW after, IsChain(after), NEW end \in LaterInBlock(after)
    PROVE  IsChain(end) /\ end.token = after.token /\ end.gateway = after.gateway /\ end.held = after.held
<1>1. CASE end = after
    BY <1>1
<1>2. CASE end \in {[after EXCEPT !.new = s] : s \in Changed(after.new)}
  <2>1. PICK s \in Changed(after.new) : end = [after EXCEPT !.new = s]
    BY <1>2
  <2>2. IsTreasury(s)
    BY ChangedType DEF IsChain
  <2>3. QED
    BY <2>1, <2>2 DEF IsChain
<1>3. CASE end \in {[after EXCEPT !.old = s] : s \in ChangedButBands(after.old)}
  <2>1. PICK s \in ChangedButBands(after.old) : end = [after EXCEPT !.old = s]
    BY <1>3
  <2>2. IsTreasury(s)
    BY ChangedType DEF IsChain, Changed
  <2>3. QED
    BY <2>1, <2>2 DEF IsChain
<1>4. QED
    BY <1>1, <1>2, <1>3 DEF LaterInBlock

LEMMA SettingsKeep ==
    ASSUME MigrationInv, DeployProxy \/ DeleteOrphan \/ LiveChange \/ EarlyGrant \/ Donate
    PROVE  MigrationInv'
<1> USE DEF recordVars, jobVars
<1>1. IsChain(chain) /\ chain.held.old \in Nat /\ chain.held.new \in Nat
    BY DEF MigrationInv, ChainInv, IsChain
<1>2. CASE DeployProxy
  <2> USE DEF DeployProxy, MigrationInv, batchVars, worldVars
  <2>1. Forward /\ UNCHANGED safeQueue
    BY <1>2 DEF Forward
  <2>2. IsTreasury(Fresh(seen.admin))
    BY NewIsTreasury
  <2>3. /\ IsChain(chain')
        /\ chain'.token = chain.token /\ chain'.held = chain.held /\ chain'.gateway = chain.gateway
    BY <1>1, <1>2, <2>2 DEF IsChain
  <2>4. ChainInv'
    BY <1>2, <2>3 DEF ChainInv, TokenBacked, GatewayMovesWithTreasury
  <2>5. RecordInv'
    BY <1>2, <2>3 DEF RecordInv
  <2>6. JobInv'
    BY <1>2, <2>3 DEF JobInv, NoOlderBatch
  <2>7. CallsInv'
    BY <1>2, <2>3 DEF CallsInv, Ready
  <2>8. FileInv'
    BY <1>2, <2>3 DEF FileInv, Ready, Batchable
  <2>9. QED
    BY <2>1, <2>4, <2>5, <2>6, <2>7, <2>8, QueueStays
<1>3. CASE DeleteOrphan
  <2>1. IsChain(chain') /\ chain'.token = chain.token /\ chain'.held = chain.held /\ chain'.gateway = chain.gateway
    BY <1>1, <1>3, NewIsTreasury DEF DeleteOrphan, NoTreasury, IsChain
  <2>2. UNCHANGED <<artifact, previous, code, net, pc, seen, calls, batchVars>>
    BY <1>3 DEF DeleteOrphan, worldVars
  <2>3. QED
    BY <1>1, <2>1, <2>2, ChainMoves
<1>4. CASE LiveChange
  <2>1. PICK s \in Changed(chain[chain.token]) : chain' = [chain EXCEPT ![chain.token] = s]
    BY <1>4 DEF LiveChange
  <2>2. IsTreasury(s)
    BY <1>1, <2>1, ChangedType DEF IsChain
  <2>3. IsChain(chain') /\ chain'.token = chain.token /\ chain'.held = chain.held /\ chain'.gateway = chain.gateway
    BY <1>1, <2>1, <2>2 DEF IsChain
  <2>4. UNCHANGED <<artifact, previous, code, net, pc, seen, calls, batchVars>>
    BY <1>4 DEF LiveChange
  <2>5. QED
    BY <1>1, <2>3, <2>4, ChainMoves
<1>5. CASE EarlyGrant
  <2>1. PICK g : chain' = [chain EXCEPT !.new.roles = @ \cup {g}]
    BY <1>5 DEF EarlyGrant
  <2>2. IsTreasury([chain.new EXCEPT !.roles = @ \cup {g}])
    BY <1>1, FS_AddElement DEF IsChain, IsTreasury
  <2>3. IsChain(chain') /\ chain'.token = chain.token /\ chain'.held = chain.held /\ chain'.gateway = chain.gateway
    BY <1>1, <2>1, <2>2 DEF IsChain
  <2>4. UNCHANGED <<artifact, previous, code, net, pc, seen, calls, batchVars>>
    BY <1>5 DEF EarlyGrant
  <2>5. QED
    BY <1>1, <2>3, <2>4, ChainMoves
<1>6. CASE Donate
  <2>1. chain' = [chain EXCEPT !.held.old = @ + 1]
    BY <1>6 DEF Donate
  <2>2. IsChain(chain') /\ chain'.token = chain.token /\ chain'.gateway = chain.gateway
    BY <1>1, <2>1 DEF IsChain
  <2>3. chain'.held.old >= chain.held.old /\ chain'.held.new >= chain.held.new
    BY <1>1, <2>1 DEF IsChain
  <2>4. UNCHANGED <<artifact, previous, code, net, pc, seen, calls, batchVars>>
    BY <1>6 DEF Donate
  <2>5. QED
    BY <2>2, <2>3, <2>4, ChainMoves
<1>7. QED
    BY <1>2, <1>3, <1>4, <1>5, <1>6

\* The code goes on, here or with the other stack; a deploy may also do nothing.
LEMMA CodeKeeps ==
    ASSUME MigrationInv, CodeChange \/ OtherStackUpgrade \/ UNCHANGED vars
    PROVE  MigrationInv'
<1> USE DEF MigrationInv, recordVars, jobVars, worldVars, batchVars
<1>1. UNCHANGED <<chain, artifact, previous, net, pc, seen, calls, batchVars>>
    BY DEF CodeChange, OtherStackUpgrade, vars
<1>2. code' = code \/ code' = code + 1
    BY DEF CodeChange, OtherStackUpgrade, vars
<1>3. Forward
    BY <1>1 DEF Forward
<1>4. ChainInv' /\ RecordInv'
    BY <1>1 DEF ChainInv, TokenBacked, GatewayMovesWithTreasury, RecordInv
<1>5. JobInv'
    BY <1>1, <1>2 DEF JobInv, NoOlderBatch
<1>6. QED
    BY <1>1, <1>3, <1>4, <1>5, ListsStay

-----------------------------------------------------------------------------
(* Steps that save calls.                                                  *)

\* What the scripts before the migration's queue may run and migrates nothing.
LEMMA ScriptCallsReady ==
    ASSUME RecordInv
    PROVE  /\ ReadyAt(ScriptCalls, artifact = "new", chain.token = "new")
           /\ ~Moves(ScriptCalls)
           /\ ~Does(ScriptCalls, "migrate")
<1> DEFINE upgrade == [do |-> "upgradeGateway", value |-> code]
           onWhitelist(t) == [do |-> "addToWhitelist", on |-> artifact, token |-> t, value |-> "listed"]
           tail == IF MigrationPending THEN <<>>
                   ELSE ConnectionCalls \o IF RefusedAtWhitelist THEN <<>> ELSE WhitelistCalls
<1>1. /\ CallList(GatewayCalls)
      /\ \A name : Does(GatewayCalls, name) => name = "upgradeGateway" /\ chain.token = "new"
  <2>1. CallOk(upgrade) /\ upgrade.do = "upgradeGateway"
    BY DEF CallOk, CallNames
  <2>2. GatewayCalls = <<>> \/ (GatewayCalls = <<upgrade>> /\ chain.token = "new")
    BY DEF GatewayCalls, When, BehindProxy
  <2> HIDE DEF upgrade
  <2>3. QED
    BY <2>1, <2>2, EmptyList, OneCall
<1>2. Plain(WhitelistCalls)
  <2> DEFINE S == {onWhitelist(t) : t \in Tokens}
             given == [t \in Tokens |-> When(~HasToken(chain[artifact], t), onWhitelist(t))]
  <2>1. \A x \in S : PlainCall(x)
    BY DEF PlainCall, CallOk, CallNames, RecordInv
  <2>2. \A t \in Tokens : given[t] = When(~HasToken(chain[artifact], t), onWhitelist(t)) /\ onWhitelist(t) \in S
    OBVIOUS
  <2>3. WhitelistCalls = ForEach(WHITELIST_TOKENS, given)
    BY DEF WhitelistCalls
  <2> HIDE DEF S, given, onWhitelist
  <2>4. \A t \in Tokens : given[t] \in Seq(S)
    BY <2>2, WhenType
  <2>5. ForEach(WHITELIST_TOKENS, given) \in Seq(S)
    BY <2>4, ForEachType, MigrationAssumption
  <2>6. QED
    BY <2>1, <2>3, <2>5, PlainType
<1>3. Plain(<<>>)
    BY EmptyList DEF Plain
<1>4. Plain(tail)
  <2>1. ~MigrationPending => ConnectionCalls = <<>>
    BY DEF MigrationPending, ConnectionCalls, When
  <2>2. \A list : Plain(list) => Plain(<<>> \o list)
    BY <1>3, PlainCat
  <2>3. QED
    BY <1>2, <1>3, <2>1, <2>2
<1>5. ScriptCalls = GatewayCalls \o tail
    BY DEF ScriptCalls
<1> HIDE DEF tail, upgrade
<1>6. CallList(tail) /\ ~Does(tail, "updateTreasury") /\ ~Does(tail, "migrate") /\ ~Does(tail, "upgradeGateway")
    BY <1>4 DEF Plain, PlainCall, Does
<1>7. CallList(ScriptCalls)
    BY <1>1, <1>5, <1>6, CatCalls
<1>8. \A name : Does(ScriptCalls, name) <=> Does(GatewayCalls, name) \/ Does(tail, name)
    BY <1>1, <1>5, <1>6, CatDoes
<1>9. ~Moves(ScriptCalls) /\ ~Does(ScriptCalls, "migrate") /\ (Does(ScriptCalls, "upgradeGateway") => chain.token = "new")
    BY <1>1, <1>6, <1>8 DEF Moves
<1>10. UpgradesFollow(ScriptCalls, chain.token = "new")
    BY <1>9 DEF UpgradesFollow, Does
<1>11. QED
    BY <1>7, <1>9, <1>10 DEF ReadyAt

\* What a save makes of the file.
LEMMA SavedFile ==
    ASSUME Batchable(batch.txs), NEW new, ReadyAt(new, artifact = "new", chain.token = "new"),
           NEW here, SaveAll(here, new)
    PROVE  /\ DOMAIN batch' = {"network", "complete", "txs"} /\ ~batch'.complete
           /\ batchStarted' /\ UNCHANGED safeQueue
           /\ ReadyAt(batch'.txs, artifact = "new", chain.token = "new")
           /\ \A name : Does(batch'.txs, name) <=> Does(batch.txs, name) \/ Does(new, name)
<1> DEFINE txs == batch.txs \o Added(batch.txs, new)
<1>1. /\ CallList(txs)
      /\ \A name : Does(txs, name) <=> Does(batch.txs, name) \/ Does(new, name)
      /\ UpgradesFollow(txs, chain.token = "new")
    BY SavedCalls DEF Batchable, Ready, ReadyAt
<1>2. batch' = [network |-> here, complete |-> FALSE, txs |-> txs] /\ batchStarted' = TRUE /\ UNCHANGED safeQueue
    BY DEF SaveAll, Added
<1> HIDE DEF txs
<1>3. Moves(txs) => artifact = "new"
    BY <1>1 DEF Moves, Batchable, Ready, ReadyAt
<1>4. QED
    BY <1>1, <1>2, <1>3 DEF ReadyAt

LEMMA MigratesDoes == \A txs : IsMigration(txs) <=> Does(txs, "migrate")
    BY DEF IsMigration, Migrates, Does

LEMMA StartFullKeeps ==
    ASSUME MigrationInv, NEW script \in {"migrate", "check"}, script = "migrate" => NoOlderBatch, StartFull(script)
    PROVE  MigrationInv'
<1> USE DEF MigrationInv
<1>1. /\ pc = "idle" /\ pc' \in {"failed", script} /\ SaveAll(net, ScriptCalls)
      /\ UNCHANGED <<chain, artifact, previous, code, net, seen, calls>>
    BY DEF StartFull, recordVars, worldVars
<1>2. /\ ReadyAt(ScriptCalls, artifact = "new", chain.token = "new")
      /\ ~Moves(ScriptCalls) /\ ~Does(ScriptCalls, "migrate")
    BY ScriptCallsReady
<1>3. /\ DOMAIN batch' = {"network", "complete", "txs"} /\ ~batch'.complete
      /\ batchStarted' /\ UNCHANGED safeQueue
      /\ ReadyAt(batch'.txs, artifact = "new", chain.token = "new")
      /\ \A name : Does(batch'.txs, name) <=> Does(batch.txs, name) \/ Does(ScriptCalls, name)
    BY <1>1, <1>2, SavedFile DEF FileInv
<1>4. batch.txs = <<>>
    BY <1>1 DEF SaveAll, StaleBatch, HasBatchFile, JobInv
<1>5. ~Does(batch'.txs, "migrate") /\ ~Moves(batch'.txs)
    BY <1>2, <1>3, <1>4, EmptyList DEF Moves
<1>6. Forward
    BY <1>1 DEF Forward
<1>7. ChainInv'
    BY <1>1 DEF ChainInv, TokenBacked, GatewayMovesWithTreasury
<1>8. RecordInv'
    BY <1>1 DEF RecordInv
<1>9. JobInv'
    BY <1>1, <1>3 DEF JobInv, NoOlderBatch
<1>10. CallsInv'
    BY <1>1 DEF CallsInv, Ready
<1>11. FileInv'
  <2>1. pc' \notin {"propose", "record", "end"}
    BY <1>1
  <2>2. ~IsMigration(batch'.txs)
    BY <1>5, MigratesDoes
  <2>3. QED
    BY <1>1, <1>3, <1>5, <2>1, <2>2 DEF FileInv, Batchable, Ready
<1>12. QED
    BY <1>3, <1>6, <1>7, <1>8, <1>9, <1>10, <1>11, QueueStays

LEMMA BuildBatchKeeps == MigrationInv /\ BuildBatch => MigrationInv'
<1> SUFFICES ASSUME MigrationInv, BuildBatch PROVE MigrationInv'
    OBVIOUS
<1> USE DEF MigrationInv
<1>1. /\ pc = "build" /\ pc' = "gateway" /\ calls' = BuildMirrorBatch(seen, chain.new, chain.access)
      /\ SaveAll(net, calls')
      /\ UNCHANGED <<chain, artifact, previous, code, net, seen>>
    BY DEF BuildBatch, recordVars, worldVars
<1>2. /\ CallList(calls') /\ ~Does(calls', "upgradeGateway")
      /\ Does(calls', "updateTreasury") /\ Does(calls', "migrate")
    BY <1>1, MirrorBatchMoves DEF ChainInv, JobInv, IsChain
<1>3. ReadyAt(calls', artifact = "new", chain.token = "new")
    BY <1>1, <1>2 DEF RecordInv, ReadyAt, UpgradesFollow, Does
<1>4. /\ DOMAIN batch' = {"network", "complete", "txs"} /\ ~batch'.complete
      /\ UNCHANGED safeQueue
      /\ ReadyAt(batch'.txs, artifact = "new", chain.token = "new")
      /\ \A name : Does(batch'.txs, name) <=> Does(batch.txs, name) \/ Does(calls', name)
    BY <1>1, <1>3, SavedFile DEF FileInv
<1>5. Forward
    BY <1>1 DEF Forward
<1>6. ChainInv' /\ RecordInv'
    BY <1>1 DEF ChainInv, TokenBacked, GatewayMovesWithTreasury, RecordInv
<1>7. JobInv'
    BY <1>1, <1>4 DEF JobInv, NoOlderBatch
<1>8. CallsInv'
    BY <1>1, <1>2, <1>3, MigratesDoes DEF CallsInv, Batchable, Ready, Moves
<1>9. FileInv'
  <2>1. IsMigration(batch'.txs)
    BY <1>2, <1>4, MigratesDoes
  <2>2. QED
    BY <1>1, <1>4, <2>1 DEF FileInv, Batchable, Ready
<1>10. QED
    BY <1>4, <1>5, <1>6, <1>7, <1>8, <1>9, QueueStays

\* The live Gateway is the one without the peg bands, so the compiled one always replaces it.
LEMMA UpgradeGatewayKeeps == MigrationInv /\ UpgradeGateway => MigrationInv'
<1> SUFFICES ASSUME MigrationInv, UpgradeGateway PROVE MigrationInv'
    OBVIOUS
<1> USE DEF MigrationInv
<1> DEFINE upgrade == [do |-> "upgradeGateway", value |-> code]
           one == <<upgrade>>
<1>1. /\ pc = "gateway" /\ pc' = "record" /\ calls' = calls \o GatewayUpgradeCall(code)
      /\ SaveAll(net, calls')
      /\ UNCHANGED <<chain, artifact, previous, code, net, seen>>
    BY DEF UpgradeGateway, recordVars, worldVars
<1>2. chain.gateway # code
    BY <1>1 DEF JobInv, ChainInv, GatewayMovesWithTreasury
<1>3. GatewayUpgradeCall(code) = one
    BY <1>2 DEF GatewayUpgradeCall, When
<1>4. CallOk(upgrade) /\ upgrade.do = "upgradeGateway"
    BY DEF CallOk, CallNames
<1>5. one[1] = upgrade /\ DOMAIN one = {1}
    OBVIOUS
<1> HIDE DEF upgrade
<1>6. CallList(one) /\ \A name : Does(one, name) <=> name = "upgradeGateway"
    BY <1>4, OneCall
<1> HIDE DEF one
<1>7. ReadyAt(calls, artifact = "new", chain.token = "new") /\ Moves(calls)
    BY <1>1 DEF CallsInv, Ready
<1>8. CallList(calls') /\ \A name : Does(calls', name) <=> Does(calls, name) \/ name = "upgradeGateway"
    BY <1>1, <1>3, <1>6, <1>7, CatCalls, CatDoes DEF ReadyAt
<1>9. UpgradesFollow(calls', chain.token = "new")
  <2>1. UpgradesFollow(one, (chain.token = "new") \/ Moves(calls))
    BY <1>7 DEF UpgradesFollow
  <2>2. (chain.token = "new") \in BOOLEAN
    OBVIOUS
  <2>3. QED
    BY <1>1, <1>3, <1>6, <1>7, <2>1, <2>2, CatFollow DEF ReadyAt
<1>10. ReadyAt(calls', artifact = "new", chain.token = "new")
    BY <1>1, <1>8, <1>9 DEF ReadyAt, RecordInv
<1>11. /\ DOMAIN batch' = {"network", "complete", "txs"} /\ ~batch'.complete
       /\ UNCHANGED safeQueue
       /\ ReadyAt(batch'.txs, artifact = "new", chain.token = "new")
       /\ \A name : Does(batch'.txs, name) <=> Does(batch.txs, name) \/ Does(calls', name)
    BY <1>1, <1>10, SavedFile DEF FileInv
<1>12. Does(calls', "migrate")
    BY <1>1, <1>8, MigratesDoes DEF CallsInv, Batchable
<1>13. Forward
    BY <1>1 DEF Forward
<1>14. ChainInv' /\ RecordInv'
    BY <1>1 DEF ChainInv, TokenBacked, GatewayMovesWithTreasury, RecordInv
<1>15. JobInv'
    BY <1>1, <1>11 DEF JobInv, NoOlderBatch
<1>16. CallsInv'
    BY <1>1, <1>10 DEF CallsInv, Ready
<1>17. FileInv'
  <2>1. IsMigration(batch'.txs) /\ Whole(batch'.txs)
    BY <1>8, <1>11, <1>12, MigratesDoes DEF Whole
  <2>2. QED
    BY <1>1, <1>11, <2>1 DEF FileInv, Batchable, Ready
<1>18. QED
    BY <1>11, <1>13, <1>14, <1>15, <1>16, <1>17, QueueStays

-----------------------------------------------------------------------------
(* The file, the fork and the Safe.                                        *)

LEMMA MarkBatchKeeps == MigrationInv /\ MarkBatch => MigrationInv'
<1> SUFFICES ASSUME MigrationInv, MarkBatch PROVE MigrationInv'
    OBVIOUS
<1> USE DEF MigrationInv
<1>1. /\ pc = "end" /\ pc' = "propose" /\ calls' = batch.txs
      /\ HasBatchFile /\ ~StaleBatch
      /\ batch' = [batch EXCEPT !.network = net, !.complete = TRUE]
      /\ UNCHANGED <<chain, artifact, previous, code, net, seen, batchStarted, safeQueue>>
    BY DEF MarkBatch, MarkComplete, recordVars, worldVars
<1>2. DOMAIN batch' = {"network", "complete", "txs"} /\ batch'.txs = batch.txs
    BY <1>1 DEF FileInv
<1>3. Batchable(batch.txs) /\ Whole(batch.txs)
    BY <1>1 DEF FileInv, StaleBatch
<1>4. Forward
    BY <1>1 DEF Forward
<1>5. ChainInv' /\ RecordInv'
    BY <1>1 DEF ChainInv, TokenBacked, GatewayMovesWithTreasury, RecordInv
<1>6. JobInv' /\ CallsInv'
    BY <1>1, <1>3 DEF JobInv, CallsInv, Batchable, Ready
<1>7. FileInv'
    BY <1>1, <1>2, <1>3 DEF FileInv, Batchable, Ready
<1>8. QED
    BY <1>1, <1>4, <1>5, <1>6, <1>7, QueueStays

\* A whole list that joins the queue.
LEMMA QueueGrows ==
    ASSUME QueueInv, Batchable(batch.txs), Whole(batch.txs), safeQueue' = Append(safeQueue, batch.txs),
           UNCHANGED <<artifact, chain>>
    PROVE  QueueInv'
<1> DEFINE S == ToSet(safeQueue) \cup {batch.txs}
           q == safeQueue'
<1>1. safeQueue \in Seq(S) /\ batch.txs \in S
    BY DEF QueueInv
<1> HIDE DEF S
<1>2. q \in Seq(S) /\ \A i \in DOMAIN q : (i \in DOMAIN safeQueue /\ q[i] = safeQueue[i]) \/ q[i] = batch.txs
    BY <1>1
<1> HIDE DEF q
<1>3. \A i \in DOMAIN q : Batchable(q[i]) /\ Whole(q[i])
    BY <1>2 DEF QueueInv
<1>4. q \in Seq(ToSet(q))
    BY <1>2 DEF ToSet
<1>5. QED
    BY <1>3, <1>4 DEF QueueInv, q, Batchable, Ready

LEMMA ProposeKeeps ==
    ASSUME MigrationInv, (\E unlinked \in BOOLEAN : ProposeBatch(unlinked)) \/ ProposeLeftover
    PROVE  MigrationInv'
<1> USE DEF MigrationInv
<1>1. /\ safeQueue' = Append(safeQueue, batch.txs)
      /\ batch' = NoBatch \/ batch' = batch
      /\ pc' = "idle" /\ calls' = <<>> /\ ~batchStarted'
      /\ seen' = NoTreasury \/ seen' = seen
      /\ UNCHANGED <<chain, artifact, previous, code, net>>
    BY DEF ProposeBatch, ProposeLeftover, Propose, EndProcess, recordVars, worldVars, jobVars, JobInv
<1>2. Batchable(batch.txs) /\ Whole(batch.txs)
    BY DEF ProposeBatch, ProposeLeftover, MayProposeLeftover, FileInv
<1>3. QueueInv'
    BY <1>1, <1>2, QueueGrows
<1>4. ChainInv' /\ RecordInv'
    BY <1>1 DEF ChainInv, TokenBacked, GatewayMovesWithTreasury, RecordInv
<1>5. JobInv'
    BY <1>1, NewIsTreasury DEF JobInv, NoTreasury
<1>6. CallsInv'
    BY <1>1, NothingReady DEF CallsInv, Ready
<1>7. FileInv'
  <2>1. CASE batch' = NoBatch
    <3>1. DOMAIN batch' = {"network", "complete", "txs"} /\ ~batch'.complete /\ batch'.txs = <<>>
      BY <2>1 DEF NoBatch
    <3>2. ~Moves(<<>>)
      BY EmptyList DEF Moves
    <3>3. QED
      BY <1>1, <3>1, <3>2, NothingReady DEF FileInv, Batchable, Ready
  <2>2. CASE batch' = batch
    BY <1>1, <1>2, <2>2 DEF FileInv, Batchable, Ready
  <2>3. QED
    BY <1>1, <2>1, <2>2
<1>8. QED
    BY <1>3, <1>4, <1>5, <1>6, <1>7

LEMMA FileDeletedKeeps ==
    ASSUME MigrationInv, ForkDone \/ Discard
    PROVE  MigrationInv'
<1> USE DEF MigrationInv
<1>1. /\ batch' = NoBatch /\ pc' = "idle" /\ calls' = <<>> /\ ~batchStarted'
      /\ seen' = NoTreasury \/ seen' = seen
      /\ UNCHANGED <<chain, artifact, previous, code, net, safeQueue>>
    BY DEF ForkDone, Discard, DiscardBatch, EndProcess, recordVars, worldVars, jobVars, JobInv
<1>2. Forward
    BY <1>1 DEF Forward
<1>3. ChainInv' /\ RecordInv'
    BY <1>1 DEF ChainInv, TokenBacked, GatewayMovesWithTreasury, RecordInv
<1>4. JobInv'
    BY <1>1, NewIsTreasury DEF JobInv, NoTreasury
<1>5. CallsInv'
    BY <1>1, NothingReady DEF CallsInv, Ready
<1>6. FileInv'
  <2>1. DOMAIN batch' = {"network", "complete", "txs"} /\ ~batch'.complete /\ batch'.txs = <<>>
    BY <1>1 DEF NoBatch
  <2>2. ~Moves(<<>>)
    BY EmptyList DEF Moves
  <2>3. QED
    BY <1>1, <2>1, <2>2, NothingReady DEF FileInv, Batchable, Ready
<1>7. QED
    BY <1>1, <1>2, <1>3, <1>4, <1>5, <1>6, QueueStays

\* The calls left once the first one is executed.
LEMMA TailReady ==
    ASSUME NEW txs, txs # <<>>, NEW recorded, NEW moved, ReadyAt(txs, recorded, moved)
    PROVE  /\ CallOk(Head(txs))
           /\ Head(txs).do = "updateTreasury" => recorded
           /\ Head(txs).do = "upgradeGateway" => moved
           /\ ReadyAt(Tail(txs), recorded, moved \/ Head(txs).do = "updateTreasury")
<1> DEFINE rest == Tail(txs)
           S == ToSet(txs)
<1>1. txs \in Seq(S) /\ \A call \in S : CallOk(call)
    BY DEF ReadyAt, CallList, ToSet
<1>2. Moves(txs) => recorded
    BY DEF ReadyAt
<1>3. \A i \in DOMAIN txs : txs[i].do = "upgradeGateway" => moved \/ \E j \in 1..i - 1 : txs[j].do = "updateTreasury"
    BY DEF ReadyAt, UpgradesFollow
<1> HIDE DEF S
<1>4. /\ Len(txs) \in Nat /\ DOMAIN txs = 1..Len(txs) /\ Head(txs) = txs[1] /\ 1 \in DOMAIN txs
      /\ rest \in Seq(S) /\ DOMAIN rest = 1..Len(txs) - 1
      /\ \A i \in DOMAIN rest : rest[i] = txs[i + 1]
    BY <1>1
<1> HIDE DEF rest
<1>5. CallOk(txs[1])
    BY <1>1, <1>4
<1>6. txs[1].do = "updateTreasury" => recorded
    BY <1>2, <1>4 DEF Moves, Does
<1>7. txs[1].do = "upgradeGateway" => moved
  <2>1. 1..1 - 1 = {}
    OBVIOUS
  <2>2. QED
    BY <1>3, <1>4, <2>1
<1>8. CallList(rest)
    BY <1>1, <1>4, CallListType
<1>9. Moves(rest) => recorded
  <2>1. \A i \in DOMAIN rest : i + 1 \in DOMAIN txs
    BY <1>4
  <2>2. QED
    BY <1>2, <1>4, <2>1 DEF Moves, Does
<1>10. UpgradesFollow(rest, moved \/ txs[1].do = "updateTreasury")
  <2>1. SUFFICES ASSUME NEW i \in DOMAIN rest, rest[i].do = "upgradeGateway", ~moved, txs[1].do # "updateTreasury"
                 PROVE  \E j \in 1..i - 1 : rest[j].do = "updateTreasury"
    BY DEF UpgradesFollow
  <2>2. i + 1 \in DOMAIN txs /\ (i + 1) - 1 = i
    BY <1>4, <2>1
  <2>3. PICK j \in 1..i : txs[j].do = "updateTreasury"
    BY <1>3, <1>4, <2>1, <2>2
  <2>4. j - 1 \in 1..i - 1 /\ j - 1 \in DOMAIN rest /\ (j - 1) + 1 = j
    BY <1>4, <2>1, <2>3
  <2>5. QED
    BY <1>4, <2>3, <2>4
<1>11. QED
    BY <1>4, <1>5, <1>6, <1>7, <1>8, <1>9, <1>10 DEF ReadyAt, rest

LEMMA ForkCallKeeps == MigrationInv /\ ForkCall => MigrationInv'
<1> SUFFICES ASSUME MigrationInv, ForkCall PROVE MigrationInv'
    OBVIOUS
<1> USE DEF MigrationInv
<1>1. /\ pc = "propose" /\ net = "localhost" /\ calls # <<>>
      /\ chain' = Effect(chain, Head(calls)) /\ calls' = Tail(calls)
      /\ UNCHANGED <<artifact, previous, code, net, pc, seen, batch, batchStarted, safeQueue>>
    BY DEF ForkCall, recordVars, worldVars, batchVars
<1>2. /\ CallOk(Head(calls))
      /\ Head(calls).do = "updateTreasury" => artifact = "new"
      /\ Head(calls).do = "upgradeGateway" => chain.token = "new"
      /\ ReadyAt(Tail(calls), artifact = "new", (chain.token = "new") \/ Head(calls).do = "updateTreasury")
    BY <1>1, TailReady DEF CallsInv, Ready
<1>3. IsChain(chain)
    BY DEF ChainInv
<1>4. /\ IsChain(chain')
      /\ chain'.token = IF Head(calls).do = "updateTreasury" THEN "new" ELSE chain.token
      /\ Head(calls).do # "upgradeGateway" => chain'.gateway = chain.gateway
    BY <1>1, <1>2, <1>3, EffectKeeps
<1> DEFINE call == Head(calls)
<1> HIDE DEF call
<1>5. Forward
    BY <1>1, <1>4 DEF Forward
<1>6. ChainInv'
  <2>1. GatewayMovesWithTreasury'
    BY <1>2, <1>4 DEF ChainInv, GatewayMovesWithTreasury
  <2>2. TokenBacked'
    BY <1>1 DEF TokenBacked
  <2>3. QED
    BY <1>4, <2>1, <2>2 DEF ChainInv
<1>7. RecordInv'
    BY <1>1, <1>2, <1>4 DEF RecordInv, ChainInv, IsChain
<1>8. JobInv'
    BY <1>1 DEF JobInv, NoOlderBatch
<1>9. CallsInv'
  <2>1. ReadyAt(calls', artifact' = "new", chain'.token = "new")
    <3>1. ((chain.token = "new") \/ Head(calls).do = "updateTreasury") = (chain'.token = "new")
      BY <1>4
    <3>2. QED
      BY <1>1, <1>2, <3>1
  <2>2. QED
    BY <1>1, <2>1 DEF CallsInv, Ready
<1>10. FileInv'
  <2>1. ReadyAt(batch.txs, artifact' = "new", chain'.token = "new")
    BY <1>5, ReadyLater DEF FileInv, Batchable
  <2>2. QED
    BY <1>1, <2>1 DEF FileInv, Ready, Batchable
<1>11. QED
    BY <1>1, <1>5, <1>6, <1>7, <1>8, <1>9, <1>10, QueueStays

LEMMA QueueShrinks ==
    ASSUME QueueInv, safeQueue # <<>>, safeQueue' = Tail(safeQueue), Forward
    PROVE  QueueInv' /\ (NoOlderBatch => NoOlderBatch')
<1> DEFINE S == ToSet(safeQueue)
           q == safeQueue'
<1>1. safeQueue \in Seq(S)
    BY DEF QueueInv
<1> HIDE DEF S
<1>2. q \in Seq(S) /\ \A i \in DOMAIN q : i + 1 \in DOMAIN safeQueue /\ q[i] = safeQueue[i + 1]
    BY <1>1
<1> HIDE DEF q
<1>3. \A i \in DOMAIN q : ReadyAt(q[i], artifact' = "new", chain'.token = "new")
                          /\ (Moves(q[i]) => IsMigration(q[i])) /\ Whole(q[i])
    BY <1>2, ReadyLater DEF QueueInv, Batchable
<1>4. q \in Seq(ToSet(q))
    BY <1>2 DEF ToSet
<1>5. QueueInv'
    BY <1>3, <1>4 DEF QueueInv, q, Batchable, Ready
<1>6. NoOlderBatch => NoOlderBatch'
    BY <1>2 DEF NoOlderBatch, q
<1>7. QED
    BY <1>5, <1>6

LEMMA RejectKeeps == MigrationInv /\ SafeRejects => MigrationInv'
<1> SUFFICES ASSUME MigrationInv, SafeRejects PROVE MigrationInv'
    OBVIOUS
<1> USE DEF MigrationInv
<1>1. /\ safeQueue # <<>> /\ safeQueue' = Tail(safeQueue)
      /\ UNCHANGED <<chain, artifact, previous, code, net, pc, seen, calls, batch, batchStarted>>
    BY DEF SafeRejects, recordVars, worldVars, jobVars
<1>2. Forward
    BY <1>1 DEF Forward
<1>3. QueueInv' /\ (NoOlderBatch => NoOlderBatch')
    BY <1>1, <1>2, QueueShrinks
<1>4. ChainInv' /\ RecordInv' /\ CallsInv'
    BY <1>1 DEF ChainInv, TokenBacked, GatewayMovesWithTreasury, RecordInv, CallsInv, Ready, Batchable
<1>5. JobInv'
    BY <1>1, <1>3 DEF JobInv
<1>6. FileInv'
    BY <1>1 DEF FileInv, Ready, Batchable
<1>7. QED
    BY <1>3, <1>4, <1>5, <1>6

\* Where the dust that lands behind a migration leaves the chain.
LEMMA LateKeeps ==
    ASSUME NEW c, IsChain(c), NEW late \in Nat
    PROVE  LET d == [c EXCEPT !.held.old = @ + late] IN
           /\ IsChain(d) /\ d.token = c.token /\ d.gateway = c.gateway
           /\ d.held.old = c.held.old + late /\ d.held.new = c.held.new
    BY DEF IsChain

\* What the executed proposal leaves: the token where its collateral is, and the Gateway with it.
LEMMA ExecutedChain ==
    ASSUME MigrationInv, NEW late \in 0..MaxDust, SafeExecutes(late)
    PROVE  /\ IsChain(chain') /\ TokenBacked' /\ GatewayMovesWithTreasury'
           /\ chain'.token = IF Moves(Head(safeQueue)) THEN "new" ELSE chain.token
<1> USE DEF MigrationInv
<1> DEFINE txs == Head(safeQueue)
<1>1. PICK after \in RunCalls(chain, txs) :
            IF IsMigration(txs) THEN \E end \in LaterInBlock(after) : chain' = [end EXCEPT !.held.old = @ + late]
                                ELSE chain' = after
    BY DEF SafeExecutes, Archive
<1>2. Batchable(txs) /\ net' = net
  <2>1. 1 \in DOMAIN safeQueue /\ txs = safeQueue[1]
    BY DEF QueueInv, SafeExecutes
  <2> HIDE DEF txs
  <2>2. QED
    BY <2>1 DEF QueueInv, SafeExecutes
<1> HIDE DEF txs
<1>3. CallList(txs) /\ UpgradesFollow(txs, chain.token = "new") /\ (Moves(txs) => IsMigration(txs))
    BY <1>2 DEF Batchable, Ready, ReadyAt
<1>4. IsChain(chain) /\ (chain.gateway # 0 => chain.token = "new")
    BY DEF ChainInv, GatewayMovesWithTreasury
<1>5. AfterCalls(after, chain, txs, Len(txs))
    BY <1>1, <1>3, <1>4, RunKeeps
<1>6. DOMAIN txs = 1..Len(txs)
    BY <1>3 DEF CallList
<1>7. /\ IsChain(after)
      /\ after.token = IF Moves(txs) THEN "new" ELSE chain.token
      /\ after.held.old + after.held.new = chain.held.old + chain.held.new
      /\ IF IsMigration(txs) THEN after.held.old = 0 /\ after.token = "new" ELSE after.held = chain.held
      /\ after.gateway # 0 => after.token = "new"
    BY <1>5, <1>6 DEF AfterCalls, Moves, Does, IsMigration, Migrates
<1>8. late \in Nat
    OBVIOUS
<1>9. /\ IsChain(chain') /\ chain'.token = after.token /\ chain'.gateway = after.gateway
      /\ chain'.held.new = after.held.new
      /\ ~IsMigration(txs) => chain'.held = after.held
  <2>1. CASE IsMigration(txs)
    <3>1. PICK end \in LaterInBlock(after) : chain' = [end EXCEPT !.held.old = @ + late]
      BY <1>1, <2>1
    <3>2. IsChain(end) /\ end.token = after.token /\ end.gateway = after.gateway /\ end.held = after.held
      BY <1>7, LaterType
    <3>3. QED
      BY <1>8, <2>1, <3>1, <3>2, LateKeeps
  <2>2. CASE ~IsMigration(txs)
    BY <1>1, <1>7, <2>2
  <2>3. QED
    BY <2>1, <2>2
<1>10. TokenBacked'
  <2>1. SUFFICES ASSUME net = "ethereum" PROVE chain'.held[chain'.token] > 0
    BY <1>2 DEF TokenBacked
  <2>2. chain.held[chain.token] > 0
    BY <2>1 DEF ChainInv, TokenBacked
  <2>3. /\ chain.token \in {"old", "new"} /\ chain.held.old \in Nat /\ chain.held.new \in Nat
        /\ after.held.old \in Nat /\ after.held.new \in Nat
    BY <1>4, <1>7 DEF IsChain
  <2>4. CASE IsMigration(txs)
    <3>1. chain.held.old + chain.held.new > 0
      BY <2>2, <2>3
    <3>2. QED
      BY <1>7, <1>9, <2>3, <2>4, <3>1
  <2>5. CASE ~IsMigration(txs)
    BY <1>3, <1>7, <1>9, <2>2, <2>5
  <2>6. QED
    BY <2>4, <2>5
<1>11. GatewayMovesWithTreasury'
    BY <1>7, <1>9 DEF GatewayMovesWithTreasury
<1>12. QED
    BY <1>7, <1>9, <1>10, <1>11 DEF txs

LEMMA ExecuteKeeps ==
    ASSUME MigrationInv, NEW late \in 0..MaxDust, SafeExecutes(late)
    PROVE  MigrationInv'
<1> USE DEF MigrationInv
<1>1. /\ safeQueue # <<>> /\ safeQueue' = Tail(safeQueue)
      /\ UNCHANGED <<artifact, previous, code, net, pc, seen, calls, batch, batchStarted>>
    BY DEF SafeExecutes, recordVars, jobVars
<1>2. /\ IsChain(chain') /\ TokenBacked' /\ GatewayMovesWithTreasury'
      /\ chain'.token = IF Moves(Head(safeQueue)) THEN "new" ELSE chain.token
    BY ExecutedChain
<1>3. /\ Moves(Head(safeQueue)) => artifact = "new"
      /\ Moves(Head(safeQueue)) => ~NoOlderBatch
  <2>1. 1 \in DOMAIN safeQueue /\ Head(safeQueue) = safeQueue[1]
    BY <1>1 DEF QueueInv
  <2>2. Batchable(Head(safeQueue)) /\ (NoOlderBatch => ~IsMigration(Head(safeQueue)))
    BY <2>1 DEF QueueInv, NoOlderBatch
  <2>3. QED
    BY <2>2 DEF Batchable, Ready, ReadyAt
<1>4. Forward
    BY <1>1, <1>2 DEF Forward
<1>5. QueueInv' /\ (NoOlderBatch => NoOlderBatch')
    BY <1>1, <1>4, QueueShrinks
<1>6. RecordInv'
    BY <1>1, <1>2, <1>3 DEF RecordInv
<1>7. JobInv'
    BY <1>1, <1>2, <1>3, <1>5 DEF JobInv
<1>8. CallsInv'
  <2>1. ReadyAt(calls, artifact' = "new", chain'.token = "new")
    BY <1>4, ReadyLater DEF CallsInv
  <2>2. QED
    BY <1>1, <2>1 DEF CallsInv, Ready, Batchable
<1>9. FileInv'
  <2>1. ReadyAt(batch.txs, artifact' = "new", chain'.token = "new")
    BY <1>4, ReadyLater DEF FileInv, Batchable
  <2>2. QED
    BY <1>1, <2>1 DEF FileInv, Ready, Batchable
<1>10. QED
    BY <1>2, <1>5, <1>6, <1>7, <1>8, <1>9 DEF ChainInv

\* What is left of the queue when a migration is abandoned migrates nothing.
LEMMA AbandonKeeps == MigrationInv /\ Abandon => MigrationInv'
<1> SUFFICES ASSUME MigrationInv, Abandon PROVE MigrationInv'
    OBVIOUS
<1> USE DEF MigrationInv
<1> DEFINE given == [txs \in ToSet(safeQueue) |-> When(~IsMigration(txs), txs)]
           S == {txs \in ToSet(safeQueue) : ~IsMigration(txs)}
<1>1. /\ pc = "idle" /\ chain.token = "old" /\ artifact' = "old"
      /\ chain' = [chain EXCEPT !.new = NoTreasury]
      /\ safeQueue' = ForEach(safeQueue, given)
      /\ batch' = NoBatch
      /\ UNCHANGED <<code, net, pc, seen, calls, batchStarted>>
    BY DEF Abandon, jobVars
<1>2. /\ IsChain(chain') /\ chain'.token = chain.token /\ chain'.held = chain.held /\ chain'.gateway = chain.gateway
    BY <1>1, NewIsTreasury DEF NoTreasury, ChainInv, IsChain
<1>3. ChainInv'
    BY <1>1, <1>2 DEF ChainInv, TokenBacked, GatewayMovesWithTreasury
<1>4. RecordInv'
    BY <1>1, <1>2 DEF RecordInv
<1>5. JobInv'
    BY <1>1, <1>2 DEF JobInv, NoOlderBatch
<1>6. CallsInv'
  <2>1. calls' = <<>>
    BY <1>1 DEF JobInv
  <2>2. QED
    BY <1>1, <2>1, NothingReady DEF CallsInv, Ready
<1>7. FileInv'
  <2>1. DOMAIN batch' = {"network", "complete", "txs"} /\ ~batch'.complete /\ batch'.txs = <<>>
    BY <1>1 DEF NoBatch
  <2>2. ~Moves(<<>>)
    BY EmptyList DEF Moves
  <2>3. QED
    BY <1>1, <2>1, <2>2, NothingReady DEF FileInv, Batchable, Ready, JobInv
<1>8. QueueInv'
  <2>1. \A txs \in ToSet(safeQueue) : given[txs] \in Seq(S)
    <3>1. \A txs \in ToSet(safeQueue) : given[txs] = When(~IsMigration(txs), txs) /\ (~IsMigration(txs) => txs \in S)
      OBVIOUS
    <3>2. <<>> \in Seq(S) /\ \A txs \in S : <<txs>> \in Seq(S)
      OBVIOUS
    <3> HIDE DEF given, S
    <3>3. QED
      BY <3>1, <3>2 DEF When
  <2>2. safeQueue \in Seq(ToSet(safeQueue))
    BY DEF QueueInv
  <2>3. \A txs \in S : /\ ReadyAt(txs, artifact' = "new", chain'.token = "new")
                       /\ ~IsMigration(txs)
    <3>1. \A txs \in S : Batchable(txs) /\ ~IsMigration(txs)
      BY DEF QueueInv, ToSet
    <3> HIDE DEF S
    <3>2. QED
      BY <1>1, <1>2, <3>1 DEF Batchable, Ready, ReadyAt
  <2> HIDE DEF given, S
  <2>4. safeQueue' \in Seq(S)
    BY <1>1, <2>1, <2>2, ForEachType
  <2> DEFINE q == safeQueue'
  <2>5. q \in Seq(ToSet(q)) /\ \A i \in DOMAIN q : q[i] \in S
    BY <2>4 DEF ToSet
  <2> HIDE DEF q
  <2>6. \A i \in DOMAIN q : /\ ReadyAt(q[i], artifact' = "new", chain'.token = "new")
                            /\ ~IsMigration(q[i]) /\ ~Moves(q[i])
    BY <1>1, <2>3, <2>5 DEF ReadyAt
  <2>7. QED
    BY <2>5, <2>6 DEF QueueInv, q, Batchable, Ready, Whole
<1>9. QED
    BY <1>3, <1>4, <1>5, <1>6, <1>7, <1>8

-----------------------------------------------------------------------------
(* The specification.                                                      *)

LEMMA MigrationInvInitially == MigrationInit => MigrationInv
<1> SUFFICES ASSUME MigrationInit PROVE MigrationInv
    OBVIOUS
<1> USE DEF MigrationInit
<1>1. PICK old \in LiveTreasuries :
        chain = [old |-> old, new |-> NoTreasury, token |-> "old", access |-> LiveAccess, gateway |-> 0,
                 held |-> [old |-> 1, new |-> 0]]
    OBVIOUS
<1>2. IsTreasury(old) /\ IsTreasury(NoTreasury)
    BY MigrationAssumption, NewIsTreasury DEF NoTreasury
<1>3. ChainInv
    BY <1>1, <1>2 DEF ChainInv, IsChain, TokenBacked, GatewayMovesWithTreasury
<1>4. RecordInv /\ JobInv
    BY <1>1, <1>2 DEF RecordInv, JobInv, BatchInit
<1>5. CallsInv
    BY NothingReady DEF CallsInv, Ready
<1>6. FileInv
  <2>1. DOMAIN batch = {"network", "complete", "txs"} /\ ~batch.complete /\ batch.txs = <<>>
    BY DEF BatchInit, NoBatch
  <2>2. ~Moves(<<>>)
    BY EmptyList DEF Moves
  <2>3. QED
    BY <2>1, <2>2, NothingReady DEF FileInv, Batchable, Ready, BatchInit
<1>7. QueueInv
  <2>1. safeQueue = <<>> /\ DOMAIN <<>> = {} /\ <<>> \in Seq(ToSet(<<>>))
    BY DEF BatchInit
  <2>2. QED
    BY <2>1 DEF QueueInv
<1>8. QED
    BY <1>3, <1>4, <1>5, <1>6, <1>7 DEF MigrationInv

LEMMA MigrationInvKept == MigrationInv /\ [MigrationNext]_vars => MigrationInv'
<1> SUFFICES ASSUME MigrationInv, [MigrationNext]_vars PROVE MigrationInv'
    OBVIOUS
<1>1. CASE \E script \in {"migrate", "check"} :
            (script = "migrate" => NoOlderBatch) /\ (StartOwnTags(script) \/ StartFull(script))
    BY <1>1, StartKeeps, StartFullKeeps
<1>2. CASE StartMigration \/ SaveAlias \/ StartRebuild \/ SaveRecord \/ CheckPending \/ VerifyMigrated
          \/ NothingToMigrate \/ DeleteRecord
    BY <1>2, ProcessKeeps
<1>3. CASE DeployProxy \/ DeleteOrphan \/ LiveChange \/ EarlyGrant \/ Donate
    BY <1>3, SettingsKeep
<1>4. CASE Throws \/ NothingToPropose \/ LeftoverAtEnd \/ Crash
  <2>1. EndProcess /\ UNCHANGED <<chain, artifact, previous, code, net, batch, safeQueue>>
    BY <1>4 DEF Throws, NothingToPropose, LeftoverAtEnd, Crash, recordVars, worldVars
  <2>2. QED
    BY <2>1, EndKeeps
<1>5. CASE BuildBatch \/ UpgradeGateway \/ MarkBatch
    BY <1>5, BuildBatchKeeps, UpgradeGatewayKeeps, MarkBatchKeeps
<1>6. CASE (\E unlinked \in BOOLEAN : ProposeBatch(unlinked)) \/ ProposeLeftover
    BY <1>6, ProposeKeeps
<1>7. CASE ForkDone \/ Discard
    BY <1>7, FileDeletedKeeps
<1>8. CASE ForkCall \/ SafeRejects \/ Abandon
    BY <1>8, ForkCallKeeps, RejectKeeps, AbandonKeeps
<1>9. CASE \E late \in 0..MaxDust : SafeExecutes(late)
    BY <1>9, ExecuteKeeps
<1>10. CASE CodeChange \/ OtherStackUpgrade \/ UNCHANGED vars
    BY <1>10, CodeKeeps
<1>11. QED
    BY <1>1, <1>2, <1>3, <1>4, <1>5, <1>6, <1>7, <1>8, <1>9, <1>10 DEF MigrationNext, DeploySteps

LEMMA MigrationInvHolds == MigrationSpec => []MigrationInv
    BY MigrationInvInitially, MigrationInvKept, PTL DEF MigrationSpec

\* Whichever process dies and wherever, the Treasury that holds the collateral is under the alias or
\* under _Previous (migrateTreasuryIfRequested, deployAndRecord).
THEOREM LiveTreasuryStaysRecorded == MigrationSpec => []LiveTreasuryRecorded
<1>1. MigrationInv => LiveTreasuryRecorded
    BY DEF MigrationInv, ChainInv, IsChain, RecordInv, LiveTreasuryRecorded
<1>2. QED
    BY <1>1, MigrationInvHolds, PTL

\* On the main network the token points at a Treasury with collateral, through every interleaving of
\* routine scripts, batches that are proposed late or again, and executions with dust
\* and settings behind them.
THEOREM TokenStaysBacked == MigrationSpec => []TokenBacked
<1>1. MigrationInv => TokenBacked
    BY DEF MigrationInv, ChainInv
<1>2. QED
    BY <1>1, MigrationInvHolds, PTL

\* The Gateway that reads the Treasury's peg bands runs over a Treasury that has them, whichever script
\* or stack queued its upgrade.
THEOREM GatewayFollowsTreasury == MigrationSpec => []GatewayMovesWithTreasury
<1>1. MigrationInv => GatewayMovesWithTreasury
    BY DEF MigrationInv, ChainInv
<1>2. QED
    BY <1>1, MigrationInvHolds, PTL

\* Every proposal that migrates carries the Gateway's upgrade, whatever process died between the
\* mirror calls and the upgrade behind them.
THEOREM NoHalfMigration == MigrationSpec => []ProposalsWhole
<1>1. MigrationInv => ProposalsWhole
    BY DEF MigrationInv, QueueInv, Whole, Does, ProposalsWhole
<1>2. QED
    BY <1>1, MigrationInvHolds, PTL

================================================================================
