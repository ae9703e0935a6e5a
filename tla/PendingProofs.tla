---------------------------- MODULE PendingProofs ----------------------------
(***************************************************************************)
(* The migration that waits in the Safe is the right one when its check    *)
(* has passed, and passes the verification once it has executed, for any   *)
(* collateral, Treasuries, scripts, roles, code versions and bounds:       *)
(* CheckedBatchMirrors and MigrationVerifies.                              *)
(*                                                                         *)
(* MirrorProofs shows what the calls of a batch do when they run in the    *)
(* state they were built from.  What is left is that they do: every        *)
(* migration in the file or in the queue is the recorded one (ListsInv),   *)
(* the recorded one is what would be built now (CheckedInv), and the two   *)
(* Treasuries stay what MirrorProofs starts from, whatever routine lists   *)
(* run and whatever is set on them in between (CopyInv, KnownInv).  Then   *)
(* that nothing afterwards undoes what the verification reads              *)
(* (ExecutedInv), and that a fork's run of it, call by call, leads there   *)
(* as well (ForkInv).  An admin delay set on the live Treasury is all that *)
(* these miss (DelayInv).                                                  *)
(***************************************************************************)
EXTENDS MigrationProofs

-----------------------------------------------------------------------------
(* The batch that was checked.                                             *)

WholeChain(c) ==
    c = [old |-> c.old, new |-> c.new, token |-> c.token, access |-> c.access, gateway |-> c.gateway, held |-> c.held]

\* A list of the routine scripts, as they build it while the token has not moved: what the live Treasury
\* does not list yet.
ScriptCall(call) == call.do = "addToWhitelist" /\ call.on = "old"
Scripts(txs) == \A i \in DOMAIN txs : ScriptCall(txs[i])

\* What calls leave of the live Treasury.
SameOld(d, c) ==
    /\ IsChain(d) /\ WholeChain(d) /\ WellFormed(d.old)
    /\ d.old.admin = c.old.admin /\ d.old.delay = c.old.delay

\* What the scripts' calls leave of everything else.
SameRest(d, c) == d.new = c.new /\ d.access = c.access /\ d.gateway = c.gateway

LEMMA AppendWellFormed ==
    ASSUME NEW s, IsTreasury(s), WellFormed(s), NEW t \in Tokens, ~HasToken(s, t), NEW config
    PROVE  WellFormed([s EXCEPT !.tokens = Append(@, t), !.cfg[t] = Opened(config)])
<1> DEFINE d == [s EXCEPT !.tokens = Append(@, t), !.cfg[t] = Opened(config)]
           list == s.tokens
           more == Append(list, t)
           whole(x) == [config |-> x.config, deposit |-> x.deposit, withdraw |-> x.withdraw, band |-> x.band]
<1>1. list \in Seq(Tokens) /\ DOMAIN s = {"tokens", "cfg", "tolerance", "swapper", "roles", "admin", "delay", "pending"}
    BY DEF IsTreasury
<1>2. d.tokens = more /\ d.tolerance = s.tolerance /\ d.cfg = [s.cfg EXCEPT ![t] = Opened(config)]
    BY <1>1
<1>3. s.cfg = [x \in Tokens |-> whole(s.cfg[x])] /\ s.tolerance \in Nat
      /\ \A i, j \in DOMAIN list : list[i] = list[j] => i = j
    BY DEF WellFormed
<1>4. \A x \in Tokens : {s.cfg[x].deposit, s.cfg[x].withdraw} \subseteq BOOLEAN /\ s.cfg[x].band \in Nat
    BY DEF WellFormed
<1>5. \A i \in DOMAIN list : list[i] # t
    BY <1>1 DEF HasToken, Contains
<1> HIDE DEF d, list
<1>6. DOMAIN more = 1..Len(list) + 1 /\ DOMAIN list = 1..Len(list) /\ Len(list) \in Nat
      /\ \A i \in 1..Len(list) + 1 : more[i] = IF i = Len(list) + 1 THEN t ELSE list[i]
    BY <1>1
<1> HIDE DEF more
<1>7. \A i, j \in DOMAIN more : more[i] = more[j] => i = j
  <2>1. \A i \in DOMAIN more : i # Len(list) + 1 => i \in DOMAIN list
    BY <1>6
  <2>2. QED
    BY <1>3, <1>5, <1>6, <2>1
<1> DEFINE cfg == d.cfg
<1>8. \A x \in Tokens : cfg[x] = IF x = t THEN Opened(config) ELSE s.cfg[x]
  <2>1. DOMAIN s.cfg = Tokens
    <3> HIDE DEF whole
    <3>1. QED
      BY <1>3
  <2>2. QED
    BY <1>2, <2>1
<1>9. cfg = [x \in Tokens |-> cfg[x]]
  <2> DEFINE from == s.cfg
  <2>1. from = [x \in Tokens |-> from[x]]
    <3> HIDE DEF whole, from
    <3>1. from = [x \in Tokens |-> whole(from[x])]
      BY <1>3 DEF from
    <3>2. QED
      BY <3>1
  <2>2. cfg = [from EXCEPT ![t] = Opened(config)]
    BY <1>2
  <2> HIDE DEF from, cfg
  <2>3. QED
    BY <2>1, <2>2
<1>10. \A x \in Tokens : cfg[x] = whole(cfg[x])
  <2>1. Opened(config) = whole(Opened(config))
    BY DEF Opened
  <2>2. \A x \in Tokens : s.cfg[x] = whole(s.cfg[x])
    <3> DEFINE from == s.cfg
    <3> HIDE DEF whole, from
    <3>1. from = [x \in Tokens |-> whole(from[x])]
      BY <1>3 DEF from
    <3>2. \A x \in Tokens : from[x] = whole(from[x])
      BY <3>1
    <3>3. QED
      BY <3>2 DEF from
  <2> HIDE DEF whole, cfg
  <2>3. QED
    BY <1>8, <2>1, <2>2
<1>11. \A x \in Tokens : {cfg[x].deposit, cfg[x].withdraw} \subseteq BOOLEAN /\ cfg[x].band \in Nat
  <2>1. {Opened(config).deposit, Opened(config).withdraw} \subseteq BOOLEAN /\ Opened(config).band \in Nat
    BY DEF Opened
  <2> HIDE DEF cfg
  <2>2. QED
    BY <1>4, <1>8, <2>1
<1>12. cfg = [x \in Tokens |-> whole(cfg[x])]
  <2> HIDE DEF cfg, whole
  <2>1. QED
    BY <1>9, <1>10
<1>13. WellFormed(d)
    BY <1>2, <1>3, <1>7, <1>11, <1>12 DEF WellFormed
<1>14. QED
    BY <1>13 DEF d

LEMMA EffectOnOld ==
    ASSUME NEW c, IsChain(c), WholeChain(c), WellFormed(c.old), NEW call, CallOk(call), Accepts(c, call)
    PROVE  /\ SameOld(Effect(c, call), c)
           /\ ScriptCall(call) => SameRest(Effect(c, call), c)
<1> DEFINE d == Effect(c, call)
<1>1. IsChain(d)
    BY EffectKeeps
<1>2. CASE call.do = "addToWhitelist"
  <2>1. call.on \in {"old", "new"} /\ call.token \in Tokens
    BY <1>2 DEF CallOk
  <2>2. d = [c EXCEPT ![call.on].tokens = Append(@, call.token), ![call.on].cfg[call.token] = Opened(call.value)]
    BY <1>2 DEF Effect
  <2>3. ~HasToken(c[call.on], call.token)
    BY <1>2 DEF Accepts
  <2>4. CASE call.on = "old"
    <3> DEFINE s == [c.old EXCEPT !.tokens = Append(@, call.token), !.cfg[call.token] = Opened(call.value)]
    <3>1. WellFormed(s)
      BY <2>1, <2>3, <2>4, AppendWellFormed DEF IsChain
    <3>2. s.admin = c.old.admin /\ s.delay = c.old.delay
      BY DEF IsChain, IsTreasury
    <3>3. d = [c EXCEPT !.old = s]
      BY <2>2, <2>4 DEF IsChain, IsTreasury, WholeChain
    <3> HIDE DEF s, d
    <3>4. d.old = s /\ SameRest(d, c) /\ WholeChain(d)
      BY <3>3 DEF WholeChain, IsChain, SameRest
    <3>5. QED
      BY <1>1, <3>1, <3>2, <3>4 DEF SameOld, d
  <2>5. CASE call.on = "new"
    <3>1. d.old = c.old /\ WholeChain(d)
      BY <2>2, <2>5 DEF WholeChain
    <3>2. ~ScriptCall(call)
      BY <1>2, <2>5 DEF ScriptCall
    <3>3. QED
      BY <1>1, <3>1, <3>2 DEF SameOld
  <2>6. QED
    BY <2>1, <2>4, <2>5
<1>3. CASE call.do # "addToWhitelist"
  <2>1. WholeChain(d) /\ d.old = c.old
    <3>1. CASE call.do \in {"allow", "forbid", "updateTreasury", "migrate", "upgradeGateway"}
      BY <3>1 DEF Effect, WholeChain
    <3>2. CASE call.do \in {"grantRole", "revokeRole", "updatePriceTolerance", "updateSwapper"}
      BY <3>2 DEF Effect, WholeChain
    <3>3. CASE call.do \in {"updatePegBand", "setDepositActive", "setWithdrawActive"}
      BY <3>3 DEF Effect, WholeChain
    <3>4. QED
      BY <1>3, <3>1, <3>2, <3>3 DEF CallOk, CallNames
  <2>2. ~ScriptCall(call)
    BY <1>3 DEF ScriptCall
  <2>3. QED
    BY <1>1, <2>1, <2>2 DEF SameOld
<1>4. QED
    BY <1>2, <1>3

\* A whole list of calls.
LEMMA RunOnOld ==
    ASSUME NEW c, IsChain(c), WholeChain(c), WellFormed(c.old), NEW txs, CallList(txs), NEW after \in RunCalls(c, txs)
    PROVE  /\ SameOld(after, c)
           /\ Scripts(txs) => SameRest(after, c)
<1>1. txs \in Seq(ToSet(txs)) /\ \A i \in DOMAIN txs : CallOk(txs[i])
    BY DEF CallList
<1>2. PICK f : /\ f[0] = {c}
               /\ \A i \in 1..Len(txs) : f[i] = RunStep(f[i - 1], txs[i])
               /\ f[Len(txs)] = RunCalls(c, txs)
    BY <1>1, RunTrace
<1>3. Len(txs) \in Nat /\ DOMAIN txs = 1..Len(txs)
    BY <1>1
<1> DEFINE Good(at) == SameOld(at, c) /\ (Scripts(txs) => SameRest(at, c))
           G == {i \in Nat : i <= Len(txs) => \A at \in f[i] : Good(at)}
<1>4. 0 \in G
  <2>1. Good(c)
    BY DEF SameOld, SameRest
  <2> HIDE DEF Good
  <2>2. QED
    BY <1>2, <2>1
<1>5. ASSUME NEW i \in Nat, i \in G
      PROVE  i + 1 \in G
  <2>1. SUFFICES ASSUME i + 1 <= Len(txs), NEW d \in f[i + 1] PROVE Good(d)
    <3> HIDE DEF Good
    <3>1. QED
      OBVIOUS
  <2>2. i + 1 \in 1..Len(txs) /\ (i + 1) - 1 = i /\ i <= Len(txs)
    BY <1>3, <2>1
  <2>3. f[i + 1] = RunStep(f[i], txs[i + 1])
    BY <1>2, <2>2
  <2>4. PICK at \in f[i] : Accepts(at, txs[i + 1]) /\ d = Effect(at, txs[i + 1])
    BY <2>1, <2>3 DEF RunStep
  <2>5. Good(at)
    <3> HIDE DEF Good
    <3>1. QED
      BY <1>5, <2>2
  <2>6. CallOk(txs[i + 1]) /\ (Scripts(txs) => ScriptCall(txs[i + 1]))
    BY <1>1, <1>3, <2>2 DEF Scripts
  <2>7. SameOld(d, at) /\ (Scripts(txs) => SameRest(d, at))
    BY <2>4, <2>5, <2>6, EffectOnOld DEF SameOld
  <2>8. QED
    BY <2>5, <2>7 DEF SameOld, SameRest
<1>6. Nat \subseteq G
  <2> HIDE DEF G
  <2>1. QED
    BY <1>4, <1>5, FromZeroUp
<1>7. QED
    BY <1>2, <1>3, <1>6

LEMMA WithoutDistinct ==
    ASSUME NEW list \in Seq(Tokens), \A i, j \in DOMAIN list : list[i] = list[j] => i = j, NEW t \in ToSet(list)
    PROVE  \A i, j \in DOMAIN Without(list, t) : Without(list, t)[i] = Without(list, t)[j] => i = j
<1> DEFINE n == Len(list)
           less == Without(list, t)
<1>1. n \in Nat /\ DOMAIN list = 1..n
    OBVIOUS
<1>2. n # 0
    BY <1>1 DEF ToSet
<1>3. DOMAIN less = 1..n - 1 /\ \A i \in 1..n - 1 : less[i] = IF list[i] = t THEN list[n] ELSE list[i]
    BY DEF Without, Last
<1> HIDE DEF n, less
<1>4. ASSUME NEW i \in 1..n - 1, NEW j \in 1..n - 1, less[i] = less[j]
      PROVE  i = j
  <2>1. i \in DOMAIN list /\ j \in DOMAIN list /\ n \in DOMAIN list /\ i # n /\ j # n
    BY <1>1, <1>2
  <2>2. CASE list[i] = t /\ list[j] = t
    BY <2>1, <2>2
  <2>3. CASE list[i] # t /\ list[j] # t
    BY <1>3, <1>4, <2>1, <2>3
  <2>4. CASE list[i] = t /\ list[j] # t
    <3>1. list[n] = list[j]
      BY <1>3, <1>4, <2>4
    <3>2. QED
      BY <2>1, <3>1
  <2>5. CASE list[i] # t /\ list[j] = t
    <3>1. list[n] = list[i]
      BY <1>3, <1>4, <2>5
    <3>2. QED
      BY <2>1, <3>1
  <2>6. QED
    BY <2>2, <2>3, <2>4, <2>5
<1>5. QED
    BY <1>3, <1>4 DEF less

\* Whatever is set on a Treasury, its list and configurations stay whole; its admin stays, and its delay
\* unless that is what changes.
WholeConfig(config) ==
    [config |-> config.config, deposit |-> config.deposit, withdraw |-> config.withdraw, band |-> config.band]
GoodConfig(config) ==
    /\ config = WholeConfig(config)
    /\ config.deposit \in BOOLEAN /\ config.withdraw \in BOOLEAN /\ config.band \in Nat

LEMMA WellFormedParts ==
    ASSUME NEW s
    PROVE  WellFormed(s) <=> /\ s.tolerance \in Nat
                             /\ \A i, j \in DOMAIN s.tokens : s.tokens[i] = s.tokens[j] => i = j
                             /\ ForTokens(s.cfg)
                             /\ \A t \in Tokens : GoodConfig(s.cfg[t])
<1> DEFINE cfg == s.cfg
<1>1. cfg = [t \in Tokens |-> WholeConfig(cfg[t])] <=> ForTokens(cfg) /\ \A t \in Tokens : cfg[t] = WholeConfig(cfg[t])
    BY DEF ForTokens
<1>2. WellFormed(s) <=> /\ s.tolerance \in Nat
                        /\ \A i, j \in DOMAIN s.tokens : s.tokens[i] = s.tokens[j] => i = j
                        /\ cfg = [t \in Tokens |-> WholeConfig(cfg[t])]
                        /\ \A t \in Tokens : {cfg[t].deposit, cfg[t].withdraw} \subseteq BOOLEAN /\ cfg[t].band \in Nat
    BY DEF WellFormed, WholeConfig
<1>3. \A t : GoodConfig(cfg[t]) <=> cfg[t] = WholeConfig(cfg[t]) /\ {cfg[t].deposit, cfg[t].withdraw} \subseteq BOOLEAN
                                    /\ cfg[t].band \in Nat
    BY DEF GoodConfig
<1> HIDE DEF cfg
<1>4. QED
    BY <1>1, <1>2, <1>3 DEF cfg

LEMMA ConfigChanges ==
    ASSUME NEW config, GoodConfig(config), NEW band \in Nat
    PROVE  /\ GoodConfig([config EXCEPT !.deposit = ~@])
           /\ GoodConfig([config EXCEPT !.withdraw = ~@])
           /\ GoodConfig([config EXCEPT !.band = band])
<1> DEFINE k == config.config d == config.deposit w == config.withdraw b == config.band
<1>1. config = Configured(k, d, w, b) /\ d \in BOOLEAN /\ w \in BOOLEAN /\ b \in Nat
    BY DEF GoodConfig, WholeConfig, Configured
<1>2. ASSUME NEW x \in BOOLEAN, NEW y \in BOOLEAN, NEW z \in Nat
      PROVE  GoodConfig(Configured(k, x, y, z))
  <2> DEFINE c == Configured(k, x, y, z)
  <2>1. c.config = k /\ c.deposit = x /\ c.withdraw = y /\ c.band = z
    BY DEF Configured
  <2>2. c = WholeConfig(c)
    BY <2>1 DEF Configured, WholeConfig
  <2> HIDE DEF c, k
  <2>3. GoodConfig(c)
    BY <1>2, <2>1, <2>2 DEF GoodConfig
  <2>4. QED
    BY <2>3 DEF c
<1>3. (~d) \in BOOLEAN /\ (~w) \in BOOLEAN
    OBVIOUS
<1>4. [config EXCEPT !.deposit = ~d] = Configured(k, ~d, w, b)
  <2> HIDE DEF k, d, w, b
  <2>1. QED
    BY <1>1, DepositSet
<1>5. [config EXCEPT !.withdraw = ~w] = Configured(k, d, ~w, b)
  <2> HIDE DEF k, d, w, b
  <2>1. QED
    BY <1>1, WithdrawSet
<1>6. [config EXCEPT !.band = band] = Configured(k, d, w, band)
  <2> HIDE DEF k, d, w, b
  <2>1. QED
    BY <1>1 DEF Configured
<1>7. GoodConfig(Configured(k, ~d, w, b)) /\ GoodConfig(Configured(k, d, ~w, b)) /\ GoodConfig(Configured(k, d, w, band))
  <2> HIDE DEF k, d, w, b
  <2>1. QED
    BY <1>1, <1>2, <1>3
<1>8. QED
    BY <1>4, <1>5, <1>6, <1>7

\* One token's configuration is replaced by a good one.
LEMMA ConfigSet ==
    ASSUME NEW s, IsTreasury(s), WellFormed(s), NEW t \in Tokens, NEW config, GoodConfig(config)
    PROVE  WellFormed([s EXCEPT !.cfg[t] = config])
<1> DEFINE from == s.cfg
           d == [s EXCEPT !.cfg[t] = config]
<1>1. /\ s.tolerance \in Nat
      /\ \A i, j \in DOMAIN s.tokens : s.tokens[i] = s.tokens[j] => i = j
      /\ ForTokens(from) /\ \A x \in Tokens : GoodConfig(from[x])
    BY WellFormedParts
<1>2. d.tolerance = s.tolerance /\ d.tokens = s.tokens /\ d.cfg = [from EXCEPT ![t] = config]
    BY DEF IsTreasury
<1> HIDE DEF d, from
<1>3. ForTokens(d.cfg) /\ \A x \in Tokens : GoodConfig(d.cfg[x])
  <2>1. from = [x \in Tokens |-> from[x]]
    BY <1>1 DEF ForTokens
  <2> DEFINE to == d.cfg
  <2>2. to = [from EXCEPT ![t] = config]
    BY <1>2
  <2> HIDE DEF to
  <2>3. ForTokens(to) /\ \A x \in Tokens : to[x] = IF x = t THEN config ELSE from[x]
    BY <2>1, <2>2 DEF ForTokens
  <2>4. QED
    BY <1>1, <2>3 DEF to
<1>4. QED
    BY <1>1, <1>2, <1>3, WellFormedParts DEF d

\* A token that is listed no longer keeps nothing.
LEMMA ListChangedWell ==
    ASSUME NEW s, IsTreasury(s), WellFormed(s), NEW d \in ListChanged(s)
    PROVE  WellFormed(d) /\ d.admin = s.admin /\ d.delay = s.delay
<1>1. CASE \E t \in Tokens \ ToSet(s.tokens) : d = [s EXCEPT !.tokens = Append(@, t), !.cfg[t] = Opened("listed")]
  <2>1. PICK t \in Tokens \ ToSet(s.tokens) : d = [s EXCEPT !.tokens = Append(@, t), !.cfg[t] = Opened("listed")]
    BY <1>1
  <2>2. ~HasToken(s, t)
    BY DEF HasToken, Contains, ToSet
  <2>3. WellFormed(d)
    BY <2>1, <2>2, AppendWellFormed
  <2>4. d.admin = s.admin /\ d.delay = s.delay
    BY <2>1 DEF IsTreasury
  <2>5. QED
    BY <2>3, <2>4
<1>2. CASE \E t \in ToSet(s.tokens) : d = [s EXCEPT !.tokens = Without(@, t), !.cfg[t] = Unlisted]
  <2>1. PICK t \in ToSet(s.tokens) : d = [s EXCEPT !.tokens = Without(@, t), !.cfg[t] = Unlisted]
    BY <1>2
  <2>2. s.tokens \in Seq(Tokens) /\ t \in Tokens
    BY DEF IsTreasury, ToSet
  <2>3. GoodConfig(Unlisted)
    BY DEF GoodConfig, WholeConfig, Unlisted
  <2> DEFINE e == [s EXCEPT !.cfg[t] = Unlisted]
             less == Without(s.tokens, t)
  <2>4. WellFormed(e)
    BY <2>2, <2>3, ConfigSet
  <2>5. \A i, j \in DOMAIN less : less[i] = less[j] => i = j
    <3>1. \A i, j \in DOMAIN s.tokens : s.tokens[i] = s.tokens[j] => i = j
      BY DEF WellFormed
    <3>2. QED
      BY <2>1, <2>2, <3>1, WithoutDistinct
  <2>6. e.tolerance = s.tolerance /\ e.cfg = [s.cfg EXCEPT ![t] = Unlisted]
    BY DEF IsTreasury
  <2> HIDE DEF less
  <2>7. d.tokens = less /\ d.tolerance = s.tolerance /\ d.cfg = [s.cfg EXCEPT ![t] = Unlisted]
    BY <2>1 DEF less, IsTreasury
  <2> HIDE DEF e
  <2>8. WellFormed(d)
    BY <2>4, <2>5, <2>6, <2>7, WellFormedParts
  <2>9. d.admin = s.admin /\ d.delay = s.delay
    BY <2>1 DEF IsTreasury
  <2>10. QED
    BY <2>8, <2>9
<1>3. QED
    BY <1>1, <1>2 DEF ListChanged

LEMMA SettingsChangedWell ==
    ASSUME NEW s, IsTreasury(s), WellFormed(s), NEW d \in SettingsChanged(s) \cup BandsChanged(s)
    PROVE  WellFormed(d) /\ d.admin = s.admin /\ d.delay = s.delay
<1> DEFINE Set(t, config) == [s EXCEPT !.cfg[t] = config]
<1>1. \A t \in ToSet(s.tokens) : t \in Tokens /\ GoodConfig(s.cfg[t])
  <2>1. \A t \in Tokens : GoodConfig(s.cfg[t])
    BY WellFormedParts
  <2>2. s.tokens \in Seq(Tokens)
    BY DEF IsTreasury
  <2>3. QED
    BY <2>1, <2>2 DEF ToSet
<1>2. \A t \in Tokens : \A config : GoodConfig(config) =>
        WellFormed(Set(t, config)) /\ Set(t, config).admin = s.admin /\ Set(t, config).delay = s.delay
  <2>1. ASSUME NEW t \in Tokens, NEW config, GoodConfig(config)
        PROVE  WellFormed(Set(t, config)) /\ Set(t, config).admin = s.admin /\ Set(t, config).delay = s.delay
    <3>1. WellFormed(Set(t, config))
      BY <2>1, ConfigSet
    <3>2. Set(t, config).admin = s.admin /\ Set(t, config).delay = s.delay
      BY DEF IsTreasury
    <3>3. QED
      BY <3>1, <3>2
  <2>2. QED
    BY <2>1
<1>3. CASE \E g \in Grants : d = [s EXCEPT !.roles = IF g \in @ THEN @ \ {g} ELSE @ \cup {g}]
  <2>1. d.tokens = s.tokens /\ d.cfg = s.cfg /\ d.tolerance = s.tolerance /\ d.admin = s.admin /\ d.delay = s.delay
    BY <1>3 DEF IsTreasury
  <2>2. QED
    BY <2>1, WellFormedParts
<1>4. CASE \E t \in ToSet(s.tokens) : d = [s EXCEPT !.cfg[t].deposit = ~@]
  <2>1. PICK t \in ToSet(s.tokens) : d = [s EXCEPT !.cfg[t].deposit = ~@]
    BY <1>4
  <2>2. d = Set(t, [s.cfg[t] EXCEPT !.deposit = ~@])
    BY <2>1
  <2>3. GoodConfig([s.cfg[t] EXCEPT !.deposit = ~@])
    BY <1>1, ConfigChanges
  <2> HIDE DEF Set
  <2>4. QED
    BY <1>1, <1>2, <2>2, <2>3
<1>5. CASE \E t \in ToSet(s.tokens) : d = [s EXCEPT !.cfg[t].withdraw = ~@]
  <2>1. PICK t \in ToSet(s.tokens) : d = [s EXCEPT !.cfg[t].withdraw = ~@]
    BY <1>5
  <2>2. d = Set(t, [s.cfg[t] EXCEPT !.withdraw = ~@])
    BY <2>1
  <2>3. GoodConfig([s.cfg[t] EXCEPT !.withdraw = ~@])
    BY <1>1, ConfigChanges
  <2> HIDE DEF Set
  <2>4. QED
    BY <1>1, <1>2, <2>2, <2>3
<1>6. CASE d \in BandsChanged(s)
  <2>1. PICK t \in ToSet(s.tokens), b \in Bands : d = [s EXCEPT !.cfg[t].band = b]
    BY <1>6 DEF BandsChanged
  <2>2. d = Set(t, [s.cfg[t] EXCEPT !.band = b])
    BY <2>1
  <2>3. GoodConfig([s.cfg[t] EXCEPT !.band = b])
    BY <1>1, ConfigChanges, MigrationAssumption
  <2> HIDE DEF Set
  <2>4. QED
    BY <1>1, <1>2, <2>2, <2>3
<1>7. QED
    BY <1>3, <1>4, <1>5, <1>6 DEF SettingsChanged

LEMMA ChangedWell ==
    ASSUME NEW s, IsTreasury(s), WellFormed(s), NEW d \in Changed(s)
    PROVE  WellFormed(d) /\ d.admin = s.admin /\ (Delays = {} => d.delay = s.delay)
<1>1. CASE d \in AdminChanged(s)
  <2>1. \/ \E p : d = [s EXCEPT !.pending = p]
        \/ Delays # {} /\ \E delay : d = [s EXCEPT !.delay = delay, !.pending = "none"]
    BY <1>1 DEF AdminChanged
  <2>2. /\ d.tokens = s.tokens /\ d.cfg = s.cfg /\ d.tolerance = s.tolerance /\ d.admin = s.admin
        /\ Delays = {} => d.delay = s.delay
    BY <2>1 DEF IsTreasury
  <2>3. QED
    BY <2>2, WellFormedParts
<1>2. QED
    BY <1>1, SettingsChangedWell, ListChangedWell DEF Changed, ChangedButBands

-----------------------------------------------------------------------------
(* What a save leaves in the file.                                         *)

\* When only the first k calls are stored, the others are added, in their order.
LEMMA AddedRest ==
    ASSUME NEW S, NEW new \in Seq(S), NEW stored, NEW k \in 0..Len(new),
           \A i \in 1..k : Contains(stored, new[i]), \A i \in k + 1..Len(new) : ~Contains(stored, new[i])
    PROVE  LET rest == Added(stored, new) IN
           rest \in Seq(S) /\ Len(rest) = Len(new) - k /\ \A j \in 1..Len(new) - k : rest[j] = new[k + j]
<1> DEFINE seqs == [i \in DOMAIN new |-> IF Contains(stored, new[i]) THEN <<>> ELSE <<new[i]>>]
           n == Len(new)
<1>1. n \in Nat /\ k \in Nat /\ k <= n /\ DOMAIN new = 1..n /\ \A i \in 1..n : new[i] \in S
    OBVIOUS
<1>2. seqs \in Seq(Seq(S)) /\ Len(seqs) = n
  <2>1. \A i \in 1..n : seqs[i] \in Seq(S)
    <3>1. <<>> \in Seq(S) /\ \A x \in S : <<x>> \in Seq(S)
      OBVIOUS
    <3> HIDE DEF n
    <3>2. QED
      BY <1>1, <3>1
  <2>2. DOMAIN seqs = 1..n
    BY <1>1
  <2>3. seqs = [i \in 1..n |-> seqs[i]]
    BY <1>1
  <2> HIDE DEF seqs, n
  <2>4. QED
    BY <1>1, <2>1, <2>2, <2>3
<1>3. /\ \A i \in 1..k : seqs[i] = <<>>
      /\ \A i \in k + 1..n : seqs[i] = <<new[i]>>
    BY <1>1
<1>4. Added(stored, new) = FlattenSeq(seqs)
    BY DEF Added
<1> HIDE DEF seqs, n
<1>5. PICK f : /\ f[0] = <<>>
               /\ \A i \in 1..n : f[i] = Then(f[i - 1], seqs[i])
               /\ \A i \in 0..n : f[i] \in Seq(S)
               /\ f[n] = FlattenSeq(seqs)
    BY <1>2, FlatTrace
<1> DEFINE So(list, i) == IF i <= k THEN list = <<>> ELSE Len(list) = i - k /\ \A j \in 1..i - k : list[j] = new[k + j]
           G == {i \in Nat : i <= n => So(f[i], i)}
<1>6. 0 \in G
    BY <1>1, <1>5
<1>7. ASSUME NEW i \in Nat, i \in G
      PROVE  i + 1 \in G
  <2>1. SUFFICES ASSUME i + 1 <= n PROVE So(f[i + 1], i + 1)
    <3> HIDE DEF So
    <3>1. QED
      OBVIOUS
  <2>2. i + 1 \in 1..n /\ (i + 1) - 1 = i /\ i \in 0..n /\ i <= n
    BY <1>1, <2>1
  <2>3. f[i + 1] = Then(f[i], seqs[i + 1]) /\ f[i] \in Seq(S)
    BY <1>5, <2>2
  <2>4. So(f[i], i)
    <3> HIDE DEF So
    <3>1. QED
      BY <1>7, <2>2
  <2>5. CASE i + 1 <= k
    <3>1. seqs[i + 1] = <<>> /\ f[i] = <<>>
      BY <1>1, <1>3, <2>4, <2>5
    <3>2. Then(<<>>, <<>>) = <<>>
      BY DEF Then
    <3>3. QED
      BY <2>3, <2>5, <3>1, <3>2
  <2>6. CASE i + 1 > k
    <3> DEFINE list == f[i]
               x == new[i + 1]
               longer == list \o <<x>>
    <3>1. i + 1 \in k + 1..n
      BY <1>1, <2>1, <2>6
    <3>2. f[i + 1] = longer
      BY <1>3, <2>3, <3>1 DEF Then
    <3>3. Len(list) = i - k /\ \A j \in 1..i - k : list[j] = new[k + j]
      <4>1. CASE i <= k
        <5>1. i = k /\ list = <<>>
          BY <1>1, <2>4, <2>6, <4>1
        <5>2. QED
          BY <1>1, <5>1
      <4>2. CASE i > k
        BY <1>1, <2>4, <4>2
      <4>3. QED
        BY <1>1, <4>1, <4>2
    <3>4. list \in Seq(S)
      BY <2>3
    <3> HIDE DEF list, x
    <3>5. Len(longer) = (i - k) + 1 /\ \A j \in 1..(i - k) + 1 : longer[j] = IF j <= i - k THEN list[j] ELSE x
      BY <3>3, <3>4
    <3>6. \A j \in 1..(i + 1) - k : longer[j] = new[k + j]
      <4>1. ASSUME NEW j \in 1..(i + 1) - k
            PROVE  longer[j] = new[k + j]
        <5>1. j \in 1..(i - k) + 1
          BY <1>1
        <5>2. longer[j] = IF j <= i - k THEN list[j] ELSE x
          BY <3>5, <5>1
        <5>3. CASE j <= i - k
          <6>1. j \in 1..i - k
            BY <1>1, <5>3
          <6>2. QED
            BY <3>3, <5>2, <5>3, <6>1
        <5>4. CASE ~(j <= i - k)
          <6>1. k + j = i + 1
            BY <1>1, <5>1, <5>4
          <6>2. QED
            BY <5>2, <5>4, <6>1 DEF x
        <5>5. QED
          BY <5>3, <5>4
      <4>2. QED
        BY <4>1
    <3>7. (i - k) + 1 = (i + 1) - k /\ ~(i + 1 <= k)
      BY <1>1, <2>6
    <3> HIDE DEF longer
    <3>8. QED
      BY <3>2, <3>5, <3>6, <3>7
  <2>7. QED
    BY <1>1, <2>5, <2>6
<1>8. Nat \subseteq G
  <2> HIDE DEF G
  <2>1. QED
    BY <1>6, <1>7, FromZeroUp
<1>9. So(f[n], n) /\ f[n] \in Seq(S)
  <2>1. n \in G
    <3> HIDE DEF G
    <3>1. QED
      BY <1>1, <1>8
  <2>2. n \in 0..n /\ n <= n
    BY <1>1
  <2> HIDE DEF So
  <2>3. QED
    BY <1>5, <2>1, <2>2
<1> DEFINE rest == f[n]
<1>10. rest \in Seq(S) /\ Len(rest) = n - k /\ \A j \in 1..n - k : rest[j] = new[k + j]
  <2>1. CASE n <= k
    <3>1. n - k = 0 /\ rest = <<>>
      BY <1>1, <1>9, <2>1
    <3>2. QED
      BY <1>9, <3>1
  <2>2. CASE n > k
    BY <1>1, <1>9, <2>2
  <2>3. QED
    BY <1>1, <2>1, <2>2
<1>11. QED
    BY <1>4, <1>5, <1>10 DEF n

\* Into an empty file: the calls themselves.
LEMMA AddedToNone ==
    ASSUME NEW S, NEW new \in Seq(S)
    PROVE  <<>> \o Added(<<>>, new) = new
<1>1. \A x : ~Contains(<<>>, x)
    BY DEF Contains
<1>2. 0 \in 0..Len(new) /\ 1..0 = {} /\ Len(new) - 0 = Len(new) /\ \A j \in 1..Len(new) : 0 + j = j
    OBVIOUS
<1> DEFINE rest == Added(<<>>, new)
<1>3. rest \in Seq(S) /\ Len(rest) = Len(new) - 0 /\ \A j \in 1..Len(new) - 0 : rest[j] = new[0 + j]
    BY <1>1, <1>2, AddedRest
<1> HIDE DEF rest
<1>4. rest = new
    BY <1>2, <1>3
<1>5. <<>> \o rest = rest
    BY <1>3
<1>6. QED
    BY <1>4, <1>5 DEF rest

\* The stored calls and one more: the one more.
LEMMA AddedOne ==
    ASSUME NEW S, NEW stored \in Seq(S), NEW x \in S, ~Contains(stored, x)
    PROVE  stored \o Added(stored, stored \o <<x>>) = stored \o <<x>>
<1> DEFINE new == stored \o <<x>>
           k == Len(stored)
           rest == Added(stored, new)
<1>1. k \in Nat /\ new \in Seq(S) /\ Len(new) = k + 1 /\ new[k + 1] = x /\ \A i \in 1..k : new[i] = stored[i]
    OBVIOUS
<1>2. \A i \in 1..k : Contains(stored, stored[i])
    BY DEF Contains
<1> HIDE DEF new
<1>3. k \in 0..Len(new) /\ (\A i \in k + 1..Len(new) : i = k + 1) /\ Len(new) - k = 1
    BY <1>1
<1> HIDE DEF k
<1>4. \A i \in 1..k : Contains(stored, new[i])
    BY <1>1, <1>2
<1>5. \A i \in k + 1..Len(new) : ~Contains(stored, new[i])
    BY <1>1, <1>3
<1>6. rest \in Seq(S) /\ Len(rest) = Len(new) - k /\ \A j \in 1..Len(new) - k : rest[j] = new[k + j]
  <2>1. new \in Seq(S) /\ k \in 0..Len(new)
    BY <1>1, <1>3
  <2>2. QED
    BY <1>4, <1>5, <2>1, AddedRest
<1> HIDE DEF rest
<1>7. Len(rest) = 1 /\ rest[1] = x
    BY <1>1, <1>3, <1>6
<1>8. \A list \in Seq(S) : Len(list) = 1 => list = <<list[1]>>
    OBVIOUS
<1>9. rest = <<x>>
    BY <1>6, <1>7, <1>8
<1>10. QED
    BY <1>9 DEF rest, new

-----------------------------------------------------------------------------
(* On the main network: what the pending batch and the two Treasuries have *)
(* to do with each other, whatever runs in between.                        *)

\* As long as the token has not moved, the new Treasury is as initialize left it but for its roles.
CopyInv ==
    /\ WholeChain(chain) /\ WellFormed(chain.old)
    /\ previous.kept => chain.old.admin = Safe
    /\ chain.token = "old" /\ (artifact = "new" \/ pc = "alias") => chain.new = Untouched(chain.new.roles)

\* The process that builds a batch found no file, and has in it what it has built so far.
BuildInv ==
    /\ pc = "deploy" => seen.admin = Safe
    /\ pc \in {"deploy", "alias", "build"} => batch.txs = <<>>
    /\ pc \in {"gateway", "record"} => batch.txs = calls /\ ~batch.complete
    /\ pc = "gateway" => ~Does(calls, "upgradeGateway")
    /\ pc = "migrate" /\ batchStarted /\ chain.token = "old" =>
        \E i \in DOMAIN batch.txs : batch.txs[i].do = "addToWhitelist" /\ batch.txs[i].on = "old"

\* Every migration that can still be proposed or executed is the recorded one.
ListsInv ==
    chain.token = "old" =>
        /\ batch.complete \/ pc = "propose" \/ (pc = "end" /\ batchStarted) =>
            (IsMigration(batch.txs) => batch.txs = previous.calls)
        /\ \A i \in DOMAIN safeQueue : IsMigration(safeQueue[i]) => safeQueue[i] = previous.calls

\* Any other list leaves the new Treasury alone.
Known(txs) == IsMigration(txs) \/ Scripts(txs)
KnownInv == chain.token = "old" => Known(batch.txs) /\ \A i \in DOMAIN safeQueue : Known(safeQueue[i])

\* What the check saw still holds, and a process that builds meanwhile builds the same.
CheckedInv ==
    checked =>
        /\ chain.token = "old" /\ artifact = "new" /\ BatchStillHolds
        /\ pc = "build" => seen = chain.old
        /\ pc = "gateway" => calls = BuildMirrorBatch(chain.old, chain.new, chain.access)
        /\ pc = "record" =>
            calls = BuildMirrorBatch(chain.old, chain.new, chain.access) \o GatewayUpgradeCall(code)

LiveInv == CopyInv /\ BuildInv /\ ListsInv /\ KnownInv /\ CheckedInv

\* Nothing is proposed from a fork.
PendingInv ==
    /\ MigrationInv
    /\ net = "ethereum" => LiveInv
    /\ net # "ethereum" => safeQueue = <<>>

LEMMA StartOwnTagsPends ==
    ASSUME MigrationInv, LiveInv, NEW script \in {"migrate", "check"}, StartOwnTags(script)
    PROVE  LiveInv'
<1> USE DEF LiveInv
<1>1. /\ pc = "idle" /\ pc' = script
      /\ UNCHANGED <<chain, artifact, previous, gatewayImpl, seen, calls, code, checked, batch, batchStarted, safeQueue>>
    BY DEF StartOwnTags, recordVars, worldVars, batchVars
<1>2. ~batchStarted
    BY <1>1 DEF MigrationInv, JobInv
<1>3. CopyInv' /\ ListsInv' /\ KnownInv'
    BY <1>1 DEF CopyInv, ListsInv, KnownInv
<1>4. BuildInv'
    BY <1>1, <1>2 DEF BuildInv
<1>5. CheckedInv'
    BY <1>1 DEF CheckedInv, BatchStillHolds, Rebuilt, GatewayUpgradeCall
<1>6. QED
    BY <1>3, <1>4, <1>5

\* A save into an empty file.
LEMMA FirstSave ==
    ASSUME NEW here, NEW new, CallList(new), batch.txs = <<>>, SaveAll(here, new)
    PROVE  batch'.txs = new /\ ~batch'.complete /\ batchStarted' /\ UNCHANGED safeQueue
<1> DEFINE txs == batch.txs \o Added(batch.txs, new)
<1>1. batch' = [network |-> here, complete |-> FALSE, txs |-> txs] /\ batchStarted' = TRUE /\ UNCHANGED safeQueue
    BY DEF SaveAll, Added
<1>2. txs = new
    BY AddedToNone DEF CallList
<1> HIDE DEF txs
<1>3. QED
    BY <1>1, <1>2

\* Before the token moves, the routine scripts whitelist on the live Treasury and do nothing else.
LEMMA ScriptCallsOld ==
    ASSUME chain.token = "old", RecordInv
    PROVE  /\ Scripts(ScriptCalls)
           /\ ScriptCalls # <<>> =>
                \E i \in DOMAIN ScriptCalls : ScriptCalls[i].do = "addToWhitelist" /\ ScriptCalls[i].on = "old"
<1> DEFINE onWhitelist(t) == [do |-> "addToWhitelist", on |-> artifact, token |-> t, value |-> "listed"]
           S == {onWhitelist(t) : t \in Tokens}
           given == [t \in Tokens |-> When(~HasToken(chain[artifact], t), onWhitelist(t))]
<1>1. WhitelistCalls \in Seq(S)
  <2>1. \A t \in Tokens : given[t] = When(~HasToken(chain[artifact], t), onWhitelist(t)) /\ onWhitelist(t) \in S
    OBVIOUS
  <2>2. WhitelistCalls = ForEach(WHITELIST_TOKENS, given)
    BY DEF WhitelistCalls
  <2> HIDE DEF S, given, onWhitelist
  <2>3. \A t \in Tokens : given[t] \in Seq(S)
    BY <2>1, WhenType
  <2>4. QED
    BY <2>2, <2>3, ForEachType, MigrationAssumption
<1>2. \A x \in S : x.do = "addToWhitelist" /\ x.on = artifact
    OBVIOUS
<1> HIDE DEF S
<1>3. \A list \in Seq(S) : <<>> \o list = list /\ <<>> \o (<<>> \o list) = list
    OBVIOUS
<1>4. <<>> \in Seq(S) /\ <<>> \o <<>> = <<>>
    OBVIOUS
<1>5. GatewayCalls = <<>>
    BY DEF GatewayCalls, When, BehindProxy
<1>6. ScriptCalls = <<>> \/ (ScriptCalls = WhitelistCalls /\ artifact = "old")
  <2>1. CASE MigrationPending
    BY <1>4, <1>5, <2>1 DEF ScriptCalls
  <2>2. CASE ~MigrationPending
    <3>1. ConnectionCalls = <<>> /\ artifact = "old"
      BY <2>2 DEF ConnectionCalls, MigrationPending, When
    <3>2. QED
      BY <1>1, <1>3, <1>4, <1>5, <2>2, <3>1 DEF ScriptCalls
  <2>3. QED
    BY <2>1, <2>2
<1> DEFINE list == ScriptCalls
<1>7. list \in Seq(S) /\ (list # <<>> => artifact = "old")
    BY <1>1, <1>4, <1>6
<1> HIDE DEF list
<1>8. \A i \in DOMAIN list : list[i] \in S
    BY <1>7
<1>9. list # <<>> => 1 \in DOMAIN list
    BY <1>7
<1>10. \A i \in DOMAIN list : list[i].do = "addToWhitelist" /\ list[i].on = "old"
  <2>1. DOMAIN list # {} => list # <<>>
    BY <1>7
  <2>2. QED
    BY <1>2, <1>7, <1>8, <2>1
<1>11. QED
    BY <1>9, <1>10 DEF Scripts, ScriptCall, list

LEMMA StartFullPends ==
    ASSUME MigrationInv, LiveInv, net = "ethereum", NEW script \in {"migrate", "check"}, StartFull(script)
    PROVE  LiveInv'
<1> USE DEF LiveInv
<1>1. /\ pc = "idle" /\ pc' = script /\ ScriptCalls # <<>> /\ SaveAll(net, ScriptCalls)
      /\ chain.token = "old" => gatewayImpl' = gatewayImpl
      /\ UNCHANGED <<chain, artifact, previous, seen, calls, code, checked>>
    BY DEF StartFull, RefusedAtWhitelist, BehindProxy, recordVars, worldVars
<1>2. batch.txs = <<>>
    BY <1>1 DEF SaveAll, StaleBatch, HasBatchFile, MigrationInv, JobInv
<1>3. CallList(ScriptCalls)
    BY ScriptCallsReady DEF MigrationInv, ReadyAt
<1>4. batch'.txs = ScriptCalls /\ ~batch'.complete /\ UNCHANGED safeQueue
    BY <1>1, <1>2, <1>3, FirstSave
<1>5. chain.token = "old" =>
        /\ Scripts(ScriptCalls)
        /\ \E i \in DOMAIN ScriptCalls : ScriptCalls[i].do = "addToWhitelist" /\ ScriptCalls[i].on = "old"
    BY <1>1, ScriptCallsOld DEF MigrationInv
<1>6. CopyInv'
    BY <1>1 DEF CopyInv
<1>7. ListsInv'
    BY <1>1, <1>4 DEF ListsInv
<1>8. KnownInv'
    BY <1>1, <1>4, <1>5 DEF KnownInv, Known
<1>9. BuildInv'
  <2> DEFINE list == ScriptCalls
  <2> HIDE DEF list
  <2>1. chain.token = "old" => \E i \in DOMAIN list : list[i].do = "addToWhitelist" /\ list[i].on = "old"
    BY <1>5 DEF list
  <2>2. batch'.txs = list
    BY <1>4 DEF list
  <2>3. QED
    BY <1>1, <2>1, <2>2 DEF BuildInv
<1>10. CheckedInv'
    BY <1>1 DEF CheckedInv, BatchStillHolds, Rebuilt, GatewayUpgradeCall
<1>11. QED
    BY <1>6, <1>7, <1>8, <1>9, <1>10

\* Whoever starts to migrate finds no file: what his run saved already would whitelist on the live Treasury.
LEMMA NothingQueued ==
    ASSUME LiveInv, pc = "migrate", chain.token = "old", NothingQueuedFor({"old"})
    PROVE  batch.txs = <<>>
<1>1. ASSUME batchStarted
      PROVE  FALSE
  <2>1. PICK i \in DOMAIN batch.txs : batch.txs[i].do = "addToWhitelist" /\ batch.txs[i].on = "old"
    BY <1>1 DEF LiveInv, BuildInv
  <2>2. batch.txs[i] \in ToSet(Queued)
    BY <1>1, <2>1 DEF Queued, ToSet
  <2>3. QED
    BY <2>1, <2>2 DEF NothingQueuedFor, SentTo
<1>2. QED
    BY <1>1 DEF NothingQueuedFor, StaleBatch, HasBatchFile

LEMMA StartMigrationPends ==
    ASSUME MigrationInv, LiveInv, StartMigration \/ StartRebuild
    PROVE  LiveInv'
<1> USE DEF LiveInv
<1>1. /\ pc = "migrate" /\ chain.token = "old" /\ SafeCanSign(chain.old) /\ seen' = chain.old
      /\ UNCHANGED <<chain, artifact, gatewayImpl, calls, code, checked, batch, batchStarted, safeQueue>>
    BY DEF StartMigration, StartRebuild, MayMigrate, MayRebuild, worldVars, batchVars, recordVars
<1>2. NothingQueuedFor({"old"})
    BY DEF StartMigration, StartRebuild, MayMigrate, MayRebuild, NothingQueuedFor
<1>3. batch.txs = <<>> /\ ~IsMigration(batch.txs)
    BY <1>1, <1>2, NothingQueued, EmptyList, MigratesDoes
<1>4. NoOlderBatch
    BY <1>1 DEF MigrationInv, JobInv
<1>5. chain.old.admin = Safe
    BY <1>1 DEF SafeCanSign
<1>6. CASE StartMigration
  <2>1. artifact = "old" /\ previous' = [kept |-> TRUE, calls |-> <<>>, gateway |-> 0] /\ pc' = "deploy"
    BY <1>6 DEF StartMigration, NoPrevious
  <2>2. CopyInv'
    BY <1>1, <1>5, <2>1 DEF CopyInv
  <2>3. BuildInv'
    BY <1>1, <1>3, <1>5, <2>1 DEF BuildInv
  <2>4. ListsInv'
    BY <1>1, <1>3, <1>4, <2>1 DEF ListsInv, NoOlderBatch
  <2>5. KnownInv'
    BY <1>1 DEF KnownInv
  <2>6. CheckedInv'
    BY <1>1, <2>1 DEF CheckedInv
  <2>7. QED
    BY <2>2, <2>3, <2>4, <2>5, <2>6
<1>7. CASE StartRebuild
  <2>1. artifact = "new" /\ previous' = previous /\ pc' = "build"
    BY <1>7 DEF StartRebuild, recordVars
  <2>2. CopyInv'
    BY <1>1, <2>1 DEF CopyInv
  <2>3. BuildInv'
    BY <1>1, <1>3, <2>1 DEF BuildInv
  <2>4. ListsInv'
    BY <1>1, <1>3, <1>4, <2>1 DEF ListsInv, NoOlderBatch
  <2>5. KnownInv'
    BY <1>1 DEF KnownInv
  <2>6. CheckedInv'
    BY <1>1, <2>1 DEF CheckedInv, BatchStillHolds, Rebuilt, GatewayUpgradeCall
  <2>7. QED
    BY <2>2, <2>3, <2>4, <2>5, <2>6
<1>8. QED
    BY <1>6, <1>7

LEMMA FreshUntouched == Fresh(Safe) = Untouched({})
    BY DEF Fresh, Untouched, Copy, NothingListed

LEMMA DeployedUntouched ==
    ASSUME WholeChain(chain), seen.admin = Safe, DeployProxy
    PROVE  /\ WholeChain(chain') /\ chain'.new = Untouched(chain'.new.roles)
           /\ chain'.old = chain.old /\ chain'.token = chain.token
<1>1. chain' = [chain EXCEPT !.new = Fresh(Safe)]
    BY DEF DeployProxy
<1> DEFINE new == Fresh(Safe)
<1>2. new.roles = {} /\ new = Untouched({})
    BY FreshUntouched DEF Fresh
<1> HIDE DEF new
<1>3. chain'.new = new /\ WholeChain(chain') /\ chain'.old = chain.old /\ chain'.token = chain.token
    BY <1>1 DEF new, WholeChain
<1>4. QED
    BY <1>2, <1>3

LEMMA DeploysPend ==
    ASSUME MigrationInv, LiveInv, DeployProxy \/ SaveAlias
    PROVE  LiveInv'
<1> USE DEF LiveInv
<1>1. /\ pc \in {"deploy", "alias"} /\ pc' = (IF pc = "deploy" THEN "alias" ELSE "build")
      /\ chain'.old = chain.old /\ chain'.token = chain.token
      /\ UNCHANGED <<previous, gatewayImpl, seen, calls, code, checked, batch, batchStarted, safeQueue>>
    BY DEF DeployProxy, SaveAlias, worldVars, batchVars, MigrationInv, ChainInv, IsChain
<1>2. artifact = "old" /\ chain.token = "old"
    BY <1>1 DEF MigrationInv, RecordInv, JobInv
<1>3. ~checked
    BY <1>2 DEF CheckedInv
<1>4. CheckedInv'
    BY <1>1, <1>3 DEF CheckedInv
<1>5. BuildInv'
    BY <1>1 DEF BuildInv
<1>6. ListsInv' /\ KnownInv'
    BY <1>1 DEF ListsInv, KnownInv
<1>7. WholeChain(chain')
    BY DEF DeployProxy, SaveAlias, CopyInv, WholeChain
<1>8. chain'.new = Untouched(chain'.new.roles)
  <2>1. CASE DeployProxy
    BY <2>1, DeployedUntouched DEF DeployProxy, BuildInv, CopyInv
  <2>2. CASE SaveAlias
    BY <1>2, <2>2 DEF SaveAlias, CopyInv
  <2>3. QED
    BY <2>1, <2>2
<1>9. CopyInv'
    BY <1>1, <1>7, <1>8 DEF CopyInv
<1>10. QED
    BY <1>4, <1>5, <1>6, <1>9

LEMMA BuildBatchPends ==
    ASSUME MigrationInv, LiveInv, BuildBatch
    PROVE  LiveInv'
<1> USE DEF LiveInv
<1>1. /\ pc = "build" /\ pc' = "gateway"
      /\ calls' = BuildMirrorBatch(seen, chain.new, chain.access)
      /\ SaveAll(net, calls')
      /\ UNCHANGED <<chain, artifact, previous, gatewayImpl, seen, code, checked>>
    BY DEF BuildBatch, Buildable, recordVars, worldVars
<1>2. /\ CallList(calls') /\ ~Does(calls', "upgradeGateway") /\ Does(calls', "migrate")
    BY <1>1, MirrorBatchMoves DEF MigrationInv, ChainInv, JobInv, IsChain
<1>3. chain.token = "old" /\ artifact = "new"
    BY <1>1 DEF MigrationInv, JobInv, RecordInv
<1>4. batch'.txs = calls' /\ ~batch'.complete /\ UNCHANGED safeQueue
  <2>1. batch.txs = <<>>
    BY <1>1 DEF BuildInv
  <2> DEFINE new == calls'
  <2>2. CallList(new) /\ SaveAll(net, new)
    BY <1>1, <1>2
  <2> HIDE DEF new
  <2>3. batch'.txs = new /\ ~batch'.complete /\ UNCHANGED safeQueue
    BY <2>1, <2>2, FirstSave
  <2>4. QED
    BY <2>3 DEF new
<1>5. CopyInv'
    BY <1>1 DEF CopyInv
<1>6. BuildInv'
    BY <1>1, <1>2, <1>4 DEF BuildInv
<1>7. ListsInv'
    BY <1>1, <1>4 DEF ListsInv
<1>8. KnownInv'
    BY <1>1, <1>2, <1>4, MigratesDoes DEF KnownInv, Known
<1>9. CheckedInv'
    BY <1>1 DEF CheckedInv, BatchStillHolds, Rebuilt, GatewayUpgradeCall
<1>10. QED
    BY <1>5, <1>6, <1>7, <1>8, <1>9

\* The process queues the upgrade behind the mirror calls, and has stored just these.
UpgradeTo(impl) == [do |-> "upgradeGateway", value |-> impl]

LEMMA UpgradeSaved ==
    ASSUME MigrationInv, UpgradeGateway, batch.txs = calls, ~Does(calls, "upgradeGateway")
    PROVE  /\ calls' = calls \o <<UpgradeTo(code)>> /\ calls' # <<>> /\ IsMigration(calls')
           /\ batch'.txs = calls' /\ ~batch'.complete /\ batchStarted' /\ UNCHANGED safeQueue
<1> DEFINE upgrade == UpgradeTo(code)
           new == calls'
<1>1. pc = "gateway" /\ new = calls \o GatewayUpgradeCall(code) /\ SaveAll(net, new)
    BY DEF UpgradeGateway
<1>2. chain.gateway # code
    BY <1>1 DEF MigrationInv, JobInv, ChainInv, GatewayMovesWithTreasury
<1>3. new = calls \o <<upgrade>>
    BY <1>1, <1>2 DEF GatewayUpgradeCall, When, UpgradeTo
<1>4. calls \in Seq(ToSet(calls)) /\ \A i \in DOMAIN calls : CallOk(calls[i])
    BY DEF MigrationInv, CallsInv, Ready, ReadyAt, CallList
<1>5. upgrade.do = "upgradeGateway"
    BY DEF UpgradeTo
<1> HIDE DEF upgrade, new
<1> DEFINE S == ToSet(calls) \cup {upgrade}
<1>6. calls \in Seq(S) /\ upgrade \in S
    BY <1>4
<1>7. ~Contains(calls, upgrade)
  <2>1. \A i \in DOMAIN calls : calls[i].do # "upgradeGateway"
    BY DEF Does
  <2>2. QED
    BY <1>4, <1>5, <2>1 DEF Contains
<1> HIDE DEF S
<1>8. batch'.txs = new /\ ~batch'.complete /\ batchStarted' /\ UNCHANGED safeQueue
  <2> DEFINE txs == batch.txs \o Added(batch.txs, new)
  <2>1. batch' = [network |-> net, complete |-> FALSE, txs |-> txs] /\ batchStarted' = TRUE /\ UNCHANGED safeQueue
    BY <1>1 DEF SaveAll, Added
  <2>2. txs = new
    BY <1>3, <1>6, <1>7, AddedOne
  <2> HIDE DEF txs
  <2>3. QED
    BY <2>1, <2>2
<1>9. IsMigration(new)
  <2>1. IsMigration(calls)
    BY <1>1 DEF MigrationInv, CallsInv, Batchable
  <2>2. PICK i \in DOMAIN calls : Migrates(calls[i])
    BY <2>1 DEF IsMigration
  <2>3. i \in DOMAIN new /\ new[i] = calls[i]
    BY <1>3, <1>6
  <2>4. QED
    BY <2>2, <2>3 DEF IsMigration
<1>10. new # <<>>
    BY <1>3, <1>6
<1>11. QED
    BY <1>3, <1>8, <1>9, <1>10 DEF new, upgrade

LEMMA UpgradeGatewayPends ==
    ASSUME MigrationInv, LiveInv, UpgradeGateway
    PROVE  LiveInv'
<1> USE DEF LiveInv
<1> DEFINE new == calls'
<1>1. /\ pc = "gateway" /\ pc' = "record" /\ gatewayImpl' = code /\ new = calls \o GatewayUpgradeCall(code)
      /\ UNCHANGED <<chain, artifact, previous, seen, code, checked>>
    BY DEF UpgradeGateway, recordVars, worldVars
<1>2. batch'.txs = new /\ ~batch'.complete /\ batchStarted' /\ UNCHANGED safeQueue /\ IsMigration(new)
    BY <1>1, UpgradeSaved DEF BuildInv
<1> HIDE DEF new
<1>3. CopyInv'
    BY <1>1 DEF CopyInv
<1>4. BuildInv'
    BY <1>1, <1>2 DEF BuildInv, new
<1>5. ListsInv'
    BY <1>1, <1>2 DEF ListsInv
<1>6. KnownInv'
    BY <1>1, <1>2 DEF KnownInv, Known
<1>7. CheckedInv'
    BY <1>1 DEF CheckedInv, BatchStillHolds, Rebuilt, GatewayUpgradeCall, new
<1>8. QED
    BY <1>3, <1>4, <1>5, <1>6, <1>7

LEMMA SaveRecordPends ==
    ASSUME MigrationInv, LiveInv, SaveRecord
    PROVE  LiveInv'
<1> USE DEF LiveInv
<1>1. /\ pc = "record" /\ pc' = "end"
      /\ previous' = [kept |-> TRUE, calls |-> calls, gateway |-> gatewayImpl]
      /\ UNCHANGED <<chain, artifact, gatewayImpl, seen, calls, code, checked, batch, batchStarted, safeQueue>>
    BY DEF SaveRecord, worldVars, batchVars
<1>2. chain.token = "old" /\ artifact = "new" /\ previous.kept /\ NoOlderBatch
    BY <1>1 DEF MigrationInv, JobInv, RecordInv
<1>3. CopyInv'
    BY <1>1, <1>2 DEF CopyInv, BuildInv
<1>4. BuildInv'
    BY <1>1 DEF BuildInv
<1>5. ListsInv'
    BY <1>1, <1>2 DEF ListsInv, BuildInv, NoOlderBatch
<1>6. KnownInv'
    BY <1>1 DEF KnownInv
<1>7. CheckedInv'
  <2>1. SUFFICES ASSUME checked PROVE BatchStillHolds'
    BY <1>1, <1>2 DEF CheckedInv
  <2>2. /\ NoAdminChangePending(chain.old) /\ ~MirrorRefused(chain.old, chain.new) /\ gatewayImpl = code
        /\ calls = BuildMirrorBatch(chain.old, chain.new, chain.access) \o GatewayUpgradeCall(code)
    BY <1>1, <2>1 DEF CheckedInv, BatchStillHolds
  <2>3. /\ previous'.calls = BuildMirrorBatch(chain.old, chain.new, chain.access) \o GatewayUpgradeCall(code)
        /\ previous'.gateway = code
    BY <1>1, <2>2
  <2>4. calls # <<>>
    <3>1. Does(BuildMirrorBatch(chain.old, chain.new, chain.access), "migrate")
      BY MirrorBatchMoves DEF MigrationInv, ChainInv, IsChain
    <3> DEFINE mirror == BuildMirrorBatch(chain.old, chain.new, chain.access)
               upgrade == GatewayUpgradeCall(code)
    <3>2. CallList(mirror)
      BY MirrorBatchMoves DEF MigrationInv, ChainInv, IsChain
    <3>3. upgrade \in Seq({[do |-> "upgradeGateway", value |-> code]})
      BY DEF GatewayUpgradeCall, When
    <3> HIDE DEF mirror, upgrade
    <3> DEFINE S == ToSet(mirror) \cup {[do |-> "upgradeGateway", value |-> code]}
    <3>4. mirror \in Seq(S) /\ upgrade \in Seq(S)
      BY <3>2, <3>3 DEF CallList
    <3> HIDE DEF S
    <3>5. DOMAIN mirror # {}
      BY <3>1 DEF Does, mirror
    <3>6. mirror \o upgrade # <<>>
      BY <3>4, <3>5
    <3>7. QED
      BY <2>2, <3>6 DEF mirror, upgrade
  <2>5. previous'.calls # <<>>
    BY <1>1, <2>4
  <2>6. chain' = chain /\ gatewayImpl' = gatewayImpl /\ code' = code
    BY <1>1
  <2>7. QED
    BY <2>2, <2>3, <2>5, <2>6 DEF BatchStillHolds, Rebuilt, GatewayUpgradeCall
<1>8. QED
    BY <1>3, <1>4, <1>5, <1>6, <1>7

LEMMA ChecksPend ==
    ASSUME MigrationInv, LiveInv, CheckPending \/ VerifyMigrated \/ NothingToMigrate
    PROVE  LiveInv'
<1> USE DEF LiveInv
<1>1. /\ pc \in {"check", "migrate"} /\ pc' = "end"
      /\ UNCHANGED <<chain, artifact, gatewayImpl, seen, calls, code, batch, batchStarted, safeQueue>>
    BY DEF CheckPending, VerifyMigrated, NothingToMigrate, recordVars, worldVars, batchVars
<1>2. batchStarted => ~IsMigration(batch.txs)
    BY <1>1 DEF MigrationInv, FileInv
<1>3. previous' = previous \/ (chain.token = "new" /\ artifact = "new" /\ ~previous'.kept /\ previous'.calls = <<>>)
    BY DEF CheckPending, VerifyMigrated, NothingToMigrate, recordVars, NoPrevious
<1>4. CopyInv'
    BY <1>1, <1>3 DEF CopyInv
<1>5. BuildInv'
    BY <1>1 DEF BuildInv
<1>6. ListsInv'
    BY <1>1, <1>2, <1>3 DEF ListsInv
<1>7. KnownInv'
    BY <1>1 DEF KnownInv
<1>8. CheckedInv'
  <2>1. CASE CheckPending
    <3>1. chain.token = "old" /\ artifact = "new" /\ BatchStillHolds /\ previous' = previous
      BY <2>1 DEF CheckPending, recordVars
    <3>2. QED
      BY <1>1, <3>1 DEF CheckedInv, BatchStillHolds, Rebuilt, GatewayUpgradeCall
  <2>2. CASE VerifyMigrated
    BY <1>1, <2>2 DEF VerifyMigrated, CheckedInv, worldVars
  <2>3. CASE NothingToMigrate
    BY <1>1, <2>3 DEF NothingToMigrate, CheckedInv, worldVars, recordVars, BatchStillHolds, Rebuilt, GatewayUpgradeCall
  <2>4. QED
    BY <2>1, <2>2, <2>3
<1>9. QED
    BY <1>4, <1>5, <1>6, <1>7, <1>8

LEMMA DeleteRecordPends ==
    ASSUME MigrationInv, LiveInv, DeleteRecord
    PROVE  LiveInv'
<1> USE DEF LiveInv
<1>1. /\ chain.token = "new" /\ ~previous'.kept
      /\ UNCHANGED <<chain, artifact, pc, checked, batch, batchStarted, safeQueue>>
    BY DEF DeleteRecord, NoPrevious, worldVars, batchVars, jobVars
<1>2. CopyInv' /\ ListsInv' /\ KnownInv'
    BY <1>1 DEF CopyInv, ListsInv, KnownInv
<1>3. BuildInv'
  <2>1. pc = "idle"
    BY DEF DeleteRecord
  <2>2. QED
    BY <1>1, <2>1 DEF BuildInv
<1>4. ~checked'
    BY <1>1 DEF CheckedInv
<1>5. QED
    BY <1>2, <1>3, <1>4 DEF CheckedInv

LEMMA EndsPend ==
    ASSUME MigrationInv, LiveInv, Throws \/ NothingToPropose \/ LeftoverAtEnd \/ Crash
    PROVE  LiveInv'
<1> USE DEF LiveInv
<1>1. /\ pc' = "idle" /\ ~batchStarted'
      /\ UNCHANGED <<chain, artifact, previous, gatewayImpl, code, checked, batch, safeQueue>>
    BY DEF Throws, NothingToPropose, LeftoverAtEnd, Crash, EndProcess, recordVars, worldVars
<1>2. CopyInv' /\ BuildInv' /\ ListsInv' /\ KnownInv'
    BY <1>1 DEF CopyInv, BuildInv, ListsInv, KnownInv
<1>3. CheckedInv'
    BY <1>1 DEF CheckedInv, BatchStillHolds, Rebuilt, GatewayUpgradeCall
<1>4. QED
    BY <1>2, <1>3

LEMMA MarkBatchPends ==
    ASSUME MigrationInv, LiveInv, MarkBatch
    PROVE  LiveInv'
<1> USE DEF LiveInv
<1>1. /\ pc = "end" /\ pc' = "propose" /\ batchStarted
      /\ batch' = [batch EXCEPT !.network = net, !.complete = TRUE]
      /\ UNCHANGED <<chain, artifact, previous, gatewayImpl, code, checked, safeQueue>>
    BY DEF MarkBatch, MarkComplete, StaleBatch, recordVars, worldVars
<1>2. batch'.txs = batch.txs
    BY <1>1 DEF MigrationInv, FileInv
<1>3. CopyInv' /\ BuildInv' /\ ListsInv' /\ KnownInv'
    BY <1>1, <1>2 DEF CopyInv, BuildInv, ListsInv, KnownInv
<1>4. CheckedInv'
    BY <1>1 DEF CheckedInv, BatchStillHolds, Rebuilt, GatewayUpgradeCall
<1>5. QED
    BY <1>3, <1>4

\* An empty file.
LEMMA NothingKnown == ~IsMigration(<<>>) /\ Known(<<>>)
<1>1. DOMAIN <<>> = {}
    OBVIOUS
<1>2. QED
    BY <1>1 DEF IsMigration, Known, Scripts

\* A proposal is added to the queue; the file it was in stays when the process dies right then.
LEMMA ProposesPend ==
    ASSUME MigrationInv, LiveInv, (\E unlinked \in BOOLEAN : ProposeBatch(unlinked)) \/ ProposeLeftover
    PROVE  LiveInv'
<1> USE DEF LiveInv
<1>1. /\ pc' = "idle" /\ (pc = "propose" \/ batch.complete)
      /\ safeQueue' = Append(safeQueue, batch.txs)
      /\ batch' = NoBatch \/ batch' = batch
      /\ UNCHANGED <<chain, artifact, previous, gatewayImpl, code, checked>>
    BY DEF ProposeBatch, ProposeLeftover, Propose, MayProposeLeftover, EndProcess, recordVars, worldVars, jobVars
<1>2. batch'.txs = <<>> \/ batch' = batch
    BY <1>1 DEF NoBatch
<1>3. safeQueue \in Seq(ToSet(safeQueue))
    BY DEF MigrationInv, QueueInv
<1> DEFINE q == safeQueue'
<1>4. DOMAIN q = 1..Len(safeQueue) + 1
      /\ \A i \in DOMAIN q : (i \in DOMAIN safeQueue /\ q[i] = safeQueue[i]) \/ q[i] = batch.txs
    BY <1>1, <1>3
<1> HIDE DEF q
<1>5. CopyInv' /\ BuildInv'
    BY <1>1 DEF CopyInv, BuildInv
<1>6. ListsInv'
  <2>1. SUFFICES ASSUME chain.token = "old" PROVE ListsInv'
    BY <1>1 DEF ListsInv
  <2>2. \A i \in DOMAIN q : IsMigration(q[i]) => q[i] = previous.calls
    BY <1>1, <1>4, <2>1 DEF ListsInv
  <2>3. batch'.complete => (IsMigration(batch'.txs) => batch'.txs = previous.calls)
    BY <1>2, <2>1, NothingKnown DEF ListsInv
  <2>4. QED
    BY <1>1, <2>2, <2>3 DEF ListsInv, q
<1>7. KnownInv'
  <2>1. SUFFICES ASSUME chain.token = "old" PROVE KnownInv'
    BY <1>1 DEF KnownInv
  <2>2. (\A i \in DOMAIN q : Known(q[i])) /\ Known(batch'.txs)
    BY <1>2, <1>4, <2>1, NothingKnown DEF KnownInv
  <2>3. QED
    BY <2>2 DEF KnownInv, q
<1>8. CheckedInv'
    BY <1>1 DEF CheckedInv, BatchStillHolds, Rebuilt, GatewayUpgradeCall
<1>9. QED
    BY <1>5, <1>6, <1>7, <1>8

LEMMA DiscardPends ==
    ASSUME MigrationInv, LiveInv, Discard
    PROVE  LiveInv'
<1> USE DEF LiveInv
<1>1. /\ pc = "idle" /\ batch'.txs = <<>>
      /\ UNCHANGED <<chain, artifact, previous, gatewayImpl, code, checked, pc, safeQueue>>
    BY DEF Discard, DiscardBatch, NoBatch, recordVars, worldVars, jobVars
<1>2. CopyInv' /\ BuildInv'
    BY <1>1 DEF CopyInv, BuildInv
<1>3. ListsInv' /\ KnownInv'
    BY <1>1, NothingKnown DEF ListsInv, KnownInv
<1>4. CheckedInv'
    BY <1>1 DEF CheckedInv, BatchStillHolds, Rebuilt, GatewayUpgradeCall
<1>5. QED
    BY <1>2, <1>3, <1>4

\* The queue loses its first proposal.
LEMMA TailOfQueue ==
    ASSUME MigrationInv, safeQueue # <<>>, safeQueue' = Tail(safeQueue)
    PROVE  \A i \in DOMAIN safeQueue' : i + 1 \in DOMAIN safeQueue /\ safeQueue'[i] = safeQueue[i + 1]
<1>1. safeQueue \in Seq(ToSet(safeQueue))
    BY DEF MigrationInv, QueueInv
<1>2. QED
    BY <1>1

LEMMA RejectPends ==
    ASSUME MigrationInv, LiveInv, SafeRejects
    PROVE  LiveInv'
<1> USE DEF LiveInv
<1>1. /\ safeQueue # <<>> /\ safeQueue' = Tail(safeQueue)
      /\ UNCHANGED <<chain, artifact, previous, gatewayImpl, code, checked, pc, seen, calls, batch, batchStarted>>
    BY DEF SafeRejects, recordVars, worldVars, jobVars
<1> DEFINE q == safeQueue'
<1>2. \A i \in DOMAIN q : i + 1 \in DOMAIN safeQueue /\ q[i] = safeQueue[i + 1]
    BY <1>1, TailOfQueue
<1> HIDE DEF q
<1>3. CopyInv' /\ BuildInv'
    BY <1>1 DEF CopyInv, BuildInv
<1>4. ListsInv'
  <2>1. chain.token = "old" => \A i \in DOMAIN q : IsMigration(q[i]) => q[i] = previous.calls
    BY <1>2 DEF ListsInv
  <2>2. QED
    BY <1>1, <2>1 DEF ListsInv, q
<1>5. KnownInv'
  <2>1. chain.token = "old" => \A i \in DOMAIN q : Known(q[i])
    BY <1>2 DEF KnownInv
  <2>2. QED
    BY <1>1, <2>1 DEF KnownInv, q
<1>6. CheckedInv'
    BY <1>1 DEF CheckedInv, BatchStillHolds, Rebuilt, GatewayUpgradeCall
<1>7. QED
    BY <1>3, <1>4, <1>5, <1>6

\* The dust that lands behind a migration leaves both Treasuries as they are.
LEMMA LateLeaves ==
    ASSUME NEW c, WholeChain(c), NEW late
    PROVE  LET d == [c EXCEPT !.held.old = @ + late] IN WholeChain(d) /\ d.old = c.old /\ d.new = c.new
<1> DEFINE d == [c EXCEPT !.held.old = @ + late]
<1>1. c = [old |-> c.old, new |-> c.new, token |-> c.token, access |-> c.access, gateway |-> c.gateway, held |-> c.held]
    BY DEF WholeChain
<1>2. d = [c EXCEPT !.held = [c.held EXCEPT !.old = @ + late]]
    OBVIOUS
<1> DEFINE held == [c.held EXCEPT !.old = @ + late]
<1> HIDE DEF held
<1>3. d = [c EXCEPT !.held = held]
    BY <1>2 DEF held
<1> HIDE DEF d
<1>4. /\ d.old = c.old /\ d.new = c.new
      /\ d = [old |-> d.old, new |-> d.new, token |-> d.token, access |-> d.access, gateway |-> d.gateway, held |-> d.held]
    BY <1>1, <1>3
<1>5. QED
    BY <1>4 DEF d, WholeChain

\* A role holder changes one Treasury later in the block, and nothing else.
LEMMA LaterKeeps ==
    ASSUME NEW after, IsChain(after), WholeChain(after), WellFormed(after.old), NEW end \in LaterInBlock(after)
    PROVE  /\ WholeChain(end) /\ WellFormed(end.old) /\ end.old.admin = after.old.admin
           /\ Delays = {} => end.old.delay = after.old.delay
           /\ end.token = after.token /\ end.access = after.access /\ end.gateway = after.gateway
           /\ end.held = after.held
           /\ end.old = after.old \/ end.new = after.new
<1>1. CASE end = after
    BY <1>1
<1>2. CASE end \in {[after EXCEPT !.new = s] : s \in Changed(after.new)}
  <2>1. PICK s \in Changed(after.new) : end = [after EXCEPT !.new = s]
    BY <1>2
  <2>2. /\ WholeChain(end) /\ end.old = after.old /\ end.token = after.token /\ end.access = after.access
        /\ end.gateway = after.gateway /\ end.held = after.held
    BY <2>1 DEF WholeChain
  <2>3. QED
    BY <2>2
<1>3. CASE end \in {[after EXCEPT !.old = s] : s \in ChangedButBands(after.old)}
  <2>1. PICK s \in ChangedButBands(after.old) : end = [after EXCEPT !.old = s]
    BY <1>3
  <2>2. s \in Changed(after.old)
    BY <2>1 DEF Changed
  <2>3. WellFormed(s) /\ s.admin = after.old.admin /\ (Delays = {} => s.delay = after.old.delay)
    BY <2>2, ChangedWell DEF IsChain
  <2>4. /\ WholeChain(end) /\ end.old = s /\ end.new = after.new /\ end.token = after.token
        /\ end.access = after.access /\ end.gateway = after.gateway /\ end.held = after.held
    BY <2>1 DEF WholeChain
  <2>5. QED
    BY <2>3, <2>4
<1>4. QED
    BY <1>1, <1>2, <1>3 DEF LaterInBlock

\* What may become of the live Treasury in a block.
OldLeft(d, c) ==
    /\ WholeChain(d) /\ WellFormed(d.old) /\ d.old.admin = c.old.admin
    /\ Delays = {} => d.old.delay = c.old.delay

\* What the Safe executes, one of the routine lists or the migration, keeps the live Treasury's admin, and so
\* does what follows a migration in its block.
LEMMA ExecutedOld ==
    ASSUME MigrationInv, LiveInv, NEW late \in 0..MaxDust, SafeExecutes(late)
    PROVE  /\ OldLeft(chain', chain)
           /\ chain'.token = "old" => chain.token = "old" /\ chain'.new = chain.new
<1> DEFINE txs == Head(safeQueue)
<1>1. PICK after \in RunCalls(chain, txs) :
            IF IsMigration(txs) THEN \E end \in LaterInBlock(after) : chain' = [end EXCEPT !.held.old = @ + late]
                                ELSE chain' = after
    BY DEF SafeExecutes, Archive
<1>2. 1 \in DOMAIN safeQueue /\ txs = safeQueue[1]
    BY DEF SafeExecutes, MigrationInv, QueueInv
<1> HIDE DEF txs
<1>3. Batchable(txs) /\ (chain.token = "old" => Known(txs))
    BY <1>2 DEF MigrationInv, QueueInv, LiveInv, KnownInv
<1>4. /\ chain'.token = IF Moves(txs) THEN "new" ELSE chain.token
      /\ IsMigration(txs) => chain'.token = "new"
  <2>1. chain'.token = IF Moves(txs) THEN "new" ELSE chain.token
    BY ExecutedChain DEF txs
  <2>2. IsMigration(txs) => chain'.token = "new"
    <3>1. SUFFICES ASSUME IsMigration(txs) PROVE chain'.token = "new"
      OBVIOUS
    <3>2. AfterCalls(after, chain, txs, Len(txs))
      BY <1>1, <1>3, RunKeeps DEF MigrationInv, ChainInv, GatewayMovesWithTreasury, Batchable, Ready, ReadyAt
    <3>3. DOMAIN txs = 1..Len(txs)
      BY <1>3 DEF Batchable, Ready, ReadyAt, CallList
    <3>4. after.token = "new" /\ IsChain(after)
      BY <3>1, <3>2, <3>3 DEF AfterCalls, IsMigration, Migrates
    <3>5. PICK end \in LaterInBlock(after) : chain' = [end EXCEPT !.held.old = @ + late]
      BY <1>1, <3>1
    <3>6. IsChain(end) /\ end.token = "new"
      BY <3>4, LaterType
    <3>7. QED
      BY <3>5, <3>6 DEF IsChain
  <2>3. QED
    BY <2>1, <2>2
<1>5. /\ OldLeft(chain', chain)
      /\ chain'.token = "old" => chain'.new = chain.new
  <2>1. SameOld(after, chain) /\ (Scripts(txs) => after.new = chain.new)
    BY <1>1, <1>3, RunOnOld DEF SameRest, MigrationInv, ChainInv, LiveInv, CopyInv, Batchable, Ready, ReadyAt
  <2>2. chain'.token = "old" => chain.token = "old" /\ ~IsMigration(txs) /\ Scripts(txs)
    BY <1>3, <1>4 DEF Known
  <2>3. CASE IsMigration(txs)
    <3>1. PICK end \in LaterInBlock(after) : chain' = [end EXCEPT !.held.old = @ + late]
      BY <1>1, <2>3
    <3>2. /\ WholeChain(end) /\ WellFormed(end.old) /\ end.old.admin = after.old.admin
          /\ Delays = {} => end.old.delay = after.old.delay
      BY <2>1, LaterKeeps DEF SameOld
    <3>3. WholeChain(chain') /\ chain'.old = end.old
      <4> DEFINE d == [end EXCEPT !.held.old = @ + late]
      <4>1. WholeChain(d) /\ d.old = end.old
        BY <3>2, LateLeaves
      <4>2. chain' = d
        BY <3>1
      <4> HIDE DEF d
      <4>3. QED
        BY <4>1, <4>2
    <3>4. QED
      BY <2>1, <2>2, <2>3, <3>2, <3>3 DEF SameOld, OldLeft
  <2>4. CASE ~IsMigration(txs)
    BY <1>1, <2>1, <2>2, <2>4 DEF SameOld, OldLeft
  <2>5. QED
    BY <2>3, <2>4
<1>6. chain'.token = "old" => chain.token = "old"
    BY <1>4
<1>7. QED
    BY <1>5, <1>6

LEMMA ExecutesPend ==
    ASSUME MigrationInv, LiveInv, NEW late \in 0..MaxDust, SafeExecutes(late)
    PROVE  LiveInv'
<1> USE DEF LiveInv
<1> DEFINE q == safeQueue'
<1>1. /\ safeQueue # <<>> /\ q = Tail(safeQueue) /\ ~checked'
      /\ UNCHANGED <<artifact, previous, gatewayImpl, code, pc, seen, calls, batch, batchStarted>>
    BY DEF SafeExecutes, recordVars, jobVars
<1>2. \A i \in DOMAIN q : i + 1 \in DOMAIN safeQueue /\ q[i] = safeQueue[i + 1]
    BY <1>1, TailOfQueue
<1> HIDE DEF q
<1>3. /\ OldLeft(chain', chain)
      /\ chain'.token = "old" => chain.token = "old" /\ chain'.new = chain.new
    BY ExecutedOld
<1>4. CopyInv'
    BY <1>1, <1>3 DEF CopyInv, OldLeft
<1>5. BuildInv'
    BY <1>1, <1>3 DEF BuildInv
<1>6. ListsInv'
  <2>1. chain'.token = "old" => \A i \in DOMAIN q : IsMigration(q[i]) => q[i] = previous.calls
    BY <1>2, <1>3 DEF ListsInv
  <2>2. QED
    BY <1>1, <1>3, <2>1 DEF ListsInv, q
<1>7. KnownInv'
  <2>1. chain'.token = "old" => \A i \in DOMAIN q : Known(q[i])
    BY <1>2, <1>3 DEF KnownInv
  <2>2. QED
    BY <1>1, <1>3, <2>1 DEF KnownInv, q
<1>8. CheckedInv'
    BY <1>1 DEF CheckedInv
<1>9. QED
    BY <1>4, <1>5, <1>6, <1>7, <1>8

LEMMA DeleteOrphanPends ==
    ASSUME MigrationInv, LiveInv, DeleteOrphan
    PROVE  LiveInv'
<1> USE DEF LiveInv
<1>1. /\ pc = "idle" /\ artifact = "old" /\ chain' = [chain EXCEPT !.new = NoTreasury]
      /\ UNCHANGED <<artifact, previous, gatewayImpl, code, checked, pc, seen, calls, batch, batchStarted, safeQueue>>
    BY DEF DeleteOrphan, worldVars, batchVars, jobVars
<1>2. chain'.old = chain.old /\ chain'.token = chain.token /\ WholeChain(chain')
    BY <1>1 DEF CopyInv, WholeChain
<1>3. CopyInv' /\ BuildInv'
    BY <1>1, <1>2 DEF CopyInv, BuildInv
<1>4. ListsInv' /\ KnownInv'
    BY <1>1, <1>2 DEF ListsInv, KnownInv
<1>5. CheckedInv'
    BY <1>1 DEF CheckedInv
<1>6. QED
    BY <1>3, <1>4, <1>5

\* No migration is left, in the queue or in the file.
LEMMA AbandonPends ==
    ASSUME MigrationInv, LiveInv, Abandon
    PROVE  LiveInv'
<1> USE DEF LiveInv
<1> DEFINE given == [txs \in ToSet(safeQueue) |-> When(~IsMigration(txs), txs)]
           S == {txs \in ToSet(safeQueue) : ~IsMigration(txs)}
<1>1. /\ pc = "idle" /\ chain.token = "old" /\ artifact' = "old"
      /\ previous' = NoPrevious
      /\ chain' = [chain EXCEPT !.new = NoTreasury]
      /\ safeQueue' = ForEach(safeQueue, given)
      /\ batch'.txs = <<>> /\ ~batch'.complete
      /\ ~checked'
      /\ UNCHANGED <<gatewayImpl, code, pc, seen, calls, batchStarted>>
    BY DEF Abandon, jobVars, NoBatch
<1>2. chain'.old = chain.old /\ chain'.token = chain.token /\ WholeChain(chain')
    BY <1>1 DEF CopyInv, WholeChain
<1>3. \A txs \in S : ~IsMigration(txs) /\ Known(txs)
    BY <1>1 DEF KnownInv, ToSet
<1>4. safeQueue' \in Seq(S)
  <2>1. \A txs \in ToSet(safeQueue) : given[txs] \in Seq(S)
    <3>1. \A txs \in ToSet(safeQueue) : given[txs] = When(~IsMigration(txs), txs) /\ (~IsMigration(txs) => txs \in S)
      OBVIOUS
    <3>2. <<>> \in Seq(S) /\ \A txs \in S : <<txs>> \in Seq(S)
      OBVIOUS
    <3> HIDE DEF given, S
    <3>3. QED
      BY <3>1, <3>2 DEF When
  <2>2. safeQueue \in Seq(ToSet(safeQueue))
    BY DEF MigrationInv, QueueInv
  <2> HIDE DEF given, S
  <2>3. QED
    BY <1>1, <2>1, <2>2, ForEachType
<1> HIDE DEF given, S
<1> DEFINE q == safeQueue'
<1>5. \A i \in DOMAIN q : ~IsMigration(q[i]) /\ Known(q[i])
    BY <1>3, <1>4
<1> HIDE DEF q
<1>6. CopyInv'
    BY <1>1, <1>2 DEF CopyInv, NoPrevious
<1>7. BuildInv'
    BY <1>1 DEF BuildInv
<1>8. ListsInv' /\ KnownInv'
    BY <1>1, <1>5, NothingKnown DEF ListsInv, KnownInv, q
<1>9. CheckedInv'
    BY <1>1 DEF CheckedInv
<1>10. QED
    BY <1>6, <1>7, <1>8, <1>9

\* Settings change on the live Treasury, a role on the one to come.
LEMMA ChangesPend ==
    ASSUME MigrationInv, LiveInv, LiveChange \/ EarlyGrant \/ Donate
    PROVE  LiveInv'
<1> USE DEF LiveInv
<1>1. UNCHANGED <<artifact, previous, gatewayImpl, code, pc, seen, calls, batch, batchStarted, safeQueue>>
    BY DEF LiveChange, EarlyGrant, Donate, recordVars, jobVars, batchVars
<1>2. IsChain(chain) /\ WholeChain(chain) /\ WellFormed(chain.old)
    BY DEF MigrationInv, ChainInv, CopyInv
<1>3. ~checked'
  <2>1. CASE Donate
    BY <2>1 DEF Donate, CheckedInv
  <2>2. QED
    BY <2>1 DEF LiveChange, EarlyGrant
<1>4. /\ chain'.token = chain.token /\ WholeChain(chain') /\ WellFormed(chain'.old)
      /\ chain'.old.admin = chain.old.admin
  <2>1. CASE LiveChange
    <3>1. PICK s \in Changed(chain[chain.token]) : chain' = [chain EXCEPT ![chain.token] = s]
      BY <2>1 DEF LiveChange
    <3>2. CASE chain.token = "old"
      <4>1. WellFormed(s) /\ s.admin = chain.old.admin
        BY <1>2, <3>1, <3>2, ChangedWell DEF IsChain
      <4>2. chain'.old = s /\ chain'.token = chain.token /\ WholeChain(chain')
        BY <1>2, <3>1, <3>2 DEF WholeChain
      <4>3. QED
        BY <4>1, <4>2
    <3>3. CASE chain.token = "new"
      <4>1. chain'.old = chain.old /\ chain'.token = chain.token /\ WholeChain(chain')
        BY <1>2, <3>1, <3>3 DEF WholeChain
      <4>2. QED
        BY <1>2, <4>1
    <3>4. QED
      BY <1>2, <3>2, <3>3 DEF IsChain
  <2>2. CASE EarlyGrant
    <3>1. PICK g \in Grants : chain' = [chain EXCEPT !.new.roles = @ \cup {g}]
      BY <2>2 DEF EarlyGrant
    <3>2. chain'.old = chain.old /\ chain'.token = chain.token /\ WholeChain(chain')
      BY <1>2, <3>1 DEF WholeChain
    <3>3. QED
      BY <1>2, <3>2
  <2>3. CASE Donate
    <3>1. chain' = [chain EXCEPT !.held.old = @ + 1]
      BY <2>3 DEF Donate
    <3>2. chain'.old = chain.old /\ chain'.token = chain.token /\ WholeChain(chain')
      BY <1>2, <3>1 DEF WholeChain
    <3>3. QED
      BY <1>2, <3>2
  <2>4. QED
    BY <2>1, <2>2, <2>3
<1>5. chain.token = "old" /\ (artifact = "new" \/ pc = "alias") => chain'.new = Untouched(chain'.new.roles)
  <2>1. SUFFICES ASSUME chain.token = "old", artifact = "new" \/ pc = "alias"
                 PROVE  chain'.new = Untouched(chain'.new.roles)
    OBVIOUS
  <2> DEFINE new == chain.new
  <2>2. new = Untouched(new.roles)
    BY <2>1 DEF CopyInv
  <2>3. CASE LiveChange
    <3>1. chain'.new = chain.new
      BY <1>2, <2>1, <2>3 DEF LiveChange, IsChain
    <3>2. QED
      BY <2>2, <3>1
  <2>4. CASE EarlyGrant
    <3>1. PICK g \in Grants : chain' = [chain EXCEPT !.new.roles = @ \cup {g}]
      BY <2>4 DEF EarlyGrant
    <3>2. chain'.new = [new EXCEPT !.roles = @ \cup {g}]
      BY <1>2, <3>1 DEF IsChain
    <3>3. [new EXCEPT !.roles = @ \cup {g}] = Untouched(new.roles \cup {g})
      <4> DEFINE roles == new.roles
                 more == roles \cup {g}
      <4>1. new = Untouched(roles)
        BY <2>2
      <4> HIDE DEF new, roles, more
      <4>2. [new EXCEPT !.roles = more] = Untouched(more)
        BY <4>1 DEF Untouched, Copy
      <4>3. QED
        BY <4>2 DEF more, roles
    <3> HIDE DEF new
    <3> DEFINE more == Untouched(new.roles \cup {g})
    <3>4. more = Untouched(more.roles)
      BY DEF Untouched, Copy
    <3> HIDE DEF more
    <3>5. chain'.new = more
      BY <3>2, <3>3 DEF more
    <3>6. QED
      BY <3>4, <3>5
  <2>5. CASE Donate
    BY <2>1, <2>5 DEF Donate
  <2>6. QED
    BY <2>3, <2>4, <2>5
<1>6. CopyInv'
    BY <1>1, <1>4, <1>5 DEF CopyInv
<1>7. BuildInv'
    BY <1>1, <1>4 DEF BuildInv
<1>8. ListsInv' /\ KnownInv'
    BY <1>1, <1>4 DEF ListsInv, KnownInv
<1>9. CheckedInv'
    BY <1>3 DEF CheckedInv
<1>10. QED
    BY <1>6, <1>7, <1>8, <1>9

LEMMA CodePends ==
    ASSUME MigrationInv, LiveInv, CodeChange \/ OtherStackUpgrade \/ UNCHANGED vars
    PROVE  LiveInv'
<1> USE DEF LiveInv
<1>1. UNCHANGED <<chain, artifact, previous, pc, seen, calls, batch, batchStarted, safeQueue>>
    BY DEF CodeChange, OtherStackUpgrade, vars, recordVars, jobVars, batchVars
<1>2. \/ ~checked'
      \/ UNCHANGED <<gatewayImpl, code, checked>>
    BY DEF CodeChange, OtherStackUpgrade, vars, worldVars, CheckedInv, BatchStillHolds
<1>3. CopyInv' /\ BuildInv' /\ ListsInv' /\ KnownInv'
    BY <1>1 DEF CopyInv, BuildInv, ListsInv, KnownInv
<1>4. CheckedInv'
    BY <1>1, <1>2 DEF CheckedInv, BatchStillHolds, Rebuilt, GatewayUpgradeCall
<1>5. QED
    BY <1>3, <1>4

LEMMA LiveInvInitially == MigrationInit /\ net = "ethereum" => LiveInv
<1> SUFFICES ASSUME MigrationInit, net = "ethereum" PROVE LiveInv
    OBVIOUS
<1>1. PICK old \in LiveTreasuries :
        chain = [old |-> old, new |-> NoTreasury, token |-> "old", access |-> LiveAccess, gateway |-> 0,
                 held |-> [old |-> 1, new |-> 0]]
    BY DEF MigrationInit
<1>2. /\ artifact = "old" /\ previous = [kept |-> FALSE, calls |-> <<>>, gateway |-> 0] /\ pc = "idle"
      /\ ~checked /\ batch.txs = <<>> /\ ~batch.complete /\ safeQueue = <<>>
    BY DEF MigrationInit, NoPrevious, BatchInit, NoBatch
<1>3. WholeChain(chain)
    BY <1>1 DEF WholeChain
<1>4. CopyInv
    BY <1>1, <1>2, <1>3, MigrationAssumption DEF CopyInv
<1>5. DOMAIN safeQueue = {}
    BY <1>2
<1>6. QED
    BY <1>2, <1>4, <1>5, NothingKnown DEF LiveInv, BuildInv, ListsInv, KnownInv, CheckedInv

LEMMA LiveInvKept ==
    ASSUME MigrationInv, LiveInv, net = "ethereum", [MigrationNext]_vars
    PROVE  LiveInv'
<1>1. CASE \E script \in {"migrate", "check"} : StartOwnTags(script) \/ StartFull(script)
    BY <1>1, StartOwnTagsPends, StartFullPends
<1>2. CASE StartMigration \/ StartRebuild
    BY <1>2, StartMigrationPends
<1>3. CASE DeployProxy \/ SaveAlias
    BY <1>3, DeploysPend
<1>4. CASE BuildBatch \/ UpgradeGateway \/ SaveRecord
    BY <1>4, BuildBatchPends, UpgradeGatewayPends, SaveRecordPends
<1>5. CASE CheckPending \/ VerifyMigrated \/ NothingToMigrate
    BY <1>5, ChecksPend
<1>6. CASE Throws \/ NothingToPropose \/ LeftoverAtEnd \/ Crash
    BY <1>6, EndsPend
<1>7. CASE MarkBatch \/ (\E unlinked \in BOOLEAN : ProposeBatch(unlinked)) \/ ProposeLeftover \/ Discard
    BY <1>7, MarkBatchPends, ProposesPend, DiscardPends
<1>8. CASE ForkCall \/ ForkDone
    BY <1>8 DEF ForkCall, ForkDone
<1>9. CASE SafeRejects \/ \E late \in 0..MaxDust : SafeExecutes(late)
    BY <1>9, RejectPends, ExecutesPend
<1>10. CASE DeleteOrphan \/ Abandon \/ DeleteRecord
    BY <1>10, DeleteOrphanPends, AbandonPends, DeleteRecordPends
<1>11. CASE LiveChange \/ EarlyGrant \/ Donate
    BY <1>11, ChangesPend
<1>12. CASE CodeChange \/ OtherStackUpgrade \/ UNCHANGED vars
    BY <1>12, CodePends
<1>13. QED
    BY <1>1, <1>2, <1>3, <1>4, <1>5, <1>6, <1>7, <1>8, <1>9, <1>10, <1>11, <1>12 DEF MigrationNext, DeploySteps

\* The network stays, and the queue of a run that is not on the main one stays empty.
LEMMA NetworkStays == [MigrationNext]_vars => net' = net /\ (net # "ethereum" /\ safeQueue = <<>> => safeQueue' = <<>>)
<1> SUFFICES ASSUME [MigrationNext]_vars PROVE net' = net /\ (net # "ethereum" /\ safeQueue = <<>> => safeQueue' = <<>>)
    OBVIOUS
<1> USE DEF worldVars, batchVars
<1>1. CASE \E script \in {"migrate", "check"} : StartOwnTags(script) \/ StartFull(script)
    BY <1>1 DEF StartOwnTags, StartFull, SaveAll
<1>2. CASE StartMigration \/ StartRebuild \/ DeployProxy \/ SaveAlias
    BY <1>2 DEF StartMigration, StartRebuild, DeployProxy, SaveAlias
<1>3. CASE BuildBatch \/ UpgradeGateway \/ SaveRecord
    BY <1>3 DEF BuildBatch, UpgradeGateway, SaveRecord, SaveAll
<1>4. CASE CheckPending \/ VerifyMigrated \/ NothingToMigrate
    BY <1>4 DEF CheckPending, VerifyMigrated, NothingToMigrate
<1>5. CASE Throws \/ NothingToPropose \/ LeftoverAtEnd \/ Crash
    BY <1>5 DEF Throws, NothingToPropose, LeftoverAtEnd, Crash
<1>6. CASE MarkBatch \/ (\E unlinked \in BOOLEAN : ProposeBatch(unlinked)) \/ ProposeLeftover \/ Discard
    BY <1>6 DEF MarkBatch, MarkComplete, ProposeBatch, ProposeLeftover, Discard, DiscardBatch
<1>7. CASE ForkCall \/ ForkDone
    BY <1>7 DEF ForkCall, ForkDone
<1>8. CASE SafeRejects \/ \E late \in 0..MaxDust : SafeExecutes(late)
    BY <1>8 DEF SafeRejects, SafeExecutes
<1>9. CASE DeleteOrphan \/ Abandon \/ DeleteRecord
    BY <1>9 DEF DeleteOrphan, Abandon, DeleteRecord
<1>10. CASE LiveChange \/ EarlyGrant \/ Donate
    BY <1>10 DEF LiveChange, EarlyGrant, Donate
<1>11. CASE CodeChange \/ OtherStackUpgrade \/ UNCHANGED vars
    BY <1>11 DEF CodeChange, OtherStackUpgrade, vars
<1>12. QED
    BY <1>1, <1>2, <1>3, <1>4, <1>5, <1>6, <1>7, <1>8, <1>9, <1>10, <1>11 DEF MigrationNext, DeploySteps

LEMMA PendingInvInitially == MigrationInit => PendingInv
    BY MigrationInvInitially, LiveInvInitially DEF PendingInv, MigrationInit, BatchInit

LEMMA PendingInvKept ==
    ASSUME PendingInv, [MigrationNext]_vars
    PROVE  PendingInv'
<1>1. MigrationInv'
    BY MigrationInvKept DEF PendingInv
<1>2. net = "ethereum" => LiveInv'
    BY LiveInvKept DEF PendingInv
<1>3. QED
    BY <1>1, <1>2, NetworkStays DEF PendingInv

LEMMA PendingInvHolds == MigrationSpec => []PendingInv
<1>1. PendingInv /\ [MigrationNext]_vars => PendingInv'
    BY PendingInvKept
<1>2. QED
    BY <1>1, PendingInvInitially, PTL DEF MigrationSpec

\* The copy has taken the place of c's live Treasury.
Replaced(after, c) ==
    /\ WholeChain(after)
    /\ ExactButDelay(c.old, after.new) /\ AccessMoved(c, after)
    /\ after.old = c.old /\ after.token = "new" /\ after.held.old = 0

\* The recorded batch, while the check holds: the copy, and the compiled Gateway over it.
LEMMA RebuiltLeads ==
    ASSUME MigrationInv, LiveInv, checked
    PROVE  \E after : RunCalls(chain, previous.calls) = {after} /\ Replaced(after, chain) /\ after.gateway = code
<1> DEFINE mirror == BuildMirrorBatch(chain.old, chain.new, chain.access)
           upgrade == [do |-> "upgradeGateway", value |-> code]
           mirrored == Mirrored(chain)
           after == [mirrored EXCEPT !.gateway = code]
<1>1. /\ chain.token = "old" /\ artifact = "new" /\ NoAdminChangePending(chain.old)
      /\ ~MirrorRefused(chain.old, chain.new)
      /\ previous.calls = mirror \o When(chain.gateway # code, upgrade)
      /\ previous.calls # <<>>
    BY DEF LiveInv, CheckedInv, BatchStillHolds, Rebuilt, GatewayUpgradeCall
<1>2. /\ WholeChain(chain) /\ WellFormed(chain.old) /\ IsTreasury(chain.old)
      /\ chain.old.admin = Safe /\ chain.old.pending = "none"
      /\ chain.new = Untouched(chain.new.roles) /\ IsFiniteSet(chain.new.roles)
    BY <1>1 DEF LiveInv, CopyInv, MigrationInv, ChainInv, RecordInv, IsChain, IsTreasury, NoAdminChangePending
<1>3. Path(chain, mirror, mirrored)
  <2> DEFINE roles == chain.new.roles
  <2>1. chain.new = Untouched(roles) /\ IsFiniteSet(roles)
    BY <1>2
  <2> HIDE DEF roles
  <2>2. QED
    BY <1>1, <1>2, <2>1, MirrorPath DEF WholeChain
<1>4. /\ ExactButDelay(chain.old, mirrored.new) /\ mirrored.held.old = 0 /\ mirrored.gateway = chain.gateway
      /\ mirrored.old = chain.old /\ mirrored.token = "new"
      /\ AccessMoved(chain, mirrored)
      /\ WholeChain(mirrored)
  <2>1. /\ ExactButDelay(chain.old, mirrored.new) /\ mirrored.held.old = 0 /\ mirrored.gateway = chain.gateway
        /\ mirrored.old = chain.old /\ mirrored.token = "new"
        /\ AccessMoved(chain, mirrored)
    BY <1>1, <1>2, MirroredExact
  <2>2. WholeChain(mirrored)
    BY DEF Mirrored, At, WholeChain
  <2>3. QED
    BY <2>1, <2>2
<1> HIDE DEF mirror, mirrored
<1>5. Accepts(mirrored, upgrade) /\ Effect(mirrored, upgrade) = after
    BY DEF Accepts, Effect
<1>6. ~(chain.gateway # code) => mirrored = after
  <2>1. SUFFICES ASSUME mirrored.gateway = code PROVE mirrored = after
    BY <1>4
  <2>2. QED
    BY <1>4, <2>1 DEF WholeChain
<1>7. /\ after.new = mirrored.new /\ after.held = mirrored.held /\ after.access = mirrored.access
      /\ after.old = mirrored.old /\ after.token = mirrored.token /\ after.gateway = code
    BY <1>4 DEF WholeChain
<1>8. WholeChain(after)
    BY <1>4 DEF WholeChain
<1> HIDE DEF after, upgrade
<1>9. Path(mirrored, When(chain.gateway # code, upgrade), after)
    BY <1>5, <1>6, PathWhen
<1>10. RunCalls(chain, previous.calls) = {after}
  <2> DEFINE more == When(chain.gateway # code, upgrade)
  <2>1. previous.calls = mirror \o more /\ Path(mirrored, more, after)
    BY <1>1, <1>9
  <2> HIDE DEF more
  <2>2. Path(chain, mirror \o more, after)
    BY <1>3, <2>1, PathThen
  <2>3. QED
    BY <2>1, <2>2 DEF Path, Leads
<1>11. QED
    BY <1>4, <1>7, <1>8, <1>10 DEF Replaced, AccessMoved

\* The migration makes the new Treasury what the live one is, but for the admin delay.
MirrorsButDelay(txs) ==
    \E after \in RunCalls(chain, txs) :
        /\ ExactButDelay(chain.old, after.new)
        /\ after.held.old = 0
        /\ after.gateway = code
        /\ AccessMoved(chain, after)

CheckedMirrorsButDelay ==
    checked => \A i \in DOMAIN safeQueue : IsMigration(safeQueue[i]) => MirrorsButDelay(safeQueue[i])

LEMMA RebuiltMirrors ==
    ASSUME MigrationInv, LiveInv, checked
    PROVE  MirrorsButDelay(previous.calls)
<1>1. PICK after : RunCalls(chain, previous.calls) = {after} /\ Replaced(after, chain) /\ after.gateway = code
    BY RebuiltLeads
<1>2. QED
    BY <1>1 DEF MirrorsButDelay, Replaced

LEMMA MirrorsWithDelay ==
    ASSUME chain.old.delay = INIT_DELAY, NEW txs, MirrorsButDelay(txs)
    PROVE  Mirrors(txs)
<1>1. PICK after \in RunCalls(chain, txs) :
        /\ ExactButDelay(chain.old, after.new) /\ after.held.old = 0 /\ after.gateway = code
        /\ AccessMoved(chain, after)
    BY DEF MirrorsButDelay
<1>2. ExactCopy(chain.old, after.new)
    BY <1>1, ExactWithDelay
<1>3. QED
    BY <1>1, <1>2 DEF Mirrors, AccessMoved

LEMMA PendingMirrors == PendingInv => CheckedMirrorsButDelay
<1>1. SUFFICES ASSUME PendingInv, checked, NEW i \in DOMAIN safeQueue, IsMigration(safeQueue[i])
               PROVE  MirrorsButDelay(safeQueue[i])
    BY DEF CheckedMirrorsButDelay
<1>2. net = "ethereum"
  <2>1. DOMAIN <<>> = {}
    OBVIOUS
  <2>2. QED
    BY <1>1, <2>1 DEF PendingInv
<1>3. MigrationInv /\ LiveInv
    BY <1>1, <1>2 DEF PendingInv
<1>4. safeQueue[i] = previous.calls
  <2>1. chain.token = "old"
    BY <1>1, <1>3 DEF LiveInv, CheckedInv
  <2>2. QED
    BY <1>1, <1>3, <2>1 DEF LiveInv, ListsInv
<1>5. QED
    BY <1>1, <1>3, <1>4, RebuiltMirrors

LEMMA CheckedWithDelay == CheckedMirrorsButDelay /\ chain.old.delay = INIT_DELAY => CheckedBatchMirrors
    BY MirrorsWithDelay DEF CheckedMirrorsButDelay, CheckedBatchMirrors

\* While nothing has changed since the check passed, no call of the migration the Safe holds reverts, and it
\* makes the new Treasury the live one of now in everything but the admin delay: whatever was set on either
\* Treasury, committed, proposed, abandoned or built again before the check, whichever process died, and
\* whichever delay change completed (checkPendingBatch, buildMirrorBatch).
THEOREM CheckMissesOnlyDelay == MigrationSpec => []CheckedMirrorsButDelay
    BY PendingMirrors, PendingInvHolds, PTL

\* So what a check that passed promises holds as long as the live Treasury has the delay that the new one
\* was given: MigrationDelay.cfg has the one way it fails (treasury-migration.ts, checkPendingBatch).
THEOREM CheckedBatchIsRight == MigrationSpec => [](chain.old.delay = INIT_DELAY => CheckedBatchMirrors)
<1>1. PendingInv => (chain.old.delay = INIT_DELAY => CheckedBatchMirrors)
    BY PendingMirrors, CheckedWithDelay
<1>2. QED
    BY <1>1, PendingInvHolds, PTL

-----------------------------------------------------------------------------
(* The migration that was executed.                                        *)

\* Until it is verified, what is left to execute are the routine lists of before, and no second migration.
QuietInv ==
    chain.token = "new" /\ previous.kept =>
        /\ batch.complete \/ pc = "propose" \/ (pc = "end" /\ batchStarted) => Known(batch.txs)
        /\ \A i \in DOMAIN safeQueue : Known(safeQueue[i])

\* What verifyMigrated asks for besides the copy, and that nothing but the admin delay keeps an execution whose
\* block nobody else used from being one.
VerifiesButCopy ==
    /\ archive.ran
    /\ archive.at.token = "new"
    /\ BandsAtExecution.gateway = 0
    /\ previous.gateway # 0 => GatewayToVerify = previous.gateway
    /\ StrandedAfter = 0
    /\ \A t \in ToSet(archive.before.old.tokens) \cap Gated :
            <<t, "new">> \in archive.at.access /\ <<t, "old">> \notin chain.access
    /\ archive.at.old.tokens = archive.before.old.tokens \/ archive.at.new.tokens = archive.before.old.tokens
    /\ ~archive.changed =>
            archive.at.old = archive.before.old /\ ExactButDelay(archive.at.old, archive.at.new)

LEMMA VerifiesIfCopy == VerifiesButCopy => (Verifies <=> ExactCopy(archive.at.old, archive.at.new))
<1> SUFFICES ASSUME VerifiesButCopy PROVE Verifies <=> ExactCopy(archive.at.old, archive.at.new)
    OBVIOUS
<1>1. ASSUME ExactCopy(archive.at.old, archive.at.new)
      PROVE  archive.at.old.tokens = archive.before.old.tokens
  <2>1. archive.at.new.tokens = archive.at.old.tokens
    BY <1>1 DEF ExactCopy
  <2>2. QED
    BY <2>1 DEF VerifiesButCopy
<1>2. QED
    BY <1>1 DEF VerifiesButCopy, Verifies

LEMMA VerifiesWithDelay == VerifiesButCopy /\ ~archive.changed => (Verifies <=> archive.at.old.delay = INIT_DELAY)
    BY VerifiesIfCopy, ExactWithDelay DEF VerifiesButCopy

\* It can be verified from then on.
VerifiedInv ==
    /\ archive.ran => chain.token = "new"
    /\ chain.token = "new" /\ previous.kept => VerifiesButCopy

ExecutedInv == QuietInv /\ VerifiedInv

\* Whatever else happens on chain, to the records or in the archive.
LEMMA VerifiedStays ==
    ASSUME VerifiedInv, archive' = archive,
           chain'.token = chain.token, chain'.gateway = chain.gateway, chain'.access = chain.access,
           chain.token = "new" /\ previous'.kept => previous' = previous
    PROVE  VerifiedInv'
<1>1. archive'.ran => chain'.token = "new"
    BY DEF VerifiedInv
<1>2. ASSUME chain'.token = "new", previous'.kept
      PROVE  VerifiesButCopy'
  <2>1. VerifiesButCopy /\ previous' = previous
    BY <1>2 DEF VerifiedInv
  <2>2. QED
    BY <2>1 DEF VerifiesButCopy, BandsAtExecution, GatewayToVerify, StrandedAfter
<1>3. QED
    BY <1>1, <1>2 DEF VerifiedInv

\* Before the token moves there is nothing to keep.
LEMMA NotMoved ==
    ASSUME MigrationInv, ExecutedInv, archive' = archive, chain.token = "old", chain'.token = "old"
    PROVE  ExecutedInv'
    BY DEF ExecutedInv, QuietInv, VerifiedInv

LEMMA RunsStayVerified ==
    ASSUME MigrationInv, ExecutedInv,
           \/ \E script \in {"migrate", "check"} : StartOwnTags(script) \/ StartFull(script)
           \/ StartMigration \/ StartRebuild \/ DeployProxy \/ SaveAlias \/ BuildBatch \/ UpgradeGateway \/ SaveRecord
           \/ CheckPending \/ VerifyMigrated \/ NothingToMigrate \/ DeleteRecord
    PROVE  ExecutedInv'
<1>1. CASE \E script \in {"migrate", "check"} : StartOwnTags(script) \/ StartFull(script)
  <2>1. /\ UNCHANGED <<chain, archive, previous, safeQueue>> /\ pc' \in {"migrate", "check", "failed"}
        /\ batch' = batch \/ ~batch'.complete
    BY <1>1 DEF StartOwnTags, StartFull, SaveAll, recordVars, batchVars
  <2>2. VerifiedInv'
    BY <2>1, VerifiedStays DEF ExecutedInv
  <2>3. QuietInv'
    BY <2>1 DEF ExecutedInv, QuietInv
  <2>4. QED
    BY <2>2, <2>3 DEF ExecutedInv
<1>2. CASE StartMigration \/ StartRebuild \/ BuildBatch \/ UpgradeGateway \/ SaveRecord \/ SaveAlias
  <2>1. archive' = archive /\ chain' = chain /\ chain.token = "old"
    BY <1>2 DEF StartMigration, StartRebuild, BuildBatch, UpgradeGateway, SaveRecord, SaveAlias, MigrationInv, JobInv
  <2>2. QED
    BY <2>1, NotMoved
<1>3. CASE DeployProxy
  <2>1. archive' = archive /\ chain.token = "old" /\ chain' = [chain EXCEPT !.new = Fresh(seen.admin)]
    BY <1>3 DEF DeployProxy, MigrationInv, JobInv
  <2>2. chain'.token = "old"
    BY <2>1 DEF MigrationInv, ChainInv, IsChain
  <2>3. QED
    BY <2>1, <2>2, NotMoved
<1>4. CASE CheckPending
  <2>1. archive' = archive /\ chain' = chain /\ chain.token = "old"
    BY <1>4 DEF CheckPending
  <2>2. QED
    BY <2>1, NotMoved
<1>5. CASE VerifyMigrated \/ NothingToMigrate \/ DeleteRecord
  <2>1. /\ archive' = archive /\ chain' = chain
        /\ chain.token = "new" => ~previous'.kept
    BY <1>5 DEF VerifyMigrated, NothingToMigrate, DeleteRecord, NoPrevious, recordVars
  <2>2. VerifiedInv'
    BY <2>1, VerifiedStays DEF ExecutedInv
  <2>3. QuietInv'
    BY <2>1 DEF QuietInv
  <2>4. QED
    BY <2>2, <2>3 DEF ExecutedInv
<1>6. QED
    BY <1>1, <1>2, <1>3, <1>4, <1>5

LEMMA ProposalsStayVerified ==
    ASSUME MigrationInv, ExecutedInv,
           \/ Throws \/ NothingToPropose \/ LeftoverAtEnd \/ Crash
           \/ MarkBatch \/ (\E unlinked \in BOOLEAN : ProposeBatch(unlinked)) \/ ProposeLeftover \/ Discard
    PROVE  ExecutedInv'
<1>1. UNCHANGED <<chain, archive, previous>>
    BY DEF Throws, NothingToPropose, LeftoverAtEnd, Crash, MarkBatch, ProposeBatch, ProposeLeftover, Discard, recordVars
<1>2. VerifiedInv'
    BY <1>1, VerifiedStays DEF ExecutedInv
<1>3. CASE Throws \/ NothingToPropose \/ LeftoverAtEnd \/ Crash
  <2>1. pc' = "idle" /\ UNCHANGED <<batch, safeQueue>>
    BY <1>3 DEF Throws, NothingToPropose, LeftoverAtEnd, Crash, EndProcess
  <2>2. QuietInv'
    BY <1>1, <2>1 DEF ExecutedInv, QuietInv
  <2>3. QED
    BY <1>2, <2>2 DEF ExecutedInv
<1>4. CASE MarkBatch
  <2>1. /\ pc = "end" /\ batchStarted /\ UNCHANGED safeQueue
        /\ batch' = [batch EXCEPT !.network = net, !.complete = TRUE]
    BY <1>4 DEF MarkBatch, MarkComplete, StaleBatch
  <2>2. batch'.txs = batch.txs
    BY <2>1 DEF MigrationInv, FileInv
  <2>3. QuietInv'
    BY <1>1, <2>1, <2>2 DEF ExecutedInv, QuietInv
  <2>4. QED
    BY <1>2, <2>3 DEF ExecutedInv
<1>5. CASE (\E unlinked \in BOOLEAN : ProposeBatch(unlinked)) \/ ProposeLeftover
  <2>1. /\ pc' = "idle" /\ (pc = "propose" \/ batch.complete)
        /\ safeQueue' = Append(safeQueue, batch.txs)
        /\ batch' = NoBatch \/ batch' = batch
    BY <1>5 DEF ProposeBatch, ProposeLeftover, Propose, MayProposeLeftover, EndProcess, jobVars
  <2>2. batch' = batch \/ ~batch'.complete
    BY <2>1 DEF NoBatch
  <2> DEFINE q == safeQueue'
  <2>3. \A i \in DOMAIN q : (i \in DOMAIN safeQueue /\ q[i] = safeQueue[i]) \/ q[i] = batch.txs
    <3>1. safeQueue \in Seq(ToSet(safeQueue))
      BY DEF MigrationInv, QueueInv
    <3>2. QED
      BY <2>1, <3>1
  <2> HIDE DEF q
  <2>4. chain.token = "new" /\ previous.kept => \A i \in DOMAIN q : Known(q[i])
    BY <2>1, <2>3 DEF ExecutedInv, QuietInv
  <2>5. QuietInv'
    BY <1>1, <2>1, <2>2, <2>4 DEF ExecutedInv, QuietInv, q
  <2>6. QED
    BY <1>2, <2>5 DEF ExecutedInv
<1>6. CASE Discard
  <2>1. batch' = NoBatch /\ pc' = "idle" /\ UNCHANGED safeQueue
    BY <1>6 DEF Discard, DiscardBatch, jobVars
  <2>2. QuietInv'
    BY <1>1, <2>1 DEF ExecutedInv, QuietInv, NoBatch
  <2>3. QED
    BY <1>2, <2>2 DEF ExecutedInv
<1>7. QED
    BY <1>3, <1>4, <1>5, <1>6

\* An executed migration was just checked: whatever comes behind it in its block, it leaves what verifyMigrated
\* asks for besides the copy.
LEMMA ExecutionVerifies ==
    ASSUME MigrationInv, LiveInv, checked, NEW late \in 0..MaxDust, SafeExecutes(late), IsMigration(Head(safeQueue))
    PROVE  /\ VerifiesButCopy' /\ chain'.token = "new" /\ archive'.ran
           /\ Delays = {} => archive'.at.old.delay = chain.old.delay
<1> DEFINE txs == Head(safeQueue)
<1>1. chain.token = "old" /\ artifact = "new" /\ BatchStillHolds
    BY DEF LiveInv, CheckedInv
<1>2. txs = previous.calls
  <2>1. 1 \in DOMAIN safeQueue /\ txs = safeQueue[1]
    BY DEF SafeExecutes, MigrationInv, QueueInv
  <2>2. QED
    BY <1>1, <2>1 DEF LiveInv, ListsInv
<1>3. PICK after : RunCalls(chain, txs) = {after} /\ Replaced(after, chain) /\ after.gateway = code
    BY <1>2, RebuiltLeads
<1>4. PICK end \in LaterInBlock(after) :
        archive' = Archive(chain, after, end, late) /\ chain' = archive'.at /\ previous' = previous
    BY <1>3 DEF SafeExecutes, recordVars
<1>5. IsChain(after)
  <2>1. CallList(txs) /\ UpgradesFollow(txs, chain.token = "new")
    <3>1. Batchable(safeQueue[1]) /\ txs = safeQueue[1]
      BY DEF SafeExecutes, MigrationInv, QueueInv
    <3>2. QED
      BY <3>1 DEF Batchable, Ready, ReadyAt
  <2>2. after \in RunCalls(chain, txs)
    BY <1>3
  <2> HIDE DEF txs
  <2>3. QED
    BY <2>1, <2>2, RunKeeps DEF MigrationInv, ChainInv, GatewayMovesWithTreasury, AfterCalls
<1>6. /\ WholeChain(end) /\ IsChain(end)
      /\ Delays = {} => end.old.delay = chain.old.delay
      /\ end.token = "new" /\ end.access = after.access /\ end.gateway = code /\ end.held.old = 0
      /\ end.old = chain.old \/ end.new = after.new
  <2>1. /\ after.old = chain.old /\ after.token = "new" /\ after.held.old = 0 /\ WholeChain(after)
    BY <1>3 DEF Replaced
  <2>2. WellFormed(after.old)
    BY <2>1 DEF LiveInv, CopyInv
  <2>3. IsChain(end)
    BY <1>5, LaterType
  <2>4. QED
    BY <1>3, <1>5, <2>1, <2>2, <2>3, LaterKeeps
<1> DEFINE at == [end EXCEPT !.held.old = @ + late]
<1>7. archive' = [ran |-> TRUE, before |-> chain, late |-> late, changed |-> end # after, at |-> at]
      /\ chain' = at /\ previous' = previous
    BY <1>4 DEF Archive
<1>8. /\ at.old = end.old /\ at.new = end.new /\ at.token = "new" /\ at.access = after.access /\ at.gateway = code
      /\ at.held.old = late
  <2>1. late \in Nat /\ 0 + late = late
    OBVIOUS
  <2> DEFINE held == [end.held EXCEPT !.old = late]
  <2>2. at = [end EXCEPT !.held = held]
    BY <1>6, <2>1
  <2>3. held.old = late
    BY <1>6 DEF IsChain
  <2> HIDE DEF held, at
  <2>4. QED
    BY <1>6, <2>2, <2>3 DEF IsChain
<1>9. chain.gateway = 0
    BY <1>1 DEF MigrationInv, ChainInv, GatewayMovesWithTreasury
<1>10. previous.gateway = code
    BY <1>1 DEF BatchStillHolds
<1>11. /\ ExactButDelay(chain.old, after.new) /\ AccessMoved(chain, after) /\ after.old = chain.old
    BY <1>3 DEF Replaced
<1>12. after.new.tokens = chain.old.tokens
    BY <1>11 DEF ExactButDelay
<1> DEFINE differs == end # after
<1> HIDE DEF at, txs, differs
<1>13. /\ archive'.ran /\ archive'.before = chain /\ archive'.late = late /\ archive'.at = at
       /\ archive'.changed = differs
    BY <1>7 DEF differs
<1>14. late - late = 0
    OBVIOUS
<1>15. at.old.tokens = chain.old.tokens \/ at.new.tokens = chain.old.tokens
    BY <1>6, <1>8, <1>12
<1>16. ~differs => at.old = chain.old /\ ExactButDelay(at.old, at.new)
    BY <1>8, <1>11 DEF differs
<1>17. VerifiesButCopy'
    BY <1>7, <1>8, <1>9, <1>10, <1>11, <1>13, <1>14, <1>15, <1>16
       DEF VerifiesButCopy, BandsAtExecution, GatewayToVerify, StrandedAfter, AccessMoved
<1>18. QED
    BY <1>6, <1>7, <1>8, <1>13, <1>17

LEMMA SafeStaysVerified ==
    ASSUME MigrationInv, LiveInv, ExecutedInv, SafeRejects \/ \E late \in 0..MaxDust : SafeExecutes(late)
    PROVE  ExecutedInv'
<1> DEFINE txs == Head(safeQueue)
           q == safeQueue'
<1>1. safeQueue # <<>> /\ q = Tail(safeQueue) /\ UNCHANGED <<previous, pc, batch, batchStarted>>
    BY DEF SafeRejects, SafeExecutes, recordVars, jobVars
<1>2. 1 \in DOMAIN safeQueue /\ txs = safeQueue[1]
    BY <1>1 DEF MigrationInv, QueueInv
<1>3. \A i \in DOMAIN q : i + 1 \in DOMAIN safeQueue /\ q[i] = safeQueue[i + 1]
    BY <1>1, TailOfQueue
<1> HIDE DEF q
<1>4. CASE SafeRejects
  <2>1. UNCHANGED <<chain, archive>>
    BY <1>4 DEF SafeRejects
  <2>2. VerifiedInv'
    BY <1>1, <2>1, VerifiedStays DEF ExecutedInv
  <2>3. QuietInv'
    <3>1. chain.token = "new" /\ previous.kept => \A i \in DOMAIN q : Known(q[i])
      BY <1>3 DEF ExecutedInv, QuietInv
    <3>2. QED
      BY <1>1, <2>1, <3>1 DEF ExecutedInv, QuietInv, q
  <2>4. QED
    BY <2>2, <2>3 DEF ExecutedInv
<1>5. ASSUME NEW late \in 0..MaxDust, SafeExecutes(late), IsMigration(txs)
      PROVE  ExecutedInv'
  <2>1. checked
    BY <1>5 DEF SafeExecutes
  <2>2. chain.token = "old"
    BY <2>1 DEF LiveInv, CheckedInv
  <2>3. VerifiesButCopy' /\ chain'.token = "new"
    BY <1>5, <2>1, ExecutionVerifies
  <2>4. (\A i \in DOMAIN q : Known(q[i])) /\ Known(batch.txs)
    BY <1>3, <2>2 DEF LiveInv, KnownInv
  <2>5. QuietInv'
    BY <1>1, <2>4 DEF QuietInv, q
  <2>6. QED
    BY <2>3, <2>5 DEF ExecutedInv, VerifiedInv
<1>6. ASSUME NEW late \in 0..MaxDust, SafeExecutes(late), ~IsMigration(txs)
      PROVE  ExecutedInv'
  <2>1. archive' = archive /\ chain' \in RunCalls(chain, txs)
    BY <1>6 DEF SafeExecutes
  <2>2. Batchable(txs) /\ (chain.token = "old" => Known(txs))
    BY <1>2 DEF MigrationInv, QueueInv, LiveInv, KnownInv
  <2>3. chain'.token = chain.token
    BY <1>6, <2>2, ExecutedChain DEF Batchable, MigrationInv, ChainInv, IsChain
  <2>4. chain.token = "old" \/ chain.token = "new"
    BY DEF MigrationInv, ChainInv, IsChain
  <2>5. CASE chain.token = "old"
    BY <2>1, <2>3, <2>5, NotMoved
  <2>6. CASE chain.token = "new" /\ ~previous.kept
    BY <1>1, <2>1, <2>3, <2>6 DEF ExecutedInv, QuietInv, VerifiedInv
  <2>7. CASE chain.token = "new" /\ previous.kept
    <3>1. Scripts(txs)
      BY <1>2, <1>6, <2>7 DEF ExecutedInv, QuietInv, Known
    <3>2. SameRest(chain', chain)
      <4> HIDE DEF txs
      <4>1. CallList(txs) /\ IsChain(chain) /\ WholeChain(chain) /\ WellFormed(chain.old)
        BY <2>2 DEF MigrationInv, ChainInv, LiveInv, CopyInv, Batchable, Ready, ReadyAt
      <4> DEFINE after == chain'
      <4>2. after \in RunCalls(chain, txs)
        BY <2>1
      <4> HIDE DEF after
      <4>3. SameRest(after, chain)
        BY <3>1, <4>1, <4>2, RunOnOld
      <4>4. QED
        BY <4>3 DEF after
    <3>3. VerifiedInv'
      BY <1>1, <2>1, <2>3, <3>2, VerifiedStays DEF ExecutedInv, SameRest
    <3>4. \A i \in DOMAIN q : Known(q[i])
      BY <1>3, <2>7 DEF ExecutedInv, QuietInv
    <3>5. QuietInv'
      BY <1>1, <2>3, <3>4 DEF ExecutedInv, QuietInv, q
    <3>6. QED
      BY <3>3, <3>5 DEF ExecutedInv
  <2>8. QED
    BY <2>4, <2>5, <2>6, <2>7
<1>7. QED
    BY <1>4, <1>5, <1>6

LEMMA ChangesStayVerified ==
    ASSUME MigrationInv, ExecutedInv,
           \/ DeleteOrphan \/ Abandon \/ LiveChange \/ EarlyGrant \/ Donate
           \/ CodeChange \/ OtherStackUpgrade \/ UNCHANGED vars
    PROVE  ExecutedInv'
<1>1. CASE DeleteOrphan \/ Abandon
  <2>1. archive' = archive /\ chain' = [chain EXCEPT !.new = NoTreasury] /\ chain.token = "old"
    BY <1>1 DEF DeleteOrphan, Abandon, MigrationInv, RecordInv, ChainInv, IsChain
  <2>2. chain'.token = "old"
    BY <2>1 DEF MigrationInv, ChainInv, IsChain
  <2>3. QED
    BY <2>1, <2>2, NotMoved
<1>2. CASE LiveChange \/ EarlyGrant \/ Donate \/ CodeChange \/ OtherStackUpgrade \/ UNCHANGED vars
  <2>1. UNCHANGED <<archive, previous, pc, batch, batchStarted, safeQueue>>
    BY <1>2 DEF LiveChange, EarlyGrant, Donate, CodeChange, OtherStackUpgrade, vars, recordVars, jobVars, batchVars
  <2>2. chain'.token = chain.token /\ chain'.gateway = chain.gateway /\ chain'.access = chain.access
    <3>1. IsChain(chain)
      BY DEF MigrationInv, ChainInv
    <3>2. CASE LiveChange
      BY <3>1, <3>2 DEF LiveChange, IsChain
    <3>3. CASE EarlyGrant \/ Donate
      BY <3>1, <3>3 DEF EarlyGrant, Donate, IsChain
    <3>4. CASE CodeChange \/ OtherStackUpgrade \/ UNCHANGED vars
      BY <3>4 DEF CodeChange, OtherStackUpgrade, vars
    <3>5. QED
      BY <1>2, <3>2, <3>3, <3>4
  <2>3. VerifiedInv'
    BY <2>1, <2>2, VerifiedStays DEF ExecutedInv
  <2>4. QuietInv'
    BY <2>1, <2>2 DEF ExecutedInv, QuietInv
  <2>5. QED
    BY <2>3, <2>4 DEF ExecutedInv
<1>3. QED
    BY <1>1, <1>2

LEMMA ExecutedInvKept ==
    ASSUME MigrationInv, LiveInv, ExecutedInv, net = "ethereum", [MigrationNext]_vars
    PROVE  ExecutedInv'
<1>1. ~ForkCall /\ ~ForkDone
    BY DEF ForkCall, ForkDone
<1>2. QED
    BY <1>1, RunsStayVerified, ProposalsStayVerified, SafeStaysVerified, ChangesStayVerified
       DEF MigrationNext, DeploySteps

LEMMA ExecutedInvInitially == MigrationInit => ExecutedInv
<1> SUFFICES ASSUME MigrationInit PROVE ExecutedInv
    OBVIOUS
<1>1. chain.token = "old" /\ ~archive.ran
    BY DEF MigrationInit, NotMigrated
<1>2. QED
    BY <1>1 DEF ExecutedInv, QuietInv, VerifiedInv

-----------------------------------------------------------------------------
(* A dry run on a fork that nothing disturbs: every call of the batch gets *)
(* a block of its own, so what the verification reads of the migration's   *)
(* block and what it reads of now are different states of the chain.       *)

MirrorNow == BuildMirrorBatch(chain.old, chain.new, chain.access)

\* What MirrorProofs starts from.
Mirrorable ==
    /\ chain.token = "old" /\ WholeChain(chain) /\ WellFormed(chain.old)
    /\ chain.new = Untouched(chain.new.roles)
    /\ SafeCanSign(chain.old) /\ chain.old.delay = INIT_DELAY
    /\ ~MirrorRefused(chain.old, chain.new)

\* No file outlives a process, so no record of a batch waits for one.
FileFork ==
    /\ ~checked /\ pc # "failed"
    /\ batch.txs # <<>> => batchStarted /\ pc \in {"gateway", "record", "end", "propose"}
    /\ chain.token = "old" /\ batch.txs = <<>> => previous.calls = <<>>

\* Before the calls run, the process has read the live Treasury as it still is.
CopyFork ==
    chain.token = "old" /\ pc # "propose" =>
        /\ WholeChain(chain) /\ WellFormed(chain.old) /\ ~archive.ran
        /\ artifact = "new" \/ pc = "alias" => chain.new = Untouched(chain.new.roles)
        /\ pc \in {"deploy", "alias", "build"} => seen = chain.old /\ SafeCanSign(chain.old)

\* The batch is the one for the chain as it is.
BuiltFork ==
    /\ pc = "gateway" => Mirrorable /\ calls = MirrorNow /\ batch.txs = calls
    /\ pc = "record" =>
        Mirrorable /\ calls = MirrorNow \o <<UpgradeTo(code)>> /\ batch.txs = calls /\ gatewayImpl = code
    /\ pc = "end" /\ batch.txs # <<>> =>
        Mirrorable /\ batch.txs = MirrorNow \o <<UpgradeTo(code)>> /\ previous.kept /\ previous.gateway = code

\* When all calls have run.
MovedFork ==
    chain.token = "new" /\ pc # "propose" =>
        chain.gateway = code /\ batch.txs = <<>> /\ (previous.kept => Verifies)

\* What the migrate call leaves, ...
Copied(at) ==
    /\ ExactCopy(at.old, at.new) /\ at.token = "new" /\ at.held.old = 0
    /\ \A t \in ToSet(at.old.tokens) \cap Gated : <<t, "new">> \in at.access

\* ... and the last call of the batch then.
Closed(at, last) ==
    /\ last.token = "new" /\ last.gateway = code
    /\ \A t \in ToSet(at.old.tokens) \cap Gated : <<t, "old">> \notin last.access

\* The calls before migrate lead to `then`, and those after it from there to `last`.
Split(txs, early, rest, then, last) ==
    /\ txs = early \o (<<MigrateCall>> \o rest)
    /\ Path(chain, early, then) /\ ~Does(early, "migrate")
    /\ Path(Effect(then, MigrateCall), rest, last) /\ ~Does(rest, "migrate")
    /\ then.gateway = 0
    /\ Copied(Effect(then, MigrateCall)) /\ Closed(Effect(then, MigrateCall), last)

\* migrate is still to run, ...
Coming == \E early, rest, then, last : Split(calls, early, rest, then, last)

\* ... or it has run.
Going ==
    /\ archive.ran /\ archive.before.gateway = 0 /\ archive.late = 0 /\ Copied(archive.at)
    /\ ~Does(calls, "migrate")
    /\ \E last : Path(chain, calls, last) /\ Closed(archive.at, last)

RunFork ==
    pc = "propose" => batch.txs # <<>> /\ previous.kept /\ previous.gateway = code /\ (Coming \/ Going)

ForkInv == FileFork /\ CopyFork /\ BuiltFork /\ MovedFork /\ RunFork

\* The routine scripts find nothing to do that the fork's deployer could.
LEMMA ForkScripts ==
    ASSUME MigrationInv, ForkInv, net = "localhost", pc = "idle"
    PROVE  ScriptCalls = <<>>
<1>1. <<>> \o <<>> = <<>> /\ <<>> \o (<<>> \o <<>>) = <<>>
    OBVIOUS
<1>2. GatewayCalls = <<>>
  <2>1. chain.token = "new" => chain.gateway = code
    BY DEF ForkInv, MovedFork
  <2>2. QED
    BY <2>1 DEF GatewayCalls, BehindProxy, When
<1>3. CASE MigrationPending
    BY <1>1, <1>2, <1>3 DEF ScriptCalls
<1>4. CASE ~MigrationPending
  <2>1. ConnectionCalls = <<>>
    BY <1>4 DEF ConnectionCalls, MigrationPending, When
  <2>2. (IF RefusedAtWhitelist THEN <<>> ELSE WhitelistCalls) = <<>>
    BY <1>4 DEF RefusedAtWhitelist
  <2>3. QED
    BY <1>1, <1>2, <1>4, <2>1, <2>2 DEF ScriptCalls
<1>5. QED
    BY <1>3, <1>4

LEMMA StartsOnFork ==
    ASSUME MigrationInv, ForkInv, net = "localhost",
           \/ \E script \in {"migrate", "check"} : StartOwnTags(script) \/ StartFull(script)
           \/ StartMigration \/ StartRebuild
    PROVE  ForkInv'
<1> USE DEF ForkInv
<1>1. CASE \E script \in {"migrate", "check"} : StartFull(script)
  <2>1. pc = "idle" /\ ScriptCalls # <<>>
    BY <1>1 DEF StartFull
  <2>2. QED
    BY <2>1, ForkScripts
<1>2. CASE \E script \in {"migrate", "check"} : StartOwnTags(script)
  <2>1. /\ pc = "idle" /\ pc' \in {"migrate", "check"}
        /\ UNCHANGED <<chain, archive, artifact, previous, code, checked, batch, batchStarted>>
    BY <1>2 DEF StartOwnTags, recordVars, worldVars, batchVars
  <2>2. FileFork' /\ CopyFork' /\ BuiltFork' /\ RunFork'
    BY <2>1 DEF FileFork, CopyFork, BuiltFork, RunFork
  <2>3. MovedFork'
    BY <2>1 DEF MovedFork, Verifies, BandsAtExecution, GatewayToVerify, StrandedAfter
  <2>4. QED
    BY <2>2, <2>3
<1>3. CASE StartMigration \/ StartRebuild
  <2>1. /\ pc = "migrate" /\ pc' \in {"deploy", "build"} /\ chain.token = "old"
        /\ SafeCanSign(chain.old) /\ seen' = chain.old
        /\ UNCHANGED <<chain, archive, artifact, code, checked, batch, batchStarted>>
        /\ previous' = previous \/ previous'.calls = <<>>
    BY <1>3 DEF StartMigration, StartRebuild, MayMigrate, MayRebuild, NoPrevious, recordVars, worldVars, batchVars
  <2>2. FileFork' /\ CopyFork' /\ BuiltFork' /\ RunFork'
    BY <2>1 DEF FileFork, CopyFork, BuiltFork, RunFork
  <2>3. MovedFork'
    BY <2>1 DEF MovedFork
  <2>4. QED
    BY <2>2, <2>3
<1>4. QED
    BY <1>1, <1>2, <1>3

LEMMA DeploysOnFork ==
    ASSUME MigrationInv, ForkInv, DeployProxy \/ SaveAlias
    PROVE  ForkInv'
<1> USE DEF ForkInv
<1>1. /\ pc \in {"deploy", "alias"} /\ pc' = (IF pc = "deploy" THEN "alias" ELSE "build")
      /\ UNCHANGED <<archive, previous, seen, code, checked, batch, batchStarted>>
    BY DEF DeployProxy, SaveAlias, worldVars, batchVars
<1>2. artifact = "old" /\ chain.token = "old"
    BY <1>1 DEF MigrationInv, RecordInv, JobInv
<1>3. WholeChain(chain) /\ WellFormed(chain.old) /\ ~archive.ran /\ seen = chain.old /\ SafeCanSign(chain.old)
    BY <1>1, <1>2 DEF CopyFork
<1>4. WholeChain(chain') /\ chain'.old = chain.old /\ chain'.token = "old" /\ chain'.new = Untouched(chain'.new.roles)
  <2>1. CASE DeployProxy
    BY <1>2, <1>3, <2>1, DeployedUntouched DEF SafeCanSign
  <2>2. CASE SaveAlias
    BY <1>2, <1>3, <2>2 DEF SaveAlias, CopyFork
  <2>3. QED
    BY <2>1, <2>2
<1>5. CopyFork'
    BY <1>1, <1>3, <1>4 DEF CopyFork
<1>6. FileFork'
    BY <1>1, <1>2, <1>4 DEF FileFork
<1>7. BuiltFork' /\ MovedFork' /\ RunFork'
    BY <1>1, <1>4 DEF BuiltFork, MovedFork, RunFork
<1>8. QED
    BY <1>5, <1>6, <1>7

LEMMA BuildOnFork ==
    ASSUME MigrationInv, ForkInv, BuildBatch
    PROVE  ForkInv'
<1> USE DEF ForkInv
<1>1. /\ pc = "build" /\ pc' = "gateway" /\ Buildable(seen)
      /\ calls' = BuildMirrorBatch(seen, chain.new, chain.access) /\ SaveAll(net, calls')
      /\ UNCHANGED <<chain, archive, artifact, previous, code, checked>>
    BY DEF BuildBatch, recordVars, worldVars
<1>2. chain.token = "old" /\ artifact = "new"
    BY <1>1 DEF MigrationInv, JobInv, RecordInv
<1>3. /\ WholeChain(chain) /\ WellFormed(chain.old) /\ ~archive.ran /\ seen = chain.old /\ SafeCanSign(chain.old)
      /\ chain.new = Untouched(chain.new.roles)
    BY <1>1, <1>2 DEF CopyFork
<1>4. chain.new.delay = INIT_DELAY
    BY <1>3 DEF Untouched, Copy
<1>5. Mirrorable
    BY <1>1, <1>2, <1>3, <1>4 DEF Mirrorable, Buildable
<1>6. calls' = MirrorNow /\ CallList(calls')
    BY <1>1, <1>3, MirrorBatchMoves DEF MirrorNow, MigrationInv, ChainInv, IsChain
<1>7. batch.txs = <<>>
    BY <1>1 DEF FileFork
<1>8. batch'.txs = calls' /\ batchStarted'
  <2> DEFINE new == calls'
  <2>1. CallList(new) /\ SaveAll(net, new)
    BY <1>1, <1>6
  <2> HIDE DEF new
  <2>2. batch'.txs = new /\ batchStarted'
    BY <1>7, <2>1, FirstSave
  <2>3. QED
    BY <2>2 DEF new
<1>9. Mirrorable' /\ MirrorNow' = MirrorNow
    BY <1>1, <1>5 DEF Mirrorable, MirrorNow
<1>10. BuiltFork'
    BY <1>1, <1>6, <1>8, <1>9 DEF BuiltFork
<1>11. FileFork'
    BY <1>1, <1>2, <1>7, <1>8 DEF FileFork
<1>12. CopyFork' /\ MovedFork' /\ RunFork'
    BY <1>1, <1>2, <1>3 DEF CopyFork, MovedFork, RunFork
<1>13. QED
    BY <1>10, <1>11, <1>12

LEMMA UpgradeOnFork ==
    ASSUME MigrationInv, ForkInv, UpgradeGateway
    PROVE  ForkInv'
<1> USE DEF ForkInv
<1>1. /\ pc = "gateway" /\ pc' = "record" /\ gatewayImpl' = code
      /\ UNCHANGED <<chain, archive, artifact, previous, code, checked>>
    BY DEF UpgradeGateway, recordVars, worldVars
<1>2. Mirrorable /\ calls = MirrorNow /\ batch.txs = calls /\ chain.token = "old"
    BY <1>1 DEF BuiltFork, Mirrorable
<1>3. ~Does(calls, "upgradeGateway")
    BY <1>2, MirrorBatchMoves DEF MirrorNow, MigrationInv, ChainInv, IsChain
<1>4. calls' = calls \o <<UpgradeTo(code)>> /\ calls' # <<>> /\ batch'.txs = calls' /\ batchStarted'
    BY <1>2, <1>3, UpgradeSaved
<1>5. Mirrorable' /\ MirrorNow' = MirrorNow
    BY <1>1, <1>2 DEF Mirrorable, MirrorNow
<1>6. BuiltFork'
    BY <1>1, <1>2, <1>4, <1>5 DEF BuiltFork
<1>7. FileFork'
    BY <1>1, <1>4 DEF FileFork
<1>8. CopyFork' /\ MovedFork' /\ RunFork'
    BY <1>1, <1>2 DEF CopyFork, MovedFork, RunFork
<1>9. QED
    BY <1>6, <1>7, <1>8

LEMMA RecordOnFork ==
    ASSUME MigrationInv, ForkInv, SaveRecord
    PROVE  ForkInv'
<1> USE DEF ForkInv
<1>1. /\ pc = "record" /\ pc' = "end"
      /\ previous' = [kept |-> TRUE, calls |-> calls, gateway |-> gatewayImpl]
      /\ UNCHANGED <<chain, archive, artifact, code, checked, batch, batchStarted>>
    BY DEF SaveRecord, worldVars, batchVars
<1>2. /\ Mirrorable /\ batch.txs = MirrorNow \o <<UpgradeTo(code)>> /\ batch.txs = calls /\ gatewayImpl = code
      /\ chain.token = "old"
    BY <1>1 DEF BuiltFork, Mirrorable
<1>3. previous'.kept /\ previous'.calls = batch.txs /\ previous'.gateway = code
    BY <1>1, <1>2
<1>4. Mirrorable' /\ MirrorNow' = MirrorNow
    BY <1>1, <1>2 DEF Mirrorable, MirrorNow
<1>5. BuiltFork'
    BY <1>1, <1>2, <1>3, <1>4 DEF BuiltFork
<1>6. FileFork'
    BY <1>1, <1>3 DEF FileFork
<1>7. CopyFork' /\ MovedFork' /\ RunFork'
    BY <1>1, <1>2 DEF CopyFork, MovedFork, RunFork
<1>8. QED
    BY <1>5, <1>6, <1>7

\* No recorded batch waits for the check; the verification retires the record.
LEMMA ChecksOnFork ==
    ASSUME MigrationInv, ForkInv, CheckPending \/ VerifyMigrated \/ NothingToMigrate
    PROVE  ForkInv'
<1> USE DEF ForkInv
<1>1. CASE CheckPending
  <2>1. pc = "check" /\ chain.token = "old" /\ previous.calls # <<>>
    BY <1>1 DEF CheckPending, BatchStillHolds
  <2>2. QED
    BY <2>1 DEF FileFork
<1>2. CASE VerifyMigrated \/ NothingToMigrate
  <2>1. /\ pc \in {"check", "migrate"} /\ pc' = "end"
        /\ previous' = previous \/ (~previous'.kept /\ chain.token = "new")
        /\ UNCHANGED <<chain, archive, artifact, code, checked, batch, batchStarted>>
    BY <1>2 DEF VerifyMigrated, NothingToMigrate, NoPrevious, recordVars, worldVars, batchVars
  <2>2. batch.txs = <<>>
    BY <2>1 DEF FileFork
  <2>3. FileFork' /\ CopyFork' /\ BuiltFork' /\ RunFork'
    BY <2>1, <2>2 DEF FileFork, CopyFork, BuiltFork, RunFork
  <2>4. MovedFork'
    BY <2>1 DEF MovedFork, Verifies, BandsAtExecution, GatewayToVerify, StrandedAfter
  <2>5. QED
    BY <2>3, <2>4
<1>3. QED
    BY <1>1, <1>2

LEMMA EndsOnFork ==
    ASSUME MigrationInv, ForkInv,
           Throws \/ NothingToPropose \/ LeftoverAtEnd \/ Discard \/ DeleteOrphan \/ OtherStackUpgrade \/ UNCHANGED vars
    PROVE  ForkInv'
<1> USE DEF ForkInv
<1>1. CASE LeftoverAtEnd \/ Discard
  <2>1. batch.txs # <<>> /\ ~batchStarted
    BY <1>1 DEF LeftoverAtEnd, Discard, DiscardBatch, StaleBatch, HasBatchFile
  <2>2. QED
    BY <2>1 DEF FileFork
<1>2. CASE Throws \/ NothingToPropose
  <2>1. /\ pc' = "idle" /\ pc # "propose" /\ batch.txs = <<>>
        /\ UNCHANGED <<chain, archive, artifact, previous, code, checked, batch>>
    BY <1>2 DEF Throws, NothingToPropose, EndProcess, HasBatchFile, FileFork, recordVars, worldVars
  <2>2. FileFork' /\ CopyFork' /\ BuiltFork' /\ RunFork'
    BY <2>1 DEF FileFork, CopyFork, BuiltFork, RunFork
  <2>3. MovedFork'
    BY <2>1 DEF MovedFork, Verifies, BandsAtExecution, GatewayToVerify, StrandedAfter
  <2>4. QED
    BY <2>2, <2>3
<1>3. CASE DeleteOrphan
  <2>1. /\ pc = "idle" /\ artifact = "old" /\ chain' = [chain EXCEPT !.new = NoTreasury]
        /\ UNCHANGED <<archive, artifact, previous, pc, seen, code, checked, batch, batchStarted>>
    BY <1>3 DEF DeleteOrphan, jobVars, worldVars, batchVars
  <2>2. chain.token = "old"
    BY <2>1 DEF MigrationInv, ChainInv, IsChain, RecordInv
  <2>3. WholeChain(chain) /\ WellFormed(chain.old) /\ ~archive.ran
    BY <2>1, <2>2 DEF CopyFork
  <2>4. WholeChain(chain') /\ chain'.old = chain.old /\ chain'.token = "old"
    BY <2>1, <2>2, <2>3 DEF WholeChain
  <2>5. CopyFork'
    BY <2>1, <2>3, <2>4 DEF CopyFork
  <2>6. FileFork' /\ BuiltFork' /\ MovedFork' /\ RunFork'
    BY <2>1, <2>2, <2>4 DEF FileFork, BuiltFork, MovedFork, RunFork
  <2>7. QED
    BY <2>5, <2>6
<1>4. CASE OtherStackUpgrade \/ UNCHANGED vars
  <2>1. /\ UNCHANGED <<chain, archive, artifact, previous, pc, seen, calls, code, checked, batch, batchStarted>>
        /\ gatewayImpl' = gatewayImpl \/ pc = "idle"
    BY <1>4 DEF OtherStackUpgrade, vars, recordVars, jobVars, worldVars, batchVars
  <2>2. FileFork' /\ CopyFork'
    BY <2>1 DEF FileFork, CopyFork
  <2>3. Mirrorable' <=> Mirrorable
    BY <2>1 DEF Mirrorable
  <2>4. MirrorNow' = MirrorNow
    BY <2>1 DEF MirrorNow
  <2>5. BuiltFork'
    BY <2>1, <2>3, <2>4 DEF BuiltFork
  <2>6. MovedFork'
    BY <2>1 DEF MovedFork, Verifies, BandsAtExecution, GatewayToVerify, StrandedAfter
  <2>7. RunFork'
    BY <2>1 DEF RunFork, Coming, Going, Split, Closed
  <2>8. QED
    BY <2>2, <2>5, <2>6, <2>7
<1>5. QED
    BY <1>1, <1>2, <1>3, <1>4

\* The same calls, read as those before migrate, migrate, and those after it.
LEMMA ThenType ==
    ASSUME NEW S, NEW a \in Seq(S), NEW b \in Seq(S)
    PROVE  Then(a, b) \in Seq(S)
    BY DEF Then

LEMMA ThenThen ==
    ASSUME NEW S, NEW a \in Seq(S), NEW b \in Seq(S), NEW c \in Seq(S)
    PROVE  Then(Then(a, b), c) = Then(a, Then(b, c))
    BY DEF Then

LEMMA ThenFive ==
    ASSUME NEW S, NEW p \in Seq(S), NEW a \in Seq(S), NEW b \in Seq(S), NEW f \in Seq(S), NEW u \in Seq(S)
    PROVE  Then(Then(Then(p, Then(a, b)), f), u) = Then(Then(p, a), Then(b, Then(f, u)))
<1>1. Then(p, a) \in Seq(S) /\ Then(b, f) \in Seq(S)
    BY ThenType
<1>2. Then(p, Then(a, b)) = Then(Then(p, a), b)
    BY ThenThen
<1>3. Then(Then(Then(p, a), b), f) = Then(Then(p, a), Then(b, f))
    BY <1>1, ThenThen
<1>4. Then(Then(Then(p, a), Then(b, f)), u) = Then(Then(p, a), Then(Then(b, f), u))
    BY <1>1, ThenThen
<1>5. Then(Then(b, f), u) = Then(b, Then(f, u))
    BY ThenThen
<1>6. QED
    BY <1>2, <1>3, <1>4, <1>5

LEMMA Regroup ==
    ASSUME NEW S, NEW p \in Seq(S), NEW f \in Seq(S), NEW t \in S, NEW m \in S, NEW u \in S
    PROVE  Then(Then(Then(p, <<t, m>>), f), <<u>>) = Then(Then(p, <<t>>), Then(<<m>>, Then(f, <<u>>)))
<1> DEFINE two == <<t, m>> one == <<t>> mig == <<m>> up == <<u>>
<1>1. two \in Seq(S) /\ one \in Seq(S) /\ mig \in Seq(S) /\ up \in Seq(S)
    OBVIOUS
<1>2. two = one \o mig
  <2> DEFINE both == one \o mig
  <2>1. Len(both) = 2 /\ both[1] = t /\ both[2] = m /\ both \in Seq(S)
    OBVIOUS
  <2>2. Len(two) = 2 /\ two[1] = t /\ two[2] = m /\ two \in Seq(S)
    OBVIOUS
  <2> HIDE DEF both, two
  <2>3. both = [i \in 1..2 |-> both[i]] /\ two = [i \in 1..2 |-> two[i]]
    BY <2>1, <2>2
  <2>4. \A i \in 1..2 : both[i] = two[i]
    BY <2>1, <2>2
  <2>5. two = both
    BY <2>3, <2>4
  <2>6. QED
    BY <2>5 DEF both
<1> HIDE DEF two, one, mig, up
<1>3. two = Then(one, mig)
    BY <1>2 DEF Then
<1>4. Then(Then(Then(p, Then(one, mig)), f), up) = Then(Then(p, one), Then(mig, Then(f, up)))
    BY <1>1, ThenFive
<1>5. Then(Then(Then(p, two), f), up) = Then(Then(p, one), Then(mig, Then(f, up)))
    BY <1>3, <1>4
<1>6. QED
    BY <1>5 DEF two, one, mig, up

LEMMA PlainFacts ==
    ASSUME NEW txs, Plain(txs)
    PROVE  CallList(txs) /\ ~Does(txs, "migrate")
    BY DEF Plain, PlainCall, Does

\* The calls of a batch, and what they lead to when nothing comes in between.
LEMMA BatchSplits ==
    ASSUME MigrationInv, Mirrorable
    PROVE  \E early, rest, then, last : Split(MirrorNow \o <<UpgradeTo(code)>>, early, rest, then, last)
<1> DEFINE c == chain
           prepare == Preparing(chain.old, chain.new, chain.access)
           upgrade == UpgradeTo(code)
           close == Forbidding(chain)
           early == prepare \o <<TokenCall>>
           rest == close \o <<upgrade>>
           then == TokenMoved(chain, LetIn(chain), CopyOf(chain.old))
           moved == AfterMove(chain)
           mirrored == Mirrored(chain)
           last == [mirrored EXCEPT !.gateway = code]
<1>1. /\ chain.token = "old" /\ WholeChain(chain) /\ WellFormed(chain.old) /\ IsTreasury(chain.old) /\ IsTreasury(chain.new)
      /\ chain.old.admin = Safe /\ chain.old.delay = INIT_DELAY /\ chain.old.pending = "none"
      /\ chain.new = Untouched(chain.new.roles) /\ IsFiniteSet(chain.new.roles)
      /\ ~MirrorRefused(chain.old, chain.new)
    BY DEF Mirrorable, SafeCanSign, NoAdminChangePending, MigrationInv, ChainInv, IsChain, IsTreasury
<1>2. chain.gateway = 0
    BY <1>1 DEF MigrationInv, ChainInv, GatewayMovesWithTreasury
<1>3. Plain(prepare) /\ Plain(close)
    BY <1>1, PreparingPlain, VaultCallsPlain DEF Forbidding
<1>4. CallList(prepare) /\ ~Does(prepare, "migrate") /\ CallList(close) /\ ~Does(close, "migrate")
    BY <1>3, PlainFacts
<1>5. CallOk(TokenCall) /\ CallOk(upgrade) /\ TokenCall.do # "migrate" /\ upgrade.do # "migrate"
    BY DEF TokenCall, UpgradeTo, CallOk, CallNames
<1>6. MirrorNow \o <<upgrade>> = early \o (<<MigrateCall>> \o rest)
  <2> DEFINE S == ToSet(prepare) \cup ToSet(close) \cup {TokenCall, MigrateCall, upgrade}
  <2>1. prepare \in Seq(ToSet(prepare)) /\ close \in Seq(ToSet(close))
    BY <1>4 DEF CallList
  <2>2. MirrorNow = (prepare \o <<TokenCall, MigrateCall>>) \o close
    BY BatchParts DEF MirrorNow, MoveCalls, TokenCall, MigrateCall
  <2> HIDE DEF prepare, close, upgrade
  <2>3. prepare \in Seq(S) /\ close \in Seq(S) /\ TokenCall \in S /\ MigrateCall \in S /\ upgrade \in S
    BY <2>1
  <2> HIDE DEF S
  <2>4. Then(Then(Then(prepare, <<TokenCall, MigrateCall>>), close), <<upgrade>>)
            = Then(Then(prepare, <<TokenCall>>), Then(<<MigrateCall>>, Then(close, <<upgrade>>)))
    BY <2>3, Regroup
  <2>5. QED
    BY <2>2, <2>4 DEF Then
<1>7. Path(chain, prepare, At(chain, LetIn(chain), CopyOf(chain.old)))
  <2> DEFINE roles == chain.new.roles
  <2>1. chain.new = Untouched(roles) /\ IsFiniteSet(roles)
    BY <1>1
  <2> HIDE DEF roles
  <2>2. QED
    BY <1>1, <2>1, PreparePath DEF WholeChain
<1>8. /\ Path(At(chain, LetIn(chain), CopyOf(chain.old)), <<TokenCall>>, then)
      /\ Effect(then, MigrateCall) = moved
    BY <1>1, MoveSteps DEF AfterMove
<1>9. Path(chain, early, then)
  <2> DEFINE at == At(chain, LetIn(chain), CopyOf(chain.old))
             p == <<TokenCall>>
  <2>1. Path(chain, prepare, at) /\ Path(at, p, then)
    BY <1>7, <1>8
  <2> HIDE DEF at, p, prepare, then
  <2>2. Path(chain, prepare \o p, then)
    BY <2>1, PathThen
  <2>3. QED
    BY <2>2 DEF p
<1>10. /\ ExactButDelay(chain.old, mirrored.new) /\ AccessMoved(chain, mirrored)
       /\ mirrored.old = chain.old /\ mirrored.token = "new" /\ mirrored.held.old = 0
    BY <1>1, MirroredExact
<1>11. /\ moved.old = chain.old /\ moved.token = "new" /\ moved.held.old = 0 /\ moved.access = LetIn(chain)
       /\ moved.new = CopyOf(chain.old)
    BY DEF AfterMove, At, Moved
<1>12. last.token = "new" /\ last.gateway = code /\ last.access = mirrored.access
    BY DEF Mirrored, At, Moved
<1>13. Path(moved, rest, last)
  <2>1. Path(moved, close, mirrored)
    BY <1>1, ForbiddingPath
  <2>2. Accepts(mirrored, upgrade) /\ Effect(mirrored, upgrade) = last
    <3> HIDE DEF mirrored
    <3>1. QED
      BY DEF Accepts, Effect, UpgradeTo
  <2> DEFINE p == <<upgrade>>
  <2> HIDE DEF upgrade, mirrored, last, moved, close
  <2>3. Path(mirrored, p, last)
    BY <2>2, PathOne
  <2> HIDE DEF p
  <2>4. Path(moved, close \o p, last)
    BY <2>1, <2>3, PathThen
  <2>5. QED
    BY <2>4 DEF p
<1>14. ~Does(early, "migrate") /\ ~Does(rest, "migrate")
  <2> DEFINE p == <<TokenCall>> q == <<upgrade>>
  <2>1. CallList(p) /\ CallList(q) /\ ~Does(p, "migrate") /\ ~Does(q, "migrate")
    BY <1>5, OneCall
  <2> HIDE DEF p, q, prepare, close
  <2>2. ~Does(prepare \o p, "migrate") /\ ~Does(close \o q, "migrate")
    BY <1>4, <2>1, CatDoes
  <2>3. QED
    BY <2>2 DEF p, q
<1>15. then.gateway = 0
    BY <1>2 DEF TokenMoved
<1>16. ExactCopy(chain.old, CopyOf(chain.old))
    BY <1>1, CopyExact, ExactWithDelay
<1>17. \A t \in ToSet(chain.old.tokens) \cap Gated : <<t, "new">> \in LetIn(chain)
    BY DEF LetIn
<1> HIDE DEF early, rest, then, moved, mirrored, last, upgrade
<1>18. Copied(moved)
    BY <1>11, <1>16, <1>17 DEF Copied
<1>19. Closed(moved, last)
    BY <1>10, <1>11, <1>12 DEF Closed, AccessMoved
<1>20. Split(MirrorNow \o <<upgrade>>, early, rest, then, last)
    BY <1>6, <1>8, <1>9, <1>13, <1>14, <1>15, <1>18, <1>19 DEF Split
<1>21. QED
    BY <1>20 DEF upgrade

LEMMA MarkOnFork ==
    ASSUME MigrationInv, ForkInv, MarkBatch
    PROVE  ForkInv'
<1> USE DEF ForkInv
<1>1. /\ pc = "end" /\ pc' = "propose" /\ batch.txs # <<>> /\ calls' = batch.txs
      /\ batch' = [batch EXCEPT !.network = net, !.complete = TRUE]
      /\ UNCHANGED <<chain, archive, artifact, previous, gatewayImpl, seen, code, checked, batchStarted>>
    BY DEF MarkBatch, MarkComplete, HasBatchFile, recordVars, worldVars
<1>2. batch'.txs = batch.txs
    BY <1>1 DEF MigrationInv, FileInv
<1>3. /\ Mirrorable /\ batch.txs = MirrorNow \o <<UpgradeTo(code)>>
      /\ previous.kept /\ previous.gateway = code
    BY <1>1 DEF BuiltFork
<1>4. PICK early, rest, then, last : Split(batch.txs, early, rest, then, last)
    BY <1>3, BatchSplits
<1>5. Path(chain, early, then)' <=> Path(chain, early, then)
    BY <1>1
<1>6. Split(calls, early, rest, then, last)'
    BY <1>1, <1>4, <1>5 DEF Split, Closed
<1>7. Coming'
    BY <1>6 DEF Coming
<1>8. RunFork'
    BY <1>1, <1>2, <1>3, <1>7 DEF RunFork
<1>9. FileFork'
    BY <1>1, <1>2 DEF FileFork
<1>10. CopyFork' /\ BuiltFork' /\ MovedFork'
    BY <1>1 DEF CopyFork, BuiltFork, MovedFork
<1>11. QED
    BY <1>8, <1>9, <1>10

LEMMA CatHead ==
    ASSUME NEW S, NEW a \in Seq(S), a # <<>>, NEW b \in Seq(S)
    PROVE  Head(a \o b) = Head(a) /\ Tail(a \o b) = Tail(a) \o b
<1>1. Len(a) \in Nat /\ Len(a) # 0 /\ Len(b) \in Nat
    OBVIOUS
<1>2. Head(a \o b) = Head(a)
    BY <1>1
<1> DEFINE x == Tail(a \o b) y == Tail(a) \o b
<1>3. x \in Seq(S) /\ y \in Seq(S) /\ Len(x) = Len(a) + Len(b) - 1 /\ Len(y) = Len(a) + Len(b) - 1
    BY <1>1
<1>4. ASSUME NEW i \in 1..Len(a) + Len(b) - 1 PROVE x[i] = y[i]
  <2>1. x[i] = (a \o b)[i + 1]
    BY <1>1
  <2>2. CASE i + 1 <= Len(a)
    BY <1>1, <2>1, <2>2
  <2>3. CASE i + 1 > Len(a)
    BY <1>1, <2>1, <2>3
  <2>4. QED
    BY <1>1, <2>2, <2>3
<1> DEFINE n == Len(a) + Len(b) - 1
<1>5. x = [i \in 1..n |-> x[i]] /\ y = [i \in 1..n |-> y[i]]
  <2>1. \A s \in Seq(S) : s = [i \in 1..Len(s) |-> s[i]]
    OBVIOUS
  <2> HIDE DEF x, y
  <2>2. QED
    BY <1>3, <2>1
<1> HIDE DEF n
<1>6. \A i \in 1..n : x[i] = y[i]
    BY <1>4 DEF n
<1> HIDE DEF x, y
<1>7. x = y
    BY <1>5, <1>6
<1>8. QED
    BY <1>2, <1>7 DEF x, y

LEMMA CatOne ==
    ASSUME NEW S, NEW m \in S, NEW b \in Seq(S)
    PROVE  <<>> \o (<<m>> \o b) = <<m>> \o b /\ Head(<<m>> \o b) = m /\ Tail(<<m>> \o b) = b
<1> DEFINE one == <<m>>
<1>1. one \in Seq(S) /\ one # <<>> /\ Head(one) = m /\ Tail(one) = <<>>
    OBVIOUS
<1> HIDE DEF one
<1>2. Head(one \o b) = Head(one) /\ Tail(one \o b) = Tail(one) \o b
    BY <1>1, CatHead
<1>3. \A s \in Seq(S) : <<>> \o s = s
    OBVIOUS
<1>4. one \o b \in Seq(S)
    BY <1>1
<1>5. QED
    BY <1>1, <1>2, <1>3, <1>4 DEF one

LEMMA CatEmpty ==
    ASSUME NEW S, NEW a \in Seq(S), NEW m \in S, NEW b \in Seq(S)
    PROVE  a \o (<<m>> \o b) # <<>>
<1> DEFINE all == a \o (<<m>> \o b)
<1>1. Len(all) = Len(a) + (1 + Len(b)) /\ Len(a) \in Nat /\ Len(b) \in Nat
    OBVIOUS
<1>2. Len(all) # 0
    BY <1>1
<1> HIDE DEF all
<1>3. all # <<>>
    BY <1>2
<1>4. QED
    BY <1>3 DEF all

LEMMA TailDoes ==
    ASSUME NEW S, NEW txs \in Seq(S), txs # <<>>, NEW name, ~Does(txs, name)
    PROVE  Head(txs).do # name /\ ~Does(Tail(txs), name)
<1>1. Len(txs) \in Nat /\ Len(txs) # 0 /\ DOMAIN txs = 1..Len(txs)
    OBVIOUS
<1>2. Head(txs) = txs[1] /\ 1 \in DOMAIN txs
    BY <1>1
<1> DEFINE tail == Tail(txs)
<1>3. \A i \in DOMAIN tail : i + 1 \in DOMAIN txs /\ tail[i] = txs[i + 1]
    BY <1>1
<1> HIDE DEF tail
<1>4. ~Does(tail, name)
    BY <1>3 DEF Does
<1>5. QED
    BY <1>2, <1>4 DEF Does, tail

\* A call of the batch on the fork: one before migrate, migrate itself, or one after it.
LEMMA EarlyCall ==
    ASSUME ForkCall, NEW early, NEW rest, NEW then, NEW last, Split(calls, early, rest, then, last), early # <<>>
    PROVE  Coming'
<1> DEFINE here == chain' list == calls' tail == Tail(early)
<1>1. here = Effect(chain, Head(calls)) /\ list = Tail(calls) /\ code' = code
    BY DEF ForkCall, worldVars
<1>2. /\ calls = early \o (<<MigrateCall>> \o rest)
      /\ Path(chain, early, then) /\ ~Does(early, "migrate") /\ Path(Effect(then, MigrateCall), rest, last)
    BY DEF Split
<1> DEFINE S == ToSet(early) \cup ToSet(rest) \cup {MigrateCall}
           b == <<MigrateCall>> \o rest
<1>3. early \in Seq(S) /\ rest \in Seq(S) /\ b \in Seq(S)
  <2>1. early \in Seq(ToSet(early)) /\ rest \in Seq(ToSet(rest))
    BY <1>2 DEF Path
  <2>2. early \in Seq(S) /\ rest \in Seq(S) /\ MigrateCall \in S
    BY <2>1
  <2> HIDE DEF S
  <2>3. QED
    BY <2>2
<1> HIDE DEF S, b
<1>4. calls = early \o b
    BY <1>2 DEF b
<1>5. Head(calls) = Head(early) /\ Tail(calls) = tail \o b
    BY <1>3, <1>4, CatHead
<1>6. Path(Effect(chain, Head(early)), tail, then)
    BY <1>2, PathHead
<1>7. ~Does(tail, "migrate")
    BY <1>2, <1>3, TailDoes
<1> HIDE DEF tail, here, list
<1>8. Path(here, tail, then) /\ list = tail \o b
    BY <1>1, <1>5, <1>6
<1>9. Split(calls, tail, rest, then, last)'
    BY <1>1, <1>7, <1>8 DEF Split, Closed, b, here, list
<1>10. QED
    BY <1>9 DEF Coming

LEMMA TheMigration ==
    ASSUME MigrationInv, ForkCall, NEW rest, NEW then, NEW last, Split(calls, <<>>, rest, then, last)
    PROVE  Going'
<1> DEFINE here == chain' list == calls'
<1>1. here = Effect(chain, Head(calls)) /\ list = Tail(calls) /\ code' = code
    BY DEF ForkCall, worldVars
<1>2. /\ calls = <<>> \o (<<MigrateCall>> \o rest)
      /\ Path(chain, <<>>, then) /\ Path(Effect(then, MigrateCall), rest, last) /\ ~Does(rest, "migrate")
      /\ then.gateway = 0 /\ Copied(Effect(then, MigrateCall)) /\ Closed(Effect(then, MigrateCall), last)
    BY DEF Split
<1>3. chain = then
    BY <1>2, PathNone
<1>4. Head(calls) = MigrateCall /\ Tail(calls) = rest
  <2> DEFINE S == ToSet(rest) \cup {MigrateCall}
  <2>1. rest \in Seq(ToSet(rest))
    BY <1>2 DEF Path
  <2>2. rest \in Seq(S) /\ MigrateCall \in S
    BY <2>1
  <2> HIDE DEF S
  <2>3. QED
    BY <1>2, <2>2, CatOne
<1>5. here = Effect(then, MigrateCall) /\ list = rest
    BY <1>1, <1>3, <1>4
<1>6. Migrates(Head(calls))
    BY <1>4 DEF Migrates, MigrateCall
<1> DEFINE at == [here EXCEPT !.held.old = @ + 0]
<1>7. archive' = [ran |-> TRUE, before |-> chain, late |-> 0, changed |-> FALSE, at |-> at]
    BY <1>6 DEF ForkCall, Archive
<1>8. IsChain(here)
  <2>1. CallOk(MigrateCall)
    BY DEF MigrateCall, CallOk, CallNames
  <2>2. QED
    BY <1>3, <1>5, <2>1, EffectKeeps DEF MigrationInv, ChainInv
<1>9. /\ at.old = here.old /\ at.new = here.new /\ at.token = here.token /\ at.access = here.access
      /\ at.held.old = 0
  <2>1. here.held.old = 0 /\ 0 + 0 = 0
    BY <1>2, <1>5 DEF Copied
  <2> DEFINE held == [here.held EXCEPT !.old = 0]
  <2>2. at = [here EXCEPT !.held = held]
    BY <2>1
  <2>3. held.old = 0
    BY <1>8 DEF IsChain
  <2> HIDE DEF held, at, here
  <2>4. QED
    BY <1>8, <2>2, <2>3 DEF IsChain
<1> DEFINE past == archive'
<1>10. past.ran /\ past.before = chain /\ past.late = 0 /\ past.at = at
    BY <1>7
<1> HIDE DEF at, here, list, past
<1>11. Copied(here) /\ Closed(here, last) /\ Path(here, list, last) /\ ~Does(list, "migrate")
    BY <1>2, <1>5
<1>12. Copied(at)
    BY <1>9, <1>11 DEF Copied
<1>13. Closed(at, last)
    BY <1>9, <1>11 DEF Closed
<1>14. Closed(archive.at, last)'
  <2>1. past.at = at /\ code' = code
    BY <1>1, <1>10
  <2>2. QED
    BY <1>13, <2>1 DEF Closed, past
<1>15. Path(chain, calls, last)' /\ ~Does(calls, "migrate")'
    BY <1>11 DEF here, list
<1>16. archive'.ran /\ archive'.before.gateway = 0 /\ archive'.late = 0 /\ Copied(archive.at)'
    BY <1>2, <1>3, <1>10, <1>12 DEF past, Copied
<1>17. QED
    BY <1>14, <1>15, <1>16 DEF Going

LEMMA LateCall ==
    ASSUME ForkCall, Going
    PROVE  Going'
<1> DEFINE here == chain' list == calls'
<1>1. here = Effect(chain, Head(calls)) /\ list = Tail(calls) /\ code' = code /\ calls # <<>>
    BY DEF ForkCall, worldVars
<1>2. PICK last : Path(chain, calls, last) /\ Closed(archive.at, last)
    BY DEF Going
<1>3. Path(Effect(chain, Head(calls)), Tail(calls), last)
    BY <1>1, <1>2, PathHead
<1>4. calls \in Seq(ToSet(calls)) /\ ~Does(calls, "migrate")
    BY <1>2 DEF Path, Going
<1>5. Head(calls).do # "migrate" /\ ~Does(Tail(calls), "migrate")
    BY <1>1, <1>4, TailDoes
<1>6. archive' = archive
    BY <1>5 DEF ForkCall, Migrates
<1> HIDE DEF here, list
<1>7. Path(here, list, last) /\ ~Does(list, "migrate")
    BY <1>1, <1>3, <1>5
<1>8. QED
    BY <1>1, <1>2, <1>6, <1>7 DEF Going, Closed, here, list

LEMMA CallOnFork ==
    ASSUME MigrationInv, ForkInv, ForkCall
    PROVE  ForkInv'
<1> USE DEF ForkInv
<1>1. pc = "propose" /\ UNCHANGED <<previous, pc, code, checked, batch, batchStarted>>
    BY DEF ForkCall, recordVars, worldVars, batchVars
<1>2. batch.txs # <<>> /\ previous.kept /\ previous.gateway = code /\ (Coming \/ Going)
    BY <1>1 DEF RunFork
<1>3. Coming' \/ Going'
  <2>1. CASE Coming
    <3>1. PICK early, rest, then, last : Split(calls, early, rest, then, last)
      BY <2>1 DEF Coming
    <3>2. CASE early = <<>>
      BY <3>1, <3>2, TheMigration
    <3>3. CASE early # <<>>
      BY <3>1, <3>3, EarlyCall
    <3>4. QED
      BY <3>2, <3>3
  <2>2. CASE Going
    BY <2>2, LateCall
  <2>3. QED
    BY <1>2, <2>1, <2>2
<1>4. RunFork'
    BY <1>1, <1>2, <1>3 DEF RunFork
<1>5. FileFork' /\ CopyFork' /\ BuiltFork' /\ MovedFork'
    BY <1>1, <1>2 DEF FileFork, CopyFork, BuiltFork, MovedFork
<1>6. QED
    BY <1>4, <1>5

\* With no call left the last one has run, and the verification finds what it asks for.
LEMMA DoneOnFork ==
    ASSUME MigrationInv, ForkInv, ForkDone
    PROVE  ForkInv'
<1> USE DEF ForkInv
<1>1. /\ pc = "propose" /\ pc' = "idle" /\ calls = <<>> /\ batch' = NoBatch
      /\ UNCHANGED <<chain, archive, previous, code, checked>>
    BY DEF ForkDone, EndProcess, recordVars, worldVars
<1>2. previous.kept /\ previous.gateway = code /\ (Coming \/ Going)
    BY <1>1 DEF RunFork
<1>3. ~Coming
  <2>1. SUFFICES ASSUME NEW early, NEW rest, NEW then, NEW last, Split(calls, early, rest, then, last) PROVE FALSE
    BY DEF Coming
  <2> DEFINE S == ToSet(early) \cup ToSet(rest) \cup {MigrateCall}
  <2>2. early \in Seq(ToSet(early)) /\ rest \in Seq(ToSet(rest)) /\ calls = early \o (<<MigrateCall>> \o rest)
    BY <2>1 DEF Split, Path
  <2>3. early \in Seq(S) /\ rest \in Seq(S) /\ MigrateCall \in S
    BY <2>2
  <2> HIDE DEF S
  <2>4. early \o (<<MigrateCall>> \o rest) # <<>>
    BY <2>3, CatEmpty
  <2>5. QED
    BY <1>1, <2>2, <2>4
<1>4. Going
    BY <1>2, <1>3
<1>5. PICK last : Path(chain, <<>>, last) /\ Closed(archive.at, last)
    BY <1>1, <1>4 DEF Going
<1>6. Closed(archive.at, chain)
    BY <1>5, PathNone
<1>7. 0 - 0 = 0
    OBVIOUS
<1>8. Verifies
    BY <1>2, <1>4, <1>6, <1>7 DEF Verifies, Going, Copied, Closed, BandsAtExecution, GatewayToVerify, StrandedAfter
<1>9. Verifies'
    BY <1>1, <1>8 DEF Verifies, BandsAtExecution, GatewayToVerify, StrandedAfter
<1>10. chain.token = "new" /\ chain.gateway = code
    BY <1>6 DEF Closed
<1>11. batch'.txs = <<>>
    BY <1>1 DEF NoBatch
<1>12. FileFork' /\ CopyFork' /\ BuiltFork' /\ RunFork'
    BY <1>1, <1>10, <1>11 DEF FileFork, CopyFork, BuiltFork, RunFork
<1>13. MovedFork'
    BY <1>1, <1>9, <1>10, <1>11 DEF MovedFork
<1>14. QED
    BY <1>12, <1>13

\* What an undisturbed fork does not see.
LEMMA ForkUndisturbed ==
    ASSUME MigrationInv, net = "localhost", safeQueue = <<>>, events = 0, events' = 0, [MigrationNext]_vars
    PROVE  \/ \E script \in {"migrate", "check"} : StartOwnTags(script) \/ StartFull(script)
           \/ StartMigration \/ StartRebuild \/ DeployProxy \/ SaveAlias \/ BuildBatch \/ UpgradeGateway \/ SaveRecord
           \/ CheckPending \/ VerifyMigrated \/ NothingToMigrate
           \/ Throws \/ NothingToPropose \/ LeftoverAtEnd \/ MarkBatch \/ ForkCall \/ ForkDone
           \/ Discard \/ DeleteOrphan \/ OtherStackUpgrade \/ UNCHANGED vars
<1>1. ~Event
  <2>1. 0 + 1 # 0
    OBVIOUS
  <2>2. QED
    BY <2>1 DEF Event
<1>2. ~Crash /\ ~Abandon /\ ~DeleteRecord /\ ~LiveChange /\ ~EarlyGrant /\ ~Donate /\ ~CodeChange
    BY <1>1 DEF Crash, Abandon, DeleteRecord, LiveChange, EarlyGrant, Donate, CodeChange
<1>3. ~ProposeLeftover /\ \A unlinked \in BOOLEAN : ~ProposeBatch(unlinked)
    BY DEF ProposeLeftover, ProposeBatch
<1>4. ~SafeRejects /\ \A late \in 0..MaxDust : ~SafeExecutes(late)
    BY DEF SafeRejects, SafeExecutes
<1>5. QED
    BY <1>2, <1>3, <1>4 DEF MigrationNext, DeploySteps

LEMMA ForkInvKept ==
    ASSUME MigrationInv, ForkInv, net = "localhost", safeQueue = <<>>, events = 0, events' = 0, [MigrationNext]_vars
    PROVE  ForkInv'
    BY ForkUndisturbed, StartsOnFork, DeploysOnFork, BuildOnFork, UpgradeOnFork, RecordOnFork, ChecksOnFork,
       EndsOnFork, MarkOnFork, CallOnFork, DoneOnFork

LEMMA ForkInvInitially == MigrationInit => ForkInv
<1> SUFFICES ASSUME MigrationInit PROVE ForkInv
    OBVIOUS
<1>1. PICK old \in LiveTreasuries :
        chain = [old |-> old, new |-> NoTreasury, token |-> "old", access |-> LiveAccess, gateway |-> 0,
                 held |-> [old |-> 1, new |-> 0]]
    BY DEF MigrationInit
<1>2. /\ artifact = "old" /\ previous.calls = <<>> /\ pc = "idle" /\ ~checked /\ batch.txs = <<>> /\ ~archive.ran
    BY DEF MigrationInit, NoPrevious, NotMigrated, BatchInit, NoBatch
<1>3. WholeChain(chain) /\ WellFormed(chain.old) /\ chain.token = "old"
    BY <1>1, MigrationAssumption DEF WholeChain
<1>4. QED
    BY <1>2, <1>3 DEF ForkInv, FileFork, CopyFork, BuiltFork, MovedFork, RunFork

\* The number of disturbances only grows.
LEMMA EventsGrow == [MigrationNext]_vars => events' = events \/ events' = events + 1
<1> SUFFICES ASSUME [MigrationNext]_vars PROVE events' = events \/ events' = events + 1
    OBVIOUS
<1> USE DEF worldVars, Event
<1>1. CASE \E script \in {"migrate", "check"} : StartOwnTags(script) \/ StartFull(script)
    BY <1>1 DEF StartOwnTags, StartFull
<1>2. CASE StartMigration \/ StartRebuild \/ DeployProxy \/ SaveAlias \/ BuildBatch \/ UpgradeGateway \/ SaveRecord
    BY <1>2 DEF StartMigration, StartRebuild, DeployProxy, SaveAlias, BuildBatch, UpgradeGateway, SaveRecord
<1>3. CASE CheckPending \/ VerifyMigrated \/ NothingToMigrate
    BY <1>3 DEF CheckPending, VerifyMigrated, NothingToMigrate
<1>4. CASE Throws \/ NothingToPropose \/ LeftoverAtEnd \/ Crash \/ MarkBatch
    BY <1>4 DEF Throws, NothingToPropose, LeftoverAtEnd, Crash, MarkBatch
<1>5. CASE (\E unlinked \in BOOLEAN : ProposeBatch(unlinked)) \/ ProposeLeftover \/ Discard
    BY <1>5 DEF ProposeBatch, ProposeLeftover, Discard
<1>6. CASE ForkCall \/ ForkDone
    BY <1>6 DEF ForkCall, ForkDone
<1>7. CASE SafeRejects \/ \E late \in 0..MaxDust : SafeExecutes(late)
    BY <1>7 DEF SafeRejects, SafeExecutes
<1>8. CASE DeleteOrphan \/ Abandon \/ DeleteRecord
    BY <1>8 DEF DeleteOrphan, Abandon, DeleteRecord
<1>9. CASE LiveChange \/ EarlyGrant \/ Donate
    BY <1>9 DEF LiveChange, EarlyGrant, Donate
<1>10. CASE CodeChange \/ OtherStackUpgrade \/ UNCHANGED vars
    BY <1>10 DEF CodeChange, OtherStackUpgrade, vars
<1>11. QED
    BY <1>1, <1>2, <1>3, <1>4, <1>5, <1>6, <1>7, <1>8, <1>9, <1>10 DEF MigrationNext, DeploySteps

DoneInv ==
    /\ PendingInv
    /\ events \in Nat
    /\ net \in {"ethereum", "localhost"}
    /\ net = "ethereum" => ExecutedInv
    /\ net = "localhost" /\ events = 0 => ForkInv

LEMMA DoneInvHolds == MigrationSpec => []DoneInv
<1>1. MigrationInit => DoneInv
  <2>1. MigrationInit => events \in Nat /\ net \in {"ethereum", "localhost"}
    BY MigrationAssumption DEF MigrationInit
  <2>2. QED
    BY <2>1, PendingInvInitially, ExecutedInvInitially, ForkInvInitially DEF DoneInv
<1>2. DoneInv /\ [MigrationNext]_vars => DoneInv'
  <2> SUFFICES ASSUME DoneInv, [MigrationNext]_vars PROVE DoneInv'
    OBVIOUS
  <2> USE DEF DoneInv
  <2>1. PendingInv'
    BY PendingInvKept
  <2>2. events' \in Nat /\ (events' = 0 => events = 0)
    BY EventsGrow
  <2>3. net' = net
    BY NetworkStays
  <2>4. net = "ethereum" => ExecutedInv'
    BY ExecutedInvKept DEF PendingInv
  <2>5. net = "localhost" /\ events' = 0 => ForkInv'
    BY <2>2, ForkInvKept DEF PendingInv
  <2>6. QED
    BY <2>1, <2>2, <2>3, <2>4, <2>5
<1>3. QED
    BY <1>1, <1>2, PTL DEF MigrationSpec

\* On the main network: whatever was executed passes the verification but for the copy.
LiveVerifies == net = "ethereum" /\ archive.ran /\ previous.kept => VerifiesButCopy

LEMMA DoneVerifies == DoneInv => LiveVerifies
    BY DEF DoneInv, LiveVerifies, ExecutedInv, VerifiedInv

\* An undisturbed dry run passes it altogether.
LEMMA ForkVerifies ==
    ASSUME DoneInv, archive.ran, previous.kept, net # "ethereum", pc # "propose", events = 0
    PROVE  Verifies
<1>1. chain.token \in {"old", "new"}
    BY DEF DoneInv, PendingInv, MigrationInv, ChainInv, IsChain
<1>2. QED
    BY <1>1 DEF DoneInv, ForkInv, CopyFork, MovedFork

UnderDelay == net = "ethereum" /\ archive.ran /\ previous.kept => archive.at.old.delay = INIT_DELAY

LEMMA VerifiesUnderDelay == DoneInv /\ UnderDelay => MigrationVerifies
<1>1. SUFFICES ASSUME DoneInv, UnderDelay, archive.ran, previous.kept, ~archive.changed,
                      net = "ethereum" \/ (pc # "propose" /\ events = 0)
               PROVE  Verifies
    BY DEF MigrationVerifies
<1>2. CASE net = "ethereum"
    BY <1>1, <1>2, DoneVerifies, VerifiesWithDelay DEF LiveVerifies, UnderDelay
<1>3. CASE net # "ethereum"
    BY <1>1, <1>3, ForkVerifies
<1>4. QED
    BY <1>2, <1>3

\* On the main network the verification of a migration that executed after its check passed fails for one reason
\* only, and then does: the two Treasuries differed at the end of the migration's block.  However late it runs,
\* whatever was set, committed, sent to the emptied Treasury or killed meanwhile, all else that verifyMigrated
\* compares is as it asks.  And if no role holder changed either Treasury later in that block, they differ in
\* one thing at most: the admin delay, when it is not the one the new Treasury was given (checkPendingBatch,
\* verifyMigrated).
THEOREM VerificationFailsOnDifferenceOnly ==
    MigrationSpec =>
        [](net = "ethereum" /\ archive.ran /\ previous.kept =>
            /\ Verifies <=> ExactCopy(archive.at.old, archive.at.new)
            /\ ~archive.changed => (Verifies <=> archive.at.old.delay = INIT_DELAY))
<1>1. DoneInv => (net = "ethereum" /\ archive.ran /\ previous.kept =>
                    /\ Verifies <=> ExactCopy(archive.at.old, archive.at.new)
                    /\ ~archive.changed => (Verifies <=> archive.at.old.delay = INIT_DELAY))
    BY DoneVerifies, VerifiesIfCopy, VerifiesWithDelay DEF LiveVerifies
<1>2. QED
    BY <1>1, DoneInvHolds, PTL

-----------------------------------------------------------------------------
(* No delay change completes: then the batch is never behind on one.       *)

DelayInv ==
    /\ previous.calls # <<>> => chain.old.delay = INIT_DELAY
    /\ pc \in {"deploy", "alias", "build"} => seen.delay = chain.old.delay
    /\ pc \in {"gateway", "record"} => chain.old.delay = INIT_DELAY
    /\ archive.ran => archive.at.old.delay = INIT_DELAY

\* What acts on the live Treasury: the Safe, which leaves its delay, and its owner, who completes no change of it.
LEMMA DelayStays ==
    ASSUME Delays = {}, MigrationInv, LiveInv, net = "ethereum", [MigrationNext]_vars
    PROVE  chain'.old.delay = chain.old.delay
<1>1. IsChain(chain)
    BY DEF MigrationInv, ChainInv
<1> USE DEF worldVars
<1>2. CASE \E script \in {"migrate", "check"} : StartOwnTags(script) \/ StartFull(script)
    BY <1>2 DEF StartOwnTags, StartFull
<1>3. CASE DeployProxy
    BY <1>1, <1>3 DEF DeployProxy, IsChain
<1>4. CASE StartMigration \/ StartRebuild \/ SaveAlias \/ BuildBatch \/ UpgradeGateway \/ SaveRecord
    BY <1>4 DEF StartMigration, StartRebuild, SaveAlias, BuildBatch, UpgradeGateway, SaveRecord
<1>5. CASE CheckPending \/ VerifyMigrated \/ NothingToMigrate \/ Throws \/ NothingToPropose \/ LeftoverAtEnd \/ Crash
    BY <1>5 DEF CheckPending, VerifyMigrated, NothingToMigrate, Throws, NothingToPropose, LeftoverAtEnd, Crash
<1>6. CASE MarkBatch \/ (\E unlinked \in BOOLEAN : ProposeBatch(unlinked)) \/ ProposeLeftover \/ Discard
    BY <1>6 DEF MarkBatch, ProposeBatch, ProposeLeftover, Discard
<1>7. CASE ForkCall \/ ForkDone
    BY <1>7 DEF ForkCall, ForkDone
<1>8. CASE SafeRejects \/ CodeChange \/ OtherStackUpgrade \/ UNCHANGED vars
    BY <1>8 DEF SafeRejects, CodeChange, OtherStackUpgrade, vars
<1>9. CASE \E late \in 0..MaxDust : SafeExecutes(late)
    BY <1>9, ExecutedOld DEF OldLeft
<1>10. CASE DeleteOrphan \/ Abandon \/ DeleteRecord \/ EarlyGrant \/ Donate
    BY <1>1, <1>10 DEF DeleteOrphan, Abandon, DeleteRecord, EarlyGrant, Donate, IsChain
<1>11. CASE LiveChange
  <2>1. PICK s \in Changed(chain[chain.token]) : chain' = [chain EXCEPT ![chain.token] = s]
    BY <1>11 DEF LiveChange
  <2>2. CASE chain.token = "old"
    <3>1. s.delay = chain.old.delay
      BY <1>1, <2>1, <2>2, ChangedWell DEF IsChain, LiveInv, CopyInv
    <3>2. chain'.old = s
      BY <1>1, <2>1, <2>2 DEF IsChain
    <3>3. QED
      BY <3>1, <3>2
  <2>3. CASE chain.token = "new"
    BY <1>1, <2>1, <2>3 DEF IsChain
  <2>4. QED
    BY <1>1, <2>2, <2>3 DEF IsChain
<1>12. QED
    BY <1>2, <1>3, <1>4, <1>5, <1>6, <1>7, <1>8, <1>9, <1>10, <1>11 DEF MigrationNext, DeploySteps

LEMMA DelayInvKept ==
    ASSUME Delays = {}, MigrationInv, LiveInv, DelayInv, net = "ethereum", [MigrationNext]_vars
    PROVE  DelayInv'
<1>1. chain'.old.delay = chain.old.delay
    BY DelayStays
<1>2. ASSUME archive' = archive, previous'.calls = previous.calls \/ previous'.calls = <<>>,
             pc' \notin {"deploy", "alias", "build", "gateway", "record"}
      PROVE  DelayInv'
    BY <1>1, <1>2 DEF DelayInv
<1>3. ASSUME archive' = archive, previous'.calls = previous.calls \/ previous'.calls = <<>>, seen' = seen, pc' = pc
      PROVE  DelayInv'
    BY <1>1, <1>3 DEF DelayInv
<1> USE DEF recordVars, jobVars
<1>4. CASE \E script \in {"migrate", "check"} : StartOwnTags(script) \/ StartFull(script)
  <2>1. UNCHANGED <<archive, previous>> /\ pc' \in {"migrate", "check", "failed"}
    BY <1>4 DEF StartOwnTags, StartFull
  <2>2. QED
    BY <1>2, <2>1
<1>5. CASE StartMigration \/ StartRebuild
  <2>1. /\ archive' = archive /\ pc' \in {"deploy", "build"} /\ seen' = chain.old
        /\ previous' = previous \/ previous'.calls = <<>>
    BY <1>5 DEF StartMigration, StartRebuild, NoPrevious
  <2>2. QED
    BY <1>1, <2>1 DEF DelayInv
<1>6. CASE DeployProxy \/ SaveAlias
  <2>1. UNCHANGED <<archive, previous, seen>> /\ pc \in {"deploy", "alias"} /\ pc' \in {"alias", "build"}
    BY <1>6 DEF DeployProxy, SaveAlias
  <2>2. QED
    BY <1>1, <2>1 DEF DelayInv
<1>7. CASE BuildBatch
  <2>1. UNCHANGED <<archive, previous>> /\ pc = "build" /\ pc' = "gateway" /\ seen.delay = chain.new.delay
    BY <1>7 DEF BuildBatch, Buildable
  <2>2. chain.new = Untouched(chain.new.roles)
    BY <2>1 DEF MigrationInv, JobInv, RecordInv, LiveInv, CopyInv
  <2>3. chain.new.delay = INIT_DELAY
    BY <2>2, UntouchedFacts DEF Untouched, Copy
  <2>4. QED
    BY <1>1, <2>1, <2>3 DEF DelayInv
<1>8. CASE UpgradeGateway
  <2>1. UNCHANGED <<archive, previous>> /\ pc = "gateway" /\ pc' = "record"
    BY <1>8 DEF UpgradeGateway
  <2>2. QED
    BY <1>1, <2>1 DEF DelayInv
<1>9. CASE SaveRecord
  <2>1. archive' = archive /\ pc = "record" /\ pc' = "end"
    BY <1>9 DEF SaveRecord
  <2>2. QED
    BY <1>1, <2>1 DEF DelayInv
<1>10. CASE CheckPending \/ VerifyMigrated \/ NothingToMigrate
  <2>1. archive' = archive /\ pc' = "end" /\ (previous' = previous \/ previous'.calls = <<>>)
    BY <1>10 DEF CheckPending, VerifyMigrated, NothingToMigrate, NoPrevious
  <2>2. QED
    BY <1>2, <2>1
<1>11. CASE Throws \/ NothingToPropose \/ LeftoverAtEnd \/ Crash \/ MarkBatch
            \/ (\E unlinked \in BOOLEAN : ProposeBatch(unlinked)) \/ ProposeLeftover
  <2>1. UNCHANGED <<archive, previous>> /\ pc' \in {"idle", "propose"}
    BY <1>11 DEF Throws, NothingToPropose, LeftoverAtEnd, Crash, MarkBatch, ProposeBatch, ProposeLeftover, EndProcess
  <2>2. QED
    BY <1>2, <2>1
<1>12. CASE ForkCall \/ ForkDone
    BY <1>12 DEF ForkCall, ForkDone
<1>13. CASE SafeRejects \/ Discard \/ DeleteOrphan \/ Abandon \/ DeleteRecord \/ LiveChange \/ EarlyGrant \/ Donate
            \/ CodeChange \/ OtherStackUpgrade \/ UNCHANGED vars
  <2>1. UNCHANGED <<archive, pc, seen>> /\ (previous' = previous \/ previous'.calls = <<>>)
    BY <1>13 DEF SafeRejects, Discard, DeleteOrphan, Abandon, DeleteRecord, LiveChange, EarlyGrant, Donate,
                 CodeChange, OtherStackUpgrade, vars, NoPrevious
  <2>2. QED
    BY <1>3, <2>1
<1>14. ASSUME NEW late \in 0..MaxDust, SafeExecutes(late)
       PROVE  DelayInv'
  <2>1. UNCHANGED <<previous, pc, seen>>
    BY <1>14 DEF SafeExecutes
  <2>2. CASE ~IsMigration(Head(safeQueue))
    BY <1>3, <1>14, <2>1, <2>2 DEF SafeExecutes
  <2>3. CASE IsMigration(Head(safeQueue))
    <3>1. checked
      BY <1>14, <2>3 DEF SafeExecutes
    <3>2. archive'.at.old.delay = chain.old.delay
      BY <1>14, <2>3, <3>1, ExecutionVerifies
    <3>3. chain.old.delay = INIT_DELAY
      BY <3>1 DEF DelayInv, LiveInv, CheckedInv, BatchStillHolds
    <3>4. QED
      BY <1>1, <2>1, <3>2, <3>3 DEF DelayInv
  <2>4. QED
    BY <2>2, <2>3
<1>15. QED
    BY <1>4, <1>5, <1>6, <1>7, <1>8, <1>9, <1>10, <1>11, <1>12, <1>13, <1>14 DEF MigrationNext, DeploySteps

LEMMA DelayInvInitially == MigrationInit => DelayInv
    BY DEF MigrationInit, NoPrevious, NotMigrated, DelayInv

LEMMA DelayInvHolds ==
    ASSUME Delays = {}
    PROVE  MigrationSpec => [](net = "ethereum" => DelayInv)
<1>1. MigrationInit => (net = "ethereum" => DelayInv)
    BY DelayInvInitially
<1>2. PendingInv /\ (net = "ethereum" => DelayInv) /\ [MigrationNext]_vars => (net = "ethereum" => DelayInv)'
    BY DelayInvKept, NetworkStays DEF PendingInv
<1>3. QED
    BY <1>1, <1>2, PendingInvHolds, PTL DEF MigrationSpec

\* When no delay change completes, the check misses nothing (checkPendingBatch).
THEOREM CheckMissesNothing ==
    ASSUME Delays = {}
    PROVE  MigrationSpec => []CheckedBatchMirrors
<1>1. PendingInv /\ (net = "ethereum" => DelayInv) => CheckedBatchMirrors
  <2>1. SUFFICES ASSUME PendingInv, net = "ethereum" => DelayInv, checked, safeQueue # <<>>
                 PROVE  CheckedBatchMirrors
    <3>1. DOMAIN <<>> = {}
      OBVIOUS
    <3>2. QED
      BY <3>1 DEF CheckedBatchMirrors
  <2>2. MigrationInv /\ LiveInv /\ DelayInv
    BY <2>1 DEF PendingInv
  <2>3. chain.old.delay = INIT_DELAY
    BY <2>1, <2>2 DEF DelayInv, LiveInv, CheckedInv, BatchStillHolds
  <2>4. QED
    BY <2>1, <2>3, PendingMirrors, CheckedWithDelay
<1>2. QED
    BY <1>1, PendingInvHolds, DelayInvHolds, PTL

\* Then a migration that executed after its check passed, and behind which no role holder changed either
\* Treasury in the same block, passes the verification, however late that runs; so does the dry run on a
\* fork, where each call has a block of its own, whatever delays are set (verifyMigrated,
\* proposeSafeTransaction).
THEOREM ExecutedMigrationVerifies ==
    ASSUME Delays = {}
    PROVE  MigrationSpec => []MigrationVerifies
<1>1. (net = "ethereum" => DelayInv) => UnderDelay
    BY DEF DelayInv, UnderDelay
<1>2. QED
    BY <1>1, VerifiesUnderDelay, DoneInvHolds, DelayInvHolds, PTL
================================================================================
