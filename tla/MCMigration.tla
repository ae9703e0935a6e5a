------------------------------ MODULE MCMigration ------------------------------
(***************************************************************************)
(* Two stablecoins with a gated vault each, a keeper and the Safe.         *)
(***************************************************************************)
EXTENDS TreasuryMigration

\* A paused token, a band that only the raised tolerance admits, a swapper, roles of others than the Safe.
Paused ==
    [Fresh("safe") EXCEPT !.tokens = <<"usdc">>, !.cfg["usdc"] = [Opened("listed") EXCEPT !.withdraw = FALSE, !.band = 2],
                          !.tolerance = 3, !.swapper = "swapper", !.roles = {<<"maintainer", "bot">>}]

\* Two tokens out of the order of the script's list; the Safe is a keeper for good.
SafeKeeps ==
    [Fresh("safe") EXCEPT !.tokens = <<"usdt", "usdc">>,
                          !.cfg = [t \in Tokens |-> [Opened("listed") EXCEPT !.deposit = (t = "usdc")]],
                          !.roles = {<<"keeper", "safe">>}]

MCNetworks == {"ethereum", "localhost"}
MCLiveTreasuries == {Paused, SafeKeeps}
MCLiveAccess == {<<t, "old">> : t \in Gated}
MCWhitelist == <<"usdc", "usdt">>
MCGrants == {<<"keeper", "safe">>}

================================================================================
