-------------------------------- MODULE Vetro --------------------------------
(***************************************************************************)
(* The mint-and-redeem core of the protocol: PeggedToken, Treasury and     *)
(* Gateway composed with their environment.  A step is one transaction     *)
(* (the EVM runs them one at a time, and a revert undoes everything), one  *)
(* tick of the clock or one move of the environment.                       *)
(***************************************************************************)
EXTENDS Gateway

vars == <<marketVars, collateralVars, tokenVars, treasuryVars, gatewayVars>>

TypeOK ==
    /\ ExternalsTypeOK
    /\ TokenTypeOK
    /\ TreasuryTypeOK
    /\ GatewayTypeOK

Init ==
    /\ ExternalsInit
    /\ TokenInit
    /\ TreasuryInit
    /\ GatewayInit

Next ==
    \/ UserNext
    \/ UmmNext
    \/ SettingsNext
    \/ TreasuryNext /\ UNCHANGED <<marketVars, tokenVars, gatewayVars>>
    \/ TokenNext /\ UNCHANGED <<marketVars, collateralVars, treasuryVars, gatewayVars>>
    \/ ExternalsNext /\ UNCHANGED <<tokenVars, treasuryVars, gatewayVars>>

Spec == Init /\ [][Next]_vars

-----------------------------------------------------------------------------
(* The AMO.                                                                *)

\* No sequence of redemptions, AMO mints and AMO burns leaves less PeggedToken
\* than the AMO still has to retire: the subtraction totalSupply - amoSupply of
\* Treasury._excessTokens, which is unchecked against it, never underflows.
AmoWithinSupply == amoSupply <= supply

\* The AMO never holds more supply than its limit, however the admin moves the
\* limit between mints: updateAmoMintLimit and mintToAMO agree.
AmoWithinLimit == amoSupply <= amoMintLimit

\* Supply that the reserve has to back grows only up to mintLimit, whoever mints;
\* AMO operations leave it where it is.
MintLimitRespected ==
    [][UserSupply' > UserSupply => UserSupply' <= mintLimit]_vars

-----------------------------------------------------------------------------
(* Delayed redemption.                                                     *)

LockedTotal == SumFunction([u \in Users |-> redeemRequests[u].amountLocked])

\* Every locked token is in the Gateway: partial redemptions, merged requests,
\* cancellations and the blacklist never leave a request the Gateway cannot pay.
GatewayCustody == balance[GatewayAddr] >= LockedTotal

\* claimableAt = 0 is read as "no request", so it must say exactly that.
RequestsConsistent ==
    \A u \in Users : HasRequest(u) <=> redeemRequests[u].amountLocked > 0

-----------------------------------------------------------------------------
(* Sanctions.                                                              *)

\* The request of a sanctioned user is frozen: no handler of its own or of
\* anyone else redeems it, returns it, adds to it or moves its date.
FrozenWhileSanctioned ==
    [][\A u \in Users : Sanctioned(u) => redeemRequests'[u] = redeemRequests[u]]_vars

\* A user with a request can always take the tokens back while neither it nor the
\* Gateway is listed: cancelRedeemRequest cannot revert.
CancelAlwaysPossible ==
    \A u \in Users :
        HasRequest(u) /\ ~Sanctioned(u) /\ {u, GatewayAddr} \cap blacklist = {}
            => ENABLED CancelRedeemRequest(u)

-----------------------------------------------------------------------------
(* The reserve.                                                            *)

\* All collateral at par.
ParValue == SumFunction([t \in Tokens |-> Held(t) * Scale[t]])

\* No mint or redemption, at any price, fee and rounding, takes collateral out of
\* what backs the others: the surplus at par never falls with the supply.
SupplyStepsKeepBacking ==
    [][UserSupply' # UserSupply =>
        ParValue' - UserSupply' >= ParValue - UserSupply]_vars

\* While no vault loses and no token is swept, the reserve is a ParReserve:
\* collateral at par always covers the supply that is not the AMO's.
Par == INSTANCE ParReserve WITH assets <- ParValue, liabilities <- UserSupply
BackedAtPar == Par!ReserveSpec

\* A harvest pays out yield only: what it leaves at par still covers the supply,
\* whatever the prices it was computed at.
HarvestTakesOnlySurplus ==
    [][(\E t \in Tokens, r \in Receivers : HarvestExcess(t, r))
        => UNCHANGED collateralVars \/ ParValue' >= UserSupply']_vars

-----------------------------------------------------------------------------
(* Treasury settings.                                                      *)

\* The band in which trades are priced at par stays strictly inside the accepted
\* range, whichever of the two is moved and in whatever order.
PegBandWithinTolerance ==
    \A t \in whitelisted : config[t].pegBand = 0 \/ config[t].pegBand < priceTolerance

\* A token off the whitelist leaves neither settings nor vault shares behind.
NothingLeftBehind ==
    \A t \in Tokens \ whitelisted : config[t] = NoConfig /\ invested[t] = 0

\* Room under a cap opens only by redemptions, and by no more than the supply they
\* retire: losses, harvests and keeper moves leave it alone.
RoomOpensOnlyByRedemption ==
    [][\A t \in whitelisted \cap whitelisted' :
        config'[t].netDeposited < config[t].netDeposited
            => (config[t].netDeposited - config'[t].netDeposited) * Scale[t]
                    <= UserSupply - UserSupply']_vars

=============================================================================
