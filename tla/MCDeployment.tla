------------------------------ MODULE MCDeployment ------------------------------
(***************************************************************************)
(* VUSD and vetBTC.  Gateway 1 and 2 are live, 3 does not fit the storage  *)
(* of 2, 4 fits all; 4 asks for the sanctions list that Treasury 2 keeps.  *)
(***************************************************************************)
EXTENDS Deployment

MCStacks == {"vusd", "vetbtc"}
MCSteps == <<<<"vusd", "treasury">>, <<"vusd", "gateway">>, <<"vusd", "manager">>, <<"vusd", "list">>,
             <<"vetbtc", "treasury">>, <<"vetbtc", "gateway">>, <<"vetbtc", "manager">>, <<"vetbtc", "list">>>>
MCCommits == <<[treasury |-> 2, gateway |-> 3], [treasury |-> 2, gateway |-> 4]>>
MCCompatible ==
    {<<"treasury", 1, 2>>, <<"gateway", 1, 3>>, <<"gateway", 1, 4>>, <<"gateway", 2, 4>>, <<"gateway", 3, 4>>}

StackLive(proxied, gateway, roles) ==
    [proxied |-> proxied, treasury |-> 1, gateway |-> gateway, list |-> FALSE, roles |-> roles,
     whitelist |-> {}, owner |-> "safe"]
\* Both migrated, the YieldManager of one of them deployed already; or VUSD still to be migrated.
MCLive ==
    {[s \in MCStacks |-> IF s = "vusd" THEN StackLive(TRUE, 1, {"manager"}) ELSE StackLive(TRUE, 2, {})],
     [s \in MCStacks |-> IF s = "vusd" THEN StackLive(FALSE, 1, {"trader"}) ELSE StackLive(TRUE, 1, {})]}

================================================================================
