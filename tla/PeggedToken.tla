----------------------------- MODULE PeggedToken -----------------------------
(***************************************************************************)
(* PeggedToken.sol: the ERC-20 ledger, mintable and burnable only by the   *)
(* Gateway, with a blacklist enforced in _update.  TokenMint and           *)
(* TokenBurnFrom are effects of Gateway transactions; TokenTransfer and    *)
(* the blacklist operations are transactions of their own.                 *)
(***************************************************************************)
EXTENDS Externals

CONSTANTS
    GatewayAddr,        \* the Gateway's own address, where locked tokens sit
    TransferAmounts,    \* amounts holders move between themselves
    Blacklistable       \* accounts the owner may blacklist

Users == Accounts \ {GatewayAddr}

ASSUME PeggedTokenAssumption ==
    /\ GatewayAddr \in Accounts
    /\ TransferAmounts \subseteq Nat
    /\ Blacklistable \subseteq Accounts

VARIABLES
    balance,    \* account -> PeggedToken balance
    supply,     \* totalSupply
    blacklist   \* _blacklistedAddresses

tokenVars == <<balance, supply, blacklist>>

TokenTypeOK ==
    /\ balance \in [Accounts -> Nat]
    /\ supply \in Nat
    /\ blacklist \in SUBSET Accounts

TokenInit ==
    /\ balance = [a \in Accounts |-> 0]
    /\ supply = 0
    /\ blacklist = {}

-----------------------------------------------------------------------------
\* Effects, part of a Gateway transaction.

TokenMint(to, n) ==
    /\ to \notin blacklist
    /\ balance' = [balance EXCEPT ![to] = @ + n]
    /\ supply' = supply + n
    /\ UNCHANGED blacklist

TokenBurnFrom(from, n) ==
    /\ from \notin blacklist
    /\ n <= balance[from]
    /\ balance' = [balance EXCEPT ![from] = @ - n]
    /\ supply' = supply - n
    /\ UNCHANGED blacklist

\* burnFrom(gateway, locked) and burnFrom(user, excess) in one transaction.
TokenBurnFromBoth(user, locked, excess) ==
    /\ {GatewayAddr, user} \cap blacklist = {}
    /\ locked <= balance[GatewayAddr]
    /\ excess <= balance[user]
    /\ balance' = [balance EXCEPT ![GatewayAddr] = @ - locked, ![user] = @ - excess]
    /\ supply' = supply - (locked + excess)
    /\ UNCHANGED blacklist

TokenMove(from, to, n) ==
    /\ {from, to} \cap blacklist = {}
    /\ n <= balance[from]
    /\ balance' = IF from = to THEN balance
                  ELSE [balance EXCEPT ![from] = @ - n, ![to] = @ + n]
    /\ UNCHANGED <<supply, blacklist>>

-----------------------------------------------------------------------------
\* Transactions of holders and of the owner.

TokenTransfer(from, to, n) ==
    /\ from # GatewayAddr       \* the Gateway only moves tokens in its own handlers
    /\ TokenMove(from, to, n)

AddToBlacklist(a) ==
    /\ a \notin blacklist
    /\ blacklist' = blacklist \cup {a}
    /\ UNCHANGED <<balance, supply>>

RemoveFromBlacklist(a) ==
    /\ a \in blacklist
    /\ blacklist' = blacklist \ {a}
    /\ UNCHANGED <<balance, supply>>

TokenNext ==
    \/ \E from \in Users, to \in Accounts, n \in TransferAmounts : TokenTransfer(from, to, n)
    \/ \E a \in Blacklistable : AddToBlacklist(a) \/ RemoveFromBlacklist(a)

\* SanctionsList.isSanctioned: the blacklist, or the sanctions oracle.
IsListed(a) == a \in blacklist \/ a \in listed

=============================================================================
