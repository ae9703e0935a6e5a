---------------------------- MODULE UpgradeSnapshot ----------------------------
(***************************************************************************)
(* upgrade-snapshot --compare: reads two blocks and fails on every change  *)
(* but new implementations and what --allow names.                         *)
(*                                                                         *)
(* A block maps each stack to the record of what is read there.  A reading *)
(* is <<field, account, value>>, its key the first two; a glob is          *)
(* <<stack, field>> and covers that field for every account.               *)
(***************************************************************************)
EXTENDS FiniteSets

CONSTANTS
    Stacks,
    KnownAccounts,   \* that no contract enumerates
    Reverting,       \* Gateway implementations on which the getter of a setting reverts
    Misreading       \* Gateway implementations that read that setting from elsewhere

\* candidateAccounts: the Gateways' whitelists can be enumerated.
Candidates(block) == KnownAccounts \cup UNION {block[s].whitelist : s \in Stacks}

\* makeReader: a revert is a value like any other.
Setting(gateway) ==
    IF gateway \in Reverting THEN "REVERTED" ELSE IF gateway \in Misreading THEN "misread" ELSE "set"

\* snapshotStack, its `state`
Readings(stack, accounts) ==
    {<<"setting", "-", Setting(stack.gateway)>>}
    \cup {<<"whitelist", a, "in">> : a \in stack.whitelist}
    \cup {<<"role", a, IF a \in stack.roles THEN "held" ELSE "not held">> : a \in accounts}

Key(reading) == <<reading[1], reading[2]>>
Keys(readings) == {Key(r) : r \in readings}
Reverted(readings) == {Key(r) : r \in {r \in readings : r[3] = "REVERTED"}}

Accounts(before, after) == Candidates(before) \cup Candidates(after)

\* Mutant: accounts the baseline does not know have no values there.
Baseline_NotReread(before, after, s) == Readings(before[s], Candidates(before))

\* Accounts found only afterwards are read at the baseline's block, too.
Baseline(before, after, s) ==
    LET recorded == Readings(before[s], Candidates(before))
        new == Accounts(before, after) \ Candidates(before)
        reread == Readings(before[s], Candidates(before) \cup new)
    IN recorded \cup {r \in reread : r[2] \in new /\ Key(r) \notin Keys(recorded)}

\* diffFlat: the keys that read differently, or at one block only.
Differing(a, b) == {Key(r) : r \in (a \ b) \cup (b \ a)}

\* takeSnapshot: the owners of the proxies' admins.
Owners(block) == [s \in Stacks |-> block[s].owner]

\* globToRegExp
Covers(glob, change) == glob = <<change[1], change[2][1]>>

\* No admin's owner may change and nothing may revert at either block, allowed or not; any other change has
\* to be allowed, and a glob that no change matches fails as well.
ComparePasses(before, after, allow) ==
    LET was(s) == Baseline(before, after, s)
        is(s) == Readings(after[s], Accounts(before, after))
        changed == UNION {{s} \X Differing(was(s), is(s)) : s \in Stacks}
        reverted == UNION {Reverted(was(s)) \cup Reverted(is(s)) : s \in Stacks}
    IN /\ Owners(before) = Owners(after)
       /\ reverted = {}
       /\ \A change \in changed : \E glob \in allow : Covers(glob, change)
       /\ \A glob \in allow : \E change \in changed : Covers(glob, change)

================================================================================
