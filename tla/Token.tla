-------------------------------- MODULE Token --------------------------------
(***************************************************************************)
(* LSAN (contracts/src/alpha/Token.sol): the stake token.  An ERC-20 whose *)
(* transfers to a blacklisted account need an entry of the whitelist.      *)
(*                                                                         *)
(* Balances and allowances are OpenZeppelin's ERC20Upgradeable, modelled   *)
(* by what the contracts and the clients use of it.                        *)
(***************************************************************************)
EXTENDS Integers

CONSTANTS
    Holders,       \* accounts that hold tokens
    MintAmounts,   \* bound of the model: what the owner mints or burns at a time
    MaxTokens,     \* bound of the model: what minting fills an account up to
    ListTargets    \* bound of the model: accounts the owner puts on the lists

ASSUME TokenConstantsAssumption ==
    /\ MintAmounts \subseteq Nat
    /\ MaxTokens \in Nat
    /\ ListTargets \subseteq Holders

VARIABLES
    tokens,      \* balanceOf
    allowance,   \* allowance[owner][spender]
    blacklist,
    whitelist    \* the pairs <<from, to>>

tokenVars == <<tokens, allowance, blacklist, whitelist>>
listsVars == <<blacklist, whitelist>>

-----------------------------------------------------------------------------
\* Mutant: a transfer that leaves the allowance as it was.
TransferKeepsAllowance(spender, from, to, amount) ==
    /\ tokens' = [tokens EXCEPT ![from] = @ - amount, ![to] = @ + amount]
    /\ UNCHANGED <<allowance, listsVars>>

-----------------------------------------------------------------------------
IsPermitted(from, to) == to \in blacklist => <<from, to>> \in whitelist

Approve(owner, spender, amount) ==
    /\ allowance' = [allowance EXCEPT ![owner][spender] = amount]
    /\ UNCHANGED <<tokens, listsVars>>

TransferFromAllowed(spender, from, to, amount) ==
    /\ IsPermitted(from, to)
    /\ amount <= allowance[from][spender]
    /\ amount <= tokens[from]

\* transferFrom, from # to
TransferFrom(spender, from, to, amount) ==
    /\ tokens' = [tokens EXCEPT ![from] = @ - amount, ![to] = @ + amount]
    /\ allowance' = [allowance EXCEPT ![from][spender] = @ - amount]
    /\ UNCHANGED listsVars

MintTokens(account, amount) ==
    /\ tokens[account] + amount <= MaxTokens
    /\ tokens' = [tokens EXCEPT ![account] = @ + amount]
    /\ UNCHANGED <<allowance, listsVars>>

Burn(account, amount) ==
    /\ amount <= tokens[account]
    /\ tokens' = [tokens EXCEPT ![account] = @ - amount]
    /\ UNCHANGED <<allowance, listsVars>>

AddBlacklist(a) == blacklist' = blacklist \cup {a} /\ UNCHANGED <<tokens, allowance, whitelist>>
RemoveBlacklist(a) == blacklist' = blacklist \ {a} /\ UNCHANGED <<tokens, allowance, whitelist>>
AddWhitelist(from, to) ==
    whitelist' = whitelist \cup {<<from, to>>} /\ UNCHANGED <<tokens, allowance, blacklist>>
RemoveWhitelist(from, to) ==
    whitelist' = whitelist \ {<<from, to>>} /\ UNCHANGED <<tokens, allowance, blacklist>>

\* A transaction of the owner, for the accounts whose tokens it mints or burns.
TokenOwnerTx(accounts) ==
    \/ \E account \in accounts, amount \in MintAmounts :
            MintTokens(account, amount) \/ Burn(account, amount)
    \/ \E to \in ListTargets : AddBlacklist(to) \/ RemoveBlacklist(to)
    \/ \E from \in accounts, to \in ListTargets :
            AddWhitelist(from, to) \/ RemoveWhitelist(from, to)

=============================================================================
