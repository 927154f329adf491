----------------------------- MODULE MCAccounts -----------------------------
(* A user with two addresses on a small instance.                          *)
EXTENDS Accounts, TLC

MCSymmetry == Permutations(Workers) \cup Permutations(SessionIds)
              \cup Permutations(CodeIds)

(* Not past the first request that was late or cut short, and either       *)
(* several tokens, or a change of address and new verification codes.      *)
AddressUntouched ==
    /\ \A c \in CodeIds : code[c].sentTo = user.email
    /\ \A w \in Workers :
          /\ req[w].at # "rewriting"
          /\ req[w].at \in {"withdrawing", "issuing"} => req[w].type = "PASSWORD_RESET"

Focused == late = {} /\ (minted = 1 \/ AddressUntouched)
=============================================================================
