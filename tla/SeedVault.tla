------------------------------ MODULE SeedVault ------------------------------
(* What the storage of the seed promises: a wallet has at most one seed, for  *)
(* ever, and once a PIN protects it, it is never without one again. A wallet  *)
(* of an old version may start with an unprotected seed.                      *)

CONSTANTS Seeds, Pins, Null

VARIABLES
    seed,   \* the seed of the wallet, Null as long as there is none
    key     \* the PIN that opens it, Null as long as it is unprotected

vaultVars == <<seed, key>>

VaultInit == seed \in Seeds \cup {Null} /\ key = Null

\* A new wallet, created or restored.
Store(s, p) == seed = Null /\ seed' = s /\ key' = p

\* The seed of an old version gets its first PIN.
Protect(p) == seed # Null /\ key = Null /\ key' = p /\ UNCHANGED seed

\* PIN old is replaced by PIN new.
Rekey(old, new) == key = old /\ key' = new /\ UNCHANGED seed

VaultNext ==
    \/ \E s \in Seeds, p \in Pins : Store(s, p)
    \/ \E p \in Pins : Protect(p)
    \/ \E old, new \in Pins : Rekey(old, new)

VaultSpec == VaultInit /\ [][VaultNext]_vaultVars
=============================================================================
