----------------------------- MODULE MCWatcher -----------------------------
(* Model-checking instances of the wallet watchers.                        *)
EXTENDS Watcher, TLC

Symmetry ==
  Permutations(Wallets) \cup Permutations(Clients) \cup Permutations(Watchers)
=============================================================================
