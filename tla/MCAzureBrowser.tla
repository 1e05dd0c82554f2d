-------------------------- MODULE MCAzureBrowser --------------------------
(***************************************************************************)
(* Instances of AzureBrowser for TLC.                                      *)
(***************************************************************************)
EXTENDS AzureBrowserInvariants, TLC

\* Slots, accounts and names are only compared.
MCSymmetry == Permutations(Slots) \cup Permutations(Accounts)

MCNames == Permutations(Slots) \cup Permutations(Tenants) \cup Permutations(Containers)

MCPublic == Permutations(Slots) \cup Permutations(PublicStores)

=============================================================================
