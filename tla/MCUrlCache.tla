----------------------------- MODULE MCUrlCache -----------------------------
(***************************************************************************)
(* UrlCache for TLC: two clients of two servers, as many addresses as the  *)
(* cfg gives, and calls that overlap.                                      *)
(***************************************************************************)
EXTENDS UrlCache, TLC

Symmetry ==
    Permutations(Client) \cup Permutations(Address) \cup Permutations(Server)
    \cup Permutations(GetBaseUrl)

=============================================================================
