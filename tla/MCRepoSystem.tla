---------------------------- MODULE MCRepoSystem ----------------------------
(***************************************************************************)
(* Values for RepoSystem.  Users a and a-b have repositories b-c and c, so *)
(* both CRs are called a-b-c.                                              *)
(***************************************************************************)
EXTENDS RepoSystem, Sequences, TLC

MCUsers == {"a", "a-b"}
MCNames == {"b-c", "c"}
K1 == <<"a", "b-c">>
K2 == <<"a-b", "c">>
OneKey == {K1}
TwoKeys == {K1, K2}
MCCRName == [k \in Keys |-> k[1] \o "-" \o k[2]]
MCCRNames == {k[1] \o "-" \o k[2] : k \in Keys}

Ask(op, k, body) == [op |-> op, key |-> k, caller |-> k[1], body |-> body]
\* Create public, although manifests say private; make private, delete.
OwnerTraffic == {Ask("create", K1, "public"), Ask("update", K1, "private"),
                 Ask("delete", K1, "public")}
\* The same, and a create under the key that shares the CR name.
MixedTraffic == OwnerTraffic \cup {Ask("create", K2, "private")}

Manifest1(ref) == [name |-> "a-b-c", key |-> K1, priv |-> TRUE, userID |-> ref]
GoodManifest == {Manifest1("owner")}
AllManifests == {Manifest1(ref) : ref \in {"owner", "unknown", "unparsable"}}

SharedName == {[name |-> "a-b-c", key |-> k, priv |-> TRUE, userID |-> "owner"] : k \in TwoKeys}

Symmetry == Permutations(Reqs)
=============================================================================
