----------------------------- MODULE MCRepoAPI -----------------------------
(***************************************************************************)
(* Values for RepoAPI: two users whose repositories a-b/c and a/b-c get    *)
(* the same CR name, so that the second CR cannot be created.              *)
(***************************************************************************)
EXTENDS RepoAPI, Sequences, TLC

MCUsers == {"a", "a-b"}
MCNames == {"b-c", "c"}
OneKey == {<<"a", "b-c">>}
TwoKeys == {<<"a", "b-c">>, <<"a-b", "c">>}
MCCRName == [k \in Keys |-> k[1] \o "-" \o k[2]]
MCCRNames == {k[1] \o "-" \o k[2] : k \in Keys}

AllTraffic == Request

Symmetry == Permutations(Reqs)
=============================================================================
