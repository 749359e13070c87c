-------------------------- MODULE MCRepoController --------------------------
(***************************************************************************)
(* Values for RepoController on its own: one repository, no API server.    *)
(***************************************************************************)
EXTENDS RepoController

MCKey == <<"u", "n">>
MCKeys == {MCKey}
MCCRName == [k \in MCKeys |-> "u-n"]
MCManifests == {[name |-> "u-n", key |-> MCKey, priv |-> TRUE, userID |-> ref] :
                  ref \in {"owner", "unparsable"}}
=============================================================================
