------------------------------ MODULE MCWebUI ------------------------------
EXTENDS WebUI

\* Each kind of page with those it leads to; the login page takes the place of
\* any page that a request is refused on, and a login leads home.
EachKind ==
  {{"login"} \cup ps : ps \in
     {{"tokens"}, {"keys"}, {"home", "new", "repo"}, {"home", "repo-settings"},
      {"profile", "repo-settings"}, {"repo", "repo-settings"}}}
=============================================================================
