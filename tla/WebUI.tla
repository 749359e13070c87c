------------------------------- MODULE WebUI -------------------------------
(***************************************************************************)
(* The web UI: the session and the pages about an account (WebAccount) and *)
(* the pages that browse a repository (WebBrowser).  Only the session is   *)
(* shared, and browsing does not change it; a behaviour is about one part  *)
(* or the other, and in the first about the pages of one tour.             *)
(***************************************************************************)
EXTENDS WebAccount, WebBrowser

CONSTANT Tours  \* the sets of pages a user keeps to

VARIABLES part, tour

uiVars == <<accountAll, browserVars, part, tour>>

UIInit ==
  /\ tour \in Tours
  /\ part \in {"account", "browser"}
  /\ AccountInit
  /\ BrowserInit
  /\ page \in tour
  /\ part = "browser" => /\ page = "login" /\ ~ Signed /\ accounts = Users
                         /\ tour = CHOOSE t \in Tours : TRUE
  /\ part = "account" => route.at = "root"

\* A step of the session or of an account's pages, within the tour.
OnTour(A) == part = "account" /\ A /\ page' \in tour /\ UNCHANGED <<browserVars, part, tour>>
Browsing(A) == part = "browser" /\ A /\ UNCHANGED <<accountAll, part, tour>>

UINext == OnTour(AccountNext) \/ Browsing(BrowserNext)
Spec == UIInit /\ [][UINext]_uiVars

(***************************************************************************)
(* Requests end: axios gives up after 15 seconds (client.ts:7).  The       *)
(* module that highlights loads or fails to, and promises that are settled *)
(* are acted upon: as long as something is awaited, something arrives.     *)
(* Nothing says that the user ever does anything.                          *)
(***************************************************************************)
Fairness == WF_uiVars(OnTour(AccountReply) \/ Browsing(BrowserReply))

FairSpec == Spec /\ Fairness
-----------------------------------------------------------------------------
TypeOK == SessionTypeOK /\ AccountTypeOK /\ BrowserTypeOK

(* Nothing loads for ever: whenever the user leaves the tab alone, which   *)
(* the bounds on what the user does make every behaviour do, each spinner, *)
(* disabled button and pending listing comes to an end, through retries,   *)
(* redirects, pages left half loaded and a highlighter that fails to load. *)
EverythingSettles == []<>(IF part = "account" THEN AccountSettled ELSE BrowserSettled)
=============================================================================
