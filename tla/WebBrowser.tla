----------------------------- MODULE WebBrowser -----------------------------
(***************************************************************************)
(* The pages that browse one repository: RepoPage with its FileTree and    *)
(* BranchSelector, RepoFilePage with its FileViewer, RepoCommitsPage, the  *)
(* query cache they share and the highlighter (lib/highlight.ts).          *)
(*                                                                         *)
(* The repository has a root, one folder in it, one file in the folder,    *)
(* and a README in each; "root" and "dir" name both a page and the         *)
(* directory that it lists.                                                *)
(***************************************************************************)
EXTENDS Naturals, Sequences

CONSTANTS
  Branches,
  Default,     \* default_branch of the repository
  Fallback,    \* 'main', until default_branch is known
  NoBranch,
  MaxPushes,   \* pushes that change the file
  MaxClicks,   \* how often the user does something
  MaxLoads     \* listings of the folder on their way at once

ASSUME BrowserAssumption ==
  /\ {Default, Fallback} \subseteq Branches /\ NoBranch \notin Branches
  /\ MaxPushes \in Nat /\ MaxClicks \in Nat /\ MaxLoads \in Nat \ {0}

VARIABLES
  tip,         \* server: how often the file was changed on each branch
  route,       \* the page, and the ref its URL names, if any
  chosen,      \* the branch picked on the page, if any
  picker,      \* the BranchSelector is open
  query,       \* the query cache
  node,        \* the FileNode of the folder
  viewer,      \* the FileViewer, with the contents it waits to see highlighted
  shiki,       \* the highlighter of the tab
  clicks,      \* what the user has done so far
  kept         \* history: the node outlived a change of branch

browserVars == <<tip, route, chosen, picker, query, node, viewer, shiki, clicks, kept>>
-----------------------------------------------------------------------------
Listed == {"root", "dir"}
Places == Branches \X Listed
Refs == Branches \cup {NoBranch}
Routes == {r \in [at : {"root", "dir", "file", "commits"}, ref : Refs] :
             r.at = "root" <=> r.ref = NoBranch}
Contents == Branches \X (0..MaxPushes)

\* With a bug: the key does not name the directory.
TreeKeyOfBranch(b, d) == <<"tree", b, "root">>
TreeKey(b, d) == <<"tree", b, d>>
ReadmeKey(b) == <<"readme", b>>
BlobKey(b) == <<"blob", b>>
CommitsKey(b) == <<"commits", b>>
Queries ==
  {TreeKey(p[1], p[2]) : p \in Places} \cup {ReadmeKey(b) : b \in Branches}
    \cup {BlobKey(b) : b \in Branches} \cup {CommitsKey(b) : b \in Branches}
    \cup {<<"repo">>, <<"branches">>}

\* of: the place the answer was or will be about; ver: of the file.
NoPlace == <<NoBranch, "root">>
QueryEntry == [phase : {"none", "sent", "rest", "failed"}, of : Places \cup {NoPlace},
          data : BOOLEAN, ver : 0..MaxPushes, fresh : BOOLEAN]
NoQuery == [phase |-> "none", of |-> NoPlace, data |-> FALSE, ver |-> 0, fresh |-> FALSE]

Node == [open : BOOLEAN, children : Refs, loads : [Branches -> 0..MaxLoads]]
NoNode == [open |-> FALSE, children |-> NoBranch, loads |-> [b \in Branches |-> 0]]

Viewer == [up : BOOLEAN, html : Contents \cup {<<>>}, queue : Seq(Contents)]
NoViewer == [up |-> FALSE, html |-> <<>>, queue |-> <<>>]

BrowserTypeOK ==
  /\ tip \in [Branches -> 0..MaxPushes]
  /\ route \in Routes
  /\ chosen \in Refs
  /\ picker \in BOOLEAN
  /\ query \in [Queries -> QueryEntry]
  /\ node \in Node
  /\ viewer \in Viewer
  /\ shiki \in {"none", "loading", "ready", "failed"}
  /\ clicks \in 0..MaxClicks
  /\ kept \in BOOLEAN
-----------------------------------------------------------------------------
(* What a page shows and asks for, given its route, the branch picked on   *)
(* it and the cache q.                                                     *)

CurrentOf(r, c, q) ==
  IF c # NoBranch THEN c
  ELSE IF r.ref # NoBranch THEN r.ref
  ELSE IF q[<<"repo">>].data THEN Default ELSE Fallback
Current == CurrentOf(route, chosen, query)

\* On RepoPage the README waits for the listing that names it.
Asked(r, c, pick, q) ==
  LET b == CurrentOf(r, c, q) IN
  CASE r.at \in Listed ->
         {<<"repo">>, TreeKey(b, r.at)}
           \cup (IF q[TreeKey(b, r.at)].data THEN {ReadmeKey(b)} ELSE {})
           \cup (IF pick THEN {<<"branches">>} ELSE {})
    [] r.at = "file" -> {BlobKey(r.ref)}
    [] r.at = "commits" -> {CommitsKey(b)} \cup (IF pick THEN {<<"branches">>} ELSE {})

\* A query that mounts is sent if it has nothing fresh; of is the place its
\* function captured.
Sent(e, place) == [e EXCEPT !.phase = "sent", !.of = IF e.data THEN @ ELSE place]
Mount(q, new, place) ==
  [k \in Queries |->
     IF k \in new /\ q[k].phase # "sent" /\ ~ q[k].fresh THEN Sent(q[k], place) ELSE q[k]]

\* The file is in the folder.
PlaceOf(r, b) == <<b, IF r.at \in Listed THEN r.at ELSE "dir">>
FirstQueries(r) ==
  LET q == [k \in Queries |-> NoQuery] IN
  Mount(q, Asked(r, NoBranch, FALSE, q), PlaceOf(r, CurrentOf(r, NoBranch, q)))

\* RepoPage shows a spinner, an error, or its FileTree.
Loaded(r, c, q) ==
  r.at \in Listed /\ q[<<"repo">>].data /\ q[TreeKey(CurrentOf(r, c, q), r.at)].data
TreeShown == Loaded(route, chosen, query)

\* The page for r, c and pick over the cache q, whose queries are new ones
\* unless was watched before; a FileNode stays as long as a tree does, and a
\* FileViewer with its page.
Show(r, c, pick, q, was) ==
  LET b == CurrentOf(r, c, q)
      stays == r = route /\ TreeShown /\ Loaded(r, c, q)
  IN /\ route' = r /\ chosen' = c /\ picker' = pick
     /\ query' = Mount(q, Asked(r, c, pick, q) \ was, PlaceOf(r, b))
     /\ node' = IF stays THEN node ELSE NoNode
     /\ kept' = (stays /\ (kept \/ (b # Current /\ node # NoNode)))
Watching == Asked(route, chosen, picker, query)

Clicked == clicks < MaxClicks /\ clicks' = clicks + 1

\* The singleton is made on first use; a load that failed is kept like one
\* that succeeded.
GetHighlighter == IF shiki = "none" THEN "loading" ELSE shiki

\* The effect of FileViewer runs when it mounts and when its content changes.
Effects ==
  LET k == BlobKey(route'.ref)
      v == IF route' = route THEN viewer ELSE NoViewer
      up == route'.at = "file" /\ query'[k].data
      runs == up /\ (~ v.up \/ query'[k].ver # query[k].ver)
  IN /\ viewer' = IF ~ up THEN NoViewer
                  ELSE IF runs THEN [v EXCEPT !.up = TRUE,
                                       !.queue = Append(@, <<route'.ref, query'[k].ver>>)]
                  ELSE v
     /\ shiki' = IF runs THEN GetHighlighter ELSE shiki
-----------------------------------------------------------------------------
(* What the user does.                                                     *)

BreadcrumbLinks(b) == {[at |-> "root", ref |-> NoBranch], [at |-> "dir", ref |-> b]}
FolderLinks ==
  IF route.at = "dir" \/ (node.open /\ node.children # NoBranch)
    THEN {[at |-> "file", ref |-> Current]} ELSE {}
RepoPageLinks ==
  IF ~ query[<<"repo">>].data THEN {}
  ELSE {[at |-> "commits", ref |-> Current]} \cup (IF TreeShown THEN FolderLinks ELSE {})
RouteLinks ==
  CASE route.at \in Listed -> RepoPageLinks
    [] route.at = "file" -> BreadcrumbLinks(route.ref)
    [] route.at = "commits" -> {[at |-> "root", ref |-> NoBranch]}

FollowLink(r) ==
  /\ Clicked
  /\ r \in RouteLinks
  /\ Show(r, NoBranch, FALSE, query, {})
  /\ Effects
  /\ UNCHANGED tip

\* A page load: the cache and the highlighter are new.
LoadRoute(r) ==
  /\ Clicked
  /\ route' = r /\ chosen' = NoBranch /\ picker' = FALSE
  /\ query' = FirstQueries(r)
  /\ node' = NoNode /\ viewer' = NoViewer /\ kept' = FALSE
  /\ shiki' = "none"
  /\ UNCHANGED tip

HasPicker == route.at = "commits" \/ (route.at \in Listed /\ query[<<"repo">>].data)
TogglePicker ==
  /\ Clicked
  /\ HasPicker
  /\ Show(route, chosen, ~ picker, query, Watching)
  /\ UNCHANGED <<tip, viewer, shiki>>

HandleSelect(b) ==
  /\ Clicked
  /\ HasPicker /\ picker /\ query[<<"branches">>].data
  /\ Show(route, b, FALSE, query, Watching)
  /\ UNCHANGED <<tip, viewer, shiki>>

\* With a bug: the listing is of the default branch.
HandleClickOnDefault ==
  /\ Clicked
  /\ route.at = "root" /\ TreeShown
  /\ IF ~ node.open /\ node.children = NoBranch
       THEN /\ node.loads[Default] < MaxLoads
            /\ node' = [node EXCEPT !.loads[Default] = @ + 1]
       ELSE node' = [node EXCEPT !.open = ~ @]
  /\ UNCHANGED <<tip, route, chosen, picker, query, viewer, shiki, kept>>
\* While the folder is not listed each click asks for it again.
HandleClick ==
  /\ Clicked
  /\ route.at = "root" /\ TreeShown
  /\ IF ~ node.open /\ node.children = NoBranch
       THEN /\ node.loads[Current] < MaxLoads
            /\ node' = [node EXCEPT !.loads[Current] = @ + 1]
       ELSE node' = [node EXCEPT !.open = ~ @]
  /\ UNCHANGED <<tip, route, chosen, picker, query, viewer, shiki, kept>>
-----------------------------------------------------------------------------
(* What comes back.                                                        *)

Arrived(k, e) ==
  /\ Show(route, chosen, picker, [query EXCEPT ![k] = e], Watching)
  /\ Effects
  /\ UNCHANGED <<tip, clicks>>

Answered(k) ==
  /\ query[k].phase = "sent"
  /\ Arrived(k, [query[k] EXCEPT !.phase = "rest", !.data = TRUE, !.fresh = TRUE,
                   !.ver = IF k[1] = "blob" THEN tip[query[k].of[1]] ELSE 0])

Failed(k) ==
  /\ query[k].phase = "sent"
  /\ Arrived(k, [query[k] EXCEPT !.phase = "failed", !.fresh = FALSE])

\* Staleness is told apart for the file alone: only its content changes here.
BlobGoesStale(b) ==
  /\ query[BlobKey(b)].fresh
  /\ query' = [query EXCEPT ![BlobKey(b)].fresh = FALSE]
  /\ UNCHANGED <<tip, route, chosen, picker, node, viewer, shiki, clicks, kept>>

\* The rest of handleClick after its await: the folder opens, whatever the
\* user did to it meanwhile.
FolderListed(b) ==
  /\ node.loads[b] > 0
  /\ node' = [open |-> TRUE, children |-> b, loads |-> [node.loads EXCEPT ![b] = @ - 1]]
  /\ UNCHANGED <<tip, route, chosen, picker, query, viewer, shiki, clicks, kept>>

\* With a bug: it opens all the same.
FolderOpensEmpty(b) ==
  /\ node.loads[b] > 0
  /\ node' = [node EXCEPT !.loads[b] = @ - 1, !.open = TRUE]
  /\ UNCHANGED <<tip, route, chosen, picker, query, viewer, shiki, clicks, kept>>
FolderFails(b) ==
  /\ node.loads[b] > 0
  /\ node' = [node EXCEPT !.loads[b] = @ - 1]
  /\ UNCHANGED <<tip, route, chosen, picker, query, viewer, shiki, clicks, kept>>

HighlighterMade ==
  /\ shiki = "loading"
  /\ shiki' \in {"ready", "failed"}
  /\ UNCHANGED <<tip, route, chosen, picker, query, node, viewer, clicks, kept>>

\* With a bug: each waits for a highlighter of its own.
HighlightedInAnyOrder ==
  /\ viewer.queue # <<>> /\ shiki \in {"ready", "failed"}
  /\ \E i \in 1..Len(viewer.queue) :
       viewer' = [viewer EXCEPT !.html = viewer.queue[i],
         !.queue = SubSeq(@, 1, i - 1) \o SubSeq(@, i + 1, Len(@))]
  /\ UNCHANGED <<tip, route, chosen, picker, query, node, shiki, clicks, kept>>
\* Those who wait for one promise go on in the order they came.
Highlighted ==
  /\ viewer.queue # <<>> /\ shiki \in {"ready", "failed"}
  /\ viewer' = [viewer EXCEPT !.html = Head(viewer.queue), !.queue = Tail(@)]
  /\ UNCHANGED <<tip, route, chosen, picker, query, node, shiki, clicks, kept>>

Push(b) ==
  /\ tip[b] < MaxPushes
  /\ tip' = [tip EXCEPT ![b] = @ + 1]
  /\ UNCHANGED <<route, chosen, picker, query, node, viewer, shiki, clicks, kept>>
-----------------------------------------------------------------------------
BrowserInit ==
  /\ tip = [b \in Branches |-> 0]
  /\ route \in Routes /\ route.ref \in {NoBranch, Default}
  /\ chosen = NoBranch
  /\ picker = FALSE
  /\ query = FirstQueries(route)
  /\ node = NoNode
  /\ viewer = NoViewer
  /\ shiki = "none"
  /\ clicks = 0
  /\ kept = FALSE

BrowserReply ==
  \/ \E k \in Queries : Answered(k) \/ Failed(k)
  \/ \E b \in Branches : FolderListed(b) \/ FolderFails(b)
  \/ HighlighterMade \/ Highlighted

BrowserSettled ==
  /\ \A k \in Queries : query[k].phase # "sent"
  /\ \A b \in Branches : node.loads[b] = 0
  /\ viewer.up => viewer.html # <<>> /\ viewer.queue = <<>>

BrowserNext ==
  \/ \E r \in Routes : FollowLink(r) \/ LoadRoute(r)
  \/ TogglePicker
  \/ \E b \in Branches : HandleSelect(b) \/ Push(b)
  \/ HandleClick
  \/ BrowserReply
  \/ \E b \in Branches : BlobGoesStale(b)

BrowserSpec == BrowserInit /\ [][BrowserNext]_browserVars
-----------------------------------------------------------------------------
(* What the cache holds for the branch and the directory on the page is    *)
(* about that branch and that directory, for the README about the branch   *)
(* at least: its key (RepoPage.tsx:51) does not name the directory.        *)
ShownIsOfPlace ==
  CASE route.at \in Listed ->
         LET tree == query[TreeKey(Current, route.at)]
             readme == query[ReadmeKey(Current)]
         IN /\ tree.data => tree.of = <<Current, route.at>>
            /\ readme.data => readme.of[1] = Current
    [] route.at = "file" -> query[BlobKey(route.ref)].data => query[BlobKey(route.ref)].of[1] = route.ref
    [] OTHER -> TRUE

(* A folder that is open shows a listing, however clicks, listings that    *)
(* arrive late and listings that fail follow each other (FileTree.tsx:47). *)
OpenFolderListed == node.open => node.children # NoBranch

(* What a folder lists is from the branch on the page, unless the tree of  *)
(* a branch picked later was in the cache: then the node, keyed by path    *)
(* alone, and its listing outlive the change (FileTree.tsx:123).           *)
FolderIsOfBranch ==
  ~ kept => node.children \in {Current, NoBranch} /\ \A b \in Branches : node.loads[b] > 0 => b = Current

(* When nothing is left to highlight, the viewer shows the content it was  *)
(* last given, in whatever order blobs, page changes and the load of the   *)
(* highlighter came (FileViewer.tsx:24).                                   *)
ViewerShowsItsFile ==
  viewer.up /\ viewer.queue = <<>> => viewer.html = <<route.ref, query[BlobKey(route.ref)].ver>>
=============================================================================
