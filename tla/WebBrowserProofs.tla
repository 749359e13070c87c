-------------------------- MODULE WebBrowserProofs --------------------------
(***************************************************************************)
(* What the browsing pages show is of the branch and directory they name,  *)
(* and the file viewer shows its file, for any branches, pushes, clicks    *)
(* and orders of replies.                                                  *)
(***************************************************************************)
EXTENDS WebBrowser, TLAPS

\* What an entry holds, or waits for, is about what its key names.
About(k, of) ==
  /\ k[1] = "tree" => of = <<k[2], k[3]>>
  /\ k[1] \in {"readme", "blob"} => of[1] = k[2]
EntriesOf(q) == \A k \in Queries : q[k].data \/ q[k].phase = "sent" => About(k, q[k].of)

\* A file's page has no picker.
FilePicksNothing == route.at = "file" => chosen = NoBranch

\* The viewer is of the file on the page, and was last given its content.
ViewerOfFile ==
  viewer.up =>
    LET now == <<route.ref, query[BlobKey(route.ref)].ver>> IN
    /\ route.at = "file"
    /\ viewer.queue = <<>> => viewer.html = now
    /\ viewer.queue # <<>> => viewer.queue[Len(viewer.queue)] = now

BrowserInv ==
  /\ BrowserTypeOK
  /\ EntriesOf(query)
  /\ FilePicksNothing
  /\ OpenFolderListed
  /\ FolderIsOfBranch
  /\ ViewerOfFile
-----------------------------------------------------------------------------
(* Keys and places.                                                        *)

LEMMA KeysAreQueries ==
  ASSUME NEW b \in Branches
  PROVE  /\ \A d \in Listed : TreeKey(b, d) \in Queries /\ <<b, d>> \in Places
         /\ {ReadmeKey(b), BlobKey(b), CommitsKey(b), <<"repo">>, <<"branches">>} \subseteq Queries
<1>1. ASSUME NEW d \in Listed PROVE TreeKey(b, d) \in Queries /\ <<b, d>> \in Places
  <2>1. <<b, d>> \in Places
    BY DEF Places
  <2>2. <<b, d>>[1] = b /\ <<b, d>>[2] = d
    OBVIOUS
  <2> QED
    BY <2>1, <2>2 DEF Queries
<1>2. {ReadmeKey(b), BlobKey(b), CommitsKey(b), <<"repo">>, <<"branches">>} \subseteq Queries
  BY DEF Queries
<1> QED
  BY <1>1, <1>2

LEMMA BlobKeys ==
  ASSUME NEW k \in Queries, k[1] = "blob" PROVE k[2] \in Branches
  BY DEF Queries, TreeKey, ReadmeKey, BlobKey, CommitsKey

LEMMA CurrentIsABranch ==
  ASSUME NEW r \in Routes, NEW c \in Refs, NEW q
  PROVE  CurrentOf(r, c, q) \in Branches
  BY BrowserAssumption DEF CurrentOf, Refs, Routes

LEMMA PlacesOf ==
  ASSUME NEW r \in Routes, NEW b \in Branches
  PROVE  PlaceOf(r, b) \in Places /\ PlaceOf(r, b)[1] = b
         /\ (r.at \in Listed => PlaceOf(r, b) = <<b, r.at>>)
  BY DEF PlaceOf, Places, Listed

\* A page asks for what is about its own place.
LEMMA AskedIsAbout ==
  ASSUME NEW r \in Routes, NEW c \in Refs, NEW pick, NEW q,
         r.at = "file" => c = NoBranch,
         NEW k \in Asked(r, c, pick, q)
  PROVE  /\ k \in Queries
         /\ About(k, PlaceOf(r, CurrentOf(r, c, q)))
<1> DEFINE b == CurrentOf(r, c, q)
<1>1. b \in Branches
  BY CurrentIsABranch
<1>2. r.at \in {"root", "dir", "file", "commits"} /\ r.ref \in Refs
  BY DEF Routes
<1>3. PlaceOf(r, b)[1] = b /\ (r.at \in Listed => PlaceOf(r, b) = <<b, r.at>>)
  BY <1>1, PlacesOf
<1>4. CASE r.at \in Listed
  <2>1. \/ k = <<"repo">> \/ k = TreeKey(b, r.at) \/ k = ReadmeKey(b) \/ k = <<"branches">>
    BY <1>4 DEF Asked, Listed
  <2>2. k \in Queries
    BY <1>1, <1>4, <2>1, KeysAreQueries
  <2>3. About(k, PlaceOf(r, b))
    BY <1>3, <1>4, <2>1 DEF About, TreeKey, ReadmeKey
  <2> QED
    BY <2>2, <2>3
<1>5. CASE r.at = "file"
  <2>1. k = BlobKey(r.ref) /\ r.ref # NoBranch
    BY <1>2, <1>5 DEF Asked, Listed, Routes
  <2>2. b = r.ref
    BY <1>5, <2>1 DEF CurrentOf
  <2>3. About(k, PlaceOf(r, b))
    BY <1>3, <2>1, <2>2 DEF About, BlobKey
  <2> QED
    BY <1>1, <2>1, <2>2, <2>3, KeysAreQueries
<1>6. CASE r.at = "commits"
  <2>1. k = CommitsKey(b) \/ k = <<"branches">>
    BY <1>6 DEF Asked, Listed
  <2>2. About(k, PlaceOf(r, b))
    BY <2>1 DEF About, CommitsKey
  <2> QED
    BY <1>1, <2>1, <2>2, KeysAreQueries
<1> QED
  BY <1>2, <1>4, <1>5, <1>6 DEF Listed
-----------------------------------------------------------------------------
(* The cache.                                                              *)

\* Queries that mount keep what they have.
LEMMA MountKeeps ==
  ASSUME NEW q \in [Queries -> QueryEntry], NEW new, NEW place \in Places
  PROVE  /\ Mount(q, new, place) \in [Queries -> QueryEntry]
         /\ \A k \in Queries : /\ Mount(q, new, place)[k].data = q[k].data
                              /\ Mount(q, new, place)[k].ver = q[k].ver
<1> SUFFICES ASSUME NEW k \in Queries
             PROVE  /\ Mount(q, new, place)[k] \in QueryEntry
                    /\ Mount(q, new, place)[k].data = q[k].data
                    /\ Mount(q, new, place)[k].ver = q[k].ver
  BY DEF Mount
<1>1. q[k] \in QueryEntry
  OBVIOUS
<1>2. Sent(q[k], place) \in QueryEntry /\ Sent(q[k], place).data = q[k].data
      /\ Sent(q[k], place).ver = q[k].ver
  BY <1>1 DEF Sent, QueryEntry
<1>3. Mount(q, new, place)[k] \in {q[k], Sent(q[k], place)}
  BY DEF Mount
<1> QED
  BY <1>1, <1>2, <1>3

LEMMA MountIsAbout ==
  ASSUME NEW q \in [Queries -> QueryEntry], EntriesOf(q), NEW new, NEW place \in Places,
         \A k \in new : About(k, place)
  PROVE  EntriesOf(Mount(q, new, place))
<1> SUFFICES ASSUME NEW k \in Queries,
                    Mount(q, new, place)[k].data \/ Mount(q, new, place)[k].phase = "sent"
             PROVE  About(k, Mount(q, new, place)[k].of)
  BY DEF EntriesOf
<1>1. q[k] \in QueryEntry
  OBVIOUS
<1>2. CASE k \in new /\ q[k].phase # "sent" /\ ~ q[k].fresh
  <2>1. Mount(q, new, place)[k] = Sent(q[k], place)
    BY <1>2 DEF Mount
  <2>2. Sent(q[k], place).of = IF q[k].data THEN q[k].of ELSE place
    BY <1>1 DEF Sent, QueryEntry
  <2> QED
    BY <1>2, <2>1, <2>2 DEF EntriesOf
<1>3. CASE ~ (k \in new /\ q[k].phase # "sent" /\ ~ q[k].fresh)
  BY <1>3 DEF Mount, EntriesOf
<1> QED
  BY <1>2, <1>3

\* Whatever is mounted, the branch of the page is the one it was computed from.
LEMMA CurrentKeeps ==
  ASSUME NEW r, NEW c, NEW q, NEW w, w[<<"repo">>].data = q[<<"repo">>].data
  PROVE  CurrentOf(r, c, w) = CurrentOf(r, c, q)
  BY DEF CurrentOf

LEMMA NoNodeType ==
  /\ NoNode \in Node /\ ~ NoNode.open /\ NoNode.children = NoBranch
  /\ \A b \in Branches : NoNode.loads[b] = 0
  BY BrowserAssumption DEF NoNode, Node, Refs

LEMMA NoViewerType == NoViewer \in Viewer /\ ~ NoViewer.up /\ NoViewer.queue = <<>>
  BY DEF NoViewer, Viewer

LEMMA NoQueryType ==
  NoQuery \in QueryEntry /\ ~ NoQuery.data /\ NoQuery.phase = "none" /\ ~ NoQuery.fresh
  BY BrowserAssumption DEF NoQuery, QueryEntry

\* The queries of a page that was loaded.
LEMMA FirstAreSound ==
  ASSUME NEW r \in Routes
  PROVE  /\ FirstQueries(r) \in [Queries -> QueryEntry]
         /\ EntriesOf(FirstQueries(r))
<1> DEFINE q == [k \in Queries |-> NoQuery]
           b == CurrentOf(r, NoBranch, q)
           new == Asked(r, NoBranch, FALSE, q)
<1>1. q \in [Queries -> QueryEntry] /\ EntriesOf(q)
  BY NoQueryType DEF EntriesOf
<1>2. NoBranch \in Refs
  BY DEF Refs
<1>3. PlaceOf(r, b) \in Places
  BY <1>2, CurrentIsABranch, PlacesOf
<1>4. \A k \in new : About(k, PlaceOf(r, b))
  BY <1>2, AskedIsAbout
<1>5. FirstQueries(r) = Mount(q, new, PlaceOf(r, b))
  BY DEF FirstQueries
<1> HIDE DEF q, b, new
<1> QED
  BY <1>1, <1>3, <1>4, <1>5, MountKeeps, MountIsAbout
-----------------------------------------------------------------------------
(* What steps have in common.                                              *)

\* A page that is shown anew keeps its folder, or has none.
LEMMA ShowKeeps ==
  ASSUME BrowserInv, NEW r \in Routes, NEW c \in Refs, NEW pick \in BOOLEAN,
         NEW q \in [Queries -> QueryEntry], EntriesOf(q), NEW was,
         r.at = "file" => c = NoBranch, Show(r, c, pick, q, was)
  PROVE  /\ route' = r /\ chosen' = c /\ picker' = pick
         /\ query' \in [Queries -> QueryEntry] /\ EntriesOf(query')
         /\ node' \in Node /\ kept' \in BOOLEAN
         /\ FilePicksNothing' /\ OpenFolderListed' /\ FolderIsOfBranch'
<1> DEFINE b == CurrentOf(r, c, q)
           new == Asked(r, c, pick, q) \ was
           stays == r = route /\ TreeShown /\ Loaded(r, c, q)
<1>1. b \in Branches /\ PlaceOf(r, b) \in Places
  BY CurrentIsABranch, PlacesOf
<1>2. \A k \in new : About(k, PlaceOf(r, b))
  BY AskedIsAbout
<1>3. /\ route' = r /\ chosen' = c /\ picker' = pick
      /\ query' = Mount(q, new, PlaceOf(r, b))
      /\ node' = IF stays THEN node ELSE NoNode
      /\ kept' = (stays /\ (kept \/ (b # Current /\ node # NoNode)))
  BY DEF Show
<1>4. query' \in [Queries -> QueryEntry] /\ EntriesOf(query')
      /\ query'[<<"repo">>].data = q[<<"repo">>].data
  BY <1>1, <1>2, <1>3, MountKeeps, MountIsAbout, KeysAreQueries
<1>5. Current' = b
  BY <1>3, <1>4, CurrentKeeps DEF Current
<1>6. node \in Node
  BY DEF BrowserInv, BrowserTypeOK
<1> HIDE DEF b, new, stays
<1>7. node' \in Node /\ OpenFolderListed'
  BY <1>3, <1>6, NoNodeType DEF BrowserInv, OpenFolderListed
<1>8. FolderIsOfBranch'
  <2>1. CASE node' = NoNode
    BY <2>1, NoNodeType DEF FolderIsOfBranch
  <2>2. CASE node' # NoNode /\ ~ kept'
    <3>1. node' = node /\ ~ kept /\ b = Current
      BY <1>3, <2>2
    <3> QED
      BY <1>5, <3>1 DEF BrowserInv, FolderIsOfBranch
  <2>3. CASE kept'
    BY <2>3 DEF FolderIsOfBranch
  <2> QED
    BY <2>1, <2>2, <2>3
<1>9. kept' \in BOOLEAN
  BY <1>3
<1> QED
  BY <1>3, <1>4, <1>7, <1>8, <1>9 DEF FilePicksNothing

LEMMA HighlighterType ==
  ASSUME BrowserInv
  PROVE  /\ shiki \in {"none", "loading", "ready", "failed"}
         /\ GetHighlighter \in {"none", "loading", "ready", "failed"}
  BY DEF BrowserInv, BrowserTypeOK, GetHighlighter

\* The viewer's queue ends with what it was given last.
LEMMA EffectsKeep ==
  ASSUME BrowserInv, route' \in Routes, query' \in [Queries -> QueryEntry], Effects
  PROVE  /\ viewer' \in Viewer
         /\ shiki' \in {"none", "loading", "ready", "failed"}
         /\ ViewerOfFile'
<1> DEFINE k == BlobKey(route'.ref)
           v == IF route' = route THEN viewer ELSE NoViewer
           up == route'.at = "file" /\ query'[k].data
           runs == up /\ (~ v.up \/ query'[k].ver # query[k].ver)
           now == <<route'.ref, query'[k].ver>>
<1>1. /\ viewer' = IF ~ up THEN NoViewer
                   ELSE IF runs THEN [v EXCEPT !.up = TRUE, !.queue = Append(@, now)]
                   ELSE v
      /\ shiki' = IF runs THEN GetHighlighter ELSE shiki
  BY DEF Effects
<1>2. v \in Viewer /\ (v.up => v = viewer /\ route' = route)
  BY NoViewerType DEF BrowserInv, BrowserTypeOK
<1>3. shiki' \in {"none", "loading", "ready", "failed"}
  BY <1>1, HighlighterType DEF BrowserInv
<1>4. CASE ~ up
  <2>1. viewer' = NoViewer
    BY <1>1, <1>4
  <2> QED
    BY <1>3, <2>1, NoViewerType DEF ViewerOfFile
<1>5. CASE runs
  <2>1. route'.at = "file" /\ route'.ref \in Branches
    BY <1>5 DEF Routes, Refs
  <2>2. now \in Contents
    <3>1. k \in Queries
      BY <2>1, KeysAreQueries
    <3>2. query'[k].ver \in 0..MaxPushes
      BY <3>1 DEF QueryEntry
    <3> QED
      BY <2>1, <3>2 DEF Contents
  <2>3. v.queue \in Seq(Contents)
    BY <1>2 DEF Viewer
  <2> DEFINE w == [v EXCEPT !.up = TRUE, !.queue = Append(@, now)]
  <2> HIDE DEF now
  <2>4. w.queue = Append(v.queue, now) /\ w.up /\ w.html = v.html
    BY <1>2 DEF Viewer
  <2>5. Append(v.queue, now) \in Seq(Contents) /\ Append(v.queue, now) # <<>>
        /\ Append(v.queue, now)[Len(Append(v.queue, now))] = now
    BY <2>2, <2>3
  <2>6. viewer' = w
    BY <1>1, <1>5
  <2>7. w \in Viewer
    BY <1>2, <2>4, <2>5 DEF Viewer
  <2> HIDE DEF w
  <2>8. /\ viewer'.queue # <<>> /\ viewer'.queue[Len(viewer'.queue)] = now
        /\ viewer' \in Viewer
    BY <2>4, <2>5, <2>6, <2>7
  <2>9. ViewerOfFile'
    BY <2>1, <2>8 DEF ViewerOfFile, now
  <2> QED
    BY <1>3, <2>8, <2>9
<1>6. CASE up /\ ~ runs
  <2>1. viewer' = viewer /\ route' = route /\ query'[k].ver = query[k].ver
    BY <1>1, <1>2, <1>6
  <2>2. viewer.up
    BY <1>2, <1>6
  <2> QED
    BY <1>2, <1>3, <1>6, <2>1, <2>2 DEF ViewerOfFile, BrowserInv, BrowserTypeOK
<1> QED
  BY <1>4, <1>5, <1>6
-----------------------------------------------------------------------------
(* One lemma for each kind of step.                                        *)

LEMMA Types ==
  ASSUME BrowserInv
  PROVE  /\ tip \in [Branches -> 0..MaxPushes] /\ route \in Routes /\ chosen \in Refs
         /\ picker \in BOOLEAN /\ query \in [Queries -> QueryEntry] /\ node \in Node
         /\ viewer \in Viewer /\ clicks \in 0..MaxClicks /\ kept \in BOOLEAN
         /\ EntriesOf(query)
  BY DEF BrowserInv, BrowserTypeOK

LEMMA ClickCounts == ASSUME BrowserInv, Clicked PROVE clicks' \in 0..MaxClicks
  BY BrowserAssumption DEF BrowserInv, BrowserTypeOK, Clicked

LEMMA EntriesPrimed == ASSUME EntriesOf(query') PROVE EntriesOf(query)'
  BY DEF EntriesOf

LEMMA LinksAreRoutes == ASSUME BrowserInv, NEW r \in RouteLinks PROVE r \in Routes
<1>1. Current \in Branches /\ NoBranch \notin Branches
  BY Types, CurrentIsABranch, BrowserAssumption DEF Current
<1>2. route.at = "file" => route.ref \in Branches
  BY Types DEF Routes, Refs
<1> QED
  BY <1>1, <1>2, Types DEF RouteLinks, RepoPageLinks, FolderLinks, BreadcrumbLinks, Routes, Refs, Listed

LEMMA FollowLinkKeeps == ASSUME BrowserInv, NEW r, FollowLink(r) PROVE BrowserInv'
<1>1. r \in Routes /\ NoBranch \in Refs
  BY LinksAreRoutes DEF FollowLink, Refs
<1>2. Show(r, NoBranch, FALSE, query, {}) /\ Effects /\ tip' = tip
  BY DEF FollowLink
<1>3. /\ route' = r /\ chosen' = NoBranch /\ picker' = FALSE
      /\ query' \in [Queries -> QueryEntry] /\ EntriesOf(query')
      /\ node' \in Node /\ kept' \in BOOLEAN
      /\ FilePicksNothing' /\ OpenFolderListed' /\ FolderIsOfBranch'
  BY <1>1, <1>2, Types, ShowKeeps
<1>4. clicks' \in 0..MaxClicks
  BY ClickCounts DEF FollowLink
<1> QED
  BY <1>1, <1>2, <1>3, <1>4, Types, EffectsKeep, EntriesPrimed DEF BrowserInv, BrowserTypeOK

LEMMA LoadRouteKeeps == ASSUME BrowserInv, NEW r \in Routes, LoadRoute(r) PROVE BrowserInv'
<1>1. /\ route' = r /\ chosen' = NoBranch /\ picker' = FALSE
      /\ query' = FirstQueries(r) /\ node' = NoNode /\ viewer' = NoViewer /\ kept' = FALSE
      /\ shiki' = "none" /\ tip' = tip
  BY DEF LoadRoute
<1>2. clicks' \in 0..MaxClicks
  BY ClickCounts DEF LoadRoute
<1>3. query' \in [Queries -> QueryEntry] /\ EntriesOf(query')
  BY <1>1, FirstAreSound
<1>4. BrowserTypeOK'
  BY <1>1, <1>2, <1>3, Types, NoNodeType, NoViewerType DEF BrowserTypeOK, Refs
<1>5. OpenFolderListed' /\ FolderIsOfBranch'
  BY <1>1, NoNodeType DEF OpenFolderListed, FolderIsOfBranch
<1>6. ViewerOfFile' /\ FilePicksNothing'
  BY <1>1, NoViewerType DEF ViewerOfFile, FilePicksNothing
<1> QED
  BY <1>3, <1>4, <1>5, <1>6, EntriesPrimed DEF BrowserInv

\* The picker is on pages that have no viewer.
LEMMA PickerKeeps ==
  ASSUME BrowserInv, Clicked, HasPicker, NEW c \in Refs, NEW pick \in BOOLEAN,
         Show(route, c, pick, query, Watching), UNCHANGED <<tip, viewer, shiki>>
  PROVE  BrowserInv'
<1>1. route.at # "file"
  BY DEF HasPicker, Listed
<1>2. /\ route' = route /\ chosen' = c /\ picker' = pick
      /\ query' \in [Queries -> QueryEntry] /\ EntriesOf(query')
      /\ node' \in Node /\ kept' \in BOOLEAN
      /\ FilePicksNothing' /\ OpenFolderListed' /\ FolderIsOfBranch'
  BY <1>1, Types, ShowKeeps
<1>3. clicks' \in 0..MaxClicks
  BY ClickCounts
<1>4. ViewerOfFile'
  BY <1>1, <1>2 DEF BrowserInv, ViewerOfFile
<1>5. BrowserTypeOK'
  BY <1>2, <1>3, Types, HighlighterType DEF BrowserTypeOK
<1> QED
  BY <1>2, <1>4, <1>5, EntriesPrimed DEF BrowserInv

LEMMA TogglePickerKeeps == ASSUME BrowserInv, TogglePicker PROVE BrowserInv'
<1>1. Clicked /\ HasPicker /\ Show(route, chosen, ~ picker, query, Watching)
      /\ UNCHANGED <<tip, viewer, shiki>>
  BY DEF TogglePicker
<1>2. (~ picker) \in BOOLEAN /\ chosen \in Refs
  BY Types
<1> QED
  BY <1>1, <1>2, PickerKeeps

LEMMA HandleSelectKeeps ==
  ASSUME BrowserInv, NEW b \in Branches, HandleSelect(b) PROVE BrowserInv'
<1>1. Clicked /\ HasPicker /\ Show(route, b, FALSE, query, Watching)
      /\ UNCHANGED <<tip, viewer, shiki>>
  BY DEF HandleSelect
<1>2. b \in Refs
  BY DEF Refs
<1> QED
  BY <1>1, <1>2, PickerKeeps

\* Steps of the folder's node alone.
LEMMA NodeKeeps ==
  ASSUME BrowserInv, UNCHANGED <<tip, route, chosen, picker, query, viewer, shiki, kept>>,
         clicks' \in 0..MaxClicks, node' \in Node,
         node'.open => node'.children # NoBranch,
         ~ kept => /\ node'.children \in {Current, NoBranch}
                   /\ \A b \in Branches : node'.loads[b] > 0 => b = Current
  PROVE  BrowserInv'
<1>1. Current' = Current
  BY DEF Current, CurrentOf
<1>2. BrowserTypeOK'
  BY DEF BrowserInv, BrowserTypeOK
<1>3. OpenFolderListed' /\ FolderIsOfBranch'
  BY <1>1 DEF OpenFolderListed, FolderIsOfBranch
<1> QED
  BY <1>2, <1>3 DEF BrowserInv, EntriesOf, FilePicksNothing, ViewerOfFile

LEMMA HandleClickKeeps == ASSUME BrowserInv, HandleClick PROVE BrowserInv'
<1>1. Current \in Branches
  BY Types, CurrentIsABranch DEF Current
<1>2. /\ node.open \in BOOLEAN /\ node.children \in Refs
      /\ node.loads \in [Branches -> 0..MaxLoads] /\ MaxLoads \in Nat
  BY Types, BrowserAssumption DEF Node
<1>3. clicks' \in 0..MaxClicks
  BY ClickCounts DEF HandleClick
<1>4. UNCHANGED <<tip, route, chosen, picker, query, viewer, shiki, kept>>
  BY DEF HandleClick
<1>5. CASE ~ node.open /\ node.children = NoBranch
  <2>1. node.loads[Current] < MaxLoads /\ node' = [node EXCEPT !.loads[Current] = @ + 1]
    BY <1>5 DEF HandleClick
  <2>2. /\ node'.open = node.open /\ node'.children = node.children
        /\ node'.loads = [node.loads EXCEPT ![Current] = @ + 1]
    BY <2>1, Types DEF Node
  <2>3. node'.loads \in [Branches -> 0..MaxLoads]
    BY <1>1, <1>2, <2>1, <2>2
  <2>4. node' \in Node
    BY <2>1, <2>3, <2>2, Types DEF Node
  <2>5. ~ kept => \A b \in Branches : node'.loads[b] > 0 => b = Current
    BY <1>1, <1>2, <2>2 DEF BrowserInv, FolderIsOfBranch
  <2> QED
    BY <1>3, <1>4, <1>5, <2>2, <2>4, <2>5, NodeKeeps
<1>6. CASE node.open \/ node.children # NoBranch
  <2>1. node' = [node EXCEPT !.open = ~ @]
    BY <1>6 DEF HandleClick
  <2>2. /\ node'.open = ~ node.open /\ node'.children = node.children
        /\ node'.loads = node.loads /\ node' \in Node
    BY <2>1, Types DEF Node
  <2> QED
    BY <1>3, <1>4, <1>6, <2>2, NodeKeeps DEF BrowserInv, FolderIsOfBranch, OpenFolderListed
<1> QED
  BY <1>5, <1>6

LEMMA FolderKeeps ==
  ASSUME BrowserInv, NEW b \in Branches, FolderListed(b) \/ FolderFails(b)
  PROVE  BrowserInv'
<1>1. /\ node.open \in BOOLEAN /\ node.children \in Refs
      /\ node.loads \in [Branches -> 0..MaxLoads] /\ MaxLoads \in Nat
  BY Types, BrowserAssumption DEF Node
<1>2. /\ UNCHANGED <<tip, route, chosen, picker, query, viewer, shiki, clicks, kept>>
      /\ node.loads[b] > 0
  BY DEF FolderListed, FolderFails
<1> DEFINE loads == [node.loads EXCEPT ![b] = @ - 1]
<1>3. loads \in [Branches -> 0..MaxLoads]
  BY <1>1, <1>2
<1>4. \A c \in Branches : loads[c] > 0 => node.loads[c] > 0
  BY <1>1, <1>2
<1>5. ~ kept => b = Current /\ \A c \in Branches : loads[c] > 0 => c = Current
  BY <1>2, <1>4 DEF BrowserInv, FolderIsOfBranch
<1>6. clicks' \in 0..MaxClicks
  BY <1>2, Types
<1>7. CASE FolderListed(b)
  <2>1. node' = [open |-> TRUE, children |-> b, loads |-> loads]
    BY <1>7 DEF FolderListed
  <2> HIDE DEF loads
  <2>2. node' \in Node /\ node'.children = b /\ b # NoBranch /\ node'.loads = loads
    BY <1>3, <2>1, BrowserAssumption DEF Node, Refs
  <2> QED
    BY <1>2, <1>5, <1>6, <2>2, NodeKeeps
<1>8. CASE FolderFails(b)
  <2>1. node' = [node EXCEPT !.loads[b] = @ - 1]
    BY <1>8 DEF FolderFails
  <2>2. node'.open = node.open /\ node'.children = node.children /\ node'.loads = loads
    BY <2>1, Types DEF Node
  <2>3. node' \in Node
    BY <1>3, <2>1, <2>2, Types DEF Node
  <2> HIDE DEF loads
  <2> QED
    BY <1>2, <1>5, <1>6, <2>2, <2>3, NodeKeeps
       DEF BrowserInv, FolderIsOfBranch, OpenFolderListed
<1> QED
  BY <1>7, <1>8

\* An answer, or a failure, e for the query k.
LEMMA ArrivedKeeps ==
  ASSUME BrowserInv, NEW k \in Queries, NEW e \in QueryEntry, Arrived(k, e),
         e.data \/ e.phase = "sent" => About(k, e.of)
  PROVE  BrowserInv'
<1> DEFINE q == [query EXCEPT ![k] = e]
<1>1. q \in [Queries -> QueryEntry] /\ EntriesOf(q)
  BY Types DEF EntriesOf
<1>2. Show(route, chosen, picker, q, Watching) /\ Effects /\ UNCHANGED <<tip, clicks>>
  BY DEF Arrived
<1> HIDE DEF q
<1>3. route.at = "file" => chosen = NoBranch
  BY DEF BrowserInv, FilePicksNothing
<1>4. /\ route' = route /\ chosen' = chosen /\ picker' = picker
      /\ query' \in [Queries -> QueryEntry] /\ EntriesOf(query')
      /\ node' \in Node /\ kept' \in BOOLEAN
      /\ FilePicksNothing' /\ OpenFolderListed' /\ FolderIsOfBranch'
  BY <1>1, <1>2, <1>3, Types, ShowKeeps
<1>5. route' \in Routes
  BY <1>4, Types
<1>6. /\ viewer' \in Viewer
      /\ shiki' \in {"none", "loading", "ready", "failed"}
      /\ ViewerOfFile'
  BY <1>2, <1>4, <1>5, EffectsKeep
<1>7. BrowserTypeOK'
  BY <1>2, <1>4, <1>6, Types DEF BrowserTypeOK
<1> QED
  BY <1>4, <1>6, <1>7, EntriesPrimed DEF BrowserInv

LEMMA AnsweredKeeps ==
  ASSUME BrowserInv, NEW k \in Queries, Answered(k) \/ Failed(k) PROVE BrowserInv'
<1> USE Types
<1>1. query[k] \in QueryEntry /\ query[k].phase = "sent"
  BY DEF Answered, Failed
<1>2. About(k, query[k].of)
  BY <1>1 DEF EntriesOf
<1>3. CASE Answered(k)
  <2>1. PICK v : v = IF k[1] = "blob" THEN tip[query[k].of[1]] ELSE 0
    OBVIOUS
  <2>2. v \in 0..MaxPushes
    BY <1>2, <2>1, BlobKeys, BrowserAssumption DEF About
  <2>3. PICK e : e = [query[k] EXCEPT !.phase = "rest", !.data = TRUE, !.fresh = TRUE, !.ver = v]
    OBVIOUS
  <2>4. e \in QueryEntry /\ e.of = query[k].of
    BY <1>1, <2>2, <2>3 DEF QueryEntry
  <2>5. Arrived(k, e)
    BY <1>3, <2>1, <2>3 DEF Answered
  <2> QED
    BY <1>2, <2>4, <2>5, ArrivedKeeps
<1>4. CASE Failed(k)
  <2>1. PICK e : e = [query[k] EXCEPT !.phase = "failed", !.fresh = FALSE]
    OBVIOUS
  <2>2. e \in QueryEntry /\ e.of = query[k].of
    BY <1>1, <2>1 DEF QueryEntry
  <2>3. Arrived(k, e)
    BY <1>4, <2>1 DEF Failed
  <2> QED
    BY <1>2, <2>2, <2>3, ArrivedKeeps
<1> QED
  BY <1>3, <1>4

\* Steps that leave the page, its folder and what was asked as they are.
LEMMA PageStays ==
  ASSUME BrowserInv, UNCHANGED <<route, chosen, picker, node, clicks, kept>>,
         query' \in [Queries -> QueryEntry], EntriesOf(query'),
         query'[<<"repo">>].data = query[<<"repo">>].data,
         tip' \in [Branches -> 0..MaxPushes], viewer' \in Viewer, ViewerOfFile',
         shiki' \in {"none", "loading", "ready", "failed"}
  PROVE  BrowserInv'
<1>1. Current' = Current
  BY CurrentKeeps DEF Current
<1>2. BrowserTypeOK'
  BY Types DEF BrowserTypeOK
<1>3. OpenFolderListed' /\ FolderIsOfBranch' /\ FilePicksNothing'
  BY <1>1 DEF BrowserInv, OpenFolderListed, FolderIsOfBranch, FilePicksNothing
<1> QED
  BY <1>2, <1>3, EntriesPrimed DEF BrowserInv

LEMMA HighlighterMadeKeeps == ASSUME BrowserInv, HighlighterMade PROVE BrowserInv'
<1>1. UNCHANGED <<tip, route, chosen, picker, query, node, viewer, clicks, kept>>
  BY DEF HighlighterMade
<1>2. shiki' \in {"none", "loading", "ready", "failed"}
  BY HighlighterType DEF HighlighterMade, BrowserInv
<1>3. ViewerOfFile'
  BY <1>1 DEF ViewerOfFile, BrowserInv
<1> QED
  BY <1>1, <1>2, <1>3, Types, PageStays

LEMMA EmptyByLength ==
  ASSUME NEW S, NEW s \in Seq(S) PROVE s = <<>> <=> Len(s) = 0
  OBVIOUS

LEMMA HighlightedKeeps == ASSUME BrowserInv, Highlighted PROVE BrowserInv'
<1>1. UNCHANGED <<tip, route, chosen, picker, query, node, shiki, clicks, kept>>
  BY DEF Highlighted
<1>2. viewer.queue \in Seq(Contents) /\ viewer.queue # <<>> /\ viewer \in Viewer
  BY Types DEF Highlighted, Viewer
<1> DEFINE s == viewer.queue
<1>3. Len(s) \in Nat \ {0} /\ Head(s) \in Contents /\ Tail(s) \in Seq(Contents)
      /\ Head(s) = s[1] /\ Len(Tail(s)) = Len(s) - 1
      /\ \A i \in 1..Len(s) - 1 : Tail(s)[i] = s[i + 1]
  BY <1>2
<1>4. Tail(s) = <<>> => Head(s) = s[Len(s)]
  <2>1. Tail(s) = <<>> => Len(Tail(s)) = 0
    BY <1>3, EmptyByLength
  <2>2. Len(Tail(s)) = 0 => Len(s) = 1
    BY <1>3
  <2> QED
    BY <1>3, <2>1, <2>2
<1>5. Tail(s) # <<>> => Tail(s)[Len(Tail(s))] = s[Len(s)]
  <2>1. Tail(s) # <<>> => Len(Tail(s)) # 0
    BY <1>3, EmptyByLength
  <2> QED
    BY <1>3, <2>1
<1>6. /\ viewer'.html = Head(s) /\ viewer'.queue = Tail(s) /\ viewer'.up = viewer.up
      /\ viewer' \in Viewer
  BY <1>2, <1>3 DEF Highlighted, Viewer
<1> HIDE DEF s
<1>7. ViewerOfFile'
  BY <1>1, <1>2, <1>4, <1>5, <1>6 DEF ViewerOfFile, BrowserInv, s
<1>8. shiki' \in {"none", "loading", "ready", "failed"}
  BY <1>1, HighlighterType DEF BrowserInv
<1> QED
  BY <1>1, <1>6, <1>7, <1>8, Types, PageStays

LEMMA BlobGoesStaleKeeps ==
  ASSUME BrowserInv, NEW b \in Branches, BlobGoesStale(b) PROVE BrowserInv'
<1>1. UNCHANGED <<tip, route, chosen, picker, node, viewer, shiki, clicks, kept>>
  BY DEF BlobGoesStale
<1>2. query' = [query EXCEPT ![BlobKey(b)].fresh = FALSE]
  BY DEF BlobGoesStale
<1>3. \A k \in Queries :
        /\ query'[k].data = query[k].data /\ query'[k].ver = query[k].ver
        /\ query'[k].phase = query[k].phase /\ query'[k].of = query[k].of
        /\ query'[k] \in QueryEntry
  BY <1>2, Types DEF QueryEntry
<1>4. query' \in [Queries -> QueryEntry]
  BY <1>2, <1>3, Types
<1>5. EntriesOf(query')
  BY <1>3, Types DEF EntriesOf
<1>6. viewer.up => route.ref \in Branches
  BY Types DEF BrowserInv, ViewerOfFile, Routes, Refs
<1>7. ViewerOfFile'
  BY <1>1, <1>3, <1>6, KeysAreQueries DEF BrowserInv, ViewerOfFile
<1>8. query'[<<"repo">>].data = query[<<"repo">>].data
  BY <1>3, KeysAreQueries
<1>9. shiki' \in {"none", "loading", "ready", "failed"}
  BY <1>1, HighlighterType DEF BrowserInv
<1> QED
  BY <1>1, <1>4, <1>5, <1>7, <1>8, <1>9, Types, PageStays

LEMMA PushKeeps == ASSUME BrowserInv, NEW b \in Branches, Push(b) PROVE BrowserInv'
<1>1. UNCHANGED <<route, chosen, picker, query, node, viewer, shiki, clicks, kept>>
  BY DEF Push
<1>2. tip' \in [Branches -> 0..MaxPushes]
  BY Types, BrowserAssumption DEF Push
<1>3. ViewerOfFile'
  BY <1>1 DEF BrowserInv, ViewerOfFile
<1> QED
  BY <1>1, <1>2, <1>3, Types, HighlighterType, PageStays

LEMMA BrowserStutterKeeps == ASSUME BrowserInv, UNCHANGED browserVars PROVE BrowserInv'
<1>1. UNCHANGED <<tip, route, chosen, picker, query, node, viewer, shiki, clicks, kept>>
  BY DEF browserVars
<1>2. ViewerOfFile'
  BY <1>1 DEF BrowserInv, ViewerOfFile
<1> QED
  BY <1>1, <1>2, Types, HighlighterType, PageStays
-----------------------------------------------------------------------------
LEMMA BrowserInitInv == BrowserInit => BrowserInv
<1> SUFFICES ASSUME BrowserInit PROVE BrowserInv
  OBVIOUS
<1>1. query \in [Queries -> QueryEntry] /\ EntriesOf(query) /\ route \in Routes
  BY FirstAreSound DEF BrowserInit
<1>2. tip \in [Branches -> 0..MaxPushes] /\ clicks \in 0..MaxClicks
  BY BrowserAssumption DEF BrowserInit
<1>3. BrowserTypeOK
  BY <1>1, <1>2, NoNodeType, NoViewerType DEF BrowserInit, BrowserTypeOK, Refs
<1>4. OpenFolderListed /\ FolderIsOfBranch
  BY NoNodeType DEF BrowserInit, OpenFolderListed, FolderIsOfBranch
<1>5. ViewerOfFile /\ FilePicksNothing
  BY NoViewerType DEF BrowserInit, ViewerOfFile, FilePicksNothing
<1> QED
  BY <1>1, <1>3, <1>4, <1>5 DEF BrowserInv

LEMMA BrowserNextInv == ASSUME BrowserInv, BrowserNext PROVE BrowserInv'
  BY FollowLinkKeeps, LoadRouteKeeps, TogglePickerKeeps, HandleSelectKeeps, PushKeeps,
     HandleClickKeeps, AnsweredKeeps, FolderKeeps, HighlighterMadeKeeps, HighlightedKeeps,
     BlobGoesStaleKeeps
     DEF BrowserNext, BrowserReply

LEMMA InvShows ==
  ASSUME BrowserInv
  PROVE  ShownIsOfPlace /\ OpenFolderListed /\ FolderIsOfBranch
         /\ ViewerShowsItsFile
<1>1. Current \in Branches /\ route.at \in {"root", "dir", "file", "commits"}
  BY Types, CurrentIsABranch DEF Current, Routes
<1>2. ASSUME route.at \in Listed
      PROVE  LET tree == query[TreeKey(Current, route.at)]
                 readme == query[ReadmeKey(Current)]
             IN /\ tree.data => tree.of = <<Current, route.at>>
                /\ readme.data => readme.of[1] = Current
  <2>1. TreeKey(Current, route.at) \in Queries /\ ReadmeKey(Current) \in Queries
    BY <1>1, <1>2, KeysAreQueries
  <2> QED
    BY <2>1, Types DEF EntriesOf, About, TreeKey, ReadmeKey
<1>3. ASSUME route.at = "file"
      PROVE  query[BlobKey(route.ref)].data => query[BlobKey(route.ref)].of[1] = route.ref
  <2>1. BlobKey(route.ref) \in Queries
    BY <1>3, Types, KeysAreQueries DEF Routes, Refs
  <2> QED
    BY <2>1, Types DEF EntriesOf, About, BlobKey
<1>4. ShownIsOfPlace
  BY <1>1, <1>2, <1>3 DEF ShownIsOfPlace, Listed
<1> QED
  BY <1>4 DEF BrowserInv, ViewerOfFile, ViewerShowsItsFile

LEMMA BrowserInvariant == BrowserSpec => []BrowserInv
<1>1. BrowserInv /\ [BrowserNext]_browserVars => BrowserInv'
  BY BrowserNextInv, BrowserStutterKeeps
<1> QED
  BY <1>1, BrowserInitInv, PTL DEF BrowserSpec

(* Trees, READMEs and files on a page are of its branch, and trees of its  *)
(* directory (RepoPage.tsx:36).                                            *)
THEOREM PagesShowTheirPlace == BrowserSpec => []ShownIsOfPlace
  BY BrowserInvariant, InvShows, PTL

(* An open folder has a listing, though one may arrive late or never       *)
(* (FileTree.tsx:47).                                                      *)
THEOREM OpenFoldersAreListed == BrowserSpec => []OpenFolderListed
  BY BrowserInvariant, InvShows, PTL

(* A folder lists the branch on the page unless it outlived a change.      *)
THEOREM FoldersAreOfTheBranch == BrowserSpec => []FolderIsOfBranch
  BY BrowserInvariant, InvShows, PTL

(* A viewer with nothing left to highlight shows what it was last given    *)
(* (FileViewer.tsx:24).                                                    *)
THEOREM ViewersShowTheirFile == BrowserSpec => []ViewerShowsItsFile
  BY BrowserInvariant, InvShows, PTL
=============================================================================
