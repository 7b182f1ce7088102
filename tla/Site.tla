-------------------------------- MODULE Site --------------------------------
(***************************************************************************)
(* A visitor moving through the site by its own links.  Every page shows   *)
(* the layout's links (navbar and footer of the site configuration); the   *)
(* landing page adds the repository buttons and the Overview page its      *)
(* content links and its next link.  Following a link resolves its target  *)
(* the way the theme's links do (a "to" target goes through withBaseUrl,    *)
(* an "href" target is used as written, a link written in a document is    *)
(* rendered by the component the MDX runtime resolves for it),             *)
(* a doc item goes to the doc's permalink), then the router dispatches the *)
(* pathname, the part before any "#".  A target with a protocol leaves the *)
(* site and a bare fragment stays on the page.  The helper's operators are *)
(* applied to the loaded configuration's url and baseUrl.                  *)
(***************************************************************************)
EXTENDS SiteConfig

CONSTANTS
  Configs,     \* the configurations the build may have loaded
  Bookmarks    \* locations a visitor opens directly

VARIABLES
  config,      \* the configuration the build loaded
  location,    \* window.location.pathname, or the external URL left for
  page,        \* the page rendered, or Away once the visitor left the site
  lastLink     \* the link followed in the last step, or NoLink

vars == <<config, location, page, lastLink>>

Helper == INSTANCE BaseUrl
            WITH SiteUrl <- Authored.url, SiteBaseUrl <- Authored.baseUrl,
                 WordTokens <- ConfigWordTokens, Inputs <- {}, MaxCalls <- 1,
                 input <- location, path <- location, calls <- <<>>, first <- location

Router == INSTANCE Routes WITH Segments <- {}, MaxDepth <- 0, Bookmarks <- {}

\* The theme's link component and the components object its MDXProvider
\* hands to every document: "a" is rendered by the theme's Link.
ThemeLink == "Link"
ThemeComponents == [kind |-> "object", val |-> ("a" :> ThemeLink)]

Mdx == INSTANCE MDXRuntime
         WITH Objects <- {ThemeComponents.val}, FnResults <- {}, Elements <- {},
              NoParent <- "none", Absent <- [kind |-> "absent", val |-> <<>>],
              NoDoc <- "nodoc",
              NoElement <- "noelement", Fragment <- "Fragment", Unset <- "unset", MaxDepth <- 1,
              providers <- <<ThemeComponents>>, ctx <- <<>>, doc <- "nodoc",
              rendered <- "noelement"

Away == [kind |-> "away", doc |-> <<>>]
NoLink == Item("none", <<>>)
NoOptions == [forcePrependBaseUrl |-> FALSE, absolute |-> FALSE]

\* Links the Overview document renders (module 9228): its kt("a", {parentName:
\* "p", href}) elements, two to other documents written without the base
\* path and the badges to external hosts (one stands for all), and the next
\* link of its metadata, which the theme renders as a Link "to".
OverviewLinks ==
  { Item("a", Rooted(<<"docs", "dbms-configuration", "prerequisites">>)
                 \o <<"#", "supported-dbms">>),
    Item("a", Rooted(<<"docs", "contributing", "how-to-contribute">>)),
    Item("a", Https("opensource.org", <<"licenses", "Apache-2.0">>)),
    Item("to", Rooted(<<"kubernetes-dbaas", "docs", "dbms-configuration",
                        "prerequisites">>)) }

\* The three buttons of HeaderButtons.
ButtonLinks == { Item("href", Repo(<<>>)), Item("href", Repo(<<"subscription">>)),
                 Item("href", Repo(<<"fork">>)) }

\* The permalink of a doc item's docId, from the doc's metadata.
Permalink(docId) == Rooted(<<"kubernetes-dbaas", "docs">> \o docId)

\* The navbar logo links to useBaseUrl(logo.href || "/").
LayoutLinks ==
  {Item("to", <<"/">>)} \cup Range(config.navbar) \cup Range(config.footer)

LinksOn(p) ==
  LayoutLinks
  \cup (IF p = Router!Home THEN ButtonLinks ELSE {})
  \cup (IF p = Router!DocPage(<<"overview">>) THEN OverviewLinks ELSE {})

\* The URL the theme's Link sends the browser to: a target isInternalUrl
\* accepts goes through withBaseUrl, another is used as written.
LinkTarget(u) ==
  IF Helper!IsInternalUrl(u)
  THEN Helper!WithBaseUrl(config.url, config.baseUrl, u, NoOptions)
  ELSE u

\* The component a document's <a parentName="p"> element is rendered by,
\* under the theme's provider.
DocAnchor == Mdx!Resolve(Mdx!UseMDXComponents(ThemeComponents, <<>>), "a", "p")

\* The URL a link sends the browser to.
Target(l) ==
  CASE l.kind = "to"   -> LinkTarget(l.target)
    [] l.kind = "doc"  -> Permalink(l.target)
    [] l.kind = "href" -> l.target
    [] l.kind = "a"    -> IF DocAnchor = ThemeLink THEN LinkTarget(l.target)
                          ELSE l.target

\* The pathname of a same-site URL: everything before the first "#".
Pathname(u) ==
  LET i == SelectInSeq(u, LAMBDA t : t = "#")
  IN IF i = 0 THEN u ELSE SubSeq(u, 1, i - 1)

Init ==
  /\ config \in Configs
  /\ location \in Bookmarks
  /\ page = Router!Dispatch(location)
  /\ lastLink = NoLink

\* The visitor opens a location directly, from outside or from the site.
Open ==
  \E loc \in Bookmarks :
     /\ location' = loc
     /\ page' = Router!Dispatch(loc)
     /\ lastLink' = NoLink
     /\ UNCHANGED config

\* The visitor clicks a link of the page rendered.
Follow ==
  /\ page # Away
  /\ \E l \in LinksOn(page) :
       LET u == Target(l) IN
       /\ lastLink' = l
       /\ UNCHANGED config
       /\ CASE Helper!HasProtocol(u)  -> location' = u /\ page' = Away
            [] Pathname(u) = <<>>     -> UNCHANGED <<location, page>>
            [] OTHER -> /\ location' = Pathname(u)
                        /\ page' = Router!Dispatch(Pathname(u))

Next == Open \/ Follow

Spec == Init /\ [][Next]_vars

-----------------------------------------------------------------------------
IsInternal(l) ==
  /\ l # NoLink
  /\ Helper!IsInternalUrl(Target(l))
  /\ Pathname(Target(l)) # <<>>

(* Every internal link of every page lands on a published page: a link     *)
(* that led to the not-found page would fail a build configured with       *)
(* onBrokenLinks: 'throw', so none may exist.                              *)
InternalLinksLand ==
  IsInternal(lastLink) =>
     page \in Router!Pages \ {Router!NotFound}
=============================================================================
