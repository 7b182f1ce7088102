------------------------------ MODULE Routes ------------------------------
(***************************************************************************)
(* The route manifest (src/website/.docusaurus/routes.js) and how it       *)
(* dispatches a location to a page.  The manifest is a table of three      *)
(* top-level routes tried in order: the landing page (exact), the docs     *)
(* layout (not exact) whose nested routes are the documentation pages      *)
(* (exact), and the wildcard.  Matching follows the flags the manifest     *)
(* sets: a path is matched without case or strictness options, so a        *)
(* trailing "/" is optional, an exact route matches only its own path and  *)
(* a non-exact one also every path below it.  The docs layout renders the  *)
(* first nested route that matches and the not-found page when none does.  *)
(*                                                                         *)
(* A location pathname is a sequence of "/" and segment tokens.            *)
(***************************************************************************)
EXTENDS Naturals, Sequences, SequencesExt

CONSTANTS
  Segments,   \* path segments a visitor may type or follow
  MaxDepth,   \* bound on the number of segments of a location
  Bookmarks   \* further segment lists a visitor opens directly

VARIABLES
  location,   \* window.location.pathname
  page        \* the page the router renders for it

vars == <<location, page>>

\* "/" s1 "/" s2 ... "/" sn, and "/" for no segment
PathOf(segs) ==
  IF segs = <<>> THEN <<"/">>
  ELSE FlattenSeq([i \in DOMAIN segs |-> <<"/", segs[i]>>])

SiteSegment == "kubernetes-dbaas"

Home == [kind |-> "home", doc |-> <<>>]
NotFound == [kind |-> "notFound", doc |-> <<>>]
Blank == [kind |-> "blank", doc |-> <<>>]
DocPage(id) == [kind |-> "doc", doc |-> id]

\* The documentation pages of the manifest, in its order, by the segments
\* that follow /kubernetes-dbaas/docs/.
DocIds ==
  << <<"contributing", "architecture">>, <<"contributing", "branching-standard">>,
     <<"contributing", "ci">>, <<"contributing", "how-to-contribute">>,
     <<"contributing", "testing">>, <<"dbms-configuration", "operations">>,
     <<"dbms-configuration", "prerequisites">>, <<"dbms-configuration", "samples">>,
     <<"legals">>, <<"operator-configuration", "cli-arguments">>,
     <<"operator-configuration", "credential-rotation">>,
     <<"operator-configuration", "databaseclasses">>,
     <<"operator-configuration", "logging-monitoring">>,
     <<"operator-configuration", "main-configuration">>,
     <<"operator-configuration", "prerequisites">>,
     <<"operator-configuration", "tips-and-tricks">>,
     <<"operator-deployment", "development-deployment">>,
     <<"operator-deployment", "helm">>, <<"operator-deployment", "vanilla-deployment">>,
     <<"overview">>, <<"usage">> >>

DocRoutes ==
  [i \in DOMAIN DocIds |->
     [path |-> PathOf(<<SiteSegment, "docs">> \o DocIds[i]), exact |-> TRUE,
      routes |-> <<>>, page |-> DocPage(DocIds[i])]]

\* Mutant of the manifest: the landing-page route without exact: true.
RouteTableRootNotExact ==
  << [path |-> PathOf(<<SiteSegment>>) \o <<"/">>, exact |-> FALSE,
      routes |-> <<>>, page |-> Home],
     [path |-> PathOf(<<SiteSegment, "docs">>), exact |-> FALSE,
      routes |-> DocRoutes, page |-> NotFound],
     [path |-> <<"*">>, exact |-> FALSE, routes |-> <<>>, page |-> NotFound] >>

\* The exported route array; the docs layout's own page is the not-found
\* page it renders when no nested route matches.
RouteTable ==
  << [path |-> PathOf(<<SiteSegment>>) \o <<"/">>, exact |-> TRUE,
      routes |-> <<>>, page |-> Home],
     [path |-> PathOf(<<SiteSegment, "docs">>), exact |-> FALSE,
      routes |-> DocRoutes, page |-> NotFound],
     [path |-> <<"*">>, exact |-> FALSE, routes |-> <<>>, page |-> NotFound] >>

TrimTrailingSlash(p) ==
  IF Len(p) > 1 /\ Last(p) = "/" THEN Front(p) ELSE p

\* Mutant of matching: strict, a trailing "/" no longer optional.
MatchesStrict(loc, route) ==
  \/ route.path = <<"*">>
  \/ route.exact /\ loc = route.path
  \/ ~route.exact /\ (loc = route.path \/ IsPrefix(route.path \o <<"/">>, loc))

\* Whether a route's path matches the location.
Matches(loc, route) ==
  \/ route.path = <<"*">>
  \/ LET p == TrimTrailingSlash(route.path)
     IN \/ route.exact /\ loc \in {p, p \o <<"/">>}
        \/ ~route.exact /\ (loc = p \/ IsPrefix(p \o <<"/">>, loc))

\* The first matching top-level route renders; a layout renders its first
\* matching nested route, or its own page when none matches.  With no
\* match at all nothing is rendered.
Dispatch(loc) ==
  LET i == SelectInSeq(RouteTable, LAMBDA r : Matches(loc, r))
  IN IF i = 0 THEN Blank
     ELSE LET r == RouteTable[i]
              j == SelectInSeq(r.routes, LAMBDA c : Matches(loc, c))
          IN IF r.routes = <<>> \/ j = 0 THEN r.page ELSE r.routes[j].page

Locations ==
  LET typed == SeqOf(Segments, MaxDepth) \cup Bookmarks
  IN {PathOf(s) : s \in typed} \cup {PathOf(s) \o <<"/">> : s \in typed \ {<<>>}}

\* The pages of the site; Blank, what the router shows when no route
\* matches, is not one of them.
Pages == {Home, NotFound} \cup {DocPage(d) : d \in Range(DocIds)}

Init ==
  /\ location \in Locations
  /\ page = Dispatch(location)

\* The visitor opens a location (typed, followed or from history) and the
\* router renders the page for it.
Navigate ==
  \E loc \in Locations :
     /\ location' = loc
     /\ page' = Dispatch(loc)

Next == Navigate

Spec == Init /\ [][Next]_vars

-----------------------------------------------------------------------------
(* Properties, against the published route table of the specification:    *)
(* the landing page at /kubernetes-dbaas/, and each documentation page at   *)
(* /kubernetes-dbaas/docs/<id>.                                             *)

PublishedDocs ==
  { <<"overview">>, <<"usage">>, <<"legals">>,
    <<"dbms-configuration", "prerequisites">>, <<"dbms-configuration", "operations">>,
    <<"dbms-configuration", "samples">>,
    <<"operator-configuration", "prerequisites">>,
    <<"operator-configuration", "main-configuration">>,
    <<"operator-configuration", "cli-arguments">>,
    <<"operator-configuration", "databaseclasses">>,
    <<"operator-configuration", "credential-rotation">>,
    <<"operator-configuration", "logging-monitoring">>,
    <<"operator-configuration", "tips-and-tricks">>,
    <<"operator-deployment", "vanilla-deployment">>, <<"operator-deployment", "helm">>,
    <<"operator-deployment", "development-deployment">>,
    <<"contributing", "how-to-contribute">>, <<"contributing", "architecture">>,
    <<"contributing", "branching-standard">>, <<"contributing", "ci">>,
    <<"contributing", "testing">> }

\* A location names a path when it is that path with or without a final "/".
Names(loc, p) == loc \in {p, p \o <<"/">>}

PublishedPath(d) == <<"/", SiteSegment, "/", "docs">> \o
                    FlattenSeq([i \in DOMAIN d |-> <<"/", d[i]>>])

LandingPath == <<"/", SiteSegment, "/">>

(* Every published documentation path, with or without a trailing slash,   *)
(* renders its own page, and the landing path renders the landing page.    *)
PublishedPathRendersItsPage ==
  /\ \A d \in PublishedDocs :
        Names(location, PublishedPath(d)) => page = DocPage(d)
  /\ Names(location, Front(LandingPath)) => page = Home

(* A location that names no published page renders the not-found page:     *)
(* never the landing page, a documentation page or nothing at all.         *)
UnknownRendersNotFound ==
  /\ ~Names(location, Front(LandingPath))
  /\ \A d \in PublishedDocs : ~Names(location, PublishedPath(d))
  => page = NotFound

(* The overview is also reachable at the bare docs path                    *)
(* /kubernetes-dbaas/docs (specification, published route table).          *)
OverviewAtBareDocs ==
  Names(location, <<"/", SiteSegment, "/", "docs">>) => page = DocPage(<<"overview">>)
=============================================================================
