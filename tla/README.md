# Model-checking project for the kubernetes-dbaas documentation site

This repository is the documentation site of the kubernetes-dbaas operator. It is
built with Docusaurus and contains no operator logic. What it does at run time is
turn link and image values into URLs under the base path `/kubernetes-dbaas/`. It
also dispatches a location to the page that renders it and renders MDX documents
through a component-override context. These TLA+ modules model those behaviours
from the source under `src/`, and the TLC runs check them.

## Inventory of the system

| Component | Source | State it keeps | Operations |
|---|---|---|---|
| Site Configuration | `src/website/docusaurus.config.js` (authored), `src/website/.docusaurus/docusaurus.config.js` (generated snapshot) | none: two read-only values | read by `useDocusaurusContext().siteConfig` |
| Route Manifest | `src/website/.docusaurus/routes.js` | none: a route table | dispatch of `location.pathname` to a page (by the router, driven by the table's `exact` flags, order and nesting) |
| Base-path helper | bundle `src/assets/js/18891827.ba8fe910.js`, webpack modules 3919 and 4996 | none: reads `url` and `baseUrl` | `hasProtocol`, `isInternalUrl`, `useBaseUrlUtils().withBaseUrl(url, {forcePrependBaseUrl, absolute})`, `useBaseUrl` |
| MDX runtime | bundle, module 3905 | React context of component overrides, nested by `MDXProvider` | `useMDXComponents` (merge or function override), `MDXProvider`, `MDXCreateElement` (resolution by `parentName.type`, `type`, the defaults, `originalType`), `mdx` |
| Overview page | bundle, module 9228 | its metadata and table of contents (constants) | renders MDX content; calls `useBaseUrl` for two images; links to two doc pages |
| Homepage Feature Grid | `src/website/src/components/HomepageFeatures.js` | a constant list of six cards | render in order |
| Homepage Action Buttons | `src/website/src/components/HomepageButtons.js` | three constant external links | render |

**How the parts interact.** Every component reads the site configuration. The
base-path helper reads `url` and `baseUrl` from whichever copy the build loaded,
and that copy is the generated snapshot. Pages and theme components pass their
link and image values through the helper. The router takes the resulting
location and picks a page from the manifest. The Overview page is rendered by
the MDX runtime, and its elements are resolved through the override context
that the theme provides. There are no threads, timers or messages.

**What is hard.** There is no concurrency. The hard parts are these:

- the order of `withBaseUrl`'s early returns;
- the same value being resolved more than once;
- the edges of prefix tests: an empty string, a leading or missing slash, the
  base path without its final slash, and the zero-length scheme that
  `hasProtocol` accepts;
- the first-match order of the route table, where non-exact routes capture
  whole subtrees;
- the non-strict trailing slash;
- a generated snapshot that is stale with respect to the authored file;
- the MDX override chain, which has several layers.

`PROJECT.json` lists each of these as a hazard at its line.

**What makes each part correct:**

- Helper: external, protocol-relative and fragment values are returned
  unchanged. Relative values land under the base path, and re-resolving one
  never adds a second prefix.
- Manifest: every published path renders its own page, with or without a
  trailing slash. Every other location renders the not-found page.
- Configuration: the two copies resolve every value to the same URL, and every
  internal link they contain lands on a page.
- MDX runtime: an element renders what a layered lookup of the overrides
  picks. The lookup goes through the element's own overrides, then the
  enclosing providers from the nearest outwards, and stops at a function
  provider. A parent-qualified name bound at any of these layers wins. After
  that comes the nearest plain name, then the defaults, then the element's
  own type, so an unknown element never fails. A document's own override
  applies to its elements.

## Modules

| Module | Models | State / actions |
|---|---|---|
| `BaseUrl` | `hasProtocol`, `isInternalUrl` and `withBaseUrl` (`WithBaseUrl`, with its early returns in the code's order) | `input`, `path`, `calls`, `first`: one value, the options of each resolution applied so far, and the first result. `NewValue` is a call site handing over a value. `Resolve` is a call of `useBaseUrlUtils().withBaseUrl` with any options. |
| `Routes` | `routes.js` as `RouteTable` / `DocRoutes`; `Matches` and `Dispatch` give the router's use of `exact`, order and nesting | `location`, `page`. `Navigate` opens a location and renders its page. |
| `SiteConfig` | the authored and generated configurations (`Authored`, `Generated`), with the fields that become URLs | constants only |
| `ConfigSnapshot` | composes `SiteConfig` and `BaseUrl`: one call site resolved under each copy | `input`, `opts`, `underAuthored`, `underGenerated`; `Render` |
| `Site` | composes `SiteConfig`, `BaseUrl`, `Routes` and `MDXRuntime`: a visitor following the links of the page they are on (layout navbar and footer, landing buttons, Overview content and next link) | `config`, `location`, `page`, `lastLink`. `Open` opens a location directly. `Follow` clicks a link: a `to` target goes through `withBaseUrl`, `href` is used as written, a doc item goes to its permalink. The Overview's `a` elements are rendered by the component `MDXRuntime` resolves for `a` under `p` beneath the theme's provider (`DocAnchor`), which is the theme's `Link`. It applies `withBaseUrl` to a target that `isInternalUrl` accepts. The pathname before any `#` is dispatched; a target with a protocol leaves the site; a bare `#` stays. |
| `MDXRuntime` | module 3905: `UseMDXComponents` (u), `Merge` (the object spread), `Defaults` (d), `Resolve` and `KeyOf` (the lookup of `MDXCreateElement`), `Created` (mdx through `MDXCreateElement`); the way module 9228 calls it | `providers` (the `components` props of the enclosing `MDXProvider`s, as written), `ctx` (the values they provide), `doc`, `rendered`. A name bound to `undefined` has the value `Unset`, and `Supplies` is the truthiness test of the `||` chain. `Provide` is an `MDXProvider` render. `Leave` leaves its subtree. `RenderDocument` is the document function with a `components` prop, which creates the wrapper. `RenderBody` creates one of its body elements, each with no `components` prop. `EndDocument` ends the document. |
| `ComponentLookup` | the promise of spec 4.3 and section 7: a layered lookup over the overrides as written | `layers`, `rendered`. `EnterScope`, `LeaveScope`, `Render`. It is written from the specification, so its definitions are not in the map. `MDXRuntime` instantiates it with `layers <- providers` as `Promise`. |
| `MC_*` | model values and bounds for TLC | |

**Strings.** A string is a sequence of tokens. The tokens are `"/"`, `"#"`,
`":"` and path segments. A segment token never contains those three
characters, so `startsWith`, `replace(/^\//, "")` and `+` on strings become
prefix, `Tail` and `\o` on sequences. `WordTokens` are the segments made only of
`\w` characters. These are the segments `hasProtocol`'s `\w*` can consume:
`kubernetes-dbaas` is not one of them because it contains `-`. The abstraction
loses only prefix tests that end inside a segment. None of the code's prefix
tests does that, because the base path ends in `/`.

**Router semantics.** The router itself, react-router with the Docusaurus
`DocPage` layout, is not code of this repository. `Matches` and `Dispatch` are
therefore marked `spec_modelled` and follow the published behaviour:

- top-level routes are tried in order;
- an `exact` route matches its path with an optional trailing `/`;
- a non-exact route also matches every path below it;
- `*` matches everything;
- the docs layout renders its first matching nested route, or the not-found
  page when none matches.

Case-insensitive matching and URL decoding are not modelled.

## Runs

| Run | Checks | Bounds | Result |
|---|---|---|---|
| `base_url_resolution` (`MC_BaseUrl.cfg`) | `ExternalUntouched`, `RelativeUnderBase`, `ResolutionStable` | every string of at most 4 tokens over `/ # : img kubernetes-dbaas` (781 inputs), up to 3 resolutions with all 4 option combinations; the authored url and baseUrl | passes, 66,385 distinct states |
| `route_dispatch` (`MC_Routes.cfg`) | `PublishedPathRendersItsPage`, `UnknownRendersNotFound` | every pathname of at most 4 segments over `kubernetes-dbaas docs contributing ci overview nope`, plus every published doc path; each with and without a trailing `/` | passes, 3,147 distinct states |
| `site_links` (`MC_Site.cfg`) | `InternalLinksLand` | both configuration copies; opened from the landing page, every page of the manifest and an unknown path; every link of every reached page followed | passes, 128 distinct states |
| `mdx_lookup_refinement` (`MC_MDXRuntime.cfg`) | `ImplementsLookup`, the refinement: `Promise!Spec` as a property | up to 3 nested providers, each absent, one of 4 objects or a function; a document with any of those overrides; 6 kinds of body element from the Overview | passes, 16,835 distinct states |
| `mdx_document_override` (`MC_MDXRuntime_doc_override.cfg`) | `DocumentOverrideApplies` | as above | violation: a document rendered with `{a: C1}` renders its `a` inside `p` as plain `a` |
| `mdx_undefined_override` (`MC_MDXRuntime_unset.cfg`) | `ImplementsLookup` | as `mdx_lookup_refinement`, plus an override binding `a` to undefined (`Unset`) | violation: under `{a: C1}` and then `{a: undefined}`, `a` in `p` renders plain `a`, not C1 |
| `base_url_empty_scheme` (`MC_BaseUrl_empty_scheme.cfg`) | `EmptySchemeIsRelative` | as `base_url_resolution` | violation: `:` is resolved to `:`, with no base path |
| `base_url_force_absolute` (`MC_BaseUrl_absolute.cfg`) | `AbsoluteRequestHonoured` | as `base_url_resolution` | violation: `/` resolved with both options gives `/kubernetes-dbaas//`, with no origin |
| `route_bare_docs` (`MC_Routes_bare_docs.cfg`) | `OverviewAtBareDocs` | as above | violation: `/kubernetes-dbaas/docs` renders not-found |
| `config_snapshot` (`MC_ConfigSnapshot.cfg`) | `SnapshotResolvesLikeAuthored` | the footer targets, the navbar logo and the Overview's image paths, under all option combinations | violation: absolute output under the snapshot repeats `/kubernetes-dbaas` |

**Why the bounds are enough.**

- `BaseUrl`: four tokens reach every branch of `withBaseUrl`. They cover the
  empty string, `#…`, a scheme (`img:`), `:` alone, `//…`, the base path
  itself, a value already under the base, a rooted value, a bare relative
  value, and the base without its slash. Three resolutions are enough to
  resolve relatively, then absolutely, then again.
- `Routes`: four segments reach a page at depth two (`contributing/ci`) and a
  path below it. They also reach the bare docs path, prefixes of pages that are
  not pages, and paths outside the base path. The bookmarks add every
  published page.
- `MDXRuntime`: the overrides are chosen so that they meet. There is a plain
  `a` and a qualified `p.a`. One object binds both `a` and `inlineCode`, and
  its `inlineCode` replaces the default `code`. There is a wrapper. There is
  a function whose result drops what lies above it. A function override
  stands for the object it returns. The model gives each function one fixed
  result, so it does not cover a function whose result depends on the
  context it is given. With three nested
  providers, an outer qualified binding lies under an inner plain one, and an
  object provider can sit above or below a function provider. The link inside
  a paragraph (`a` in `p`) therefore meets a qualified binding, a plain one
  or both. `inlineCode` meets an override or the default, and `img` and `li`
  are named by no override.

The properties of the passing runs each have a mutant in `PROJECT.json`: a
plausible fault of the mapped code under which TLC finds the property violated.
For example, one mutant tests `forcePrependBaseUrl` first, another drops the
already-prefixed test, another keeps the leading slash when the base is put
in front, another makes matching strict, and another drops `exact` on
the landing route. `Routes` states no type invariant. Its variables are set
only from `Locations` and `Dispatch`, and the dispatch invariants already
imply that a page is never `Blank`. For the refinement, the
mutant spreads the context over the override instead of the reverse. Two other faults
were also tried by hand, and each breaks the refinement as well: treating a
function override as an object, and skipping the qualified name.

**Findings.**

1. The specification says the Overview is also reachable at
   `/kubernetes-dbaas/docs`. The manifest has no route there: the Overview's
   metadata says `isDocsHomePage: false`, so the docs layout renders
   not-found.
2. The generated snapshot's `url` already contains the base path, while the
   authored file's does not. Absolute URLs resolved from the snapshot, which is
   the copy the bundle reads, contain `/kubernetes-dbaas/kubernetes-dbaas/`.
3. Spec 4.3 lets a document's components be overridden per document, with
   the explicit override consulted first. The compiled document passes its
   `components` prop only to the wrapper. Its body elements resolve through
   the provider context alone, so the override never reaches them.
4. Spec 4.3 says absolute output carries the site origin. Under
   `forcePrependBaseUrl` the helper returns before its absolute branch, so
   asking for both gives a path without the origin. The specification does
   not say what the combination should give, and no call site passes both.
5. Spec 4.3 puts a component inherited from context before the default. An
   inner provider that binds a name to `undefined` defeats that, as
   `{a: props.link}` does when no link is passed. The spread keeps the key,
   and `MDXCreateElement`'s `||` chain then falls through to the default and
   to the element's own type. The enclosing provider's component is lost.
   `ComponentLookup` consults only layers that supply a component, so the
   refinement fails.

6. Spec 4.3 calls a value external when it "starts with scheme:". The
   `\w*` of `hasProtocol` also accepts an empty scheme, so `:` and `:img`
   are returned without the base path. `ExternalUntouched` and
   `RelativeUnderBase` classify inputs by the code's own pattern, so they
   cannot catch this. `EmptySchemeIsRelative` states the specification's
   reading, and TLC finds it violated.

The refinement also shows something about precedence. The code's lookup is
layered only in a qualified-first sense. A `p.a` bound by an outer provider
beats an `a` bound by an inner one, because all layers are merged into one
object before the qualified name is tried. `ComponentLookup` states that
order, and the refinement holds.

**Fairness.** None is assumed, and no liveness property is checked. A visitor may stop at any page. A React render does always finish a document it
starts. Under fairness on `EndDocument` or `Leave`, though, "a document ends"
would hold only because the fairness says so, and would show nothing about
the code.

**Deadlock.** None is possible. `NewValue`, `Navigate`, `Render` and `Open`
are always enabled. In `MDXRuntime`, either `RenderDocument` or `EndDocument`
is always enabled.

## Not modelled, and why

- The feature grid and the action buttons are constant lists with no
  operation. `HomepageFeatures.js` maps six literal cards to markup. It has no
  branch, no state and no link, and the landing page that places it is not
  under `src/`. A model would only restate lines 5-62, and its check would be
  a comparison of constants. Spec property 7, six cards in the authored
  order, is therefore left to reading. `Site` follows the buttons as external
  links of the landing page.
- Syntax themes, colour mode, the copyright year, favicon and titles: no URL
  or route depends on them.
- The external router and theme components: they appear only through the
  behaviour the manifest relies on.
- The presets (`sidebarPath`, `editUrl`, `customCss`) and the prism themes
  take up most of the unmapped lines of both configuration copies. They are
  build inputs and colour tables. `editUrl` becomes only the external "Edit
  this page" link of each doc, which no property of the site depends on.
- `onBrokenMarkdownLinks: 'warn'` governs links to Markdown files that
  cannot be resolved. The Overview's links are URL links, which the build
  checks under `onBrokenLinks: 'throw'`, and `InternalLinksLand` checks
  them.

With these exceptions, every part of the repository that changes state or
branches is modelled. The rest is literal data, so the statuses in
`PROJECT.json` are final: Site Configuration, Overview page and Action
Buttons are `partly` modelled, and Feature Grid is `not_modelled`.

## Plan

Sitting 1 built `BaseUrl`, `Routes`, `SiteConfig`, `ConfigSnapshot` and
`Site`. Sitting 2 added `MDXRuntime` and its abstract `ComponentLookup`, with
the refinement. It also composed the runtime into `Site` and added the
force-and-absolute case of the helper.
Sitting 3 added two things. The first is the `undefined` override of the MDX
runtime (finding 5). The second is `isInternalUrl`, the test by which the
theme's Link decides whether to apply `withBaseUrl` in `Site`.

Sitting 4 made no change to what is checked. It recorded why the remaining
parts stay as they are (see "Not modelled").

Possible extensions, none of which this repository needs today:

1. An abstract route table, location to page with the not-found fallback,
   refined by `Routes`. It would restate the two dispatch invariants as a
   refinement. It adds value only if a second router, for example one with
   versioned docs, is modelled against the same promise.
2. The theme's `MDXComponents` beyond `a`, such as code blocks, headings with
   anchors and images. They are external code and are modelled only where a
   property of this site depends on them.
