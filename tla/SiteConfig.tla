----------------------------- MODULE SiteConfig -----------------------------
(***************************************************************************)
(* The two copies of the site configuration: the authored file             *)
(* (src/website/docusaurus.config.js) and the snapshot the build generated *)
(* from it (src/website/.docusaurus/docusaurus.config.js), which is what   *)
(* the bundle's useDocusaurusContext().siteConfig returns.  Both are read- *)
(* only values; only the fields that reach a URL are kept.  Strings are    *)
(* token sequences as in BaseUrl; an external target keeps its scheme and  *)
(* host and its path segments.                                             *)
(***************************************************************************)
EXTENDS Sequences, SequencesExt

\* "/s1/s2/.../sn"
Rooted(segs) == FlattenSeq([i \in DOMAIN segs |-> <<"/", segs[i]>>])

\* "https://host/s1/.../sn"
Https(host, segs) == <<"https", ":", "/", "/", host>> \o Rooted(segs)

Repo(segs) == Https("github.com", <<"bedag", "kubernetes-dbaas">> \o segs)

\* A navbar item or a footer item: kind "doc" (docId), "to" or "href".
Item(kind, target) == [kind |-> kind, target |-> target]

AuthoredFooter ==
  << Item("to", Rooted(<<"docs", "overview">>)),
     Item("to", Https("pkg.go.dev", <<"github.com", "bedag", "kubernetes-dbaas">>)),
     Item("to", Rooted(<<"docs", "contributing", "how-to-contribute">>)),
     Item("to", Rooted(<<"docs", "legals">>)),
     Item("href", Repo(<<>>)), Item("href", Repo(<<"issues">>)),
     Item("href", Https("hub.docker.com", <<"r", "bedag", "kubernetes-dbaas">>)),
     Item("href", <<"#">>),
     Item("href", Https("www.bedag.ch", <<>>)),
     Item("href", Https("www.linkedin.com", <<"company", "bedag">>)),
     Item("href", Https("www.instagram.com", <<"bedaginformatik">>)) >>

Authored ==
  [url |-> Https("criscola.github.io", <<>>),
   baseUrl |-> <<"/", "kubernetes-dbaas", "/">>,
   trailingSlash |-> FALSE,
   onBrokenLinks |-> "throw",
   onBrokenMarkdownLinks |-> "warn",
   logo |-> <<"img", "/", "logo.svg">>,
   navbar |-> << Item("doc", <<"overview">>), Item("href", Repo(<<>>)) >>,
   footer |-> AuthoredFooter]

GeneratedFooter ==
  << Item("to", Rooted(<<"docs", "overview">>)),
     Item("to", Https("pkg.go.dev", <<"github.com", "bedag", "kubernetes-dbaas">>)),
     Item("to", Rooted(<<"docs", "contributing", "how-to-contribute">>)),
     Item("to", Rooted(<<"docs", "legals">>)),
     Item("href", Repo(<<>>)), Item("href", Repo(<<"issues">>)),
     Item("href", Https("hub.docker.com", <<"r", "bedag", "kubernetes-dbaas">>)),
     Item("href", <<"#">>),
     Item("href", Https("www.bedag.ch", <<>>)),
     Item("href", Https("www.linkedin.com", <<"company", "bedag">>)),
     Item("href", Https("www.instagram.com", <<"bedaginformatik">>)) >>

Generated ==
  [url |-> Https("criscola.github.io", <<"kubernetes-dbaas">>),
   baseUrl |-> <<"/", "kubernetes-dbaas", "/">>,
   trailingSlash |-> FALSE,
   onBrokenLinks |-> "throw",
   onBrokenMarkdownLinks |-> "warn",
   logo |-> <<"img", "/", "logo.svg">>,
   navbar |-> << Item("doc", <<"overview">>), Item("href", Repo(<<>>)) >>,
   footer |-> GeneratedFooter]

\* Part of the string abstraction, not of the configuration: which of the
\* segment tokens above are made only of \w characters, for hasProtocol.
ConfigWordTokens == {"https", "docs", "img", "legals", "overview", "bedag", "r",
                     "issues", "company", "bedaginformatik"}
=============================================================================
