--------------------------- MODULE ConfigSnapshot ---------------------------
(***************************************************************************)
(* The same call of withBaseUrl made under each copy of the site           *)
(* configuration: the authored file, which states the intent, and the      *)
(* generated snapshot, which the bundle actually reads.  The state is one  *)
(* call site's value and options and what it resolves to under each copy.  *)
(***************************************************************************)
EXTENDS SiteConfig

CONSTANTS
  Inputs       \* strings handed to withBaseUrl at call sites

VARIABLES
  input,           \* the value as written at the call site
  opts,            \* the options of the call
  underAuthored,   \* the result under the authored configuration
  underGenerated   \* the result under the generated snapshot

vars == <<input, opts, underAuthored, underGenerated>>

\* The helper itself; only its operators are used here.
Helper == INSTANCE BaseUrl
            WITH SiteUrl <- Authored.url, SiteBaseUrl <- Authored.baseUrl,
                 WordTokens <- ConfigWordTokens, Inputs <- Inputs, MaxCalls <- 1,
                 path <- underAuthored, calls <- <<>>, first <- <<>>

Resolved(cfg, u, o) == Helper!WithBaseUrl(cfg.url, cfg.baseUrl, u, o)

\* A call site resolves its value: useBaseUrlUtils() reads url and baseUrl
\* from whichever configuration the build loaded.
Render(u, o) ==
  /\ input' = u
  /\ opts' = o
  /\ underAuthored' = Resolved(Authored, u, o)
  /\ underGenerated' = Resolved(Generated, u, o)

Init ==
  \E u \in Inputs, o \in Helper!Options :
     /\ input = u
     /\ opts = o
     /\ underAuthored = Resolved(Authored, u, o)
     /\ underGenerated = Resolved(Generated, u, o)

Next == \E u \in Inputs, o \in Helper!Options : Render(u, o)

Spec == Init /\ [][Next]_vars

-----------------------------------------------------------------------------
(* The generated snapshot is derived from the authored file and must       *)
(* resolve to equivalent content (specification, Site Configuration): a    *)
(* value resolves to the same URL under either copy.                       *)
SnapshotResolvesLikeAuthored == underGenerated = underAuthored
=============================================================================
