------------------------------ MODULE BaseUrl ------------------------------
(***************************************************************************)
(* The base-path helper of the compiled documentation bundle               *)
(* (src/assets/js/18891827.ba8fe910.js, webpack modules 3919 and 4996):    *)
(* hasProtocol, the withBaseUrl closure returned by useBaseUrlUtils, and   *)
(* useBaseUrl.                                                             *)
(*                                                                         *)
(* A string is a sequence of tokens: the one-character tokens "/", "#",    *)
(* ":" and path-segment tokens.  Segment tokens never contain "/", "#" or  *)
(* ":", so startsWith, replace(/^\//,"") and "+" on the string are prefix  *)
(* test, Tail and \o on the token sequence.  WordTokens are the segments   *)
(* made only of \w characters, which the \w* of hasProtocol can consume.   *)
(*                                                                         *)
(* A value may be resolved more than once before it is rendered (a page    *)
(* calls useBaseUrl and hands the result to a component that calls         *)
(* withBaseUrl again); the state is one such value and the resolutions     *)
(* applied to it so far.                                                   *)
(***************************************************************************)
EXTENDS Naturals, Sequences, SequencesExt

CONSTANTS
  SiteUrl,      \* siteConfig.url, the origin prefixed for absolute output
  SiteBaseUrl,  \* siteConfig.baseUrl, ending in "/"
  WordTokens,   \* segment tokens made only of \w characters
  Inputs,       \* strings handed to withBaseUrl at call sites
  MaxCalls      \* bound on the resolutions applied to one value

ASSUME SiteBaseUrl # <<>> /\ Last(SiteBaseUrl) = "/"
ASSUME MaxCalls \in Nat \ {0}

VARIABLES
  input,  \* the value as written at the call site
  path,   \* the value after the resolutions applied so far
  calls,  \* the options of each resolution, in order
  first   \* the result of the first resolution

vars == <<input, path, calls, first>>

\* The options object of withBaseUrl(url, options); absent keys are false.
Options == [forcePrependBaseUrl : BOOLEAN, absolute : BOOLEAN]

StartsWith(s, p) == IsPrefix(p, s)

\* hasProtocol: /^(\w*:|\/\/)/.test(url)
HasProtocol(s) ==
  \/ \E k \in 0..(Len(s) - 1) :
        /\ \A i \in 1..k : s[i] \in WordTokens
        /\ s[k + 1] = ":"
  \/ StartsWith(s, <<"/", "/">>)

\* isInternalUrl: e !== undefined && !hasProtocol(e); the empty sequence
\* stands for the empty string, a defined value.
IsInternalUrl(s) == ~HasProtocol(s)

\* Mutant: the leading slash kept when the base path is put in front.
StripNoSlash(s) == s

\* url.replace(/^\//, ""): drops one leading slash
StripLeadingSlash(s) == IF StartsWith(s, <<"/">>) THEN Tail(s) ELSE s

\* Plausible faults of the helper, used to show each property can fail:
\* any rooted path taken as already under the base path,
WithBaseUrlRootedAsBase(siteUrl, baseUrl, url, opts) ==
  IF url = <<>> \/ StartsWith(url, <<"#">>) \/ HasProtocol(url) THEN url
  ELSE IF opts.forcePrependBaseUrl THEN baseUrl \o url
  ELSE LET c == IF StartsWith(url, <<"/">>) THEN url
                ELSE baseUrl \o StripLeadingSlash(url)
       IN IF opts.absolute THEN siteUrl \o c ELSE c

\* the already-prefixed test dropped,
WithBaseUrlAlwaysPrefix(siteUrl, baseUrl, url, opts) ==
  IF url = <<>> \/ StartsWith(url, <<"#">>) \/ HasProtocol(url) THEN url
  ELSE IF opts.forcePrependBaseUrl THEN baseUrl \o url
  ELSE LET c == baseUrl \o StripLeadingSlash(url)
       IN IF opts.absolute THEN siteUrl \o c ELSE c

\* forcePrependBaseUrl tested before the fragment and protocol returns.
WithBaseUrlForceFirst(siteUrl, baseUrl, url, opts) ==
  IF url = <<>> THEN url
  ELSE IF opts.forcePrependBaseUrl THEN baseUrl \o url
  ELSE IF StartsWith(url, <<"#">>) \/ HasProtocol(url) THEN url
  ELSE LET c == IF StartsWith(url, baseUrl) THEN url
                ELSE baseUrl \o StripLeadingSlash(url)
       IN IF opts.absolute THEN siteUrl \o c ELSE c

(***************************************************************************)
(* The function inside withBaseUrl(siteUrl, baseUrl, url, options), with  *)
(* its early returns in the order the code takes them.  The empty string   *)
(* is falsy and is returned as it is.                                      *)
(***************************************************************************)
WithBaseUrl(siteUrl, baseUrl, url, opts) ==
  IF url = <<>> THEN url
  ELSE IF StartsWith(url, <<"#">>) THEN url
  ELSE IF HasProtocol(url) THEN url
  ELSE IF opts.forcePrependBaseUrl THEN baseUrl \o url
  ELSE LET c == IF StartsWith(url, baseUrl) THEN url
                ELSE baseUrl \o StripLeadingSlash(url)
       IN IF opts.absolute THEN siteUrl \o c ELSE c

Init ==
  /\ input \in Inputs
  /\ path = input
  /\ calls = <<>>
  /\ first = input

\* A call site hands a new value to the helper.
NewValue ==
  /\ \E u \in Inputs :
        /\ input' = u
        /\ path' = u
        /\ first' = u
  /\ calls' = <<>>

\* useBaseUrlUtils().withBaseUrl(path, opts), reading baseUrl and url from
\* the site configuration; useBaseUrl(path) is the call with no options.
Resolve ==
  /\ Len(calls) < MaxCalls
  /\ \E o \in Options :
        /\ path' = WithBaseUrl(SiteUrl, SiteBaseUrl, path, o)
        /\ calls' = Append(calls, o)
        /\ first' = IF calls = <<>> THEN path' ELSE first
  /\ UNCHANGED input

Next == NewValue \/ Resolve

Spec == Init /\ [][Next]_vars

-----------------------------------------------------------------------------
(* Properties.  The classification of inputs below is written from the     *)
(* promise (a scheme made of word characters and a colon, a leading "//",  *)
(* a leading "#"), not from the helper's definitions.                      *)

IsExternalOrFragment(s) ==
  \/ s = <<>>
  \/ s[1] = "#"
  \/ \E k \in 0..(Len(s) - 1) :
        SubSeq(s, 1, k) \in Seq(WordTokens) /\ s[k + 1] = ":"
  \/ Len(s) >= 2 /\ s[1] = "/" /\ s[2] = "/"

ResolvedOnce == calls # <<>>

ForcedNever == \A i \in DOMAIN calls : ~calls[i].forcePrependBaseUrl

(* An external URL, a protocol-relative URL or a fragment link is returned *)
(* unchanged by every resolution, with any options, however many times it  *)
(* is resolved (withBaseUrl's early returns come before forcePrepend).     *)
ExternalUntouched ==
  IsExternalOrFragment(input) => path = input

(* A relative path, once resolved, lies under the base path: it starts     *)
(* with baseUrl, or with url + baseUrl when absolute output was asked.     *)
RelativeUnderBase ==
  ResolvedOnce /\ ~IsExternalOrFragment(input) =>
    \/ StartsWith(path, SiteBaseUrl)
    \/ StartsWith(path, SiteUrl \o SiteBaseUrl)

(* Resolving again never prefixes the base path a second time: without     *)
(* forcePrependBaseUrl, every later resolution of a value either leaves    *)
(* the first result alone or only adds the origin to it.                   *)
ResolutionStable ==
  ResolvedOnce /\ ForcedNever => path \in {first, SiteUrl \o first}

(* Spec 4.3: the helper "further prefixes it with the full site origin URL *)
(* when absolute output is requested".  A relative value whose last        *)
(* resolution asked for absolute output starts with the site url.          *)
AbsoluteRequestHonoured ==
  /\ ResolvedOnce
  /\ Last(calls).absolute
  /\ ~IsExternalOrFragment(input)
  => StartsWith(path, SiteUrl)
(* Spec 4.3 calls a value external when it "starts with scheme:".  A URL   *)
(* scheme has at least one character, so a value that starts with ":"      *)
(* names no scheme.  Once resolved, it lies under the base path like any   *)
(* other relative value.  hasProtocol's \w* also accepts the empty scheme. *)
EmptySchemeIsRelative ==
  /\ ResolvedOnce
  /\ input # <<>>
  /\ input[1] = ":"
  => \/ StartsWith(path, SiteBaseUrl)
     \/ StartsWith(path, SiteUrl \o SiteBaseUrl)
=============================================================================
