---------------------------- MODULE MC_BaseUrl ----------------------------
(* The helper under the authored site configuration: url                   *)
(* https://criscola.github.io and baseUrl /kubernetes-dbaas/.  Inputs are   *)
(* every string of at most four tokens over "/", "#", ":", a word segment   *)
(* and the base segment, which covers empty, fragment, scheme, "//",       *)
(* already-prefixed, rooted and bare relative paths.                        *)
EXTENDS BaseUrl

MC_SiteUrl == <<"https", ":", "/", "/", "criscola.github.io">>
MC_SiteBaseUrl == <<"/", "kubernetes-dbaas", "/">>
MC_WordTokens == {"https", "img"}
MC_Inputs == SeqOf({"/", "#", ":", "img", "kubernetes-dbaas"}, 4)
MC_MaxCalls == 3
=============================================================================
