------------------------------ MODULE MC_Site ------------------------------
(* The site built from either copy of the configuration: the generated    *)
(* snapshot, which the bundle reads, and the authored file.  The visitor  *)
(* may open the landing page, any page of the manifest, or an unknown     *)
(* path, whose not-found page shows the layout's links too.               *)
EXTENDS Site

MC_Configs == {Authored, Generated}
MC_Bookmarks ==
  {Rooted(<<"kubernetes-dbaas">>) \o <<"/">>, Rooted(<<"kubernetes-dbaas", "nope">>)}
  \cup {Permalink(d) : d \in Range(Router!DocIds)}
=============================================================================
