---------------------------- MODULE MC_Routes ----------------------------
(* Locations are every pathname of at most four segments over the base    *)
(* segment, "docs", a section, a page at depth one and one at depth two   *)
(* and an unknown segment, with and without a trailing "/": this reaches  *)
(* each top-level route of the manifest, the bare docs path, paths below a page,   *)
(* paths outside the base path and prefixes of pages that are not pages.  *)
(* The bookmarks add every documentation path of the published route      *)
(* table, so that each of them is opened as well.                         *)
EXTENDS Routes

MC_Bookmarks ==
  {<<"kubernetes-dbaas", "docs">> \o d : d \in PublishedDocs}

MC_Segments ==
  {"kubernetes-dbaas", "docs", "contributing", "ci", "overview", "nope"}
MC_MaxDepth == 4
=============================================================================
