--------------------------- MODULE MC_MDXRuntime ---------------------------
(* Two user components and overrides that meet: a plain and a            *)
(* parent-qualified binding of "a", a binding of "inlineCode" that       *)
(* replaces the default "code", a wrapper, and a function provider.      *)
(* The document creates the kinds of body element the Overview creates:  *)
(* a paragraph, a link inside it, an image inside a link, inline code in *)
(* a list item and in a paragraph, and a list item.                      *)
EXTENDS MDXRuntime

CONSTANTS C1, C2

MC_Objects ==
  { "a" :> C1,
    "p.a" :> C2,
    ("a" :> C2) @@ ("inlineCode" :> C1),
    "wrapper" :> C1 }
\* An inner provider that binds "a" to undefined over one that binds it.
MC_ObjectsUnset == MC_Objects \cup { "a" :> Unset }
MC_FnResults == { "inlineCode" :> C2 }
MC_Elements ==
  { <<"p", NoParent>>, <<"a", "p">>, <<"img", "a">>,
    <<"inlineCode", "li">>, <<"inlineCode", "p">>, <<"li", "ul">> }
MC_MaxDepth == 3
=============================================================================
