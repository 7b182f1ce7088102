------------------------- MODULE MC_ConfigSnapshot -------------------------
(* Call sites resolve the site's own link targets (footer items, the logo) *)
(* and the image paths of the Overview page, with every combination of     *)
(* options.                                                                *)
EXTENDS ConfigSnapshot

MC_Inputs ==
  {i.target : i \in Range(Authored.footer)}
  \cup {Authored.logo, Rooted(<<"img", "logo.svg">>),
        Rooted(<<"img", "diagrams", "custom-resources.svg">>)}
=============================================================================
