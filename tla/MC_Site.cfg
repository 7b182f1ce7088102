CONSTANTS
  Configs <- MC_Configs
  Bookmarks <- MC_Bookmarks
SPECIFICATION Spec
INVARIANT InternalLinksLand
