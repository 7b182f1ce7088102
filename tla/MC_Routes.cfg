CONSTANTS
  Segments <- MC_Segments
  MaxDepth <- MC_MaxDepth
  Bookmarks <- MC_Bookmarks
SPECIFICATION Spec
INVARIANT PublishedPathRendersItsPage
INVARIANT UnknownRendersNotFound
