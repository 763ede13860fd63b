SPECIFICATION Spec
CONSTANTS
  t1 = t1
  t2 = t2
  l1 = l1
  name = name
  genre = genre
  Tracks = {t1, t2}
  Playlists = {l1}
  Properties = {name}
  Library = Library
  NoItem = NoItem
  Devices = {"iPod"}
  MaxOps = 4
  MaxBatches = 1
CHECK_DEADLOCK FALSE
INVARIANT PlaylistsFollow
