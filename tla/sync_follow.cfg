SPECIFICATION Spec
CONSTANTS
  t1 = t1
  t2 = t2
  l1 = l1
  name = name
  genre = genre
  Tracks = {t1, t2}
  Playlists = {l1}
  Properties = {name, genre}
  Library = Library
  NoItem = NoItem
  Devices = {"recreating", "iPod"}
  MaxOps = 6
  MaxBatches = 1
CHECK_DEADLOCK FALSE
INVARIANT TypeOK
INVARIANT TracksFollow
INVARIANT RecreatedPlaylistsFollow
INVARIANT EditsFollow
