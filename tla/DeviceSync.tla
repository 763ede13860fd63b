----------------------------- MODULE DeviceSync -----------------------------
(***************************************************************************)
(* How a device follows its library: the library and media list listeners  *)
(* turn every change into a request (sbLibraryListenerHelpers.cpp), the    *)
(* device's queue folds a request into one that is queued already          *)
(* (sbDeviceRequestThreadQueue.cpp), and the device applies the requests   *)
(* in their order.                                                         *)
(*                                                                         *)
(* Tracks and playlists are added once: an item added again has a new GUID *)
(* and is another item.  A playlist holds a track at most once.            *)
(***************************************************************************)
EXTENDS Integers, Sequences, FiniteSets, SequencesExt, Functions

CONSTANTS
  Tracks,
  Playlists,
  Properties,     \* properties of a track or a playlist that the user edits
  Library,        \* the device library, as the list of a request
  NoItem,         \* a null item or list
  Devices,        \* kinds of device: "recreating" or "iPod"
  MaxOps,         \* bound: operations of the user
  MaxBatches      \* bound: batches of the user

ASSUME ConstantAssumption ==
  /\ Tracks \cap Playlists = {}
  /\ Library \notin Tracks \cup Playlists
  /\ NoItem \notin Tracks \cup Playlists \cup {Library}
  /\ Devices \subseteq {"recreating", "iPod"}
  /\ MaxOps \in Nat /\ MaxBatches \in Nat

VARIABLES
  library,        \* tracks in the device library
  hidden,         \* those whose transfer is pending
  lists,          \* content of each playlist of the library
  edited,         \* properties of each item the device has not been given
  queue,          \* mRequestQueue
  currentBatchId, \* mCurrentBatchId
  inBatch,        \* mBatchDepth > 0
  kind,           \* of the device: does it recreate a playlist that changed?
  onDevice,       \* tracks on the device
  deviceLists,    \* content of each playlist on the device
  unused,         \* tracks and playlists not added yet
  ghosts,         \* history: tracks removed while their transfer was pending
  ops, batches    \* how often the user did something

libraryVars == <<library, hidden, lists, edited>>
queueVars   == <<queue, currentBatchId, inBatch>>
deviceVars  == <<kind, onDevice, deviceLists>>
bounds      == <<unused, ops, batches>>
vars == <<libraryVars, queueVars, deviceVars, bounds, ghosts>>

Init ==
  /\ library = {} /\ hidden = {} /\ lists = <<>>
  /\ edited = [i \in Tracks \cup Playlists |-> {}]
  /\ queue = <<>> /\ currentBatchId = 1 /\ inBatch = FALSE
  /\ kind \in Devices /\ onDevice = {} /\ deviceLists = <<>> /\ ghosts = {}
  /\ unused = Tracks \cup Playlists /\ ops = 0 /\ batches = 0

-----------------------------------------------------------------------------
(***************************************************************************)
(* Requests, and when a new one is a duplicate of a queued one.            *)
(***************************************************************************)
Request(type, item, list, index, other, data) ==
  [type |-> type, item |-> item, list |-> list, index |-> index,
   other |-> other, data |-> data, batchId |-> currentBatchId]

(* TransferRequest::IsPlaylist: the list is there and is not a library.    *)
IsPlaylist(r) == r.list \in Playlists

SameItems(q, r) == q.item = r.item /\ q.list = r.list

(* DupeCheck's aIsDupe: q is on the queue, r is new.  A request about the  *)
(* content of a playlist is folded into one that makes or changes it.      *)
DupeOfPlaylistWrite(q, r) ==
  IF IsPlaylist(q)
  THEN q.type \in {"WRITE", "MOVE", "DELETE"} /\ q.list = r.list
  ELSE q.type \in {"NEW_PLAYLIST", "UPDATE"} /\ q.item = r.list

DupeOfPlaylistDelete(q, r) ==
  q.type \in {"MOVE", "DELETE", "UPDATE", "WRITE"} /\ q.list = r.list

(* The list of a MOVE is compared with its own item, which is null.        *)
DupeOfMove(q, r) ==
  \/ q.type = "NEW_PLAYLIST" /\ r.list = r.item
  \/ q.type = "WRITE" /\ r.list = q.list
  \/ q.type = "UPDATE" /\ r.list = q.item

(* Mutant of DupeOfDelete: a change of the item stands for its deletion.   *)
DupeOfAnything(q, r) ==
  q.type \in {"NEW_PLAYLIST", "WRITE", "UPDATE", "DELETE"} /\ SameItems(q, r)

DupeOfDelete(q, r) == q.type = "DELETE" /\ SameItems(q, r)

DupeOfUpdate(q, r) ==
  IF IsPlaylist(q)
  THEN r.item = q.list
  ELSE /\ q.type \in {"WRITE", "NEW_PLAYLIST", "UPDATE", "DELETE"}
       /\ SameItems(q, r)

IsDupe(q, r) ==
  CASE r.type = "WRITE" /\ IsPlaylist(r) -> DupeOfPlaylistWrite(q, r)
    [] r.type = "DELETE" /\ IsPlaylist(r) -> DupeOfPlaylistDelete(q, r)
    [] r.type = "DELETE" /\ ~IsPlaylist(r) -> DupeOfDelete(q, r)
    [] r.type = "NEW_PLAYLIST" -> q.type = r.type /\ q.item = r.item
    [] r.type = "MOVE" -> IsPlaylist(r) /\ DupeOfMove(q, r)
    [] r.type = "UPDATE" -> DupeOfUpdate(q, r)
    [] OTHER -> q.type = r.type /\ SameItems(q, r)

(* What DupeCheck returns: look at the request queued before q as well.    *)
KeepLooking(q, r) ==
  \/ IsDupe(q, r)
  \/ /\ r.type = "WRITE" /\ IsPlaylist(r)
     /\ ~IsPlaylist(q) /\ q.type = "DELETE" /\ q.item = r.list
  \/ /\ r.type = "DELETE" /\ ~IsPlaylist(r)
     /\ q.type \in {"NEW_PLAYLIST", "WRITE", "UPDATE"} /\ SameItems(q, r)
  \/ r.type = "NEW_PLAYLIST" /\ q.type = "DELETE" /\ q.item = r.item

(* Mutant of Duplicates: it never stops looking.                           *)
AnyDuplicates(entries, r) ==
  {i \in DOMAIN entries :
     /\ entries[i].batchId = r.batchId
     /\ IsDupe(entries[i], r)
     /\ \A j \in (i + 1)..Len(entries) : ~IsDupe(entries[j], r)}

(* FindDuplicateRequest, from the back and in the current batch only.      *)
Duplicates(entries, r) ==
  {i \in DOMAIN entries :
     /\ IsDupe(entries[i], r)
     /\ \A j \in i..Len(entries) : entries[j].batchId = r.batchId
     /\ \A j \in (i + 1)..Len(entries) :
          ~IsDupe(entries[j], r) /\ KeepLooking(entries[j], r)}

(* Mutant of Merged: the new request is dropped, nothing is merged.        *)
Dropped(q, r) == q

(* What IsDuplicateRequest makes of the queued request: the properties are *)
(* merged, and a change of a playlist becomes an update of the playlist.   *)
Merged(q, r) ==
  IF r.type = "UPDATE" /\ ~IsPlaylist(r)
  THEN [q EXCEPT !.data = @ \cup r.data]
  ELSE IF IsPlaylist(r) /\ q.type \in {"WRITE", "DELETE", "MOVE"}
       THEN [q EXCEPT !.type = "UPDATE", !.item = q.list, !.list = Library]
       ELSE q

(* PushRequestInternal.                                                    *)
Pushed(entries, r) ==
  IF Duplicates(entries, r) = {}
  THEN Append(entries, r)
  ELSE LET i == CHOOSE i \in Duplicates(entries, r) : TRUE
       IN  [entries EXCEPT ![i] = Merged(@, r)]

PushedAll(entries, requests) ==
  LET pushed[n \in 0..Len(requests)] ==
        IF n = 0 THEN entries ELSE Pushed(pushed[n - 1], requests[n])
  IN  pushed[Len(requests)]

Push(requests) == queue' = PushedAll(queue, requests)

-----------------------------------------------------------------------------
(***************************************************************************)
(* The user's operations, each with the requests of the listeners.         *)
(***************************************************************************)
UserStep ==
  /\ ops < MaxOps
  /\ ops' = ops + 1
  /\ UNCHANGED <<currentBatchId, inBatch, batches, deviceVars>>

(* A new track is hidden until it has been transferred.                    *)
AddTrack(t) ==
  /\ UserStep
  /\ t \in unused /\ unused' = unused \ {t}
  /\ library' = library \cup {t}
  /\ hidden' = hidden \cup {t}
  /\ Push(<<Request("WRITE", t, Library, 0, 0, {})>>)
  /\ UNCHANGED <<lists, edited, ghosts>>

(* The elements of s that are in S, in their order.                        *)
Kept(s, S) ==
  LET kept[n \in 0..Len(s)] ==
        IF n = 0 THEN <<>>
        ELSE IF s[n] \in S THEN Append(kept[n - 1], s[n])
        ELSE kept[n - 1]
  IN  kept[Len(s)]

Without(s, t) == Kept(s, Range(s) \ {t})

(* Mutant of ListsWithout: a removed track stays in the playlists.         *)
AllLists(t) == lists

(* RemoveSelected takes the track out of the playlists as well.            *)
ListsWithout(t) == [p \in DOMAIN lists |-> Without(lists[p], t)]

(* What the listeners of the playlists make of the removal of a track.     *)
Containing(t) == {p \in DOMAIN lists : t \in Range(lists[p])}

PositionOf(t, s) == SelectInSeq(s, LAMBDA u : u = t)

RemovalsFromLists(t) ==
  LET containing == SetToSeq(Containing(t))
  IN  [i \in 1..Len(containing) |->
         Request("DELETE", t, containing[i],
                 PositionOf(t, lists[containing[i]]), 0, {})]

(* The listeners of the library are told first, then those of the lists    *)
(* the track was in; for a hidden track there is no request but those.     *)
RemoveTrack(t) ==
  /\ UserStep
  /\ t \in library
  /\ library' = library \ {t}
  /\ lists' = ListsWithout(t)
  /\ edited' = [edited EXCEPT ![t] = {}]
  /\ Push(IF t \in hidden
          THEN RemovalsFromLists(t)
          ELSE <<Request("DELETE", t, Library, 0, 0, {})>>
                 \o RemovalsFromLists(t))
  /\ ghosts' = IF t \in hidden THEN ghosts \cup {t} ELSE ghosts
  /\ UNCHANGED <<hidden, unused>>

UpdateTrack(t, p) ==
  /\ UserStep
  /\ t \in library
  /\ edited' = [edited EXCEPT ![t] = @ \cup {p}]
  /\ Push(IF t \in hidden
          THEN <<>>
          ELSE <<Request("UPDATE", t, Library, 0, 0, {p})>>)
  /\ UNCHANGED <<library, hidden, lists, unused, ghosts>>

AddPlaylist(l) ==
  /\ UserStep
  /\ l \in unused /\ unused' = unused \ {l}
  /\ lists' = [k \in DOMAIN lists \cup {l} |->
                 IF k = l THEN <<>> ELSE lists[k]]
  /\ Push(<<Request("NEW_PLAYLIST", l, Library, 0, 0, {})>>)
  /\ UNCHANGED <<library, hidden, edited, ghosts>>

RemovePlaylist(l) ==
  /\ UserStep
  /\ l \in DOMAIN lists
  /\ lists' = [k \in DOMAIN lists \ {l} |-> lists[k]]
  /\ edited' = [edited EXCEPT ![l] = {}]
  /\ Push(<<Request("DELETE", l, Library, 0, 0, {})>>)
  /\ UNCHANGED <<library, hidden, unused, ghosts>>

RenamePlaylist(l, p) ==
  /\ UserStep
  /\ l \in DOMAIN lists
  /\ edited' = [edited EXCEPT ![l] = @ \cup {p}]
  /\ Push(<<Request("UPDATE", l, Library, 0, 0, {p})>>)
  /\ UNCHANGED <<library, hidden, lists, unused, ghosts>>

AddToPlaylist(l, t) ==
  /\ UserStep
  /\ l \in DOMAIN lists /\ t \in library /\ t \notin Range(lists[l])
  /\ lists' = [lists EXCEPT ![l] = Append(@, t)]
  /\ Push(<<Request("WRITE", t, l, Len(lists[l]) + 1, 0, {})>>)
  /\ UNCHANGED <<library, hidden, edited, unused, ghosts>>

RemoveFromPlaylist(l, i) ==
  /\ UserStep
  /\ l \in DOMAIN lists /\ i \in DOMAIN lists[l]
  /\ lists' = [lists EXCEPT ![l] = RemoveAt(@, i)]
  /\ Push(<<Request("DELETE", lists[l][i], l, i, 0, {})>>)
  /\ UNCHANGED <<library, hidden, edited, unused, ghosts>>

Moved(s, i, j) == InsertAt(RemoveAt(s, i), j, s[i])

MoveInPlaylist(l, i, j) ==
  /\ UserStep
  /\ l \in DOMAIN lists /\ {i, j} \subseteq DOMAIN lists[l] /\ i # j
  /\ lists' = [lists EXCEPT ![l] = Moved(@, i, j)]
  /\ Push(<<Request("MOVE", NoItem, l, i, j, {})>>)
  /\ UNCHANGED <<library, hidden, edited, unused, ghosts>>

(* OnListCleared.                                                          *)
ClearPlaylist(l) ==
  /\ UserStep
  /\ l \in DOMAIN lists /\ lists[l] # <<>>
  /\ lists' = [lists EXCEPT ![l] = <<>>]
  /\ Push(<<Request("WIPE", l, NoItem, 0, 0, {})>>)
  /\ UNCHANGED <<library, hidden, edited, unused, ghosts>>

(* OnBatchBegin and OnBatchEnd of the listeners: BatchBegin and BatchEnd.  *)
BatchBegin ==
  /\ ~inBatch /\ batches < MaxBatches
  /\ batches' = batches + 1
  /\ inBatch' = TRUE
  /\ UNCHANGED <<libraryVars, queue, currentBatchId, deviceVars, unused, ops,
                 ghosts>>

BatchEnd ==
  /\ inBatch
  /\ inBatch' = FALSE
  /\ currentBatchId' = currentBatchId + 1
  /\ UNCHANGED <<libraryVars, queue, deviceVars, bounds, ghosts>>

-----------------------------------------------------------------------------
(***************************************************************************)
(* The device applies the request at the head of the queue: the handlers   *)
(* of sbIPDRequest.cpp when it does not recreate playlists.                *)
(***************************************************************************)
Changed(r) == IF r.type = "WIPE" \/ r.list = Library THEN r.item ELSE r.list

(* A playlist as a device that recreates it sees it now.                   *)
Content(l, tracks) ==
  IF l \in DOMAIN lists
  THEN Kept(lists[l], tracks)
  ELSE <<>>

(* A member beyond the end of the list is appended.                        *)
Inserted(s, i, t) == InsertAt(s, IF i > Len(s) THEN Len(s) + 1 ELSE i, t)

(* The same change made to the playlist of an iPod, by index.  A playlist  *)
(* that is wiped keeps one null member.                                    *)
ChangedInPlace(r, s) ==
  CASE r.type = "WRITE" /\ r.item \in onDevice -> Inserted(s, r.index, r.item)
    [] r.type = "DELETE" /\ r.index \in DOMAIN s -> RemoveAt(s, r.index)
    [] r.type = "MOVE" /\ r.index \in DOMAIN s ->
         Inserted(RemoveAt(s, r.index), r.other, s[r.index])
    [] r.type = "WIPE" -> <<NoItem>>
    [] OTHER -> s

SetDeviceList(l, s) ==
  deviceLists' = [k \in DOMAIN deviceLists \cup {l} |->
                    IF k = l THEN s ELSE deviceLists[k]]

(* The edits the device has not been given after the update r of item i:   *)
(* those not in the request, or none when the handler reads the item.      *)
EditsLeft(r, i) == IF kind = "recreating" THEN edited[i] \ r.data ELSE {}

WriteTrack(r) ==
  /\ r.type = "WRITE" /\ r.list = Library
  /\ onDevice' = onDevice \cup {r.item}
  /\ hidden' = hidden \ {r.item}
  /\ edited' = [edited EXCEPT ![r.item] = {}]
  /\ UNCHANGED deviceLists

DeleteTrack(r) ==
  /\ r.type = "DELETE" /\ r.item \in Tracks /\ r.list = Library
  /\ onDevice' = onDevice \ {r.item}
  /\ deviceLists' = [l \in DOMAIN deviceLists |->
                       Without(deviceLists[l], r.item)]
  /\ UNCHANGED <<hidden, edited>>

UpdateProperties(r) ==
  /\ r.type = "UPDATE" /\ r.item \in Tracks
  /\ edited' = IF r.item \in library
               THEN [edited EXCEPT ![r.item] = EditsLeft(r, r.item)]
               ELSE edited
  /\ UNCHANGED <<hidden, onDevice, deviceLists>>

NewPlaylist(r) ==
  /\ r.type = "NEW_PLAYLIST"
  /\ SetDeviceList(r.item, IF kind = "recreating"
                           THEN Content(r.item, onDevice)
                           ELSE <<>>)
  /\ edited' = [edited EXCEPT ![r.item] = {}]
  /\ UNCHANGED <<hidden, onDevice>>

DeletePlaylist(r) ==
  /\ r.type = "DELETE" /\ r.item \in Playlists
  /\ deviceLists' = [l \in DOMAIN deviceLists \ {r.item} |-> deviceLists[l]]
  /\ UNCHANGED <<hidden, edited, onDevice>>

(* A playlist that is not there is left alone; an iPod takes an update of  *)
(* a playlist to be an update of its name.                                 *)
ChangePlaylist(r) ==
  /\ Changed(r) \in Playlists /\ r.type \notin {"NEW_PLAYLIST"}
  /\ ~(r.type = "DELETE" /\ r.list = Library)
  /\ LET l == Changed(r)
     IN  /\ IF l \in DOMAIN deviceLists
            THEN SetDeviceList(l, IF kind = "recreating"
                                  THEN Content(l, onDevice)
                                  ELSE ChangedInPlace(r, deviceLists[l]))
            ELSE UNCHANGED deviceLists
         /\ edited' = IF kind = "recreating" \/ r.type = "UPDATE"
                      THEN [edited EXCEPT ![l] = {}]
                      ELSE edited
  /\ UNCHANGED <<hidden, onDevice>>

ProcessRequest ==
  /\ queue # <<>> /\ ~inBatch
  /\ LET r == Head(queue)
     IN  \/ WriteTrack(r) \/ DeleteTrack(r) \/ UpdateProperties(r)
         \/ NewPlaylist(r) \/ DeletePlaylist(r) \/ ChangePlaylist(r)
  /\ queue' = Tail(queue)
  /\ UNCHANGED <<library, lists, currentBatchId, inBatch, kind, bounds,
                 ghosts>>

-----------------------------------------------------------------------------
UserAction ==
  \/ \E t \in Tracks : AddTrack(t) \/ RemoveTrack(t)
  \/ \E t \in Tracks, p \in Properties : UpdateTrack(t, p)
  \/ \E l \in Playlists : AddPlaylist(l) \/ RemovePlaylist(l)
                            \/ ClearPlaylist(l)
  \/ \E l \in Playlists, p \in Properties : RenamePlaylist(l, p)
  \/ \E l \in Playlists, t \in Tracks : AddToPlaylist(l, t)
  \/ \E l \in Playlists, i, j \in 1..Cardinality(Tracks) :
       RemoveFromPlaylist(l, i) \/ MoveInPlaylist(l, i, j)

Next == UserAction \/ BatchBegin \/ BatchEnd \/ ProcessRequest

Spec == Init /\ [][Next]_vars

-----------------------------------------------------------------------------
TypeOK ==
  /\ library \subseteq Tracks /\ onDevice \subseteq Tracks
  /\ hidden \subseteq Tracks
  /\ IsFiniteSet(DOMAIN lists) /\ DOMAIN lists \subseteq Playlists
  /\ \A l \in DOMAIN lists : lists[l] \in Seq(library)
  /\ \A i \in DOMAIN queue :
       /\ queue[i].item \in Tracks \cup Playlists \cup {NoItem}
       /\ queue[i].list \in Playlists \cup {Library, NoItem}
  /\ currentBatchId \in Nat

Settled == queue = <<>> /\ ~inBatch

(* When every request has been processed the device holds the tracks of    *)
(* its library, however requests were folded into queued ones; but for a   *)
(* track that was removed while its transfer was pending, which "wasn't    *)
(* transferred to the device ... so don't delete it"                       *)
(* (sbLibraryListenerHelpers.cpp:348) and whose transfer still happens.    *)
TracksFollow == Settled => onDevice \ ghosts = library

(* ... and the playlists of its library, each with its content in order.   *)
PlaylistsFollow == Settled => deviceLists = lists

(* This is so of a device that makes a playlist anew whenever it changes   *)
(* ("Currently all devices recreate playlists on any modification",        *)
(* sbDeviceRequestThreadQueue.cpp:361).                                    *)
RecreatedPlaylistsFollow == kind = "recreating" => PlaylistsFollow

(* When every request has been processed the device has been given every   *)
(* property the user edited, though updates are merged in the queue; an    *)
(* iPod those of its tracks, as a new name merged into a queued change of  *)
(* the playlist is lost on it.                                             *)
Followed == IF kind = "recreating" THEN Tracks \cup Playlists ELSE Tracks
EditsFollow == Settled => \A i \in Followed : edited[i] = {}

=============================================================================
