-------------------------- MODULE DeviceSyncProofs --------------------------
(***************************************************************************)
(* Proofs about a device that follows its library, for any tracks,         *)
(* playlists and properties, and for any number of operations and batches: *)
(* with nothing left to do it holds the tracks of the library, and, unless *)
(* it is an iPod, its playlists; and it has been given what was edited.    *)
(*                                                                         *)
(* The invariant says of everything the device does not have yet which     *)
(* request on the queue will bring it, and behind what that request is.    *)
(* Folding a request into a queued one keeps it because the folded request *)
(* does what the new one does (DupeDoes, MergedAlike), and because the     *)
(* search for a duplicate stops where the order matters                    *)
(* (AddedAfterTransfers, DeleteAppended).                                  *)
(***************************************************************************)
EXTENDS DeviceSync, SequenceLemmas

-----------------------------------------------------------------------------
(***************************************************************************)
(* What a request does when the device gets to it, and to what.            *)
(***************************************************************************)
Does(q) ==
  IF q.type = "NEW_PLAYLIST" THEN "make"
  ELSE IF q.type = "DELETE" /\ q.list = Library THEN "delete"
  ELSE IF Changed(q) \in Playlists THEN "change"
  ELSE IF q.type = "WRITE" THEN "write"
  ELSE "update"

(* The requests the listeners make, and what a merge turns them into.      *)
WellFormed(r) ==
  \/ /\ r.type \in {"WRITE", "DELETE", "UPDATE"}
     /\ r.item \in Tracks /\ r.list = Library
  \/ /\ r.type \in {"NEW_PLAYLIST", "DELETE", "UPDATE"}
     /\ r.item \in Playlists /\ r.list = Library
  \/ /\ r.type \in {"WRITE", "DELETE"}
     /\ r.item \in Tracks /\ r.list \in Playlists
  \/ r.type = "MOVE" /\ r.item = NoItem /\ r.list \in Playlists
  \/ r.type = "WIPE" /\ r.item \in Playlists /\ r.list = NoItem

Entry == {r \in [type: {"WRITE", "DELETE", "UPDATE", "NEW_PLAYLIST", "MOVE",
                        "WIPE"},
                 item: Tracks \cup Playlists \cup {NoItem},
                 list: Playlists \cup {Library, NoItem},
                 index: Nat, other: Nat, data: SUBSET Properties,
                 batchId: Nat] : WellFormed(r)}

Has(entries, what, x) ==
  \E i \in DOMAIN entries : Does(entries[i]) = what /\ Changed(entries[i]) = x

(* A request after which a recreating device has the playlist anew.        *)
Refreshes(q, l) == Does(q) \in {"make", "change"} /\ Changed(q) = l

TypeInv ==
  /\ TypeOK
  /\ queue \in Seq(Entry)
  /\ lists \in [DOMAIN lists -> Seq(library)]
  /\ edited \in [Tracks \cup Playlists -> SUBSET Properties]
  /\ unused \subseteq Tracks \cup Playlists
  /\ ghosts \subseteq Tracks

(* What has not been added yet is nowhere.                                 *)
Fresh ==
  \A x \in unused :
    /\ x \notin library \cup ghosts \cup DOMAIN lists \cup DOMAIN deviceLists
    /\ \A i \in DOMAIN queue : Changed(queue[i]) # x

(* A track is written once, is hidden until then, and is on the device     *)
(* from then on until its deletion is processed.                           *)
Written ==
  \A i, j \in DOMAIN queue :
    Does(queue[i]) = "write" /\ Does(queue[j]) = "write"
      /\ Changed(queue[i]) = Changed(queue[j]) => i = j

Following ==
  /\ \A t \in Tracks : t \in hidden <=> Has(queue, "write", t)
  /\ \A t \in library : t \in onDevice <=> t \notin hidden
  /\ \A t \in Tracks \ (library \cup ghosts) :
       t \notin hidden /\ (t \in onDevice => Has(queue, "delete", t))
  /\ ghosts \cap library = {}

(* What is in the library is not about to be deleted.                      *)
NotDeleted ==
  \A x \in library \cup DOMAIN lists : ~Has(queue, "delete", x)

(* A playlist of the library is on the device as it is, or as it will be   *)
(* after a request on the queue...                                         *)
ListFollows(l) ==
  /\ l \in DOMAIN deviceLists \/ Has(queue, "make", l)
  /\ \/ \E i \in DOMAIN queue : Refreshes(queue[i], l)
     \/ l \in DOMAIN deviceLists /\ deviceLists[l] = lists[l]

(* ... that comes after the transfer of all of its tracks.                 *)
RefreshedAfter(l) ==
  \A i \in DOMAIN queue :
    Does(queue[i]) = "write" /\ Changed(queue[i]) \in Range(lists[l])
      => \E j \in DOMAIN queue : j > i /\ Refreshes(queue[j], l)

(* Another playlist is not there, or its deletion is still to come.        *)
ListGoes(l) ==
  /\ l \in DOMAIN deviceLists => Has(queue, "delete", l)
  /\ \A i \in DOMAIN queue :
       Does(queue[i]) = "make" /\ Changed(queue[i]) = l
         => \E j \in DOMAIN queue :
              j > i /\ Does(queue[j]) = "delete" /\ Changed(queue[j]) = l

ListsFollowing ==
  kind = "recreating" =>
    /\ deviceLists = [l \in DOMAIN deviceLists |-> deviceLists[l]]
    /\ DOMAIN deviceLists \subseteq Playlists
    /\ \A l \in DOMAIN lists : ListFollows(l) /\ RefreshedAfter(l)
    /\ \A l \in Playlists \ DOMAIN lists : ListGoes(l)

(* An edit the device has not been given is on its way.                    *)
Gives(entries, t, p) ==
  \E i \in DOMAIN entries : /\ Does(entries[i]) = "update"
                            /\ Changed(entries[i]) = t
                            /\ p \in entries[i].data

EditsFollowing ==
  /\ \A t \in Tracks \ library : edited[t] = {}
  /\ \A t \in library \ hidden : \A p \in edited[t] : Gives(queue, t, p)
  /\ kind = "recreating" =>
       \A l \in Playlists :
         edited[l] # {} => /\ l \in DOMAIN lists
                           /\ \E i \in DOMAIN queue : Refreshes(queue[i], l)

SyncInv == /\ TypeInv /\ Fresh /\ Written /\ Following /\ NotDeleted
           /\ ListsFollowing /\ EditsFollowing

-----------------------------------------------------------------------------
(***************************************************************************)
(* Sequences of tracks.                                                    *)
(***************************************************************************)

(* Kept drops the rest, and nothing when there is no rest.                 *)
LEMMA KeptIs ==
  ASSUME NEW A, NEW s \in Seq(A), NEW S
  PROVE  /\ Kept(s, S) \in Seq(A \cap S)
         /\ Range(s) \subseteq S => Kept(s, S) = s
<1> DEFINE n == Len(s)
           X == Seq(A \cap S)
           add(x, i) == IF s[i] \in S THEN Append(x, s[i]) ELSE x
           step == [i \in 1..n |-> [x \in X |-> add(x, i)]]
           Fill(f) == [i \in 0..n |-> IF i = 0 THEN <<>>
                                      ELSE add(f[i - 1], i)]
           kept == CHOOSE f : f = Fill(f)
<1>1. n \in Nat /\ \A i \in 1..n : s[i] \in A
  OBVIOUS
<1>2. <<>> \in X
  OBVIOUS
<1>3. \A i \in 1..n : \A x \in X : add(x, i) \in X
  BY <1>1
<1>4. kept = Fill(kept)
  <2>1. step \in [1..n -> [X -> X]]
    <3> HIDE DEF X, add
    <3>1. QED BY <1>3
  <2>2. PICK g \in [0..n -> X] : Iterates(g, n, <<>>, step)
    <3> HIDE DEF step, n, X
    <3>1. QED BY <1>1, <1>2, <2>1, Iteration
  <2>3. ASSUME NEW i \in 1..n PROVE step[i][g[i - 1]] = add(g[i - 1], i)
    <3>1. i - 1 \in 0..n
      BY <1>1
    <3>2. g[i - 1] \in X
      <4> HIDE DEF step, n, X
      <4>1. QED BY <2>2, <3>1
    <3>3. QED
      <4> HIDE DEF add, X
      <4>1. QED BY <3>2
  <2>4. g = Fill(g)
    <3>1. g[0] = <<>> /\ \A i \in 1..n : g[i] = add(g[i - 1], i)
      <4> HIDE DEF step, X, add
      <4>1. QED BY <2>2, <2>3 DEF Iterates
    <3> HIDE DEF step, X, add
    <3>2. QED BY <1>1, <2>2, <3>1
  <2>5. QED
    <3> HIDE DEF Fill
    <3>1. QED BY <2>4
<1>5. Kept(s, S) = kept[n]
  BY DEF Kept
<1> DEFINE Good(m) == /\ kept[m] \in X
                      /\ Range(s) \subseteq S => kept[m] = SubSeq(s, 1, m)
           T == {m \in 0..n : Good(m)}
<1>6. 0 \in T
  <2> HIDE DEF kept
  <2>1. kept[0] = <<>>
    BY <1>1, <1>4
  <2>2. SubSeq(s, 1, 0) = <<>>
    BY <1>1
  <2>3. Good(0)
    <3> HIDE DEF X
    <3>1. QED BY <1>2, <2>1, <2>2
  <2> HIDE DEF Good
  <2>4. QED BY <1>1, <2>3
<1>7. ASSUME NEW m \in 1..n, m - 1 \in T PROVE m \in T
  <2> HIDE DEF kept
  <2>1. kept[m] = add(kept[m - 1], m)
    <3> HIDE DEF add
    <3>1. QED BY <1>1, <1>4
  <2>2. kept[m - 1] \in X /\ Good(m - 1)
    BY <1>7
  <2>3. kept[m] \in X
    <3> HIDE DEF add, X
    <3>1. QED BY <1>3, <2>1, <2>2
  <2>4. ASSUME Range(s) \subseteq S PROVE kept[m] = SubSeq(s, 1, m)
    <3>1. s[m] \in S
      BY <1>1, <2>4 DEF Range
    <3>2. kept[m - 1] = SubSeq(s, 1, m - 1)
      BY <2>2, <2>4
    <3>3. Append(SubSeq(s, 1, m - 1), s[m]) = SubSeq(s, 1, m)
      BY <1>1, SubSeqGrows
    <3>4. QED BY <2>1, <3>1, <3>2, <3>3
  <2>5. QED BY <1>1, <2>3, <2>4
<1>8. n \in T
  <2> HIDE DEF T
  <2>1. 0..n \subseteq T
    BY <1>1, <1>6, <1>7, BoundedInduction
  <2>2. QED BY <1>1, <2>1
<1>9. SubSeq(s, 1, n) = s
  BY <1>1
<1>10. QED
  <2> HIDE DEF kept
  <2>1. QED BY <1>5, <1>8, <1>9

LEMMA WithoutIs ==
  ASSUME NEW A, NEW s \in Seq(A), NEW t
  PROVE  /\ Without(s, t) \in Seq(A \ {t})
         /\ t \notin Range(s) => Without(s, t) = s
<1>1. Kept(s, Range(s) \ {t}) \in Seq(A \cap (Range(s) \ {t}))
  BY KeptIs
<1>2. A \cap (Range(s) \ {t}) \subseteq A \ {t}
  OBVIOUS
<1>3. Kept(s, Range(s) \ {t}) \in Seq(A \ {t})
  BY <1>1, <1>2, SeqMonotonic
<1>4. t \notin Range(s) => Kept(s, Range(s) \ {t}) = s
  <2>1. t \notin Range(s) => Range(s) \subseteq Range(s) \ {t}
    OBVIOUS
  <2>2. QED BY <2>1, KeptIs
<1>5. QED BY <1>3, <1>4 DEF Without

(* Taking an element out and putting one in.                               *)
LEMMA RemoveAtIs ==
  ASSUME NEW A, NEW s \in Seq(A), NEW i \in DOMAIN s
  PROVE  /\ RemoveAt(s, i) \in Seq(A) /\ Len(RemoveAt(s, i)) = Len(s) - 1
         /\ Range(RemoveAt(s, i)) \subseteq Range(s)
<1>1. i \in 1..Len(s) /\ Len(s) \in Nat /\ s \in Seq(Range(s))
  BY DEF Range
<1>2. RemoveAt(s, i) \in Seq(A) /\ RemoveAt(s, i) \in Seq(Range(s))
  BY <1>1 DEF RemoveAt
<1>3. Len(RemoveAt(s, i)) = Len(s) - 1
  <2>1. /\ SubSeq(s, 1, i - 1) \in Seq(A) /\ Len(SubSeq(s, 1, i - 1)) = i - 1
        /\ SubSeq(s, i + 1, Len(s)) \in Seq(A)
        /\ Len(SubSeq(s, i + 1, Len(s))) = Len(s) - i
    BY <1>1
  <2>2. QED BY <1>1, <2>1 DEF RemoveAt
<1>4. QED BY <1>2, <1>3 DEF Range

LEMMA MovedIs ==
  ASSUME NEW A, NEW s \in Seq(A), NEW i \in DOMAIN s, NEW j \in DOMAIN s
  PROVE  Moved(s, i, j) \in Seq(A) /\ Range(Moved(s, i, j)) \subseteq Range(s)
<1>1. ASSUME NEW B, s \in Seq(B) PROVE Moved(s, i, j) \in Seq(B)
  <2>1. /\ RemoveAt(s, i) \in Seq(B) /\ s[i] \in B
        /\ Len(RemoveAt(s, i)) = Len(s) - 1
    BY <1>1, RemoveAtIs
  <2>2. j \in 1..Len(s) /\ Len(s) \in Nat
    BY <1>1
  <2> DEFINE u == RemoveAt(s, i)
  <2>3. SubSeq(u, 1, j - 1) \in Seq(B) /\ SubSeq(u, j, Len(u)) \in Seq(B)
    <3>1. u \in Seq(B) /\ Len(u) = Len(s) - 1
      BY <2>1
    <3> HIDE DEF u
    <3>2. QED BY <2>2, <3>1
  <2>4. QED BY <2>1, <2>3 DEF Moved, InsertAt
<1>2. s \in Seq(Range(s))
  BY DEF Range
<1>3. Moved(s, i, j) \in Seq(Range(s)) /\ Moved(s, i, j) \in Seq(A)
  BY <1>1, <1>2
<1>4. QED BY <1>3 DEF Range

-----------------------------------------------------------------------------
(***************************************************************************)
(* Requests, duplicates and merges.                                        *)
(***************************************************************************)

(* What each request of the listeners does.                                *)
LEMMA Roles ==
  ASSUME NEW q \in Entry
  PROVE  /\ Does(q) \in {"write", "delete", "update", "make", "change"}
         /\ Does(q) = "write" => /\ q.type = "WRITE" /\ q.list = Library
                                 /\ q.item \in Tracks /\ Changed(q) = q.item
         /\ Does(q) = "delete" => /\ q.type = "DELETE" /\ q.list = Library
                                  /\ q.item \in Tracks \cup Playlists
                                  /\ Changed(q) = q.item
         /\ Does(q) = "update" => /\ q.type = "UPDATE" /\ q.list = Library
                                  /\ q.item \in Tracks /\ Changed(q) = q.item
         /\ Does(q) = "make" => /\ q.type = "NEW_PLAYLIST" /\ q.list = Library
                                /\ q.item \in Playlists /\ Changed(q) = q.item
         /\ Does(q) = "change"
              => /\ Changed(q) \in Playlists /\ q.type # "NEW_PLAYLIST"
                 /\ ~(q.type = "DELETE" /\ q.list = Library)
                 /\ q.type \in {"WRITE", "DELETE", "MOVE"}
                      => q.list \in Playlists
         /\ IsPlaylist(q) => Does(q) = "change" /\ Changed(q) = q.list
         /\ q.type = "UPDATE" => q.list = Library /\ Changed(q) = q.item
<1>1. WellFormed(q)
  BY DEF Entry
<1>2. /\ Tracks \cap Playlists = {} /\ Library \notin Tracks \cup Playlists
      /\ NoItem \notin Tracks \cup Playlists \cup {Library}
  BY ConstantAssumption
<1>3. CASE /\ q.type \in {"WRITE", "DELETE", "UPDATE"}
           /\ q.item \in Tracks /\ q.list = Library
  BY <1>2, <1>3 DEF Does, Changed, IsPlaylist
<1>4. CASE /\ q.type \in {"NEW_PLAYLIST", "DELETE", "UPDATE"}
           /\ q.item \in Playlists /\ q.list = Library
  BY <1>2, <1>4 DEF Does, Changed, IsPlaylist
<1>5. CASE /\ q.type \in {"WRITE", "DELETE"}
           /\ q.item \in Tracks /\ q.list \in Playlists
  BY <1>2, <1>5 DEF Does, Changed, IsPlaylist
<1>6. CASE q.type = "MOVE" /\ q.item = NoItem /\ q.list \in Playlists
  BY <1>2, <1>6 DEF Does, Changed, IsPlaylist
<1>7. CASE q.type = "WIPE" /\ q.item \in Playlists /\ q.list = NoItem
  BY <1>2, <1>7 DEF Does, Changed, IsPlaylist
<1>8. QED BY <1>1, <1>3, <1>4, <1>5, <1>6, <1>7 DEF WellFormed

(* A duplicate is about the same thing, and does what the new request      *)
(* does; but that an update may be of what is written or deleted anyway.   *)
LEMMA DupeDoes ==
  ASSUME NEW q \in Entry, NEW r \in Entry, IsDupe(q, r)
  PROVE  /\ Changed(q) = Changed(r)
         /\ \/ Does(q) = Does(r)
            \/ Does(r) = "change" /\ Does(q) = "make"
            \/ r.type = "UPDATE" /\ Does(q) \in {"delete", "write"}
<1>1. WellFormed(q) /\ WellFormed(r)
  BY DEF Entry
<1>2. /\ Tracks \cap Playlists = {} /\ Library \notin Tracks \cup Playlists
      /\ NoItem \notin Tracks \cup Playlists \cup {Library}
  BY ConstantAssumption
<1>3. CASE r.type = "WRITE" /\ IsPlaylist(r)
  BY <1>1, <1>2, <1>3 DEF IsDupe, DupeOfPlaylistWrite, IsPlaylist, WellFormed,
                          Does, Changed
<1>4. CASE r.type = "DELETE" /\ IsPlaylist(r)
  BY <1>1, <1>2, <1>4 DEF IsDupe, DupeOfPlaylistDelete, IsPlaylist,
                          WellFormed, Does, Changed
<1>5. CASE r.type = "DELETE" /\ ~IsPlaylist(r)
  BY <1>1, <1>2, <1>5 DEF IsDupe, DupeOfDelete, SameItems, IsPlaylist,
                          WellFormed, Does, Changed
<1>6. CASE r.type = "NEW_PLAYLIST"
  BY <1>1, <1>2, <1>6 DEF IsDupe, IsPlaylist, WellFormed, Does, Changed
<1>7. CASE r.type = "MOVE"
  BY <1>1, <1>2, <1>7 DEF IsDupe, DupeOfMove, IsPlaylist, WellFormed, Does,
                          Changed
<1>8. CASE r.type = "UPDATE"
  BY <1>1, <1>2, <1>8 DEF IsDupe, DupeOfUpdate, SameItems, IsPlaylist,
                          WellFormed, Does, Changed
<1>9. CASE r.type = "WRITE" /\ ~IsPlaylist(r)
  BY <1>1, <1>2, <1>9 DEF IsDupe, SameItems, IsPlaylist, WellFormed, Does,
                          Changed
<1>10. CASE r.type = "WIPE"
  BY <1>1, <1>2, <1>10 DEF IsDupe, SameItems, IsPlaylist, WellFormed, Does,
                           Changed
<1>11. QED BY <1>1, <1>3, <1>4, <1>5, <1>6, <1>7, <1>8, <1>9, <1>10
           DEF WellFormed

(* p does what q does, with at least its properties.                       *)
Alike(p, q) ==
  Does(p) = Does(q) /\ Changed(p) = Changed(q) /\ q.data \subseteq p.data

LEMMA MergedAlike ==
  ASSUME NEW q \in Entry, NEW r \in Entry, IsDupe(q, r)
  PROVE  /\ Merged(q, r) \in Entry /\ Alike(Merged(q, r), q)
         /\ r.type = "UPDATE" => r.data \subseteq Merged(q, r).data
<1> DEFINE Rec(t, i, l, d) ==
             [type |-> t, item |-> i, list |-> l, index |-> q.index,
              other |-> q.other, data |-> d, batchId |-> q.batchId]
<1>1. /\ q = Rec(q.type, q.item, q.list, q.data)
      /\ q.item \in Tracks \cup Playlists \cup {NoItem}
      /\ q.list \in Playlists \cup {Library, NoItem}
      /\ q.index \in Nat /\ q.other \in Nat /\ q.batchId \in Nat
      /\ q.data \in SUBSET Properties /\ r.data \in SUBSET Properties
      /\ WellFormed(q) /\ WellFormed(r)
  BY DEF Entry
<1>2. CASE r.type = "UPDATE" /\ ~IsPlaylist(r)
  <2>1. Merged(q, r) = Rec(q.type, q.item, q.list, q.data \cup r.data)
    BY <1>1, <1>2 DEF Merged
  <2>2. QED BY <1>1, <2>1 DEF Entry, WellFormed, Alike, Does, Changed
<1>3. CASE ~(r.type = "UPDATE" /\ ~IsPlaylist(r))
  <2>1. r.type # "UPDATE"
    BY <1>3, Roles, ConstantAssumption DEF IsPlaylist
  <2>2. CASE IsPlaylist(r) /\ q.type \in {"WRITE", "DELETE", "MOVE"}
    <3>1. Does(r) = "change"
      BY <2>2, Roles
    <3>2. Does(q) \in {"change", "make"}
      BY <2>1, <3>1, DupeDoes
    <3>3. Does(q) = "change" /\ q.list \in Playlists
      BY <2>2, <3>2, Roles
    <3>4. Changed(q) = q.list
      BY <3>3, Roles DEF IsPlaylist
    <3>5. Merged(q, r) = Rec("UPDATE", q.list, Library, q.data)
      <4> DEFINE q1 == [q EXCEPT !.type = "UPDATE"]
                 q2 == [q1 EXCEPT !.item = q.list]
      <4>1. q1 = Rec("UPDATE", q.item, q.list, q.data)
        BY <1>1
      <4>2. q2 = Rec("UPDATE", q.list, q.list, q.data)
        <5> HIDE DEF q1
        <5>1. QED BY <4>1
      <4>3. Merged(q, r) = [q2 EXCEPT !.list = Library]
        BY <1>3, <2>2 DEF Merged
      <4>4. QED
        <5> HIDE DEF q2
        <5>1. QED BY <4>2, <4>3
    <3>6. Merged(q, r) \in Entry
      BY <1>1, <3>3, <3>5 DEF Entry, WellFormed
    <3>7. /\ Does(Merged(q, r)) = "change" /\ Changed(Merged(q, r)) = q.list
          /\ Merged(q, r).data = q.data
      BY <3>3, <3>5, ConstantAssumption DEF Does, Changed
    <3>8. QED BY <2>1, <3>3, <3>4, <3>6, <3>7 DEF Alike
  <2>3. CASE ~(IsPlaylist(r) /\ q.type \in {"WRITE", "DELETE", "MOVE"})
    <3>1. Merged(q, r) = q
      BY <1>3, <2>3 DEF Merged
    <3>2. QED BY <2>1, <3>1 DEF Alike
  <2>4. QED BY <2>2, <2>3
<1>4. QED BY <1>2, <1>3

-----------------------------------------------------------------------------
(***************************************************************************)
(* Pushing requests.                                                       *)
(***************************************************************************)

(* q is there for r: r itself, or what r was folded into.                  *)
Stands(q, r) ==
  /\ Changed(q) = Changed(r)
  /\ \/ Does(q) = Does(r)
     \/ Does(r) = "change" /\ Does(q) = "make"
     \/ r.type = "UPDATE" /\ Does(q) \in {"delete", "write"}
  /\ r.type = "UPDATE" => r.data \subseteq q.data

(* The queue e has become f, by requests of R: what was queued still is,   *)
(* at its place; what is new is one of R; every one of R is there.         *)
Grows(e, f, R) ==
  /\ f \in Seq(Entry) /\ Len(e) <= Len(f)
  /\ \A i \in DOMAIN e : Alike(f[i], e[i])
  /\ \A i \in DOMAIN f \ DOMAIN e : \E r \in R : Alike(f[i], r)
  /\ \A r \in R : \E i \in DOMAIN f : Stands(f[i], r)

(* A request is appended, or merged into its duplicate.                    *)
LEMMA PushedCases ==
  ASSUME NEW e \in Seq(Entry), NEW r \in Entry
  PROVE  \/ Duplicates(e, r) = {} /\ Pushed(e, r) = Append(e, r)
         \/ \E i \in Duplicates(e, r) :
              /\ i \in DOMAIN e /\ IsDupe(e[i], r)
              /\ Pushed(e, r) = [e EXCEPT ![i] = Merged(e[i], r)]
<1>1. CASE Duplicates(e, r) = {}
  BY <1>1 DEF Pushed
<1>2. CASE Duplicates(e, r) # {}
  <2> DEFINE i == CHOOSE i \in Duplicates(e, r) : TRUE
  <2>1. i \in Duplicates(e, r)
    BY <1>2
  <2>2. i \in DOMAIN e /\ IsDupe(e[i], r)
    BY <2>1 DEF Duplicates
  <2>3. Pushed(e, r) = [e EXCEPT ![i] = Merged(e[i], r)]
    BY <1>2 DEF Pushed
  <2>4. QED
    <3> HIDE DEF i
    <3>1. QED BY <2>1, <2>2, <2>3
<1>3. QED BY <1>1, <1>2

LEMMA PushedGrows ==
  ASSUME NEW e \in Seq(Entry), NEW r \in Entry
  PROVE  Grows(e, Pushed(e, r), {r})
<1>1. CASE Pushed(e, r) = Append(e, r)
  <2> DEFINE f == Append(e, r)
  <2>1. /\ f \in Seq(Entry) /\ Len(f) = Len(e) + 1 /\ Len(e) \in Nat
        /\ f[Len(e) + 1] = r /\ \A i \in 1..Len(e) : f[i] = e[i]
        /\ DOMAIN e = 1..Len(e) /\ DOMAIN f = 1..(Len(e) + 1)
    OBVIOUS
  <2>2. DOMAIN f \ DOMAIN e = {Len(e) + 1}
    BY <2>1
  <2> HIDE DEF f
  <2>3. \A i \in DOMAIN e : Alike(f[i], e[i])
    BY <2>1 DEF Alike
  <2>4. Alike(r, r) /\ Stands(r, r)
    BY DEF Alike, Stands
  <2>5. \A i \in DOMAIN f \ DOMAIN e : Alike(f[i], r)
    BY <2>1, <2>2, <2>4
  <2>6. \E i \in DOMAIN f : Stands(f[i], r)
    BY <2>1, <2>4
  <2>7. Pushed(e, r) = f
    BY <1>1 DEF f
  <2>8. QED BY <2>1, <2>3, <2>5, <2>6, <2>7 DEF Grows
<1>2. ASSUME NEW i \in DOMAIN e, IsDupe(e[i], r),
             Pushed(e, r) = [e EXCEPT ![i] = Merged(e[i], r)]
      PROVE  Grows(e, Pushed(e, r), {r})
  <2> DEFINE m == Merged(e[i], r)
             f == [e EXCEPT ![i] = m]
  <2>1. e[i] \in Entry /\ \A j \in DOMAIN e : e[j] \in Entry
    OBVIOUS
  <2>2. m \in Entry /\ Alike(m, e[i])
    BY <1>2, <2>1, MergedAlike
  <2>3. Stands(m, r)
    BY <1>2, <2>1, <2>2, MergedAlike, DupeDoes DEF Stands, Alike
  <2> HIDE DEF m
  <2>4. /\ f \in Seq(Entry) /\ Len(f) = Len(e) /\ DOMAIN f = DOMAIN e
        /\ f[i] = m /\ \A j \in DOMAIN e : j # i => f[j] = e[j]
    BY <2>2
  <2> HIDE DEF f
  <2>5. \A j \in DOMAIN e : Alike(f[j], e[j])
    BY <2>2, <2>4 DEF Alike
  <2>6. \E j \in DOMAIN f : Stands(f[j], r)
    BY <2>3, <2>4
  <2>7. Pushed(e, r) = f
    BY <1>2 DEF f, m
  <2>8. Len(e) <= Len(f)
    BY <2>4
  <2>9. QED BY <2>4, <2>5, <2>6, <2>7, <2>8 DEF Grows
<1>3. QED BY <1>1, <1>2, PushedCases

LEMMA GrowsOn ==
  ASSUME NEW e \in Seq(Entry), NEW f, NEW g, NEW R, NEW S,
         Grows(e, f, R), Grows(f, g, S)
  PROVE  Grows(e, g, R \cup S)
<1>1. f \in Seq(Entry) /\ g \in Seq(Entry)
  BY DEF Grows
<1>2. /\ DOMAIN e = 1..Len(e) /\ DOMAIN f = 1..Len(f) /\ DOMAIN g = 1..Len(g)
      /\ Len(e) \in Nat /\ Len(f) \in Nat /\ Len(g) \in Nat
      /\ Len(e) <= Len(f) /\ Len(f) <= Len(g)
  BY <1>1 DEF Grows
<1>3. ASSUME NEW i \in DOMAIN f
      PROVE  Alike(g[i], f[i])
  BY DEF Grows
<1>4. \A i \in DOMAIN e : Alike(g[i], e[i])
  <2>1. \A i \in DOMAIN e : i \in DOMAIN f /\ Alike(f[i], e[i])
    BY <1>2 DEF Grows
  <2>2. QED BY <1>3, <2>1 DEF Alike
<1>5. \A i \in DOMAIN g \ DOMAIN e : \E r \in R \cup S : Alike(g[i], r)
  <2> SUFFICES ASSUME NEW i \in DOMAIN g \ DOMAIN e
               PROVE  \E r \in R \cup S : Alike(g[i], r)
    OBVIOUS
  <2>1. CASE i \in DOMAIN f
    <3>1. PICK r \in R : Alike(f[i], r)
      BY <2>1 DEF Grows
    <3>2. QED BY <1>3, <2>1, <3>1 DEF Alike
  <2>2. CASE i \notin DOMAIN f
    BY <2>2 DEF Grows
  <2>3. QED BY <2>1, <2>2
<1>6. \A r \in R \cup S : \E i \in DOMAIN g : Stands(g[i], r)
  <2> SUFFICES ASSUME NEW r \in R \cup S
               PROVE  \E i \in DOMAIN g : Stands(g[i], r)
    OBVIOUS
  <2>1. CASE r \in R
    <3>1. PICK i \in DOMAIN f : Stands(f[i], r)
      BY <2>1 DEF Grows
    <3>2. i \in DOMAIN g
      BY <1>2
    <3>3. QED BY <1>3, <3>1, <3>2 DEF Alike, Stands
  <2>2. CASE r \in S
    BY <2>2 DEF Grows
  <2>3. QED BY <2>1, <2>2
<1>7. Len(e) <= Len(g)
  BY <1>2
<1>8. QED BY <1>1, <1>4, <1>5, <1>6, <1>7 DEF Grows

(* PushedAll goes from queue to queue.                                     *)
Pushes(g, e, requests) ==
  /\ g[0] = e
  /\ \A i \in 1..Len(requests) : g[i] = Pushed(g[i - 1], requests[i])
  /\ PushedAll(e, requests) = g[Len(requests)]

LEMMA PushedAllIs ==
  ASSUME NEW e \in Seq(Entry), NEW requests \in Seq(Entry)
  PROVE  \E g \in [0..Len(requests) -> Seq(Entry)] : Pushes(g, e, requests)
<1> DEFINE n == Len(requests)
           step == [i \in 1..n |->
                      [x \in Seq(Entry) |-> Pushed(x, requests[i])]]
           Fill(f) == [i \in 0..n |-> IF i = 0 THEN e
                                      ELSE Pushed(f[i - 1], requests[i])]
           pushed == CHOOSE f : f = Fill(f)
<1>1. n \in Nat /\ \A i \in 1..n : requests[i] \in Entry
  OBVIOUS
<1>2. step \in [1..n -> [Seq(Entry) -> Seq(Entry)]]
  BY <1>1, PushedGrows DEF Grows
<1>3. PICK g \in [0..n -> Seq(Entry)] : Iterates(g, n, e, step)
  <2> HIDE DEF step, n
  <2>1. QED BY <1>1, <1>2, Iteration
<1>4. ASSUME NEW i \in 1..n PROVE g[i] = Pushed(g[i - 1], requests[i])
  <2>1. i - 1 \in 0..n
    BY <1>1
  <2>2. g[i - 1] \in Seq(Entry)
    <3> HIDE DEF n
    <3>1. QED BY <2>1
  <2>3. step[i][g[i - 1]] = Pushed(g[i - 1], requests[i])
    BY <2>2
  <2>4. g[i] = step[i][g[i - 1]]
    <3> HIDE DEF step, n
    <3>1. QED BY <1>3 DEF Iterates
  <2>5. QED BY <2>3, <2>4
<1>5. g[0] = e
  <2> HIDE DEF step, n
  <2>1. QED BY <1>3 DEF Iterates
<1>6. g = Fill(g)
  <2> HIDE DEF step
  <2>1. QED BY <1>1, <1>4, <1>5
<1>7. pushed = Fill(pushed)
  <2> HIDE DEF Fill
  <2>1. QED BY <1>6
<1> DEFINE T == {i \in 0..n : pushed[i] = g[i]}
<1>8. 0..n \subseteq T
  <2>1. 0 \in T
    <3> HIDE DEF pushed, step
    <3>1. QED BY <1>1, <1>5, <1>7
  <2>2. ASSUME NEW i \in 1..n, i - 1 \in T PROVE i \in T
    <3>1. pushed[i - 1] = g[i - 1]
      BY <2>2
    <3> HIDE DEF pushed, step
    <3>2. pushed[i] = Pushed(pushed[i - 1], requests[i])
      BY <1>1, <1>7
    <3>3. QED BY <1>1, <1>4, <3>1, <3>2
  <2> HIDE DEF T
  <2>3. QED BY <1>1, <2>1, <2>2, BoundedInduction
<1>9. PushedAll(e, requests) = pushed[n]
  BY DEF PushedAll
<1>10. PushedAll(e, requests) = g[n]
  <2> HIDE DEF pushed
  <2>1. QED BY <1>1, <1>8, <1>9
<1>11. QED
  <2> HIDE DEF step
  <2>1. Pushes(g, e, requests)
    BY <1>4, <1>5, <1>10 DEF Pushes
  <2>2. QED BY <2>1

LEMMA PushedAllGrows ==
  ASSUME NEW e \in Seq(Entry), NEW requests \in Seq(Entry)
  PROVE  Grows(e, PushedAll(e, requests), Range(requests))
<1> DEFINE n == Len(requests)
           Sent(i) == {requests[j] : j \in 1..i}
<1>1. n \in Nat /\ \A i \in 1..n : requests[i] \in Entry
  OBVIOUS
<1>2. PICK g \in [0..n -> Seq(Entry)] : Pushes(g, e, requests)
  BY PushedAllIs
<1> DEFINE T == {i \in 0..n : Grows(e, g[i], Sent(i))}
<1>3. 0 \in T
  <2>1. g[0] = e /\ Sent(0) = {}
    BY <1>2 DEF Pushes
  <2>2. Grows(e, e, {})
    BY DEF Grows, Alike
  <2>3. Grows(e, g[0], Sent(0))
    BY <2>1, <2>2
  <2>4. QED BY <1>1, <2>3
<1>4. ASSUME NEW i \in 1..n, i - 1 \in T PROVE i \in T
  <2>1. g[i] = Pushed(g[i - 1], requests[i])
    BY <1>2 DEF Pushes
  <2>2. g[i - 1] \in Seq(Entry) /\ requests[i] \in Entry
    <3>1. i - 1 \in 0..n
      BY <1>1
    <3> HIDE DEF n
    <3>2. QED BY <1>1, <3>1
  <2>3. Grows(g[i - 1], g[i], {requests[i]})
    BY <2>1, <2>2, PushedGrows
  <2>4. Grows(e, g[i - 1], Sent(i - 1))
    BY <1>4
  <2>5. Sent(i) = Sent(i - 1) \cup {requests[i]}
    BY <1>1
  <2>6. Grows(e, g[i], Sent(i))
    <3> HIDE DEF Sent
    <3>1. QED BY <2>3, <2>4, <2>5, GrowsOn
  <2>7. QED BY <1>1, <2>6
<1>5. n \in T
  <2> HIDE DEF T
  <2>1. 0..n \subseteq T
    BY <1>1, <1>3, <1>4, BoundedInduction
  <2>2. QED BY <1>1, <2>1
<1>6. Sent(n) = Range(requests)
  BY DEF Range
<1>7. PushedAll(e, requests) = g[n]
  BY <1>2 DEF Pushes
<1>8. QED
  <2> HIDE DEF Sent
  <2>1. QED BY <1>5, <1>6, <1>7

LEMMA PushedOne ==
  ASSUME NEW e \in Seq(Entry), NEW r \in Entry
  PROVE  PushedAll(e, <<r>>) = Pushed(e, r)
<1>1. <<r>> \in Seq(Entry) /\ Len(<<r>>) = 1 /\ <<r>>[1] = r
  OBVIOUS
<1>2. PICK g \in [0..1 -> Seq(Entry)] : Pushes(g, e, <<r>>)
  BY <1>1, PushedAllIs
<1>3. g[1] = Pushed(g[0], r)
  BY <1>1, <1>2 DEF Pushes
<1>4. QED BY <1>1, <1>2, <1>3 DEF Pushes

LEMMA PushedNone ==
  ASSUME NEW e \in Seq(Entry) PROVE PushedAll(e, <<>>) = e
<1>1. <<>> \in Seq(Entry) /\ Len(<<>>) = 0
  OBVIOUS
<1>2. PICK g \in [0..0 -> Seq(Entry)] : Pushes(g, e, <<>>)
  BY <1>1, PushedAllIs
<1>3. QED BY <1>1, <1>2 DEF Pushes

-----------------------------------------------------------------------------
(* A request about something new goes to the end of the queue...           *)
LEMMA NewAppended ==
  ASSUME NEW e \in Seq(Entry), NEW r \in Entry,
         \A i \in DOMAIN e : Changed(e[i]) # Changed(r)
  PROVE  Pushed(e, r) = Append(e, r)
<1>1. ASSUME NEW i \in DOMAIN e, IsDupe(e[i], r) PROVE FALSE
  <2>1. e[i] \in Entry
    OBVIOUS
  <2>2. QED BY <1>1, <2>1, DupeDoes
<1>2. QED BY <1>1, PushedCases

(* ... and so does the first deletion of anything.                         *)
LEMMA DeleteAppended ==
  ASSUME NEW e \in Seq(Entry), NEW r \in Entry, Does(r) = "delete",
         ~Has(e, "delete", Changed(r))
  PROVE  Pushed(e, r) = Append(e, r)
<1>1. ASSUME NEW i \in DOMAIN e, IsDupe(e[i], r) PROVE FALSE
  <2>1. e[i] \in Entry
    OBVIOUS
  <2>2. r.type = "DELETE"
    BY Roles
  <2>3. Does(e[i]) = "delete" /\ Changed(e[i]) = Changed(r)
    BY <1>1, <2>1, <2>2, DupeDoes
  <2>4. QED BY <2>3 DEF Has
<1>2. QED BY <1>1, PushedCases

(* Adding a track to a playlist refreshes the playlist after all transfers *)
(* on the queue: the search for a duplicate stops at a transfer.           *)
LEMMA AddedAfterTransfers ==
  ASSUME NEW e \in Seq(Entry), NEW r \in Entry, r.type = "WRITE",
         IsPlaylist(r), NEW i \in DOMAIN Pushed(e, r),
         Does(Pushed(e, r)[i]) = "write"
  PROVE  \E j \in DOMAIN Pushed(e, r) :
           j > i /\ Refreshes(Pushed(e, r)[j], r.list)
<1>1. Does(r) = "change" /\ Changed(r) = r.list
  BY Roles
<1>2. DOMAIN e = 1..Len(e) /\ Len(e) \in Nat
  OBVIOUS
<1>3. CASE Pushed(e, r) = Append(e, r)
  <2> DEFINE n == Len(e) + 1
  <2>1. DOMAIN Append(e, r) = 1..n /\ Append(e, r)[n] = r
    OBVIOUS
  <2>2. i # n
    BY <1>1, <1>3, <2>1
  <2>3. n > i /\ n \in DOMAIN Append(e, r)
    BY <1>2, <1>3, <2>1, <2>2
  <2>4. Refreshes(r, r.list)
    BY <1>1 DEF Refreshes
  <2>5. QED BY <1>3, <2>1, <2>3, <2>4
<1>4. ASSUME NEW k \in Duplicates(e, r), k \in DOMAIN e, IsDupe(e[k], r),
             Pushed(e, r) = [e EXCEPT ![k] = Merged(e[k], r)]
      PROVE  \E j \in DOMAIN Pushed(e, r) :
               j > i /\ Refreshes(Pushed(e, r)[j], r.list)
  <2>1. /\ DOMAIN Pushed(e, r) = DOMAIN e
        /\ Pushed(e, r)[k] = Merged(e[k], r)
        /\ \A j \in DOMAIN e : j # k => Pushed(e, r)[j] = e[j]
    BY <1>4
  <2>2. e[k] \in Entry
    BY <1>4
  <2>3. Refreshes(Pushed(e, r)[k], r.list)
    <3>1. Alike(Merged(e[k], r), e[k])
      BY <1>4, <2>2, MergedAlike
    <3>2. Does(e[k]) \in {"change", "make"} /\ Changed(e[k]) = r.list
      BY <1>1, <1>4, <2>2, DupeDoes
    <3>3. QED BY <2>1, <3>1, <3>2 DEF Refreshes, Alike
  <2>4. i # k
    BY <2>3 DEF Refreshes
  <2>5. ASSUME i > k PROVE FALSE
    <3>1. i \in (k + 1)..Len(e) /\ Pushed(e, r)[i] = e[i]
      BY <1>2, <1>4, <2>1, <2>4, <2>5
    <3>2. ~IsDupe(e[i], r) /\ KeepLooking(e[i], r)
      BY <3>1 DEF Duplicates
    <3>3. e[i].type = "DELETE" /\ ~IsPlaylist(e[i])
      BY <3>2 DEF KeepLooking
    <3>4. e[i] \in Entry /\ Does(e[i]) = "write"
      BY <2>1, <3>1
    <3>5. QED BY <3>3, <3>4, Roles
  <2>6. k > i
    BY <1>2, <1>4, <2>1, <2>4, <2>5
  <2>7. QED BY <1>4, <2>1, <2>3, <2>6
<1>5. QED BY <1>3, <1>4, PushedCases

-----------------------------------------------------------------------------
(***************************************************************************)
(* What a step of the user leaves of the invariant: the queue grows by the *)
(* requests R, the device does nothing.                                    *)
(***************************************************************************)
Pushing(R) ==
  /\ R \subseteq Entry
  /\ Grows(queue, queue', R)
  /\ UNCHANGED <<kind, onDevice, deviceLists>>

(* No request of R does that to x.                                         *)
None(R, what, x) == \A r \in R : ~(Does(r) = what /\ Changed(r) = x)

LEMMA PushingQueue ==
  ASSUME TypeInv, NEW R, Pushing(R)
  PROVE  /\ queue' \in Seq(Entry) /\ queue \in Seq(Entry)
         /\ DOMAIN queue = 1..Len(queue) /\ DOMAIN queue' = 1..Len(queue')
         /\ Len(queue) \in Nat /\ Len(queue') \in Nat
         /\ \A i \in DOMAIN queue :
              i \in DOMAIN queue' /\ Alike(queue'[i], queue[i])
         /\ \A i \in DOMAIN queue' \ DOMAIN queue :
              \E r \in R : Alike(queue'[i], r)
<1>1. /\ queue \in Seq(Entry) /\ queue' \in Seq(Entry)
      /\ Len(queue) <= Len(queue')
  BY DEF TypeInv, Pushing, Grows
<1>2. QED BY <1>1 DEF Pushing, Grows

LEMMA PushingHas ==
  ASSUME TypeInv, NEW R, Pushing(R), NEW what, NEW x
  PROVE  /\ Has(queue, what, x) => Has(queue', what, x)
         /\ Has(queue', what, x) /\ None(R, what, x) => Has(queue, what, x)
<1>1. Has(queue, what, x) => Has(queue', what, x)
  BY PushingQueue DEF Has, Alike
<1>2. ASSUME Has(queue', what, x), None(R, what, x)
      PROVE  Has(queue, what, x)
  <2>1. PICK i \in DOMAIN queue' : Does(queue'[i]) = what
                                     /\ Changed(queue'[i]) = x
    BY <1>2 DEF Has
  <2>2. CASE i \in DOMAIN queue
    BY <2>1, <2>2, PushingQueue DEF Has, Alike
  <2>3. CASE i \notin DOMAIN queue
    <3>1. PICK r \in R : Alike(queue'[i], r)
      BY <2>3, PushingQueue
    <3>2. QED BY <1>2, <2>1, <3>1 DEF Alike, None
  <2>4. QED BY <2>2, <2>3
<1>3. QED BY <1>1, <1>2

(* A request of R that refreshes a playlist, or one that stands for it.    *)
LEMMA PushingRefreshes ==
  ASSUME TypeInv, NEW R, Pushing(R), NEW l
  PROVE  /\ (\E i \in DOMAIN queue : Refreshes(queue[i], l))
              => \E i \in DOMAIN queue' : Refreshes(queue'[i], l)
         /\ (\E r \in R : r.type # "UPDATE" /\ Refreshes(r, l))
              => \E i \in DOMAIN queue' : Refreshes(queue'[i], l)
<1>1. (\E i \in DOMAIN queue : Refreshes(queue[i], l))
        => \E i \in DOMAIN queue' : Refreshes(queue'[i], l)
  BY PushingQueue DEF Refreshes, Alike
<1>2. ASSUME NEW r \in R, r.type # "UPDATE", Refreshes(r, l)
      PROVE  \E i \in DOMAIN queue' : Refreshes(queue'[i], l)
  <2>1. PICK i \in DOMAIN queue' : Stands(queue'[i], r)
    BY DEF Pushing, Grows
  <2>2. QED BY <1>2, <2>1 DEF Stands, Refreshes
<1>3. QED BY <1>1, <1>2

LEMMA FreshKept ==
  ASSUME TypeInv, Fresh, NEW R, Pushing(R), unused' \subseteq unused,
         (library' \cup ghosts' \cup DOMAIN lists') \cap unused' = {},
         \A r \in R : Changed(r) \notin unused'
  PROVE  Fresh'
<1> SUFFICES ASSUME NEW x \in unused'
             PROVE  /\ x \notin DOMAIN deviceLists'
                    /\ \A i \in DOMAIN queue' : Changed(queue'[i]) # x
  BY DEF Fresh
<1>1. x \notin DOMAIN deviceLists'
  BY DEF Fresh, Pushing
<1>2. ASSUME NEW i \in DOMAIN queue' PROVE Changed(queue'[i]) # x
  <2>1. CASE i \in DOMAIN queue
    BY <2>1, PushingQueue DEF Fresh, Alike
  <2>2. CASE i \notin DOMAIN queue
    BY <2>2, PushingQueue DEF Alike
  <2>3. QED BY <2>1, <2>2
<1>3. QED BY <1>1, <1>2

(* Requests that are not transfers of new tracks.                          *)
NoWrite(R) == \A r \in R : Does(r) # "write"

LEMMA WritesKept ==
  ASSUME TypeInv, NEW R, Pushing(R), NoWrite(R), NEW i \in DOMAIN queue',
         Does(queue'[i]) = "write"
  PROVE  /\ i \in DOMAIN queue /\ Does(queue[i]) = "write"
         /\ Changed(queue[i]) = Changed(queue'[i])
<1>1. CASE i \in DOMAIN queue
  BY <1>1, PushingQueue DEF Alike
<1>2. CASE i \notin DOMAIN queue
  BY <1>2, PushingQueue DEF Alike, NoWrite
<1>3. QED BY <1>1, <1>2

LEMMA WrittenKept ==
  ASSUME TypeInv, Written, NEW R, Pushing(R), NoWrite(R)
  PROVE  Written'
BY WritesKept DEF Written

LEMMA FollowingKept ==
  ASSUME TypeInv, Following, NEW R, Pushing(R), NoWrite(R), hidden' = hidden,
         library' \subseteq library, ghosts \subseteq ghosts',
         ghosts' \cap library' = {},
         \A t \in library \ (library' \cup ghosts') :
           t \notin hidden /\ Has(queue', "delete", t)
  PROVE  Following'
<1>1. \A t : Has(queue', "write", t) <=> Has(queue, "write", t)
  BY PushingHas DEF NoWrite, None
<1>2. onDevice' = onDevice
  BY DEF Pushing
<1>3. \A t \in Tracks : t \in hidden' <=> Has(queue', "write", t)
  BY <1>1 DEF Following
<1>4. \A t \in library' : t \in onDevice' <=> t \notin hidden'
  BY <1>2 DEF Following
<1>5. ASSUME NEW t \in Tracks \ (library' \cup ghosts')
      PROVE  t \notin hidden' /\ (t \in onDevice' => Has(queue', "delete", t))
  <2>1. CASE t \in library
    BY <2>1
  <2>2. CASE t \notin library
    <3>1. t \notin hidden /\ (t \in onDevice => Has(queue, "delete", t))
      BY <2>2 DEF Following
    <3>2. QED BY <1>2, <3>1, PushingHas
  <2>3. QED BY <2>1, <2>2
<1>6. QED BY <1>3, <1>4, <1>5 DEF Following

LEMMA NotDeletedKept ==
  ASSUME TypeInv, NEW R, Pushing(R),
         \A x \in library' \cup DOMAIN lists' :
           ~Has(queue, "delete", x) /\ None(R, "delete", x)
  PROVE  NotDeleted'
BY PushingHas DEF NotDeleted

(* A playlist that has not changed, or that R asks to refresh.             *)
LEMMA ListFollowsKept ==
  ASSUME TypeInv, NEW R, Pushing(R), NEW l, ListFollows(l),
         \/ lists'[l] = lists[l]
         \/ \E r \in R : r.type # "UPDATE" /\ Refreshes(r, l)
  PROVE  ListFollows(l)'
<1>1. deviceLists' = deviceLists
  BY DEF Pushing
<1>2. QED BY <1>1, PushingHas, PushingRefreshes DEF ListFollows

LEMMA RefreshedAfterKept ==
  ASSUME TypeInv, NEW R, Pushing(R), NoWrite(R), NEW l, RefreshedAfter(l),
         Range(lists'[l]) \subseteq Range(lists[l])
  PROVE  RefreshedAfter(l)'
<1> SUFFICES ASSUME NEW i \in DOMAIN queue', Does(queue'[i]) = "write",
                    Changed(queue'[i]) \in Range(lists'[l])
             PROVE  \E j \in DOMAIN queue' : j > i /\ Refreshes(queue'[j], l)
  BY DEF RefreshedAfter
<1>1. i \in DOMAIN queue /\ Does(queue[i]) = "write"
        /\ Changed(queue[i]) \in Range(lists[l])
  BY WritesKept
<1>2. PICK j \in DOMAIN queue : j > i /\ Refreshes(queue[j], l)
  BY <1>1 DEF RefreshedAfter
<1>3. QED BY <1>2, PushingQueue DEF Refreshes, Alike

(* A playlist that is not in the library.                                  *)
LEMMA GoneList ==
  ASSUME TypeInv, NEW R, Pushing(R), NEW l, ListGoes(l), None(R, "make", l)
  PROVE  ListGoes(l)'
<1>1. l \in DOMAIN deviceLists' => Has(queue', "delete", l)
  BY PushingHas DEF ListGoes, Pushing
<1>2. ASSUME NEW i \in DOMAIN queue', Does(queue'[i]) = "make",
             Changed(queue'[i]) = l
      PROVE  \E j \in DOMAIN queue' :
               j > i /\ Does(queue'[j]) = "delete" /\ Changed(queue'[j]) = l
  <2>1. i \in DOMAIN queue
    BY <1>2, PushingQueue DEF None, Alike
  <2>2. Does(queue[i]) = "make" /\ Changed(queue[i]) = l
    BY <1>2, <2>1, PushingQueue DEF Alike
  <2>3. PICK j \in DOMAIN queue :
          j > i /\ Does(queue[j]) = "delete" /\ Changed(queue[j]) = l
    BY <2>1, <2>2 DEF ListGoes
  <2>4. QED BY <2>3, PushingQueue DEF Alike
<1>3. QED BY <1>1, <1>2 DEF ListGoes

(* A playlist has not changed, or it has lost or moved tracks, which R     *)
(* asks to refresh, or it is not in the library.                           *)
LEMMA ListsKept ==
  ASSUME TypeInv, ListsFollowing, NEW R, Pushing(R), NoWrite(R),
         \A l \in DOMAIN lists' :
           /\ l \in DOMAIN lists
           /\ \/ lists'[l] = lists[l]
              \/ /\ Range(lists'[l]) \subseteq Range(lists[l])
                 /\ \E r \in R : r.type # "UPDATE" /\ Refreshes(r, l),
         \A l \in Playlists \ DOMAIN lists' :
           l \notin DOMAIN lists /\ None(R, "make", l)
  PROVE  ListsFollowing'
<1> SUFFICES ASSUME kind = "recreating" PROVE ListsFollowing'
  BY DEF ListsFollowing, Pushing
<1>1. /\ deviceLists = [l \in DOMAIN deviceLists |-> deviceLists[l]]
      /\ DOMAIN deviceLists \subseteq Playlists
      /\ \A l \in DOMAIN lists : ListFollows(l) /\ RefreshedAfter(l)
      /\ \A l \in Playlists \ DOMAIN lists : ListGoes(l)
  BY DEF ListsFollowing
<1>2. deviceLists' = deviceLists /\ kind' = kind
  BY DEF Pushing
<1>3. ASSUME NEW l \in DOMAIN lists'
      PROVE  ListFollows(l)' /\ RefreshedAfter(l)'
  <2>1. l \in DOMAIN lists /\ Range(lists'[l]) \subseteq Range(lists[l])
    OBVIOUS
  <2>2. QED BY <1>1, <2>1, ListFollowsKept, RefreshedAfterKept
<1>4. ASSUME NEW l \in Playlists \ DOMAIN lists' PROVE ListGoes(l)'
  BY <1>1, GoneList
<1>5. QED BY <1>1, <1>2, <1>3, <1>4 DEF ListsFollowing

(* No more is to be given to the device than before, or it is on its way.  *)
LEMMA EditsKept ==
  ASSUME TypeInv, EditsFollowing, NEW R, Pushing(R),
         \A t \in Tracks \ library' : edited'[t] = {},
         \A t \in library' \ hidden' : \A p \in edited'[t] :
           \/ t \in library \ hidden /\ p \in edited[t]
           \/ Gives(queue', t, p),
         kind = "recreating" =>
           \A l \in Playlists :
             edited'[l] # {} =>
               /\ l \in DOMAIN lists'
               /\ \/ edited[l] # {}
                  \/ \E i \in DOMAIN queue' : Refreshes(queue'[i], l)
  PROVE  EditsFollowing'
<1>1. ASSUME NEW t \in library' \ hidden', NEW p \in edited'[t]
      PROVE  Gives(queue', t, p)
  <2>1. CASE t \in library \ hidden /\ p \in edited[t]
    <3>1. Gives(queue, t, p)
      BY <2>1 DEF EditsFollowing
    <3>2. QED BY <3>1, PushingQueue DEF Alike, Gives
  <2>2. QED BY <2>1
<1>2. ASSUME kind = "recreating", NEW l \in Playlists, edited'[l] # {}
      PROVE  /\ l \in DOMAIN lists'
             /\ \E i \in DOMAIN queue' : Refreshes(queue'[i], l)
  BY <1>2, PushingRefreshes DEF EditsFollowing
<1>3. kind' = kind
  BY DEF Pushing
<1>4. QED BY <1>1, <1>2, <1>3 DEF EditsFollowing

(* The edits are the same, and so are what they are edits of.              *)
LEMMA SameEdits ==
  ASSUME SyncInv, NEW R, Pushing(R), edited' = edited, hidden' = hidden,
         library' = library, DOMAIN lists \subseteq DOMAIN lists'
  PROVE  EditsFollowing'
<1>1. TypeInv /\ EditsFollowing
  BY DEF SyncInv
<1>2. \A t \in Tracks \ library' : edited'[t] = {}
  BY <1>1 DEF EditsFollowing
<1>3. kind = "recreating" =>
        \A l \in Playlists : edited'[l] # {} =>
          l \in DOMAIN lists' /\ edited[l] # {}
  BY <1>1 DEF EditsFollowing
<1>4. QED BY <1>1, <1>2, <1>3, EditsKept

-----------------------------------------------------------------------------
(***************************************************************************)
(* The user's operations.                                                  *)
(***************************************************************************)
(* A request of the library's listener...                                  *)
LEMMA LibraryRequest ==
  ASSUME TypeInv, NEW type \in {"WRITE", "DELETE", "UPDATE", "NEW_PLAYLIST"},
         NEW x \in Tracks \cup Playlists, NEW data \in SUBSET Properties,
         type = "WRITE" => x \in Tracks,
         type = "NEW_PLAYLIST" => x \in Playlists
  PROVE  LET r == Request(type, x, Library, 0, 0, data)
         IN  /\ r \in Entry /\ Changed(r) = x
             /\ r.type = type /\ r.data = data
             /\ Does(r) = CASE type = "WRITE" -> "write"
                            [] type = "DELETE" -> "delete"
                            [] type = "NEW_PLAYLIST" -> "make"
                            [] type = "UPDATE" ->
                                 IF x \in Playlists THEN "change"
                                 ELSE "update"
<1> DEFINE r == Request(type, x, Library, 0, 0, data)
<1>1. /\ Tracks \cap Playlists = {} /\ Library \notin Tracks \cup Playlists
      /\ NoItem \notin Tracks \cup Playlists \cup {Library}
  BY ConstantAssumption
<1>2. WellFormed(r)
  BY DEF Request, WellFormed
<1>3. /\ r \in Entry /\ r.type = type /\ r.item = x /\ r.list = Library
      /\ r.data = data
  <2>1. currentBatchId \in Nat
    BY DEF TypeInv, TypeOK
  <2>2. QED BY <1>1, <1>2, <2>1 DEF Request, Entry
<1> HIDE DEF r
<1>4. Changed(r) = x
  BY <1>3 DEF Changed
<1>5. Does(r) = CASE type = "WRITE" -> "write"
                  [] type = "DELETE" -> "delete"
                  [] type = "NEW_PLAYLIST" -> "make"
                  [] type = "UPDATE" ->
                       IF x \in Playlists THEN "change" ELSE "update"
  BY <1>1, <1>3, <1>4 DEF Does
<1>6. QED BY <1>3, <1>4, <1>5 DEF r

(* ... and of a playlist's: it refreshes the playlist.                     *)
LEMMA ListRequest ==
  ASSUME TypeInv, NEW l \in Playlists, NEW type, NEW item, NEW list,
         NEW index \in Nat, NEW other \in Nat,
         \/ type \in {"WRITE", "DELETE"} /\ item \in Tracks /\ list = l
         \/ type = "MOVE" /\ item = NoItem /\ list = l
         \/ type = "WIPE" /\ item = l /\ list = NoItem
  PROVE  LET r == Request(type, item, list, index, other, {})
         IN  /\ r \in Entry /\ Changed(r) = l
             /\ r.type = type /\ r.list = list
             /\ r.type # "UPDATE" /\ Does(r) = "change" /\ Refreshes(r, l)
<1> DEFINE r == Request(type, item, list, index, other, {})
<1>1. /\ Tracks \cap Playlists = {} /\ Library \notin Tracks \cup Playlists
      /\ NoItem \notin Tracks \cup Playlists \cup {Library}
  BY ConstantAssumption
<1>2. WellFormed(r)
  BY DEF Request, WellFormed
<1>3. r \in Entry /\ r.type = type /\ r.item = item /\ r.list = list
  <2>1. currentBatchId \in Nat
    BY DEF TypeInv, TypeOK
  <2>2. QED BY <1>1, <1>2, <2>1 DEF Request, Entry
<1> HIDE DEF r
<1>4. Changed(r) = l /\ Does(r) = "change"
  BY <1>1, <1>3 DEF Changed, Does
<1>5. r.type # "UPDATE" /\ Refreshes(r, l)
  BY <1>3, <1>4 DEF Refreshes
<1>6. QED BY <1>3, <1>4, <1>5 DEF r

LEMMA PushOne ==
  ASSUME TypeInv, NEW r \in Entry, Push(<<r>>),
         UNCHANGED <<kind, onDevice, deviceLists>>
  PROVE  queue' = Pushed(queue, r) /\ Pushing({r})
<1>1. queue \in Seq(Entry)
  BY DEF TypeInv
<1>2. queue' = Pushed(queue, r)
  BY <1>1, PushedOne DEF Push
<1>3. QED BY <1>1, <1>2, PushedGrows DEF Pushing

LEMMA UserTypes ==
  ASSUME TypeInv, UserStep, NEW R, Pushing(R),
         library' \subseteq Tracks, hidden' \subseteq Tracks,
         ghosts' \subseteq Tracks, unused' \subseteq unused,
         edited' \in [Tracks \cup Playlists -> SUBSET Properties],
         lists' \in [DOMAIN lists' -> Seq(library')],
         DOMAIN lists' \subseteq Playlists, IsFiniteSet(DOMAIN lists')
  PROVE  TypeInv'
<1>1. queue' \in Seq(Entry)
  BY PushingQueue
<1>2. /\ onDevice' \subseteq Tracks /\ currentBatchId' \in Nat
      /\ unused' \subseteq Tracks \cup Playlists
  BY DEF TypeInv, TypeOK, UserStep, deviceVars
<1>3. \A l \in DOMAIN lists' : lists'[l] \in Seq(library')
  OBVIOUS
<1>4. \A i \in DOMAIN queue' :
        /\ queue'[i].item \in Tracks \cup Playlists \cup {NoItem}
        /\ queue'[i].list \in Playlists \cup {Library, NoItem}
  BY <1>1 DEF Entry
<1>5. QED BY <1>1, <1>2, <1>3, <1>4 DEF TypeInv, TypeOK

(* What the steps of the user have in common.                              *)
LEMMA Known ==
  ASSUME SyncInv
  PROVE  /\ library \subseteq Tracks /\ hidden \subseteq Tracks
         /\ ghosts \subseteq Tracks /\ onDevice \subseteq Tracks
         /\ DOMAIN lists \subseteq Playlists /\ IsFiniteSet(DOMAIN lists)
         /\ lists \in [DOMAIN lists -> Seq(library)]
         /\ edited \in [Tracks \cup Playlists -> SUBSET Properties]
         /\ unused \subseteq Tracks \cup Playlists
         /\ queue \in Seq(Entry) /\ Tracks \cap Playlists = {}
         /\ \A l \in DOMAIN lists : Range(lists[l]) \subseteq library
         /\ (library \cup ghosts \cup DOMAIN lists) \cap unused = {}
         /\ ghosts \cap library = {}
         /\ \A x \in library \cup DOMAIN lists : ~Has(queue, "delete", x)
         /\ \A t \in Tracks \ library : edited[t] = {}
         /\ kind = "recreating" =>
              \A l \in Playlists \ DOMAIN lists : edited[l] = {}
<1>1. \A l \in DOMAIN lists : Range(lists[l]) \subseteq library
  <2>1. \A l \in DOMAIN lists : lists[l] \in Seq(library)
    BY DEF SyncInv, TypeInv
  <2>2. QED BY <2>1 DEF Range
<1>2. QED BY <1>1, ConstantAssumption
      DEF SyncInv, TypeInv, TypeOK, Fresh, Following, NotDeleted,
          EditsFollowing

LEMMA AddTrackKeeps ==
  ASSUME SyncInv, NEW t \in Tracks, AddTrack(t)
  PROVE  SyncInv'
<1> DEFINE r == Request("WRITE", t, Library, 0, 0, {})
           n == Len(queue) + 1
<1>1. /\ t \in unused /\ unused' = unused \ {t} /\ library' = library \cup {t}
      /\ hidden' = hidden \cup {t} /\ Push(<<r>>) /\ UserStep
      /\ UNCHANGED <<lists, edited, ghosts, kind, onDevice, deviceLists>>
  BY DEF AddTrack, UserStep, deviceVars
<1>2. TypeInv /\ queue \in Seq(Entry)
  BY Known DEF SyncInv
<1>3. r \in Entry /\ Changed(r) = t /\ Does(r) = "write"
  BY <1>2, LibraryRequest
<1> HIDE DEF r
<1>4. Pushing({r}) /\ queue' = Pushed(queue, r)
  BY <1>1, <1>2, <1>3, PushOne
<1>5. \A i \in DOMAIN queue : Changed(queue[i]) # t
  BY <1>1 DEF SyncInv, Fresh
<1>6. queue' = Append(queue, r)
  BY <1>2, <1>3, <1>4, <1>5, NewAppended
<1>7. /\ DOMAIN queue = 1..Len(queue) /\ Len(queue) \in Nat
      /\ DOMAIN queue' = 1..n /\ queue'[n] = r
      /\ \A i \in DOMAIN queue : queue'[i] = queue[i]
  BY <1>2, <1>6
<1>8. t \notin library /\ t \notin ghosts /\ edited[t] = {}
  BY <1>1, Known
<1>9. TypeInv'
  <2>1. \A l \in DOMAIN lists : lists[l] \in Seq(library')
    BY <1>1, Known, SeqMonotonic
  <2>2. lists' \in [DOMAIN lists' -> Seq(library')]
    BY <1>1, <2>1, Known
  <2>3. QED BY <1>1, <1>2, <1>4, <2>2, Known, UserTypes
<1>10. Fresh'
  BY <1>1, <1>2, <1>3, <1>4, Known, FreshKept DEF SyncInv
<1>11. Written'
  BY <1>3, <1>5, <1>7 DEF SyncInv, Written
<1>12. Following'
  <2>1. \A x : Has(queue', "write", x) <=> x = t \/ Has(queue, "write", x)
    BY <1>3, <1>7 DEF Has
  <2>2. \A x : Has(queue', "delete", x) <=> Has(queue, "delete", x)
    BY <1>3, <1>7 DEF Has
  <2>3. ~Has(queue, "delete", t)
    BY <1>5 DEF Has
  <2>4. t \notin onDevice
    BY <1>8, <2>3 DEF SyncInv, Following
  <2>5. QED BY <1>1, <1>8, <2>1, <2>2, <2>4 DEF SyncInv, Following
<1>13. NotDeleted'
  <2>1. ~Has(queue, "delete", t)
    BY <1>5 DEF Has
  <2>2. QED BY <1>1, <1>2, <1>3, <1>4, <2>1, Known, NotDeletedKept DEF None
<1>14. ListsFollowing'
  <2> SUFFICES ASSUME kind = "recreating" PROVE ListsFollowing'
    BY <1>1 DEF ListsFollowing
  <2>1. ASSUME NEW l \in DOMAIN lists
        PROVE  ListFollows(l)' /\ RefreshedAfter(l)'
    <3>1. ListFollows(l) /\ RefreshedAfter(l)
      BY DEF SyncInv, ListsFollowing
    <3>2. ListFollows(l)'
      BY <1>1, <1>2, <1>4, <3>1, ListFollowsKept
    <3>3. t \notin Range(lists[l])
      BY <1>8, Known
    <3>4. RefreshedAfter(l)'
      BY <1>1, <1>3, <1>7, <3>1, <3>3 DEF RefreshedAfter
    <3>5. QED BY <3>2, <3>4
  <2>2. ASSUME NEW l \in Playlists \ DOMAIN lists PROVE ListGoes(l)'
    <3>1. ListGoes(l)
      BY DEF SyncInv, ListsFollowing
    <3>2. QED BY <1>2, <1>3, <1>4, <3>1, GoneList DEF None
  <2>3. QED BY <1>1, <2>1, <2>2 DEF SyncInv, ListsFollowing
<1>15. EditsFollowing'
  <2>1. \A x \in library' \ hidden' : x \in library \ hidden
    BY <1>1
  <2>2. kind = "recreating" =>
          \A l \in Playlists : edited'[l] # {} =>
            l \in DOMAIN lists' /\ edited[l] # {}
    BY <1>1, Known
  <2>3. \A x \in Tracks \ library' : edited'[x] = {}
    BY <1>1, Known
  <2>4. QED BY <1>1, <1>2, <1>4, <2>1, <2>2, <2>3, EditsKept DEF SyncInv
<1>16. QED BY <1>9, <1>10, <1>11, <1>12, <1>13, <1>14, <1>15 DEF SyncInv

(* The position of a track is a position.                                  *)
LEMMA PositionIs ==
  ASSUME NEW A, NEW s \in Seq(A), NEW t
  PROVE  PositionOf(t, s) \in Nat
<1> DEFINE I == {i \in 1..Len(s) : s[i] = t}
<1>1. PositionOf(t, s) = IF I # {} THEN Min(I) ELSE 0
  BY DEF PositionOf, SelectInSeq
<1>2. ASSUME NEW n \in I PROVE Min(I) \in Nat
  <2>1. I \in SUBSET Nat
    OBVIOUS
  <2>2. \E m \in I : \A k \in I : m <= k
    <3> HIDE DEF I
    <3>1. QED BY <2>1, LeastNat
  <2>3. Min(I) \in I
    <3> HIDE DEF I
    <3>1. QED BY <2>2 DEF Min
  <2>4. QED BY <2>1, <2>3
<1>3. QED
  <2> HIDE DEF I
  <2>1. QED BY <1>1, <1>2

(* The listeners of the playlists ask to refresh each playlist the track   *)
(* was in, and nothing else.                                               *)
LEMMA RemovalsAre ==
  ASSUME SyncInv, NEW t \in Tracks
  PROVE  /\ RemovalsFromLists(t) \in Seq(Entry)
         /\ \A r \in Range(RemovalsFromLists(t)) :
              /\ r.type # "UPDATE" /\ Does(r) = "change"
              /\ Changed(r) \in Containing(t)
         /\ \A l \in Containing(t) :
              \E r \in Range(RemovalsFromLists(t)) :
                r.type # "UPDATE" /\ Refreshes(r, l)
<1> DEFINE S == Containing(t)
           c == SetToSeq(S)
           Removal(l) ==
             Request("DELETE", t, l, PositionOf(t, lists[l]), 0, {})
<1>1. S \subseteq DOMAIN lists /\ S \subseteq Playlists /\ IsFiniteSet(S)
  <2>1. S \in SUBSET (DOMAIN lists)
    BY DEF Containing
  <2>2. QED BY <2>1, Known, FS_Subset
<1>2. c \in Seq(S) /\ \A l \in S : \E i \in DOMAIN c : c[i] = l
  <2> HIDE DEF S
  <2>1. QED BY <1>1, SetListed
<1>3. ASSUME NEW l \in S
      PROVE  /\ Removal(l) \in Entry /\ Removal(l).type # "UPDATE"
             /\ Does(Removal(l)) = "change" /\ Changed(Removal(l)) = l
             /\ Refreshes(Removal(l), l)
  <2>1. lists[l] \in Seq(library) /\ l \in Playlists
    BY <1>1, Known
  <2> DEFINE p == PositionOf(t, lists[l])
  <2>2. p \in Nat
    BY <2>1, PositionIs
  <2>3. TypeInv
    BY DEF SyncInv
  <2> HIDE DEF p, S
  <2>4. QED BY <2>1, <2>2, <2>3, ListRequest DEF p
<1>4. RemovalsFromLists(t) = [i \in 1..Len(c) |-> Removal(c[i])]
  BY DEF RemovalsFromLists
<1> DEFINE f == [i \in 1..Len(c) |-> Removal(c[i])]
<1>5. /\ Len(c) \in Nat /\ DOMAIN c = 1..Len(c)
      /\ \A i \in 1..Len(c) : c[i] \in S
  <2> HIDE DEF c, S
  <2>1. QED BY <1>2
<1>6. f \in [1..Len(c) -> Entry]
  <2> HIDE DEF c, S, Removal
  <2>1. QED BY <1>3, <1>5
<1>7. f \in Seq(Entry) /\ DOMAIN f = 1..Len(c)
         /\ \A i \in 1..Len(c) : f[i] = Removal(c[i])
  <2> HIDE DEF c, S, Removal
  <2>1. QED BY <1>5, <1>6
<1> HIDE DEF f
<1>8. \A r \in Range(f) : /\ r.type # "UPDATE" /\ Does(r) = "change"
                          /\ Changed(r) \in S
  <2> HIDE DEF c, S, Removal
  <2>1. QED BY <1>3, <1>5, <1>7 DEF Range
<1>9. \A l \in S : \E r \in Range(f) : r.type # "UPDATE" /\ Refreshes(r, l)
  <2> HIDE DEF c, S, Removal
  <2>1. QED BY <1>2, <1>3, <1>5, <1>7 DEF Range
<1>10. QED BY <1>4, <1>7, <1>8, <1>9 DEF f

LEMMA RemoveTrackKeeps ==
  ASSUME SyncInv, NEW t \in Tracks, RemoveTrack(t)
  PROVE  SyncInv'
<1> DEFINE d == Request("DELETE", t, Library, 0, 0, {})
           F == RemovalsFromLists(t)
           sent == IF t \in hidden THEN F ELSE <<d>> \o F
           R == Range(sent)
<1>1. /\ UserStep /\ t \in library /\ library' = library \ {t}
      /\ lists' = ListsWithout(t) /\ edited' = [edited EXCEPT ![t] = {}]
      /\ Push(sent)
      /\ ghosts' = IF t \in hidden THEN ghosts \cup {t} ELSE ghosts
      /\ UNCHANGED <<hidden, unused, kind, onDevice, deviceLists>>
  BY DEF RemoveTrack, UserStep, deviceVars
<1>2. TypeInv /\ queue \in Seq(Entry)
  BY Known DEF SyncInv
<1>3. d \in Entry /\ Changed(d) = t /\ Does(d) = "delete"
  BY <1>2, LibraryRequest
<1>4. /\ F \in Seq(Entry)
      /\ \A r \in Range(F) : /\ r.type # "UPDATE" /\ Does(r) = "change"
                             /\ Changed(r) \in Containing(t)
      /\ \A l \in Containing(t) :
           \E r \in Range(F) : r.type # "UPDATE" /\ Refreshes(r, l)
  BY RemovalsAre
<1> HIDE DEF d, F
<1>5. /\ sent \in Seq(Entry)
      /\ R = Range(F) \cup (IF t \in hidden THEN {} ELSE {d})
  <2>1. CASE t \in hidden
    BY <1>4, <2>1
  <2>2. CASE t \notin hidden
    <3>1. sent = <<d>> \o F
      BY <2>2
    <3>2. /\ sent \in Seq(Entry) /\ DOMAIN sent = 1..(Len(F) + 1)
          /\ sent[1] = d /\ \A i \in 1..Len(F) : sent[i + 1] = F[i]
          /\ DOMAIN F = 1..Len(F) /\ Len(F) \in Nat
      BY <1>3, <1>4, <3>1
    <3> HIDE DEF sent
    <3>3. Range(sent) \subseteq Range(F) \cup {d}
      <4> SUFFICES ASSUME NEW i \in DOMAIN sent
                   PROVE  sent[i] \in Range(F) \cup {d}
        BY DEF Range
      <4>1. CASE i = 1
        BY <3>2, <4>1
      <4>2. CASE i # 1
        <5>1. i - 1 \in 1..Len(F) /\ (i - 1) + 1 = i
          BY <3>2, <4>2
        <5>2. sent[i] = F[i - 1]
          BY <3>2, <5>1
        <5>3. QED BY <3>2, <5>1, <5>2 DEF Range
      <4>3. QED BY <4>1, <4>2
    <3>4. d \in Range(sent)
      BY <3>2 DEF Range
    <3>5. Range(F) \subseteq Range(sent)
      <4> SUFFICES ASSUME NEW i \in DOMAIN F PROVE F[i] \in Range(sent)
        BY DEF Range
      <4>1. i + 1 \in DOMAIN sent /\ F[i] = sent[i + 1]
        BY <3>2
      <4>2. QED BY <4>1 DEF Range
    <3>6. QED BY <2>2, <3>2, <3>3, <3>4, <3>5
  <2>3. QED BY <2>1, <2>2
<1> HIDE DEF sent
<1>6. queue' = PushedAll(queue, sent)
  BY <1>1 DEF Push
<1>7. Pushing(R)
  <2>1. R \subseteq Entry
    BY <1>5 DEF Range
  <2>2. Grows(queue, queue', R)
    BY <1>2, <1>5, <1>6, PushedAllGrows
  <2>3. QED BY <1>1, <2>1, <2>2 DEF Pushing
<1> HIDE DEF R
<1>8. /\ NoWrite(R) /\ \A x : x # t => None(R, "delete", x)
      /\ \A x : None(R, "make", x)
      /\ \A r \in R : Changed(r) = t \/ Changed(r) \in Containing(t)
  BY <1>3, <1>4, <1>5 DEF NoWrite, None
<1>9. t \notin unused /\ Containing(t) \cap unused = {}
        /\ Containing(t) \subseteq DOMAIN lists
  BY <1>1, Known DEF Containing
<1>10. /\ DOMAIN lists' = DOMAIN lists
       /\ \A l \in DOMAIN lists : lists'[l] = Without(lists[l], t)
       /\ lists' = [l \in DOMAIN lists |-> Without(lists[l], t)]
  BY <1>1 DEF ListsWithout
<1>11. ASSUME NEW l \in DOMAIN lists
       PROVE  /\ lists'[l] \in Seq(library')
              /\ l \notin Containing(t) => lists'[l] = lists[l]
              /\ Range(lists'[l]) \subseteq Range(lists[l])
  <2>1. lists[l] \in Seq(library) /\ lists[l] \in Seq(Range(lists[l]))
    BY Known DEF Range
  <2>2. /\ lists'[l] \in Seq(library')
        /\ lists'[l] \in Seq(Range(lists[l]) \ {t})
    BY <1>1, <1>10, <2>1, WithoutIs
  <2>3. l \notin Containing(t) => lists'[l] = lists[l]
    BY <1>10, <2>1, WithoutIs DEF Containing
  <2>4. QED BY <2>2, <2>3 DEF Range
<1>12. TypeInv'
  <2>1. lists' \in [DOMAIN lists' -> Seq(library')]
    BY <1>10, <1>11
  <2>2. edited' \in [Tracks \cup Playlists -> SUBSET Properties]
    BY <1>1, Known
  <2>3. ghosts' \subseteq Tracks
    BY <1>1, Known
  <2>4. QED BY <1>1, <1>2, <1>7, <1>10, <2>1, <2>2, <2>3, Known, UserTypes
<1>13. Fresh'
  <2>1. (library' \cup ghosts' \cup DOMAIN lists') \cap unused' = {}
    BY <1>1, <1>9, <1>10, Known
  <2>2. QED BY <1>1, <1>2, <1>7, <1>8, <1>9, <2>1, FreshKept DEF SyncInv
<1>14. Written'
  BY <1>2, <1>7, <1>8, WrittenKept DEF SyncInv
<1>15. Following'
  <2>1. t \notin hidden => Has(queue', "delete", t)
    <3> SUFFICES ASSUME t \notin hidden PROVE Has(queue', "delete", t)
      OBVIOUS
    <3>1. d \in R
      BY <1>5
    <3>2. PICK i \in DOMAIN queue' : Stands(queue'[i], d)
      BY <1>7, <3>1 DEF Pushing, Grows
    <3>3. d.type # "UPDATE"
      BY <1>3, Roles
    <3>4. QED BY <1>3, <3>2, <3>3 DEF Stands, Has
  <2>2. ghosts' \cap library' = {}
    BY <1>1, Known
  <2>3. QED BY <1>1, <1>2, <1>7, <1>8, <2>1, <2>2, FollowingKept DEF SyncInv
<1>16. NotDeleted'
  <2>1. \A x \in library' \cup DOMAIN lists' :
          ~Has(queue, "delete", x) /\ None(R, "delete", x)
    BY <1>1, <1>8, <1>10, Known
  <2>2. QED BY <1>2, <1>7, <2>1, NotDeletedKept
<1>17. ListsFollowing'
  <2>1. \A l \in Containing(t) :
          \E r \in R : r.type # "UPDATE" /\ Refreshes(r, l)
    BY <1>4, <1>5
  <2>2. QED BY <1>2, <1>7, <1>8, <1>10, <1>11, <2>1, ListsKept DEF SyncInv
<1>18. EditsFollowing'
  <2>1. /\ edited'[t] = {}
        /\ \A x \in (Tracks \cup Playlists) \ {t} : edited'[x] = edited[x]
    BY <1>1, Known
  <2>2. \A x \in Tracks \ library' : edited'[x] = {}
    BY <1>1, <2>1, Known
  <2>3. \A x \in library' \ hidden' :
          x \in library \ hidden /\ edited'[x] = edited[x]
    BY <1>1, <2>1, Known
  <2>4. kind = "recreating" =>
          \A l \in Playlists : edited'[l] # {} =>
            l \in DOMAIN lists' /\ edited[l] # {}
    BY <1>10, <2>1, Known
  <2>5. QED BY <1>2, <1>7, <2>2, <2>3, <2>4, EditsKept DEF SyncInv
<1>19. QED BY <1>12, <1>13, <1>14, <1>15, <1>16, <1>17, <1>18 DEF SyncInv

(* The operations of the user that do not change what there is.            *)
LEMMA UpdateTrackKeeps ==
  ASSUME SyncInv, NEW t \in Tracks, NEW p \in Properties, UpdateTrack(t, p)
  PROVE  SyncInv'
<1> DEFINE r == Request("UPDATE", t, Library, 0, 0, {p})
           R == IF t \in hidden THEN {} ELSE {r}
<1>1. /\ UserStep /\ t \in library
      /\ edited' = [edited EXCEPT ![t] = @ \cup {p}]
      /\ Push(IF t \in hidden THEN <<>> ELSE <<r>>)
      /\ UNCHANGED <<library, hidden, lists, unused, ghosts, kind, onDevice,
                     deviceLists>>
  BY DEF UpdateTrack, UserStep, deviceVars
<1>2. TypeInv /\ queue \in Seq(Entry)
  BY Known DEF SyncInv
<1>3. t \notin Playlists
  BY Known
<1>4. r \in Entry /\ Changed(r) = t /\ Does(r) = "update" /\ r.data = {p}
  BY <1>2, <1>3, LibraryRequest
<1> HIDE DEF r
<1>5. Pushing(R)
  <2>1. CASE t \in hidden
    <3>1. queue' = queue
      BY <1>1, <1>2, <2>1, PushedNone DEF Push
    <3>2. Grows(queue, queue, {})
      BY <1>2 DEF Grows, Alike
    <3>3. QED BY <1>1, <2>1, <3>1, <3>2 DEF Pushing
  <2>2. CASE t \notin hidden
    <3>1. Push(<<r>>)
      BY <1>1, <2>2
    <3>2. QED BY <1>1, <1>2, <1>4, <2>2, <3>1, PushOne
  <2>3. QED BY <2>1, <2>2
<1>6. /\ NoWrite(R) /\ \A x : None(R, "delete", x) /\ None(R, "make", x)
      /\ \A q \in R : Changed(q) \in library
  BY <1>1, <1>4 DEF NoWrite, None
<1> HIDE DEF R
<1>7. TypeInv'
  <2>1. edited' \in [Tracks \cup Playlists -> SUBSET Properties]
    BY <1>1, Known
  <2>2. QED BY <1>1, <1>2, <1>5, <2>1, Known, UserTypes
<1>8. Fresh'
  BY <1>1, <1>2, <1>5, <1>6, Known, FreshKept DEF SyncInv
<1>9. Written' /\ Following'
  BY <1>1, <1>2, <1>5, <1>6, Known, WrittenKept, FollowingKept DEF SyncInv
<1>10. NotDeleted'
  BY <1>1, <1>2, <1>5, <1>6, Known, NotDeletedKept
<1>11. ListsFollowing'
  BY <1>1, <1>2, <1>5, <1>6, ListsKept DEF SyncInv
<1>12. EditsFollowing'
  <2>1. t \notin hidden => Gives(queue', t, p)
    <3> SUFFICES ASSUME t \notin hidden PROVE Gives(queue', t, p)
      OBVIOUS
    <3>1. PICK i \in DOMAIN queue' : Stands(queue'[i], r)
      BY <1>5 DEF Pushing, Grows, R
    <3>2. queue'[i] \in Entry /\ r.type = "UPDATE"
      BY <1>4, <1>5, <1>2, PushingQueue, Roles
    <3>3. ~Has(queue', "delete", t) /\ ~Has(queue', "write", t)
      BY <1>1, <1>9, <1>10 DEF NotDeleted, Following
    <3>4. Does(queue'[i]) = "update" /\ Changed(queue'[i]) = t
            /\ p \in queue'[i].data
      BY <1>4, <3>1, <3>2, <3>3 DEF Stands, Has
    <3>5. QED BY <3>4 DEF Gives
  <2>2. /\ edited'[t] = edited[t] \cup {p}
        /\ \A x \in (Tracks \cup Playlists) \ {t} : edited'[x] = edited[x]
    BY <1>1, Known
  <2>3. \A x \in Tracks \ library' : edited'[x] = {}
    BY <1>1, <2>2, Known
  <2>4. \A x \in library' \ hidden' : \A y \in edited'[x] :
          (x \in library \ hidden /\ y \in edited[x]) \/ Gives(queue', x, y)
    BY <1>1, <2>1, <2>2, Known
  <2>5. kind = "recreating" =>
          \A l \in Playlists : edited'[l] # {} =>
            l \in DOMAIN lists' /\ edited[l] # {}
    BY <1>1, <1>3, <2>2, Known
  <2>6. QED BY <1>2, <1>5, <2>3, <2>4, <2>5, EditsKept DEF SyncInv
<1>13. QED BY <1>7, <1>8, <1>9, <1>10, <1>11, <1>12 DEF SyncInv

LEMMA RenamePlaylistKeeps ==
  ASSUME SyncInv, NEW l \in Playlists, NEW p \in Properties,
         RenamePlaylist(l, p)
  PROVE  SyncInv'
<1> DEFINE r == Request("UPDATE", l, Library, 0, 0, {p})
<1>1. /\ UserStep /\ l \in DOMAIN lists
      /\ edited' = [edited EXCEPT ![l] = @ \cup {p}] /\ Push(<<r>>)
      /\ UNCHANGED <<library, hidden, lists, unused, ghosts, kind, onDevice,
                     deviceLists>>
  BY DEF RenamePlaylist, UserStep, deviceVars
<1>2. TypeInv /\ queue \in Seq(Entry)
  BY Known DEF SyncInv
<1>3. r \in Entry /\ Changed(r) = l /\ Does(r) = "change" /\ r.type = "UPDATE"
  BY <1>2, LibraryRequest
<1> HIDE DEF r
<1>4. Pushing({r})
  BY <1>1, <1>2, <1>3, PushOne
<1>5. /\ NoWrite({r}) /\ \A x : None({r}, "delete", x) /\ None({r}, "make", x)
      /\ \A q \in {r} : Changed(q) \in DOMAIN lists
  BY <1>1, <1>3 DEF NoWrite, None
<1>6. TypeInv'
  <2>1. edited' \in [Tracks \cup Playlists -> SUBSET Properties]
    BY <1>1, Known
  <2>2. QED BY <1>1, <1>2, <1>4, <2>1, Known, UserTypes
<1>7. Fresh'
  BY <1>1, <1>2, <1>4, <1>5, Known, FreshKept DEF SyncInv
<1>8. Written' /\ Following'
  BY <1>1, <1>2, <1>4, <1>5, Known, WrittenKept, FollowingKept DEF SyncInv
<1>9. NotDeleted'
  BY <1>1, <1>2, <1>4, <1>5, Known, NotDeletedKept
<1>10. ListsFollowing'
  BY <1>1, <1>2, <1>4, <1>5, ListsKept DEF SyncInv
<1>11. EditsFollowing'
  <2>1. \E i \in DOMAIN queue' : Refreshes(queue'[i], l)
    <3>1. PICK i \in DOMAIN queue' : Stands(queue'[i], r)
      BY <1>4 DEF Pushing, Grows
    <3>2. queue'[i] \in Entry
      BY <1>2, <1>4, PushingQueue
    <3>3. Changed(queue'[i]) = l /\ Does(queue'[i]) # "delete"
      BY <1>1, <1>3, <1>9, <3>1 DEF NotDeleted, Has, Stands
    <3>4. Does(queue'[i]) # "write"
      BY <3>2, <3>3, Roles, Known
    <3>5. QED BY <1>3, <3>1, <3>3, <3>4 DEF Stands, Refreshes
  <2>2. \A x \in (Tracks \cup Playlists) \ {l} : edited'[x] = edited[x]
    BY <1>1, Known
  <2>3. l \notin Tracks
    BY Known
  <2>4. \A x \in Tracks \ library' : edited'[x] = {}
    BY <1>1, <2>2, <2>3, Known
  <2>5. \A x \in library' \ hidden' : \A y \in edited'[x] :
          x \in library \ hidden /\ y \in edited[x]
    BY <1>1, <2>2, <2>3, Known
  <2>6. kind = "recreating" =>
          \A k \in Playlists : edited'[k] # {} =>
            /\ k \in DOMAIN lists'
            /\ \/ edited[k] # {}
               \/ \E i \in DOMAIN queue' : Refreshes(queue'[i], k)
    BY <1>1, <2>1, <2>2, Known
  <2>7. QED BY <1>2, <1>4, <2>4, <2>5, <2>6, EditsKept DEF SyncInv
<1>12. QED BY <1>6, <1>7, <1>8, <1>9, <1>10, <1>11 DEF SyncInv

(* A new playlist.                                                         *)
LEMMA AddPlaylistKeeps ==
  ASSUME SyncInv, NEW l \in Playlists, AddPlaylist(l)
  PROVE  SyncInv'
<1> DEFINE r == Request("NEW_PLAYLIST", l, Library, 0, 0, {})
<1>1. /\ UserStep /\ l \in unused /\ unused' = unused \ {l} /\ Push(<<r>>)
      /\ lists' = [k \in DOMAIN lists \cup {l} |->
                     IF k = l THEN <<>> ELSE lists[k]]
      /\ UNCHANGED <<library, hidden, edited, ghosts, kind, onDevice,
                     deviceLists>>
  BY DEF AddPlaylist, UserStep, deviceVars
<1>2. TypeInv /\ queue \in Seq(Entry)
  BY Known DEF SyncInv
<1>3. r \in Entry /\ Changed(r) = l /\ Does(r) = "make"
  BY <1>2, LibraryRequest
<1> HIDE DEF r
<1>4. Pushing({r}) /\ queue' = Pushed(queue, r)
  BY <1>1, <1>2, <1>3, PushOne
<1>5. \A i \in DOMAIN queue : Changed(queue[i]) # l
  BY <1>1 DEF SyncInv, Fresh
<1>6. queue' = Append(queue, r)
  BY <1>2, <1>3, <1>4, <1>5, NewAppended
<1>7. /\ NoWrite({r}) /\ \A x : None({r}, "delete", x)
      /\ \A x : x # l => None({r}, "make", x)
  BY <1>3 DEF NoWrite, None
<1>8. /\ DOMAIN lists' = DOMAIN lists \cup {l} /\ lists'[l] = <<>>
      /\ \A k \in DOMAIN lists : lists'[k] = lists[k]
      /\ l \notin DOMAIN lists
  BY <1>1, Known
<1>9. TypeInv'
  <2>1. lists' \in [DOMAIN lists' -> Seq(library')]
    BY <1>1, <1>8, Known
  <2>2. IsFiniteSet(DOMAIN lists')
    BY <1>8, Known, FS_AddElement
  <2>3. QED BY <1>1, <1>2, <1>4, <1>8, <2>1, <2>2, Known, UserTypes
<1>10. Fresh'
  <2>1. (library' \cup ghosts' \cup DOMAIN lists') \cap unused' = {}
    BY <1>1, <1>8, Known
  <2>2. QED BY <1>1, <1>2, <1>3, <1>4, <2>1, FreshKept DEF SyncInv
<1>11. Written' /\ Following'
  BY <1>1, <1>2, <1>4, <1>7, Known, WrittenKept, FollowingKept DEF SyncInv
<1>12. NotDeleted'
  <2>1. ~Has(queue, "delete", l)
    BY <1>5 DEF Has
  <2>2. QED BY <1>1, <1>2, <1>4, <1>7, <1>8, <2>1, Known, NotDeletedKept
<1>13. ListsFollowing'
  <2> SUFFICES ASSUME kind = "recreating" PROVE ListsFollowing'
    BY <1>1 DEF ListsFollowing
  <2>1. ASSUME NEW k \in DOMAIN lists
        PROVE  ListFollows(k)' /\ RefreshedAfter(k)'
    <3>1. ListFollows(k) /\ RefreshedAfter(k) /\ lists'[k] = lists[k]
      BY <1>8 DEF SyncInv, ListsFollowing
    <3>2. QED BY <1>2, <1>4, <1>7, <3>1, ListFollowsKept, RefreshedAfterKept
  <2>2. ListFollows(l)' /\ RefreshedAfter(l)'
    <3>1. /\ Len(queue) + 1 \in DOMAIN queue'
          /\ queue'[Len(queue) + 1] = r
      BY <1>2, <1>6
    <3>2. Has(queue', "make", l)
            /\ \E i \in DOMAIN queue' : Refreshes(queue'[i], l)
      BY <1>3, <3>1 DEF Has, Refreshes
    <3>3. Range(lists'[l]) = {}
      BY <1>8 DEF Range
    <3>4. QED BY <3>2, <3>3 DEF ListFollows, RefreshedAfter
  <2>3. ASSUME NEW k \in Playlists \ DOMAIN lists' PROVE ListGoes(k)'
    <3>1. ListGoes(k) /\ k # l
      BY <1>8 DEF SyncInv, ListsFollowing
    <3>2. QED BY <1>2, <1>4, <1>7, <3>1, GoneList
  <2>4. QED BY <1>1, <1>8, <2>1, <2>2, <2>3 DEF SyncInv, ListsFollowing
<1>14. EditsFollowing'
  BY <1>1, <1>4, <1>8, SameEdits
<1>15. QED BY <1>9, <1>10, <1>11, <1>12, <1>13, <1>14 DEF SyncInv

(* A playlist goes: the first request to delete it is behind everything    *)
(* that makes it.                                                          *)
LEMMA RemovePlaylistKeeps ==
  ASSUME SyncInv, NEW l \in Playlists, RemovePlaylist(l)
  PROVE  SyncInv'
<1> DEFINE r == Request("DELETE", l, Library, 0, 0, {})
<1>1. /\ UserStep /\ l \in DOMAIN lists /\ Push(<<r>>)
      /\ lists' = [k \in DOMAIN lists \ {l} |-> lists[k]]
      /\ edited' = [edited EXCEPT ![l] = {}]
      /\ UNCHANGED <<library, hidden, unused, ghosts, kind, onDevice,
                     deviceLists>>
  BY DEF RemovePlaylist, UserStep, deviceVars
<1>2. TypeInv /\ queue \in Seq(Entry)
  BY Known DEF SyncInv
<1>3. r \in Entry /\ Changed(r) = l /\ Does(r) = "delete"
  BY <1>2, LibraryRequest
<1> HIDE DEF r
<1>4. Pushing({r}) /\ queue' = Pushed(queue, r)
  BY <1>1, <1>2, <1>3, PushOne
<1>5. queue' = Append(queue, r)
  BY <1>1, <1>2, <1>3, <1>4, Known, DeleteAppended
<1>6. /\ NoWrite({r}) /\ \A x : None({r}, "make", x)
      /\ \A x : x # l => None({r}, "delete", x)
  BY <1>3 DEF NoWrite, None
<1>7. /\ DOMAIN lists' = DOMAIN lists \ {l}
      /\ \A k \in DOMAIN lists' : lists'[k] = lists[k]
      /\ l \notin library /\ l \notin Tracks
  BY <1>1, Known
<1>8. /\ edited' \in [Tracks \cup Playlists -> SUBSET Properties]
      /\ edited'[l] = {}
      /\ \A x \in (Tracks \cup Playlists) \ {l} : edited'[x] = edited[x]
  BY <1>1, Known
<1>9. TypeInv'
  <2>1. lists' \in [DOMAIN lists' -> Seq(library')]
    BY <1>1, <1>7, Known
  <2>2. IsFiniteSet(DOMAIN lists')
    <3>1. DOMAIN lists' \in SUBSET (DOMAIN lists)
      BY <1>7
    <3>2. QED BY <3>1, Known, FS_Subset
  <2>3. QED BY <1>1, <1>2, <1>4, <1>7, <1>8, <2>1, <2>2, Known, UserTypes
<1>10. Fresh'
  <2>1. (library' \cup ghosts' \cup DOMAIN lists') \cap unused' = {}
    BY <1>1, <1>7, Known
  <2>2. l \notin unused'
    BY <1>1, Known
  <2>3. QED BY <1>1, <1>2, <1>3, <1>4, <2>1, <2>2, FreshKept DEF SyncInv
<1>11. Written' /\ Following'
  BY <1>1, <1>2, <1>4, <1>6, Known, WrittenKept, FollowingKept DEF SyncInv
<1>12. NotDeleted'
  BY <1>1, <1>2, <1>4, <1>6, <1>7, Known, NotDeletedKept
<1>13. ListsFollowing'
  <2> SUFFICES ASSUME kind = "recreating" PROVE ListsFollowing'
    BY <1>1 DEF ListsFollowing
  <2>1. ASSUME NEW k \in DOMAIN lists'
        PROVE  ListFollows(k)' /\ RefreshedAfter(k)'
    <3>1. ListFollows(k) /\ RefreshedAfter(k) /\ lists'[k] = lists[k]
      BY <1>7 DEF SyncInv, ListsFollowing
    <3>2. QED BY <1>2, <1>4, <1>6, <3>1, ListFollowsKept, RefreshedAfterKept
  <2>2. ListGoes(l)'
    <3> DEFINE n == Len(queue) + 1
    <3>1. /\ DOMAIN queue' = 1..n /\ n \in DOMAIN queue' /\ queue'[n] = r
          /\ Len(queue) \in Nat
      BY <1>2, <1>5
    <3>2. \A i \in DOMAIN queue' :
            Does(queue'[i]) = "make" => n > i
      BY <1>3, <3>1
    <3> HIDE DEF n
    <3>3. QED BY <1>3, <3>1, <3>2 DEF ListGoes, Has
  <2>3. ASSUME NEW k \in Playlists \ DOMAIN lists' PROVE ListGoes(k)'
    <3>1. CASE k = l
      BY <2>2, <3>1
    <3>2. CASE k # l
      <4>1. ListGoes(k)
        BY <1>7, <3>2 DEF SyncInv, ListsFollowing
      <4>2. QED BY <1>2, <1>4, <1>6, <4>1, GoneList
    <3>3. QED BY <3>1, <3>2
  <2>4. QED BY <1>1, <2>1, <2>3 DEF SyncInv, ListsFollowing
<1>14. EditsFollowing'
  <2>1. \A x \in Tracks \ library' : edited'[x] = {}
    BY <1>1, <1>7, <1>8, Known
  <2>2. \A x \in library' \ hidden' : \A y \in edited'[x] :
          x \in library \ hidden /\ y \in edited[x]
    BY <1>1, <1>7, <1>8, Known
  <2>3. kind = "recreating" =>
          \A k \in Playlists : edited'[k] # {} =>
            k \in DOMAIN lists' /\ edited[k] # {}
    BY <1>7, <1>8, Known
  <2>4. QED BY <1>2, <1>4, <2>1, <2>2, <2>3, EditsKept DEF SyncInv
<1>15. QED BY <1>9, <1>10, <1>11, <1>12, <1>13, <1>14 DEF SyncInv

(* A playlist changes, and its listener asks to refresh it.                *)
LEMMA ListChangeKeeps ==
  ASSUME SyncInv, UserStep, NEW l \in DOMAIN lists, NEW s \in Seq(library),
         NEW r \in Entry, r.type # "UPDATE", Does(r) = "change",
         Changed(r) = l, Push(<<r>>), lists' = [lists EXCEPT ![l] = s],
         UNCHANGED <<library, hidden, edited, unused, ghosts>>,
         Range(s) \subseteq Range(lists[l]) \/ RefreshedAfter(l)'
  PROVE  SyncInv'
<1>1. TypeInv /\ queue \in Seq(Entry)
        /\ UNCHANGED <<kind, onDevice, deviceLists>>
  BY Known DEF SyncInv, UserStep, deviceVars
<1>2. Pushing({r})
  BY <1>1, PushOne
<1>3. /\ NoWrite({r}) /\ \A x : None({r}, "delete", x) /\ None({r}, "make", x)
      /\ \A q \in {r} : Changed(q) \in DOMAIN lists
  BY DEF NoWrite, None
<1>4. /\ DOMAIN lists' = DOMAIN lists /\ lists'[l] = s
      /\ \A k \in DOMAIN lists : k # l => lists'[k] = lists[k]
      /\ lists' \in [DOMAIN lists' -> Seq(library')]
  BY Known
<1>5. TypeInv'
  BY <1>1, <1>2, <1>4, Known, UserTypes
<1>6. Fresh'
  BY <1>1, <1>2, <1>3, <1>4, Known, FreshKept DEF SyncInv
<1>7. Written' /\ Following'
  BY <1>1, <1>2, <1>3, Known, WrittenKept, FollowingKept DEF SyncInv
<1>8. NotDeleted'
  BY <1>1, <1>2, <1>3, <1>4, Known, NotDeletedKept
<1>9. ListsFollowing'
  <2> SUFFICES ASSUME kind = "recreating" PROVE ListsFollowing'
    BY <1>1 DEF ListsFollowing
  <2>1. ASSUME NEW k \in DOMAIN lists
        PROVE  ListFollows(k)' /\ RefreshedAfter(k)'
    <3>1. ListFollows(k) /\ RefreshedAfter(k)
      BY DEF SyncInv, ListsFollowing
    <3>2. lists'[k] = lists[k] \/ Refreshes(r, k)
      BY <1>4 DEF Refreshes
    <3>3. ListFollows(k)'
      BY <1>1, <1>2, <3>1, <3>2, ListFollowsKept
    <3>4. RefreshedAfter(k)'
      BY <1>1, <1>2, <1>3, <1>4, <3>1, RefreshedAfterKept
    <3>5. QED BY <3>3, <3>4
  <2>2. ASSUME NEW k \in Playlists \ DOMAIN lists' PROVE ListGoes(k)'
    <3>1. ListGoes(k)
      BY <1>4 DEF SyncInv, ListsFollowing
    <3>2. QED BY <1>1, <1>2, <1>3, <3>1, GoneList
  <2>3. QED BY <1>1, <1>4, <2>1, <2>2 DEF SyncInv, ListsFollowing
<1>10. EditsFollowing'
  BY <1>2, <1>4, SameEdits
<1>11. QED BY <1>5, <1>6, <1>7, <1>8, <1>9, <1>10 DEF SyncInv

(* A track that is added may be waiting for its transfer: the request to   *)
(* refresh the playlist is behind it.                                      *)
LEMMA AddToPlaylistKeeps ==
  ASSUME SyncInv, NEW l \in Playlists, NEW t \in Tracks, AddToPlaylist(l, t)
  PROVE  SyncInv'
<1> DEFINE s == Append(lists[l], t)
           n == Len(lists[l]) + 1
           r == Request("WRITE", t, l, n, 0, {})
<1>1. /\ UserStep /\ l \in DOMAIN lists /\ t \in library
      /\ lists' = [lists EXCEPT ![l] = s] /\ Push(<<r>>)
      /\ UNCHANGED <<library, hidden, edited, unused, ghosts>>
  BY DEF AddToPlaylist
<1>2. TypeInv /\ queue \in Seq(Entry)
        /\ UNCHANGED <<kind, onDevice, deviceLists>>
  BY <1>1, Known DEF SyncInv, UserStep, deviceVars
<1>3. lists[l] \in Seq(library)
  BY <1>1, Known
<1>4. n \in Nat /\ s \in Seq(library)
  BY <1>1, <1>3
<1> HIDE DEF n, s
<1>5. /\ r \in Entry /\ Changed(r) = l /\ Does(r) = "change"
      /\ r.type = "WRITE" /\ r.list = l /\ r.type # "UPDATE"
  BY <1>2, <1>4, ListRequest
<1> HIDE DEF r
<1>6. queue' = Pushed(queue, r)
  BY <1>1, <1>2, <1>5, PushOne
<1>7. RefreshedAfter(l)'
  BY <1>2, <1>5, <1>6, AddedAfterTransfers DEF RefreshedAfter, IsPlaylist
<1>8. QED BY <1>1, <1>4, <1>5, <1>7, ListChangeKeeps

LEMMA RemoveFromPlaylistKeeps ==
  ASSUME SyncInv, NEW l \in Playlists, NEW i, RemoveFromPlaylist(l, i)
  PROVE  SyncInv'
<1> DEFINE s == RemoveAt(lists[l], i)
           t == lists[l][i]
           r == Request("DELETE", t, l, i, 0, {})
<1>1. /\ UserStep /\ l \in DOMAIN lists /\ i \in DOMAIN lists[l]
      /\ lists' = [lists EXCEPT ![l] = s] /\ Push(<<r>>)
      /\ UNCHANGED <<library, hidden, edited, unused, ghosts>>
  BY DEF RemoveFromPlaylist
<1>2. TypeInv
  BY DEF SyncInv
<1>3. lists[l] \in Seq(library) /\ library \subseteq Tracks
  BY <1>1, Known
<1>4. i \in Nat /\ t \in Tracks
  BY <1>1, <1>3
<1>5. s \in Seq(library) /\ Range(s) \subseteq Range(lists[l])
  BY <1>1, <1>3, RemoveAtIs
<1> HIDE DEF s, t
<1>6. /\ r \in Entry /\ Changed(r) = l /\ Does(r) = "change"
      /\ r.type # "UPDATE"
  BY <1>2, <1>4, ListRequest
<1> HIDE DEF r
<1>7. QED BY <1>1, <1>5, <1>6, ListChangeKeeps

LEMMA MoveInPlaylistKeeps ==
  ASSUME SyncInv, NEW l \in Playlists, NEW i, NEW j, MoveInPlaylist(l, i, j)
  PROVE  SyncInv'
<1> DEFINE s == Moved(lists[l], i, j)
           r == Request("MOVE", NoItem, l, i, j, {})
<1>1. /\ UserStep /\ l \in DOMAIN lists
      /\ i \in DOMAIN lists[l] /\ j \in DOMAIN lists[l]
      /\ lists' = [lists EXCEPT ![l] = s] /\ Push(<<r>>)
      /\ UNCHANGED <<library, hidden, edited, unused, ghosts>>
  BY DEF MoveInPlaylist
<1>2. TypeInv
  BY DEF SyncInv
<1>3. lists[l] \in Seq(library)
  BY <1>1, Known
<1>4. i \in Nat /\ j \in Nat
  BY <1>1, <1>3
<1>5. s \in Seq(library) /\ Range(s) \subseteq Range(lists[l])
  BY <1>1, <1>3, MovedIs
<1> HIDE DEF s
<1>6. /\ r \in Entry /\ Changed(r) = l /\ Does(r) = "change"
      /\ r.type # "UPDATE"
  BY <1>2, <1>4, ListRequest
<1> HIDE DEF r
<1>7. QED BY <1>1, <1>5, <1>6, ListChangeKeeps

LEMMA ClearPlaylistKeeps ==
  ASSUME SyncInv, NEW l \in Playlists, ClearPlaylist(l)
  PROVE  SyncInv'
<1> DEFINE s == <<>>
           r == Request("WIPE", l, NoItem, 0, 0, {})
<1>1. /\ UserStep /\ l \in DOMAIN lists
      /\ lists' = [lists EXCEPT ![l] = s] /\ Push(<<r>>)
      /\ UNCHANGED <<library, hidden, edited, unused, ghosts>>
  BY DEF ClearPlaylist
<1>2. TypeInv
  BY DEF SyncInv
<1>3. s \in Seq(library) /\ Range(s) \subseteq Range(lists[l])
  BY DEF Range
<1> HIDE DEF s
<1>4. /\ r \in Entry /\ Changed(r) = l /\ Does(r) = "change"
      /\ r.type # "UPDATE"
  BY <1>2, ListRequest
<1> HIDE DEF r
<1>5. QED BY <1>1, <1>3, <1>4, ListChangeKeeps

LEMMA UserActionKeeps ==
  ASSUME SyncInv, UserAction
  PROVE  SyncInv'
<1>1. ASSUME NEW t \in Tracks, AddTrack(t) \/ RemoveTrack(t) PROVE SyncInv'
  BY <1>1, AddTrackKeeps, RemoveTrackKeeps
<1>2. ASSUME NEW t \in Tracks, NEW p \in Properties, UpdateTrack(t, p)
      PROVE  SyncInv'
  BY <1>2, UpdateTrackKeeps
<1>3. ASSUME NEW l \in Playlists,
             AddPlaylist(l) \/ RemovePlaylist(l) \/ ClearPlaylist(l)
      PROVE  SyncInv'
  BY <1>3, AddPlaylistKeeps, RemovePlaylistKeeps, ClearPlaylistKeeps
<1>4. ASSUME NEW l \in Playlists, NEW p \in Properties, RenamePlaylist(l, p)
      PROVE  SyncInv'
  BY <1>4, RenamePlaylistKeeps
<1>5. ASSUME NEW l \in Playlists, NEW t \in Tracks, AddToPlaylist(l, t)
      PROVE  SyncInv'
  BY <1>5, AddToPlaylistKeeps
<1>6. ASSUME NEW l \in Playlists, NEW i, NEW j,
             RemoveFromPlaylist(l, i) \/ MoveInPlaylist(l, i, j)
      PROVE  SyncInv'
  BY <1>6, RemoveFromPlaylistKeeps, MoveInPlaylistKeeps
<1>7. QED BY <1>1, <1>2, <1>3, <1>4, <1>5, <1>6 DEF UserAction

-----------------------------------------------------------------------------
(***************************************************************************)
(* The device processes the request at the head of the queue.              *)
(***************************************************************************)

(* What is behind the head of the queue has moved up by one.               *)
LEMMA QueueMovesUp ==
  ASSUME TypeInv, ProcessRequest
  PROVE  /\ Head(queue) \in Entry /\ 1 \in DOMAIN queue
         /\ queue[1] = Head(queue) /\ queue' \in Seq(Entry)
         /\ DOMAIN queue \subseteq Nat
         /\ \A i \in DOMAIN queue' :
              /\ i \in Nat /\ i + 1 \in DOMAIN queue
              /\ queue'[i] = queue[i + 1]
         /\ \A i \in DOMAIN queue :
              i > 1 => /\ i - 1 \in DOMAIN queue'
                       /\ queue'[i - 1] = queue[i]
<1>1. queue \in Seq(Entry) /\ queue # <<>> /\ queue' = Tail(queue)
  BY DEF TypeInv, ProcessRequest
<1>2. /\ DOMAIN queue = 1..Len(queue) /\ Len(queue) \in Nat /\ Len(queue) > 0
      /\ queue' \in Seq(Entry) /\ Len(queue') = Len(queue) - 1
      /\ DOMAIN queue' = 1..(Len(queue) - 1)
      /\ Head(queue) = queue[1] /\ Head(queue) \in Entry
  BY <1>1
<1>3. \A i \in DOMAIN queue' : queue'[i] = queue[i + 1]
  BY <1>1, <1>2
<1>4. ASSUME NEW i \in DOMAIN queue, i > 1
      PROVE  i - 1 \in DOMAIN queue' /\ queue'[i - 1] = queue[i]
  <2>1. i - 1 \in DOMAIN queue' /\ (i - 1) + 1 = i
    BY <1>2, <1>4
  <2>2. QED BY <1>3, <2>1
<1>5. QED BY <1>2, <1>3, <1>4

(* Has of the queue, before and after.                                     *)
LEMMA HasMovesUp ==
  ASSUME TypeInv, ProcessRequest, NEW what, NEW x
  PROVE  /\ Has(queue', what, x) => Has(queue, what, x)
         /\ Has(queue, what, x)
              => \/ Has(queue', what, x)
                 \/ Does(Head(queue)) = what /\ Changed(Head(queue)) = x
<1>1. Has(queue', what, x) => Has(queue, what, x)
  BY QueueMovesUp DEF Has
<1>2. ASSUME Has(queue, what, x)
      PROVE  \/ Has(queue', what, x)
             \/ Does(Head(queue)) = what /\ Changed(Head(queue)) = x
  <2>1. PICK i \in DOMAIN queue :
          Does(queue[i]) = what /\ Changed(queue[i]) = x
    BY <1>2 DEF Has
  <2>2. CASE i = 1
    BY <2>1, <2>2, QueueMovesUp
  <2>3. CASE i > 1
    BY <2>1, <2>3, QueueMovesUp DEF Has
  <2>4. i \in Nat /\ i >= 1
    BY DEF TypeInv
  <2>5. QED BY <2>2, <2>3, <2>4
<1>3. QED BY <1>1, <1>2

(* Each request has its handler.                                           *)
LEMMA Handler ==
  ASSUME SyncInv, ProcessRequest
  PROVE  LET r == Head(queue)
         IN  \/ Does(r) = "write" /\ Changed(r) = r.item /\ WriteTrack(r)
             \/ /\ Does(r) = "delete" /\ Changed(r) = r.item
                /\ DeleteTrack(r) \/ DeletePlaylist(r)
             \/ /\ Does(r) = "update" /\ Changed(r) = r.item
                /\ UpdateProperties(r)
             \/ Does(r) = "make" /\ Changed(r) = r.item /\ NewPlaylist(r)
             \/ Does(r) = "change" /\ ChangePlaylist(r)
<1> DEFINE r == Head(queue)
<1>1. r \in Entry /\ WellFormed(r)
  <2>1. r \in Entry
    BY QueueMovesUp DEF SyncInv
  <2> HIDE DEF r
  <2>2. QED BY <2>1 DEF Entry
<1>2. \/ WriteTrack(r) \/ DeleteTrack(r) \/ UpdateProperties(r)
      \/ NewPlaylist(r) \/ DeletePlaylist(r) \/ ChangePlaylist(r)
  BY DEF ProcessRequest
<1>3. /\ Tracks \cap Playlists = {} /\ Library \notin Tracks \cup Playlists
      /\ NoItem \notin Tracks \cup Playlists \cup {Library}
  BY ConstantAssumption
<1> HIDE DEF r
<1>4. CASE WriteTrack(r)
  <2>1. r.type = "WRITE" /\ r.list = Library
    BY <1>4 DEF WriteTrack
  <2>2. Does(r) = "write" /\ Changed(r) = r.item
    BY <1>1, <1>3, <2>1 DEF WellFormed, Does, Changed
  <2>3. QED BY <1>4, <2>2 DEF r
<1>5. CASE DeleteTrack(r)
  <2>1. r.type = "DELETE" /\ r.item \in Tracks /\ r.list = Library
    BY <1>5 DEF DeleteTrack
  <2>2. Does(r) = "delete" /\ Changed(r) = r.item
    BY <1>1, <1>3, <2>1 DEF WellFormed, Does, Changed
  <2>3. QED BY <1>5, <2>2 DEF r
<1>6. CASE UpdateProperties(r)
  <2>1. r.type = "UPDATE" /\ r.item \in Tracks
    BY <1>6 DEF UpdateProperties
  <2>2. Does(r) = "update" /\ Changed(r) = r.item
    BY <1>1, <1>3, <2>1 DEF WellFormed, Does, Changed
  <2>3. QED BY <1>6, <2>2 DEF r
<1>7. CASE NewPlaylist(r)
  <2>1. r.type = "NEW_PLAYLIST"
    BY <1>7 DEF NewPlaylist
  <2>2. Does(r) = "make" /\ Changed(r) = r.item
    BY <1>1, <1>3, <2>1 DEF WellFormed, Does, Changed
  <2>3. QED BY <1>7, <2>2 DEF r
<1>8. CASE DeletePlaylist(r)
  <2>1. r.type = "DELETE" /\ r.item \in Playlists
    BY <1>8 DEF DeletePlaylist
  <2>2. Does(r) = "delete" /\ Changed(r) = r.item
    BY <1>1, <1>3, <2>1 DEF WellFormed, Does, Changed
  <2>3. QED BY <1>8, <2>2 DEF r
<1>9. CASE ChangePlaylist(r)
  <2>1. /\ Changed(r) \in Playlists /\ r.type # "NEW_PLAYLIST"
        /\ ~(r.type = "DELETE" /\ r.list = Library)
    BY <1>9 DEF ChangePlaylist
  <2>2. Does(r) = "change"
    BY <2>1 DEF Does
  <2>3. QED BY <1>9, <2>2 DEF r
<1>10. QED BY <1>2, <1>4, <1>5, <1>6, <1>7, <1>8, <1>9

(* What the handlers do to tracks and properties.                          *)
LEMMA TracksHandled ==
  ASSUME SyncInv, ProcessRequest
  PROVE  LET r == Head(queue)
             x == Changed(r)
         IN  /\ Does(r) = "write"
                  => /\ x \in Tracks /\ onDevice' = onDevice \cup {x}
                     /\ hidden' = hidden \ {x} /\ edited'[x] = {}
             /\ Does(r) = "delete" => onDevice' = onDevice \ {x}
             /\ Does(r) \notin {"write", "delete"} => onDevice' = onDevice
             /\ Does(r) # "write" => hidden' = hidden
             /\ Does(r) = "update" /\ x \in library
                  => \/ edited'[x] \subseteq edited[x] \ r.data
                     \/ edited'[x] = {}
             /\ Does(r) \in {"make", "change"} /\ kind = "recreating"
                  => edited'[x] = {}
             /\ x \in Tracks \cup Playlists
             /\ \A y \in Tracks \cup Playlists :
                  edited'[y] = edited[y] \/ (x = y /\ edited'[y] = {})
                    \/ (x = y /\ x \in library)
             /\ edited' \in [Tracks \cup Playlists -> SUBSET Properties]
<1> DEFINE r == Head(queue)
           x == Changed(r)
<1>1. edited \in [Tracks \cup Playlists -> SUBSET Properties]
        /\ onDevice \subseteq Tracks /\ Tracks \cap Playlists = {}
        /\ library \subseteq Tracks
  BY Known
<1>2. r \in Entry
  BY QueueMovesUp DEF SyncInv
<1>3. \/ Does(r) = "write" /\ x = r.item /\ WriteTrack(r)
      \/ /\ Does(r) = "delete" /\ x = r.item
         /\ DeleteTrack(r) \/ DeletePlaylist(r)
      \/ /\ Does(r) = "update" /\ x = r.item
         /\ UpdateProperties(r)
      \/ Does(r) = "make" /\ x = r.item /\ NewPlaylist(r)
      \/ Does(r) = "change" /\ ChangePlaylist(r)
  BY Handler
<1> DEFINE P == \A y \in Tracks \cup Playlists :
                  edited'[y] = edited[y] \/ (x = y /\ edited'[y] = {})
                    \/ (x = y /\ x \in library)
           E == edited' \in [Tracks \cup Playlists -> SUBSET Properties]
<1> HIDE DEF r
<1>4. CASE Does(r) = "write" /\ x = r.item /\ WriteTrack(r)
  <2>1. x \in Tracks
    BY <1>2, <1>4, Roles
  <2>2. QED BY <1>1, <1>4, <2>1 DEF WriteTrack, r
<1>5. CASE /\ Does(r) = "delete" /\ x = r.item
           /\ DeleteTrack(r) \/ DeletePlaylist(r)
  <2>1. x \in Tracks \cup Playlists
    BY <1>2, <1>5, Roles
  <2>2. edited' = edited /\ hidden' = hidden /\ onDevice' = onDevice \ {x}
    BY <1>1, <1>5 DEF DeleteTrack, DeletePlaylist
  <2>3. QED BY <1>1, <1>5, <2>1, <2>2 DEF r
<1>6. CASE Does(r) = "update" /\ x = r.item /\ UpdateProperties(r)
  <2>1. x \in Tracks
    BY <1>2, <1>6, Roles
  <2>2. onDevice' = onDevice /\ hidden' = hidden
    BY <1>6 DEF UpdateProperties
  <2>3. CASE x \in library
    <3>1. edited' = [edited EXCEPT ![x] = EditsLeft(r, x)]
      BY <1>6, <2>3 DEF UpdateProperties
    <3>2. EditsLeft(r, x) = edited[x] \ r.data \/ EditsLeft(r, x) = {}
      BY DEF EditsLeft
    <3>3. EditsLeft(r, x) \in SUBSET Properties
      BY <1>1, <2>1, <3>2
    <3>4. QED BY <1>1, <1>6, <2>1, <2>2, <2>3, <3>1, <3>2, <3>3 DEF r
  <2>4. CASE x \notin library
    <3>1. edited' = edited
      BY <1>6, <2>4 DEF UpdateProperties
    <3>2. QED BY <1>1, <1>6, <2>1, <2>2, <2>4, <3>1 DEF r
  <2>5. QED BY <2>3, <2>4
<1>7. CASE Does(r) = "make" /\ x = r.item /\ NewPlaylist(r)
  <2>1. x \in Playlists
    BY <1>2, <1>7, Roles
  <2>2. QED BY <1>1, <1>7, <2>1 DEF NewPlaylist, r
<1>8. CASE Does(r) = "change" /\ ChangePlaylist(r)
  <2>1. x \in Playlists
    BY <1>2, <1>8, Roles
  <2>2. /\ edited' = IF kind = "recreating" \/ r.type = "UPDATE"
                     THEN [edited EXCEPT ![x] = {}] ELSE edited
        /\ onDevice' = onDevice /\ hidden' = hidden
    BY <1>8 DEF ChangePlaylist
  <2>3. QED BY <1>1, <1>8, <2>1, <2>2 DEF r
<1>9. QED
  <2> HIDE DEF P, E
  <2>1. QED BY <1>3, <1>4, <1>5, <1>6, <1>7, <1>8

(* ... and what they do to the playlists of the device.                    *)
LEMMA ListsHandled ==
  ASSUME SyncInv, ProcessRequest
  PROVE  LET r == Head(queue)
             x == Changed(r)
         IN  /\ DOMAIN deviceLists' \subseteq DOMAIN deviceLists \cup {x}
             /\ Does(r) \in {"write", "update"} => deviceLists' = deviceLists
             /\ Does(r) = "delete" /\ x \in Tracks
                  => deviceLists' = [l \in DOMAIN deviceLists |->
                                       Without(deviceLists[l], x)]
             /\ Does(r) = "delete" /\ x \in Playlists
                  => deviceLists' = [l \in DOMAIN deviceLists \ {x} |->
                                       deviceLists[l]]
             /\ Does(r) = "make" /\ kind = "recreating"
                  => SetDeviceList(x, Content(x, onDevice))
             /\ Does(r) = "change" /\ kind = "recreating"
                  => IF x \in DOMAIN deviceLists
                     THEN SetDeviceList(x, Content(x, onDevice))
                     ELSE deviceLists' = deviceLists
<1> DEFINE r == Head(queue)
           x == Changed(r)
<1>1. Tracks \cap Playlists = {}
  BY Known
<1>2. r \in Entry
  BY QueueMovesUp DEF SyncInv
<1>3. \/ Does(r) = "write" /\ x = r.item /\ WriteTrack(r)
      \/ /\ Does(r) = "delete" /\ x = r.item
         /\ DeleteTrack(r) \/ DeletePlaylist(r)
      \/ /\ Does(r) = "update" /\ x = r.item
         /\ UpdateProperties(r)
      \/ Does(r) = "make" /\ x = r.item /\ NewPlaylist(r)
      \/ Does(r) = "change" /\ ChangePlaylist(r)
  BY Handler
<1>4. ASSUME NEW l, NEW s, SetDeviceList(l, s)
      PROVE  DOMAIN deviceLists' = DOMAIN deviceLists \cup {l}
  BY <1>4 DEF SetDeviceList
<1> HIDE DEF r
<1>5. CASE Does(r) = "write" /\ x = r.item /\ WriteTrack(r)
  <2>1. deviceLists' = deviceLists
    BY <1>5 DEF WriteTrack
  <2>2. QED BY <1>5, <2>1 DEF r
<1>6. CASE Does(r) = "delete" /\ x = r.item /\ DeleteTrack(r)
  <2>1. /\ r.item \in Tracks
        /\ deviceLists' = [l \in DOMAIN deviceLists |->
                             Without(deviceLists[l], r.item)]
    BY <1>6 DEF DeleteTrack
  <2>2. /\ x \in Tracks /\ x \notin Playlists
        /\ DOMAIN deviceLists' = DOMAIN deviceLists
    BY <1>1, <1>6, <2>1
  <2>3. QED BY <1>6, <2>1, <2>2 DEF r
<1>7. CASE Does(r) = "delete" /\ x = r.item /\ DeletePlaylist(r)
  <2>1. /\ r.item \in Playlists
        /\ deviceLists' = [l \in DOMAIN deviceLists \ {r.item} |->
                             deviceLists[l]]
    BY <1>7 DEF DeletePlaylist
  <2>2. x \in Playlists /\ x \notin Tracks
          /\ DOMAIN deviceLists' = DOMAIN deviceLists \ {x}
    BY <1>1, <1>7, <2>1
  <2>3. QED BY <1>7, <2>1, <2>2 DEF r
<1>8. CASE Does(r) = "update" /\ x = r.item /\ UpdateProperties(r)
  <2>1. deviceLists' = deviceLists
    BY <1>8 DEF UpdateProperties
  <2>2. QED BY <1>8, <2>1 DEF r
<1>9. CASE Does(r) = "make" /\ x = r.item /\ NewPlaylist(r)
  <2>1. SetDeviceList(x, IF kind = "recreating" THEN Content(x, onDevice)
                         ELSE <<>>)
    BY <1>9 DEF NewPlaylist
  <2>2. DOMAIN deviceLists' = DOMAIN deviceLists \cup {x}
    <3> HIDE DEF x
    <3>1. QED BY <1>4, <2>1
  <2>3. kind = "recreating" => SetDeviceList(x, Content(x, onDevice))
    BY <2>1
  <2>4. QED BY <1>9, <2>2, <2>3 DEF r
<1>10. CASE Does(r) = "change" /\ ChangePlaylist(r)
  <2> DEFINE s == IF kind = "recreating" THEN Content(x, onDevice)
                  ELSE ChangedInPlace(r, deviceLists[x])
  <2>1. IF x \in DOMAIN deviceLists THEN SetDeviceList(x, s)
        ELSE deviceLists' = deviceLists
    BY <1>10 DEF ChangePlaylist
  <2>2. DOMAIN deviceLists' \subseteq DOMAIN deviceLists \cup {x}
    <3> HIDE DEF x, s
    <3>1. QED BY <1>4, <2>1
  <2>3. kind = "recreating" => s = Content(x, onDevice)
    OBVIOUS
  <2>4. kind = "recreating" => IF x \in DOMAIN deviceLists
                               THEN SetDeviceList(x, Content(x, onDevice))
                               ELSE deviceLists' = deviceLists
    <3> HIDE DEF x, s
    <3>1. QED BY <2>1, <2>3
  <2>5. QED BY <1>10, <2>2, <2>4 DEF r
<1>11. QED
  <2> HIDE DEF x
  <2>1. QED BY <1>3, <1>5, <1>6, <1>7, <1>8, <1>9, <1>10 DEF r, x

LEMMA ProcessTypes ==
  ASSUME SyncInv, ProcessRequest
  PROVE  TypeInv'
<1>1. TypeInv
  BY DEF SyncInv
<1>2. queue' \in Seq(Entry)
  BY <1>1, QueueMovesUp
<1>3. /\ UNCHANGED <<library, lists, currentBatchId, unused, ghosts>>
      /\ currentBatchId \in Nat
  BY <1>1 DEF ProcessRequest, bounds, TypeInv, TypeOK
<1>4. hidden' \subseteq hidden /\ onDevice' \subseteq Tracks
  BY Known, TracksHandled
<1>5. edited' \in [Tracks \cup Playlists -> SUBSET Properties]
  BY TracksHandled
<1>6. \A i \in DOMAIN queue' :
        /\ queue'[i].item \in Tracks \cup Playlists \cup {NoItem}
        /\ queue'[i].list \in Playlists \cup {Library, NoItem}
  BY <1>2 DEF Entry
<1>7. QED BY <1>1, <1>2, <1>3, <1>4, <1>5, <1>6, Known DEF TypeInv, TypeOK

LEMMA ProcessFresh ==
  ASSUME SyncInv, ProcessRequest
  PROVE  Fresh'
<1> SUFFICES ASSUME NEW x \in unused
             PROVE  /\ x \notin library \cup ghosts \cup DOMAIN lists
                    /\ x \notin DOMAIN deviceLists'
                    /\ \A i \in DOMAIN queue' : Changed(queue'[i]) # x
  BY DEF Fresh, ProcessRequest, bounds
<1>1. /\ x \notin library \cup ghosts \cup DOMAIN lists
      /\ x \notin DOMAIN deviceLists
      /\ \A i \in DOMAIN queue : Changed(queue[i]) # x
  BY DEF SyncInv, Fresh
<1>2. Changed(Head(queue)) # x
  BY <1>1, QueueMovesUp DEF SyncInv
<1>3. \A i \in DOMAIN queue' : Changed(queue'[i]) # x
  BY <1>1, QueueMovesUp DEF SyncInv
<1>4. QED BY <1>1, <1>2, <1>3, ListsHandled

LEMMA ProcessWritten ==
  ASSUME SyncInv, ProcessRequest
  PROVE  /\ Written'
         /\ Does(Head(queue)) = "write"
              => ~Has(queue', "write", Changed(Head(queue)))
<1>1. TypeInv /\ Written
  BY DEF SyncInv
<1>2. ASSUME NEW i \in DOMAIN queue', NEW j \in DOMAIN queue',
             Does(queue'[i]) = "write", Does(queue'[j]) = "write",
             Changed(queue'[i]) = Changed(queue'[j])
      PROVE  i = j
  <2>1. i + 1 = j + 1
    BY <1>1, <1>2, QueueMovesUp DEF Written
  <2>2. i \in Nat /\ j \in Nat
    BY <1>1, QueueMovesUp
  <2>3. QED BY <2>1, <2>2
<1>3. ASSUME NEW i \in DOMAIN queue', Does(queue'[i]) = "write",
             Changed(queue'[i]) = Changed(Head(queue)),
             Does(Head(queue)) = "write"
      PROVE  FALSE
  <2>1. i + 1 = 1 /\ i \in Nat
    BY <1>1, <1>3, QueueMovesUp DEF Written
  <2>2. i = 0 /\ 0 \in DOMAIN queue'
    BY <2>1
  <2>3. 0 \notin DOMAIN queue'
    <3>1. queue' \in Seq(Entry)
      BY <1>1, QueueMovesUp
    <3>2. QED BY <3>1
  <2>4. QED BY <2>2, <2>3
<1>4. QED BY <1>2, <1>3 DEF Written, Has

LEMMA ProcessFollowing ==
  ASSUME SyncInv, ProcessRequest
  PROVE  Following'
<1> DEFINE r == Head(queue)
           x == Changed(r)
<1>1. /\ TypeInv /\ Following /\ NotDeleted
      /\ UNCHANGED <<library, lists, ghosts>>
  BY DEF SyncInv, ProcessRequest
<1>2. /\ Does(r) = "write"
           => /\ x \in Tracks /\ onDevice' = onDevice \cup {x}
              /\ hidden' = hidden \ {x} /\ ~Has(queue', "write", x)
      /\ Does(r) = "delete" => onDevice' = onDevice \ {x}
      /\ Does(r) \notin {"write", "delete"} => onDevice' = onDevice
      /\ Does(r) # "write" => hidden' = hidden
  BY TracksHandled, ProcessWritten
<1>3. \A what, y : Has(queue', what, y) => Has(queue, what, y)
  BY <1>1, HasMovesUp
<1>4. \A what, y :
        Has(queue, what, y)
          => Has(queue', what, y) \/ (Does(r) = what /\ x = y)
  BY <1>1, HasMovesUp
<1>5. Has(queue, Does(r), x)
  BY <1>1, QueueMovesUp DEF Has
<1> HIDE DEF r, x
<1>6. \A t \in Tracks : t \in hidden' <=> Has(queue', "write", t)
  BY <1>1, <1>2, <1>3, <1>4 DEF Following
<1>7. \A t \in library' : t \in onDevice' <=> t \notin hidden'
  <2>1. Does(r) = "delete" => x \notin library
    BY <1>1, <1>5 DEF NotDeleted
  <2>2. QED BY <1>1, <1>2, <2>1 DEF Following
<1>8. \A t \in Tracks \ (library' \cup ghosts') :
        t \notin hidden' /\ (t \in onDevice' => Has(queue', "delete", t))
  <2>1. Does(r) = "write" => x \in hidden
    BY <1>1, <1>2, <1>5 DEF Following
  <2>2. QED BY <1>1, <1>2, <1>4, <2>1 DEF Following
<1>9. QED BY <1>1, <1>6, <1>7, <1>8 DEF Following

LEMMA ProcessNotDeleted ==
  ASSUME SyncInv, ProcessRequest
  PROVE  NotDeleted'
<1>1. TypeInv /\ NotDeleted /\ UNCHANGED <<library, lists>>
  BY DEF SyncInv, ProcessRequest
<1>2. QED BY <1>1, HasMovesUp DEF NotDeleted

(* A playlist that will not be refreshed again has none of its tracks      *)
(* waiting for a transfer: its content is all there.                       *)
LEMMA AllThere ==
  ASSUME SyncInv, ProcessRequest, kind = "recreating", NEW l \in DOMAIN lists,
         Does(Head(queue)) # "write",
         ~\E i \in DOMAIN queue' : Refreshes(queue'[i], l)
  PROVE  Content(l, onDevice) = lists[l]
<1>1. TypeInv /\ Following /\ RefreshedAfter(l)
  BY DEF SyncInv, ListsFollowing
<1>2. lists[l] \in Seq(library) /\ Range(lists[l]) \subseteq library
        /\ library \subseteq Tracks
  BY Known
<1>3. ASSUME NEW t \in Range(lists[l]), t \in hidden PROVE FALSE
  <2>1. PICK i \in DOMAIN queue :
          Does(queue[i]) = "write" /\ Changed(queue[i]) = t
    BY <1>1, <1>2, <1>3 DEF Following, Has
  <2>2. i # 1
    BY <1>1, <2>1, QueueMovesUp
  <2>3. i \in Nat /\ i >= 1
    BY DEF SyncInv, TypeInv
  <2>4. PICK j \in DOMAIN queue : j > i /\ Refreshes(queue[j], l)
    BY <1>1, <2>1 DEF RefreshedAfter
  <2>5. j > 1
    <3>1. j \in Nat
      BY DEF SyncInv, TypeInv
    <3>2. QED BY <2>3, <2>4, <3>1
  <2>6. QED BY <1>1, <2>4, <2>5, QueueMovesUp
<1>4. Range(lists[l]) \subseteq onDevice
  BY <1>1, <1>2, <1>3 DEF Following
<1>5. QED BY <1>2, <1>4, KeptIs DEF Content

(* Requests to refresh a playlist, before and after.                       *)
LEMMA RefreshesMoveUp ==
  ASSUME TypeInv, ProcessRequest, NEW l
  PROVE  (\E i \in DOMAIN queue : Refreshes(queue[i], l))
           => \/ \E i \in DOMAIN queue' : Refreshes(queue'[i], l)
              \/ Refreshes(Head(queue), l)
<1> SUFFICES ASSUME NEW i \in DOMAIN queue, Refreshes(queue[i], l)
             PROVE  \/ \E j \in DOMAIN queue' : Refreshes(queue'[j], l)
                    \/ Refreshes(Head(queue), l)
  OBVIOUS
<1>1. CASE i = 1
  BY <1>1, QueueMovesUp
<1>2. CASE i > 1
  BY <1>2, QueueMovesUp
<1>3. i \in Nat /\ i >= 1
  BY DEF TypeInv
<1>4. QED BY <1>1, <1>2, <1>3

LEMMA ProcessListFollows ==
  ASSUME SyncInv, ProcessRequest, kind = "recreating", NEW l \in DOMAIN lists
  PROVE  ListFollows(l)'
<1> DEFINE r == Head(queue)
           x == Changed(r)
           Later == \E i \in DOMAIN queue' : Refreshes(queue'[i], l)
<1>1. /\ TypeInv /\ NotDeleted /\ ListFollows(l)
      /\ deviceLists = [k \in DOMAIN deviceLists |-> deviceLists[k]]
      /\ DOMAIN deviceLists \subseteq Playlists /\ lists' = lists
  BY DEF SyncInv, ProcessRequest, ListsFollowing
<1>2. /\ l \in Playlists /\ lists[l] \in Seq(library)
      /\ Range(lists[l]) \subseteq library /\ Tracks \cap Playlists = {}
      /\ library \subseteq Tracks /\ x \in Tracks \cup Playlists
  BY Known, TracksHandled
<1>3. r \in Entry
  BY <1>1, QueueMovesUp
<1>4. Does(r) = "delete" => x \notin library \cup DOMAIN lists
  BY <1>1, QueueMovesUp DEF NotDeleted, Has
<1>5. Has(queue, "make", l)
        => Has(queue', "make", l) \/ (Does(r) = "make" /\ x = l)
  BY <1>1, HasMovesUp
<1>6. (\E i \in DOMAIN queue : Refreshes(queue[i], l))
        => Later \/ Refreshes(r, l)
  BY <1>1, RefreshesMoveUp
<1>7. Has(queue', "make", l) => Later
  BY DEF Has, Refreshes
<1>8. ListFollows(l)' <=>
        /\ l \in DOMAIN deviceLists' \/ Has(queue', "make", l)
        /\ Later \/ (l \in DOMAIN deviceLists' /\ deviceLists'[l] = lists[l])
  BY <1>1 DEF ListFollows
<1> HIDE DEF Later
<1>9. CASE Refreshes(r, l)
  <2>1. x = l /\ Does(r) \in {"make", "change"}
    BY <1>9 DEF Refreshes
  <2>2. CASE Does(r) = "make" \/ l \in DOMAIN deviceLists
    <3>1. SetDeviceList(l, Content(l, onDevice))
      BY <2>1, <2>2, ListsHandled
    <3>2. l \in DOMAIN deviceLists' /\ deviceLists'[l] = Content(l, onDevice)
      BY <3>1 DEF SetDeviceList
    <3>3. ~Later => Content(l, onDevice) = lists[l]
      BY <2>1, AllThere DEF Later
    <3>4. QED BY <1>8, <3>2, <3>3
  <2>3. CASE Does(r) = "change" /\ l \notin DOMAIN deviceLists
    <3>1. Has(queue', "make", l)
      BY <1>1, <1>5, <2>3 DEF ListFollows
    <3>2. QED BY <1>7, <1>8, <3>1
  <2>4. QED BY <2>1, <2>2, <2>3
<1>10. CASE ~Refreshes(r, l)
  <2>1. ~(Does(r) \in {"make", "change"} /\ x = l)
    BY <1>10 DEF Refreshes
  <2>2. Has(queue, "make", l) => Has(queue', "make", l)
    BY <1>5, <2>1
  <2>3. l \in DOMAIN deviceLists =>
          /\ l \in DOMAIN deviceLists'
          /\ deviceLists[l] = lists[l] => deviceLists'[l] = lists[l]
    <3> SUFFICES ASSUME l \in DOMAIN deviceLists
                 PROVE  /\ l \in DOMAIN deviceLists'
                        /\ deviceLists[l] = lists[l]
                             => deviceLists'[l] = lists[l]
      OBVIOUS
    <3>1. CASE Does(r) \in {"write", "update"}
      BY <3>1, ListsHandled
    <3>2. CASE Does(r) = "delete" /\ x \in Tracks
      <4>1. deviceLists' = [k \in DOMAIN deviceLists |->
                              Without(deviceLists[k], x)]
        BY <3>2, ListsHandled
      <4>2. x \notin Range(lists[l])
        BY <1>2, <1>4, <3>2
      <4>3. Without(lists[l], x) = lists[l]
        BY <1>2, <4>2, WithoutIs
      <4>4. QED BY <4>1, <4>3
    <3>3. CASE Does(r) = "delete" /\ x \in Playlists
      <4>1. deviceLists' = [k \in DOMAIN deviceLists \ {x} |-> deviceLists[k]]
        BY <3>3, ListsHandled
      <4>2. x # l
        BY <1>4, <3>3
      <4>3. QED BY <4>1, <4>2
    <3>4. CASE Does(r) \in {"make", "change"}
      <4>1. \/ SetDeviceList(x, Content(x, onDevice))
            \/ deviceLists' = deviceLists
        BY <3>4, ListsHandled
      <4>2. x # l
        BY <2>1, <3>4
      <4>3. QED BY <4>1, <4>2 DEF SetDeviceList
    <3>5. Does(r) \in {"write", "update", "delete", "make", "change"}
      BY <1>3, Roles
    <3>6. QED BY <1>2, <3>1, <3>2, <3>3, <3>4, <3>5
  <2>4. QED BY <1>1, <1>6, <1>8, <1>10, <2>2, <2>3 DEF ListFollows
<1>11. QED BY <1>9, <1>10

LEMMA ProcessListGoes ==
  ASSUME SyncInv, ProcessRequest, kind = "recreating",
         NEW l \in Playlists \ DOMAIN lists
  PROVE  ListGoes(l)'
<1> DEFINE r == Head(queue)
           x == Changed(r)
<1>1. /\ TypeInv /\ ListGoes(l)
      /\ deviceLists = [k \in DOMAIN deviceLists |-> deviceLists[k]]
      /\ DOMAIN deviceLists \subseteq Playlists
  BY DEF SyncInv, ListsFollowing
<1>2. r \in Entry /\ x \in Tracks \cup Playlists /\ l \in Playlists
        /\ Tracks \cap Playlists = {}
  BY <1>1, QueueMovesUp, TracksHandled, Known
<1>3. Has(queue, "delete", l)
        => Has(queue', "delete", l) \/ (Does(r) = "delete" /\ x = l)
  BY <1>1, HasMovesUp
<1>4. ASSUME NEW i \in DOMAIN queue', Does(queue'[i]) = "make",
             Changed(queue'[i]) = l
      PROVE  \E j \in DOMAIN queue' :
               j > i /\ Does(queue'[j]) = "delete" /\ Changed(queue'[j]) = l
  <2>1. i \in Nat /\ i + 1 \in DOMAIN queue /\ queue'[i] = queue[i + 1]
    BY <1>1, QueueMovesUp
  <2>2. PICK j \in DOMAIN queue : /\ j > i + 1 /\ Does(queue[j]) = "delete"
                                  /\ Changed(queue[j]) = l
    BY <1>1, <1>4, <2>1 DEF ListGoes
  <2>3. j \in Nat
    BY <1>1, QueueMovesUp
  <2>4. j > 1 /\ j - 1 > i
    BY <2>1, <2>2, <2>3
  <2>5. j - 1 \in DOMAIN queue' /\ queue'[j - 1] = queue[j]
    BY <1>1, <2>4, QueueMovesUp
  <2>6. QED BY <2>2, <2>4, <2>5
<1>5. ASSUME l \in DOMAIN deviceLists' PROVE Has(queue', "delete", l)
  <2>1. CASE Does(r) = "make" /\ x = l
    <3>1. PICK j \in DOMAIN queue : /\ j > 1 /\ Does(queue[j]) = "delete"
                                    /\ Changed(queue[j]) = l
      BY <1>1, <2>1, QueueMovesUp DEF ListGoes
    <3>2. j - 1 \in DOMAIN queue' /\ queue'[j - 1] = queue[j]
      BY <1>1, <3>1, QueueMovesUp
    <3>3. QED BY <3>1, <3>2 DEF Has
  <2>2. CASE ~(Does(r) = "make" /\ x = l)
    <3>1. l \in DOMAIN deviceLists /\ ~(Does(r) = "delete" /\ x = l)
      <4>1. CASE Does(r) \in {"write", "update"}
        BY <1>5, <4>1, ListsHandled
      <4>2. CASE Does(r) = "delete" /\ x \in Tracks
        <5>1. DOMAIN deviceLists' = DOMAIN deviceLists
          BY <4>2, ListsHandled
        <5>2. QED BY <1>2, <1>5, <4>2, <5>1
      <4>3. CASE Does(r) = "delete" /\ x \in Playlists
        <5>1. DOMAIN deviceLists' = DOMAIN deviceLists \ {x}
          BY <4>3, ListsHandled
        <5>2. QED BY <1>5, <5>1
      <4>4. CASE Does(r) = "make"
        <5>1. SetDeviceList(x, Content(x, onDevice)) /\ x # l
          BY <2>2, <4>4, ListsHandled
        <5>2. QED BY <1>5, <4>4, <5>1 DEF SetDeviceList
      <4>5. CASE Does(r) = "change"
        <5>1. IF x \in DOMAIN deviceLists
              THEN SetDeviceList(x, Content(x, onDevice))
              ELSE deviceLists' = deviceLists
          BY <4>5, ListsHandled
        <5>2. DOMAIN deviceLists' = DOMAIN deviceLists
          BY <5>1 DEF SetDeviceList
        <5>3. QED BY <1>5, <4>5, <5>2
      <4>6. Does(r) \in {"write", "update", "delete", "make", "change"}
        BY <1>2, Roles
      <4>7. QED BY <1>2, <4>1, <4>2, <4>3, <4>4, <4>5, <4>6
    <3>2. QED BY <1>1, <1>3, <3>1 DEF ListGoes
  <2>3. QED BY <2>1, <2>2
<1>6. QED BY <1>4, <1>5 DEF ListGoes

LEMMA ProcessLists ==
  ASSUME SyncInv, ProcessRequest
  PROVE  ListsFollowing'
<1> SUFFICES ASSUME kind = "recreating" PROVE ListsFollowing'
  BY DEF ListsFollowing, ProcessRequest
<1> DEFINE r == Head(queue)
           x == Changed(r)
<1>1. /\ TypeInv /\ UNCHANGED <<kind, lists>>
      /\ deviceLists = [k \in DOMAIN deviceLists |-> deviceLists[k]]
      /\ DOMAIN deviceLists \subseteq Playlists
      /\ \A l \in DOMAIN lists : RefreshedAfter(l)
  BY DEF SyncInv, ProcessRequest, ListsFollowing
<1>2. r \in Entry /\ x \in Tracks \cup Playlists
  BY <1>1, QueueMovesUp, TracksHandled
<1>3. /\ deviceLists' = [k \in DOMAIN deviceLists' |-> deviceLists'[k]]
      /\ DOMAIN deviceLists' \subseteq Playlists
  <2>1. CASE Does(r) \in {"write", "update"}
    <3>1. deviceLists' = deviceLists
      BY <2>1, ListsHandled
    <3>2. QED BY <1>1, <3>1
  <2>2. CASE Does(r) = "delete" /\ x \in Tracks
    <3>1. deviceLists' = [l \in DOMAIN deviceLists |->
                            Without(deviceLists[l], x)]
      BY <2>2, ListsHandled
    <3>2. QED BY <1>1, <3>1
  <2>3. CASE Does(r) = "delete" /\ x \in Playlists
    <3>1. deviceLists' = [l \in DOMAIN deviceLists \ {x} |-> deviceLists[l]]
      BY <2>3, ListsHandled
    <3>2. QED BY <1>1, <3>1
  <2>4. CASE Does(r) \in {"make", "change"}
    <3>1. SetDeviceList(x, Content(x, onDevice)) \/ deviceLists' = deviceLists
      BY <2>4, ListsHandled
    <3>2. x \in Playlists
      BY <1>2, <2>4, Roles
    <3> HIDE DEF x
    <3>3. QED BY <1>1, <3>1, <3>2 DEF SetDeviceList
  <2>5. Does(r) \in {"write", "update", "delete", "make", "change"}
    BY <1>2, Roles
  <2>6. QED BY <1>2, <2>1, <2>2, <2>3, <2>4, <2>5
<1>4. ASSUME NEW l \in DOMAIN lists PROVE RefreshedAfter(l)'
  <2> SUFFICES ASSUME NEW i \in DOMAIN queue', Does(queue'[i]) = "write",
                      Changed(queue'[i]) \in Range(lists[l])
               PROVE  \E j \in DOMAIN queue' :
                        j > i /\ Refreshes(queue'[j], l)
    BY <1>1 DEF RefreshedAfter
  <2>1. i \in Nat /\ i + 1 \in DOMAIN queue /\ queue'[i] = queue[i + 1]
    BY <1>1, QueueMovesUp
  <2>2. PICK j \in DOMAIN queue : j > i + 1 /\ Refreshes(queue[j], l)
    BY <1>1, <2>1 DEF RefreshedAfter
  <2>3. j \in Nat
    BY <1>1, QueueMovesUp
  <2>4. j > 1 /\ j - 1 > i
    BY <2>1, <2>2, <2>3
  <2>5. QED BY <1>1, <2>2, <2>4, QueueMovesUp
<1>5. QED BY <1>1, <1>3, <1>4, ProcessListFollows, ProcessListGoes
      DEF ListsFollowing

LEMMA ProcessEdits ==
  ASSUME SyncInv, ProcessRequest
  PROVE  EditsFollowing'
<1> DEFINE r == Head(queue)
           x == Changed(r)
<1>1. TypeInv /\ EditsFollowing /\ UNCHANGED <<kind, library, lists>>
  BY DEF SyncInv, ProcessRequest
<1>2. r \in Entry /\ x \in Tracks \cup Playlists
        /\ Tracks \cap Playlists = {} /\ library \subseteq Tracks
  BY <1>1, QueueMovesUp, TracksHandled, Known
<1>3. \A y \in Tracks \cup Playlists :
        edited'[y] = edited[y] \/ (x = y /\ edited'[y] = {})
          \/ (x = y /\ x \in library)
  BY TracksHandled
<1>4. \A t \in Tracks \ library' : edited'[t] = {}
  BY <1>1, <1>2, <1>3 DEF EditsFollowing
<1>5. ASSUME NEW t \in library' \ hidden', NEW p \in edited'[t]
      PROVE  Gives(queue', t, p)
  <2>1. t \in library /\ t \in Tracks /\ t \notin hidden'
    BY <1>1, <1>2
  <2>2. Does(r) = "write" => x # t
    BY <1>5, TracksHandled
  <2>3. t \notin hidden
    BY <2>1, <2>2, TracksHandled
  <2>4. x = t => Does(r) \in {"update", "delete"}
    <3>1. CASE Does(r) \in {"make", "change"}
      BY <1>2, <2>1, <3>1, Roles
    <3>2. QED BY <1>2, <2>2, <3>1, Roles
  <2>5. Does(r) = "delete" => x # t
    BY <1>1, <2>1, QueueMovesUp DEF SyncInv, NotDeleted, Has
  <2>6. p \in edited[t] /\ ~(Does(r) = "update" /\ x = t /\ p \in r.data)
    <3>1. CASE x = t
      <4>1. Does(r) = "update" /\ x \in library
        BY <2>1, <2>4, <2>5, <3>1
      <4>2. edited'[x] \subseteq edited[x] \ r.data \/ edited'[x] = {}
        BY <4>1, TracksHandled
      <4>3. QED BY <1>5, <3>1, <4>2
    <3>2. CASE x # t
      BY <1>3, <1>5, <2>1, <3>2
    <3>3. QED BY <3>1, <3>2
  <2>7. PICK i \in DOMAIN queue : /\ Does(queue[i]) = "update"
                                  /\ Changed(queue[i]) = t
                                  /\ p \in queue[i].data
    BY <1>1, <2>1, <2>3, <2>6 DEF EditsFollowing, Gives
  <2>8. i # 1
    BY <1>1, <2>6, <2>7, QueueMovesUp
  <2>9. i > 1
    BY <1>1, <2>8 DEF TypeInv
  <2>10. QED BY <1>1, <2>7, <2>9, QueueMovesUp DEF Gives
<1>6. ASSUME kind = "recreating", NEW l \in Playlists, edited'[l] # {}
      PROVE  /\ l \in DOMAIN lists
             /\ \E i \in DOMAIN queue' : Refreshes(queue'[i], l)
  <2>1. edited'[l] = edited[l]
    BY <1>2, <1>3, <1>6
  <2>2. l \in DOMAIN lists /\ \E i \in DOMAIN queue : Refreshes(queue[i], l)
    BY <1>1, <1>6, <2>1 DEF EditsFollowing
  <2>3. ~Refreshes(r, l)
    BY <1>6, TracksHandled DEF Refreshes
  <2>4. QED BY <1>1, <2>2, <2>3, RefreshesMoveUp
<1>7. QED BY <1>1, <1>4, <1>5, <1>6 DEF EditsFollowing

LEMMA ProcessRequestKeeps ==
  ASSUME SyncInv, ProcessRequest
  PROVE  SyncInv'
BY ProcessTypes, ProcessFresh, ProcessWritten, ProcessFollowing,
   ProcessNotDeleted, ProcessLists, ProcessEdits DEF SyncInv

-----------------------------------------------------------------------------
(***************************************************************************)
(* The invariant.                                                          *)
(***************************************************************************)
LEMMA SyncStarts == Init => SyncInv
<1> SUFFICES ASSUME Init PROVE SyncInv
  OBVIOUS
<1>1. /\ library = {} /\ hidden = {} /\ lists = <<>> /\ queue = <<>>
      /\ edited = [i \in Tracks \cup Playlists |-> {}]
      /\ currentBatchId = 1 /\ onDevice = {} /\ deviceLists = <<>>
      /\ ghosts = {} /\ unused = Tracks \cup Playlists
  BY DEF Init
<1>2. DOMAIN lists = {} /\ DOMAIN queue = {} /\ DOMAIN deviceLists = {}
  BY <1>1
<1>3. TypeInv
  <2>1. IsFiniteSet(DOMAIN lists)
    BY <1>2, FS_EmptySet
  <2>2. lists \in [DOMAIN lists -> Seq(library)]
    <3>1. <<>> = [l \in {} |-> {}]
      OBVIOUS
    <3>2. QED BY <1>1, <1>2, <3>1
  <2>3. queue \in Seq(Entry)
    BY <1>1
  <2>4. edited \in [Tracks \cup Playlists -> SUBSET Properties]
    BY <1>1
  <2>5. QED BY <1>1, <1>2, <2>1, <2>2, <2>3, <2>4 DEF TypeInv, TypeOK
<1>4. Fresh /\ Written
  BY <1>1, <1>2 DEF Fresh, Written
<1>5. Following /\ NotDeleted
  BY <1>1, <1>2 DEF Following, NotDeleted, Has
<1>6. ListsFollowing
  <2>1. deviceLists = [l \in DOMAIN deviceLists |-> deviceLists[l]]
    <3>1. <<>> = [l \in {} |-> <<>>[l]]
      OBVIOUS
    <3>2. QED BY <1>1, <1>2, <3>1
  <2>2. \A l \in Playlists \ DOMAIN lists : ListGoes(l)
    BY <1>2 DEF ListGoes
  <2>3. QED BY <1>2, <2>1, <2>2 DEF ListsFollowing
<1>7. EditsFollowing
  BY <1>1 DEF EditsFollowing
<1>8. QED BY <1>3, <1>4, <1>5, <1>6, <1>7 DEF SyncInv

(* Batches change nothing of what the invariant is about, and neither does *)
(* a step that changes nothing.                                            *)
LEMMA OthersKeep ==
  ASSUME SyncInv, BatchBegin \/ BatchEnd \/ UNCHANGED vars
  PROVE  SyncInv'
<1>1. /\ UNCHANGED <<library, hidden, lists, edited, queue, kind, onDevice,
                     deviceLists, unused, ghosts>>
      /\ currentBatchId' \in Nat
  <2>1. currentBatchId \in Nat
    BY DEF SyncInv, TypeInv, TypeOK
  <2>2. CASE BatchBegin
    BY <2>1, <2>2 DEF BatchBegin, libraryVars, deviceVars
  <2>3. CASE BatchEnd
    BY <2>1, <2>3 DEF BatchEnd, libraryVars, deviceVars, bounds
  <2>4. CASE UNCHANGED vars
    BY <2>1, <2>4 DEF vars, libraryVars, queueVars, deviceVars, bounds
  <2>5. QED BY <2>2, <2>3, <2>4
<1>2. TypeInv'
  BY <1>1 DEF SyncInv, TypeInv, TypeOK
<1>3. Fresh' /\ Written' /\ Following' /\ NotDeleted'
  BY <1>1 DEF SyncInv, Fresh, Written, Following, NotDeleted, Has
<1>4. ListsFollowing'
  BY <1>1 DEF SyncInv, ListsFollowing, ListFollows, RefreshedAfter, ListGoes,
              Has
<1>5. EditsFollowing'
  BY <1>1 DEF SyncInv, EditsFollowing, Gives
<1>6. QED BY <1>2, <1>3, <1>4, <1>5 DEF SyncInv

(* Every state the system reaches satisfies the inductive invariant:       *)
(* whatever is not on the device yet as it is in the library has a request *)
(* on the queue that will bring it there.                                  *)
THEOREM Invariance == Spec => []SyncInv
<1>1. Init => SyncInv
  BY SyncStarts
<1>2. SyncInv /\ [Next]_vars => SyncInv'
  BY UserActionKeeps, ProcessRequestKeeps, OthersKeep DEF Next
<1>3. QED BY <1>1, <1>2, PTL DEF Spec

(* The variables have their types: in particular the tracks of a playlist  *)
(* are tracks of the library, and requests are about what there is.        *)
THEOREM TypeCorrect == Spec => []TypeOK
<1>1. SyncInv => TypeOK
  BY DEF SyncInv, TypeInv
<1>2. QED BY <1>1, Invariance, PTL

(* However requests were folded into queued ones, a device with nothing    *)
(* left to do holds the tracks of its library (DupeCheck and               *)
(* IsDuplicateRequest lose no transfer and no deletion).                   *)
THEOREM LibraryReached == Spec => []TracksFollow
<1>1. SyncInv => TracksFollow
  <2> SUFFICES ASSUME SyncInv, Settled PROVE onDevice \ ghosts = library
    BY DEF TracksFollow
  <2>1. \A what, x : ~Has(queue, what, x)
    BY DEF Settled, Has
  <2>2. library \subseteq Tracks /\ onDevice \subseteq Tracks
          /\ ghosts \cap library = {}
    BY Known
  <2>3. \A t \in library : t \in onDevice
    BY <2>1, <2>2 DEF SyncInv, Following
  <2>4. \A t \in onDevice \ ghosts : t \in library
    BY <2>1, <2>2 DEF SyncInv, Following
  <2>5. QED BY <2>2, <2>3, <2>4
<1>2. QED BY <1>1, Invariance, PTL

(* A device that makes a playlist anew whenever it changes has, with       *)
(* nothing left to do, the playlists of the library, and each with its     *)
(* tracks in their order.                                                  *)
THEOREM PlaylistsReached == Spec => []RecreatedPlaylistsFollow
<1>1. SyncInv => RecreatedPlaylistsFollow
  <2> SUFFICES ASSUME SyncInv, kind = "recreating", Settled
               PROVE  deviceLists = lists
    BY DEF RecreatedPlaylistsFollow, PlaylistsFollow
  <2>1. DOMAIN queue = {}
    BY DEF Settled
  <2>2. /\ deviceLists = [l \in DOMAIN deviceLists |-> deviceLists[l]]
        /\ DOMAIN deviceLists \subseteq Playlists
        /\ \A l \in DOMAIN lists : ListFollows(l)
        /\ \A l \in Playlists \ DOMAIN lists : ListGoes(l)
    BY DEF SyncInv, ListsFollowing
  <2>3. \A l \in DOMAIN lists :
          l \in DOMAIN deviceLists /\ deviceLists[l] = lists[l]
    BY <2>1, <2>2 DEF ListFollows, Has
  <2>4. \A l \in DOMAIN deviceLists : l \in DOMAIN lists
    BY <2>1, <2>2 DEF ListGoes, Has
  <2>5. lists = [l \in DOMAIN lists |-> lists[l]]
    BY Known
  <2>6. DOMAIN lists = DOMAIN deviceLists
    BY <2>3, <2>4
  <2>7. QED BY <2>2, <2>3, <2>5, <2>6
<1>2. QED BY <1>1, Invariance, PTL

(* With nothing left to do the device has been given every property that   *)
(* the user edited, of tracks and, unless it is an iPod, of playlists:     *)
(* the properties of the updates that were merged are all there.           *)
THEOREM EditsReached == Spec => []EditsFollow
<1>1. SyncInv => EditsFollow
  <2> SUFFICES ASSUME SyncInv, Settled, NEW i \in Followed
               PROVE  edited[i] = {}
    BY DEF EditsFollow
  <2>1. DOMAIN queue = {}
    BY DEF Settled
  <2>2. EditsFollowing /\ Following
    BY DEF SyncInv
  <2>3. CASE i \in Tracks \ library
    BY <2>2, <2>3 DEF EditsFollowing
  <2>4. CASE i \in library
    <3>1. i \notin hidden
      BY <2>1, <2>2, <2>4, Known DEF Following, Has
    <3>2. QED BY <2>1, <2>2, <2>4, <3>1 DEF EditsFollowing, Gives
  <2>5. CASE i \in Playlists /\ kind = "recreating"
    BY <2>1, <2>2, <2>5 DEF EditsFollowing
  <2>6. QED BY <2>3, <2>4, <2>5 DEF Followed
<1>2. QED BY <1>1, Invariance, PTL

=============================================================================
