----------------------- MODULE MetadataServiceProofs ------------------------
(***************************************************************************)
(* Proofs about the accounts of a metadata job, and what they are for.     *)
(*                                                                         *)
(* The counters of a job agree with the pieces of work that are left of    *)
(* it, wherever they are. IInv is CrashInv with the accounts, and          *)
(* inductive: the first lemmas say how a piece moves or goes and what that *)
(* does to the accounts, each action has a lemma on IInv, and NextBooks    *)
(* puts them together.                                                     *)
(*                                                                         *)
(* MetadataService implements JobPromise: each action has a lemma that     *)
(* makes it a step of the promise or none, from IInv. And the sizes of the *)
(* lists of a job, of the slots and of what is being completed add up to   *)
(* what it has still to count.                                             *)
(***************************************************************************)
EXTENDS MetadataCrashProofs

(* A job has finitely many pieces.                                         *)
LEMMA PiecesFinite ==
  ASSUME NEW j \in Jobs
  PROVE  IsFiniteSet(Pieces(j)) /\ Cardinality(Pieces(j)) \in Nat
<1>1. IsFiniteSet(Places)
  BY MetadataAssumption, FS_Interval DEF Places
<1>2. IsFiniteSet({"main", "background", "ok", "bad", "slot", "thread",
                   "left"})
  <2>1. IsFiniteSet({"main"})
    BY FS_Singleton
  <2>2. IsFiniteSet({"main"} \cup {"background"})
    BY <2>1, FS_AddElement
  <2>3. IsFiniteSet({"main"} \cup {"background"} \cup {"ok"})
    BY <2>2, FS_AddElement
  <2>4. IsFiniteSet({"main"} \cup {"background"} \cup {"ok"} \cup {"bad"})
    BY <2>3, FS_AddElement
  <2>5. IsFiniteSet({"main"} \cup {"background"} \cup {"ok"} \cup {"bad"}
                      \cup {"slot"})
    BY <2>4, FS_AddElement
  <2>6. IsFiniteSet({"main"} \cup {"background"} \cup {"ok"} \cup {"bad"}
                      \cup {"slot"} \cup {"thread"})
    BY <2>5, FS_AddElement
  <2>7. IsFiniteSet({"main"} \cup {"background"} \cup {"ok"} \cup {"bad"}
                      \cup {"slot"} \cup {"thread"} \cup {"left"})
    BY <2>6, FS_AddElement
  <2>8. {"main", "background", "ok", "bad", "slot", "thread", "left"}
          = {"main"} \cup {"background"} \cup {"ok"} \cup {"bad"}
              \cup {"slot"} \cup {"thread"} \cup {"left"}
    OBVIOUS
  <2>9. QED BY <2>7, <2>8
<1>3. IsFiniteSet(Whereabouts)
  BY <1>1, <1>2, FS_Product DEF Whereabouts
<1>4. IsFiniteSet(Files \X Whereabouts)
  BY <1>3, MetadataAssumption, FS_Product
<1>5. Pieces(j) \in SUBSET (Files \X Whereabouts)
  BY DEF Pieces
<1>6. IsFiniteSet(Pieces(j))
  BY <1>4, <1>5, FS_Subset
<1>7. QED BY <1>6, FS_CardinalityType

(* What a piece is, without its definition.                                *)
LEMMA PieceIs ==
  ASSUME NEW j \in Jobs
  PROVE  /\ \A f \in Files, w \in Whereabouts :
              <<f, w>> \in Pieces(j) <=> IsAt(j, f, w)
         /\ \A x \in Pieces(j) :
              /\ x[1] \in Files /\ x[2] \in Whereabouts
              /\ x = <<x[1], x[2]>> /\ IsAt(j, x[1], x[2])
BY DEF Pieces

(* PieceIs, after the step.                                                *)
LEMMA PieceIsNext ==
  ASSUME NEW j \in Jobs
  PROVE  /\ \A f \in Files, w \in Whereabouts :
              <<f, w>> \in Pieces(j)' <=> IsAt(j, f, w)'
         /\ \A x \in Pieces(j)' :
              /\ x[1] \in Files /\ x[2] \in Whereabouts
              /\ x = <<x[1], x[2]>> /\ IsAt(j, x[1], x[2])'
BY DEF Pieces

(* A job whose items are all where they were has the pieces it had.        *)
LEMMA PiecesKept ==
  ASSUME NEW j \in Jobs,
         \A f \in Files, w \in Whereabouts : IsAt(j, f, w)' <=> IsAt(j, f, w)
  PROVE  Pieces(j)' = Pieces(j)
BY DEF Pieces

(* A job one of whose items has moved has a piece there instead.           *)
LEMMA PieceMoves ==
  ASSUME NEW j \in Jobs, NEW f \in Files, NEW v \in Whereabouts,
         NEW u \in Whereabouts,
         \A g \in Files, w \in Whereabouts :
           IsAt(j, g, w)' <=> \/ IsAt(j, g, w) /\ ~(g = f /\ w = v)
                              \/ g = f /\ w = u
  PROVE  Pieces(j)' = (Pieces(j) \ {<<f, v>>}) \cup {<<f, u>>}
<1>1. ASSUME NEW x \in Files \X Whereabouts
      PROVE  x \in Pieces(j)' <=>
               x \in (Pieces(j) \ {<<f, v>>}) \cup {<<f, u>>}
  <2>1. PICK g \in Files, w \in Whereabouts : x = <<g, w>>
    OBVIOUS
  <2>2. x = <<f, v>> <=> g = f /\ w = v
    BY <2>1
  <2>3. x = <<f, u>> <=> g = f /\ w = u
    BY <2>1
  <2>4. /\ x \in Pieces(j)' <=> IsAt(j, g, w)'
        /\ x \in Pieces(j) <=> IsAt(j, g, w)
    BY <2>1, PieceIs, PieceIsNext
  <2>5. QED BY <2>2, <2>3, <2>4
<1>2. Pieces(j) \subseteq Files \X Whereabouts
  BY DEF Pieces
<1>3. Pieces(j)' \subseteq Files \X Whereabouts
  BY DEF Pieces
<1>4. <<f, u>> \in Files \X Whereabouts
  OBVIOUS
<1>5. QED BY <1>1, <1>2, <1>3, <1>4

(* A job one of whose items has gone has a piece less.                     *)
LEMMA PieceGoes ==
  ASSUME NEW j \in Jobs, NEW f \in Files, NEW v \in Whereabouts,
         \A g \in Files, w \in Whereabouts :
           IsAt(j, g, w)' <=> IsAt(j, g, w) /\ ~(g = f /\ w = v)
  PROVE  Pieces(j)' = Pieces(j) \ {<<f, v>>}
<1>1. ASSUME NEW x \in Files \X Whereabouts
      PROVE  x \in Pieces(j)' <=> x \in Pieces(j) \ {<<f, v>>}
  <2>1. PICK g \in Files, w \in Whereabouts : x = <<g, w>>
    OBVIOUS
  <2>2. x = <<f, v>> <=> g = f /\ w = v
    BY <2>1
  <2>4. /\ x \in Pieces(j)' <=> IsAt(j, g, w)'
        /\ x \in Pieces(j) <=> IsAt(j, g, w)
    BY <2>1, PieceIs, PieceIsNext
  <2>5. QED BY <2>2, <2>4
<1>2. Pieces(j) \subseteq Files \X Whereabouts
  BY DEF Pieces
<1>3. Pieces(j)' \subseteq Files \X Whereabouts
  BY DEF Pieces
<1>4. QED BY <1>1, <1>2, <1>3

(* Accounts that nothing has changed are right still.                      *)
LEMMA AccountKept ==
  ASSUME NEW j \in Jobs, Accounted(j), Pieces(j)' = Pieces(j),
         jobs'[j].total = jobs[j].total,
         jobs'[j].completed = jobs[j].completed,
         jobs'[j].done = jobs[j].done, jobs'[j].errors = jobs[j].errors,
         main'.job = j => main'.items \cap jobs'[j].processed = {}
  PROVE  Accounted(j)'
BY DEF Accounted

(* The counters of a job are numbers.                                      *)
LEMMA Counters ==
  ASSUME TypeOK, NEW j \in Jobs
  PROVE  jobs[j].total \in Nat /\ jobs[j].completed \in Nat
BY DEF TypeOK, JobRecord

(* So are those of a job one of whose items has moved, whether it was      *)
(* taken or its round was counted and another begun.                       *)
LEMMA AccountMoves ==
  ASSUME TypeOK, NEW j \in Jobs, Accounted(j), NEW f \in Files,
         NEW v \in Whereabouts, NEW u \in Whereabouts,
         <<f, v>> \in Pieces(j),
         Pieces(j)' = (Pieces(j) \ {<<f, v>>}) \cup {<<f, u>>},
         NEW n \in Nat,
         jobs'[j].total = jobs[j].total + n,
         jobs'[j].completed = jobs[j].completed + n,
         jobs'[j].done = jobs[j].done,
         \/ jobs'[j].errors = jobs[j].errors
         \/ jobs'[j].errors = jobs[j].errors \cup {f},
         main'.job = j => main'.items \cap jobs'[j].processed = {}
  PROVE  Accounted(j)'
<1> DEFINE P == Pieces(j) \ {<<f, v>>}
<1>1. IsFiniteSet(P) /\ Cardinality(P) = Cardinality(Pieces(j)) - 1
  BY PiecesFinite, FS_RemoveElement
<1>2. \A x \in P : x[1] # f
  BY DEF Accounted
<1>3. <<f, u>> \notin P
  BY <1>2
<1>4. Cardinality(Pieces(j)') = Cardinality(Pieces(j))
  <2>1. Cardinality(P \cup {<<f, u>>}) = Cardinality(P) + 1
    BY <1>1, <1>3, FS_AddElement
  <2>2. QED BY <1>1, <2>1, PiecesFinite
<1>5. jobs'[j].total = jobs'[j].completed + Cardinality(Pieces(j)')
  BY <1>4, Counters, PiecesFinite DEF Accounted
<1>6. \A x, y \in Pieces(j)' : x[1] = y[1] => x = y
  BY <1>2 DEF Accounted
<1>7. f \in FilesOf[j] \ jobs[j].done
  BY DEF Accounted
<1>8. \A x \in Pieces(j)' : x[1] \in FilesOf[j] \ jobs'[j].done
  BY <1>7 DEF Accounted
<1>9. \A g \in FilesOf[j] \ (jobs'[j].done \cup jobs'[j].errors) :
        \E x \in Pieces(j)' : x[1] = g
  <2>1. SUFFICES ASSUME NEW g \in FilesOf[j]
                                  \ (jobs'[j].done \cup jobs'[j].errors)
                 PROVE  \E x \in Pieces(j)' : x[1] = g
    OBVIOUS
  <2>2. PICK x \in Pieces(j) : x[1] = g
    BY DEF Accounted
  <2>3. CASE x = <<f, v>>
    <3>1. <<f, u>> \in Pieces(j)' /\ <<f, u>>[1] = f
      OBVIOUS
    <3>2. g = f
      BY <2>2, <2>3
    <3>3. QED BY <3>1, <3>2
  <2>4. CASE x # <<f, v>>
    BY <2>2, <2>4
  <2>5. QED BY <2>3, <2>4
<1>10. jobs'[j].done \cup jobs'[j].errors \subseteq FilesOf[j]
  BY <1>7 DEF Accounted
<1>11. QED BY <1>5, <1>6, <1>8, <1>9, <1>10 DEF Accounted

(* So are those of a job one of whose items is done or has failed, and has *)
(* been counted.                                                           *)
LEMMA AccountSettles ==
  ASSUME TypeOK, NEW j \in Jobs, Accounted(j), NEW f \in Files,
         NEW v \in Whereabouts, <<f, v>> \in Pieces(j),
         Pieces(j)' = Pieces(j) \ {<<f, v>>},
         jobs'[j].total = jobs[j].total,
         jobs'[j].completed = jobs[j].completed + 1,
         \/ /\ jobs'[j].done = jobs[j].done \cup {f}
            /\ jobs'[j].errors = jobs[j].errors
         \/ /\ jobs'[j].done = jobs[j].done
            /\ jobs'[j].errors = jobs[j].errors \cup {f},
         main'.job = j => main'.items \cap jobs'[j].processed = {}
  PROVE  Accounted(j)'
<1> DEFINE P == Pieces(j) \ {<<f, v>>}
<1>1. IsFiniteSet(P) /\ Cardinality(P) = Cardinality(Pieces(j)) - 1
  BY PiecesFinite, FS_RemoveElement
<1>2. \A x \in P : x[1] # f
  BY DEF Accounted
<1>3. jobs'[j].total = jobs'[j].completed + Cardinality(Pieces(j)')
  BY <1>1, Counters, PiecesFinite DEF Accounted
<1>4. \A x, y \in Pieces(j)' : x[1] = y[1] => x = y
  BY <1>2 DEF Accounted
<1>5. f \in FilesOf[j] \ jobs[j].done
  BY DEF Accounted
<1>6. \A x \in Pieces(j)' : x[1] \in FilesOf[j] \ jobs'[j].done
  BY <1>2 DEF Accounted
<1>7. \A g \in FilesOf[j] \ (jobs'[j].done \cup jobs'[j].errors) :
        \E x \in Pieces(j)' : x[1] = g
  <2>1. SUFFICES ASSUME NEW g \in FilesOf[j]
                                  \ (jobs'[j].done \cup jobs'[j].errors)
                 PROVE  \E x \in Pieces(j)' : x[1] = g
    OBVIOUS
  <2>2. PICK x \in Pieces(j) : x[1] = g
    BY DEF Accounted
  <2>3. x # <<f, v>>
    BY <2>2
  <2>4. QED BY <2>2, <2>3
<1>8. jobs'[j].done \cup jobs'[j].errors \subseteq FilesOf[j]
  BY <1>5 DEF Accounted
<1>9. QED BY <1>3, <1>4, <1>6, <1>7, <1>8 DEF Accounted

(* The item of f has been settled in job, which is now r.                  *)
Settles(job, r, f) ==
  /\ r.main = job.main /\ r.background = job.background
  /\ r.left = job.left
  /\ r.completed = job.completed + 1 /\ r.total = job.total
  /\ \/ r.done = job.done \cup {f} /\ r.errors = job.errors
     \/ r.done = job.done /\ r.errors = job.errors \cup {f}

(* The item of f has been queued again, at u.                              *)
Requeues(job, r, f, u) ==
  /\ r.completed = job.completed + 1 /\ r.total = job.total + 1
  /\ r.done = job.done /\ r.left = job.left
  /\ r.errors = job.errors \/ r.errors = job.errors \cup {f}
  /\ \/ /\ u = <<"main", 0>>
        /\ r.main = job.main \cup {f} /\ r.background = job.background
     \/ /\ u = <<"background", 0>>
        /\ r.main = job.main /\ r.background = job.background \cup {f}

Queue == {<<"main", 0>>, <<"background", 0>>}

(* The lists of a job are places an item can be at.                        *)
LEMMA QueuesAreThere == Queue \subseteq Whereabouts
BY Ranges DEF Queue, Whereabouts

(* What queueing an item again does to a job.                              *)
LEMMA AgainEffect ==
  ASSUME NEW job \in JobRecord, NEW f \in Files
  PROVE  LET r == Again(job, f) IN
         /\ r.status = job.status /\ r.processed = job.processed
         /\ r.completed = job.completed /\ r.total = job.total + 1
         /\ r.done = job.done /\ r.errors = job.errors
         /\ r.left = job.left
         /\ \/ r.main = job.main \cup {f} /\ r.background = job.background
            \/ r.main = job.main /\ r.background = job.background \cup {f}
<1> DEFINE a == [job EXCEPT !.attempt[f] = @ + 1]
<1>1. /\ a \in JobRecord
      /\ a.status = job.status /\ a.processed = job.processed
      /\ a.completed = job.completed /\ a.total = job.total
      /\ a.done = job.done /\ a.errors = job.errors
      /\ a.main = job.main /\ a.background = job.background
      /\ a.left = job.left
  BY DEF JobRecord
<1> HIDE DEF a
<1> DEFINE b == Listed(a, f)
<1>2. /\ b \in JobRecord
      /\ b.status = a.status /\ b.processed = a.processed
      /\ b.completed = a.completed /\ b.total = a.total
      /\ b.done = a.done /\ b.errors = a.errors /\ b.left = a.left
      /\ \/ b.main = a.main \cup {f} /\ b.background = a.background
         \/ b.main = a.main /\ b.background = a.background \cup {f}
  BY <1>1 DEF JobRecord, Listed
<1> HIDE DEF b
<1> DEFINE c == [b EXCEPT !.total = @ + 1]
<1>3. /\ c.status = b.status /\ c.processed = b.processed
      /\ c.completed = b.completed /\ c.total = b.total + 1
      /\ c.done = b.done /\ c.errors = b.errors
      /\ c.main = b.main /\ c.background = b.background /\ c.left = b.left
  BY <1>2 DEF JobRecord
<1>4. c = Again(job, f)
  BY DEF a, b, Again
<1> HIDE DEF c
<1>5. QED BY <1>1, <1>2, <1>3, <1>4

(* HandleProcessedItem settles the item or queues it again.                *)
LEMMA HandledEffect ==
  ASSUME NEW j \in Jobs, NEW job \in JobRecord, NEW f \in Files,
         NEW result \in Results, NEW restarted \in BOOLEAN
  PROVE  LET r == Handled(j, job, f, result, restarted) IN
         /\ r.status = job.status /\ r.processed = job.processed
         /\ Settles(job, r, f) \/ \E u \in Queue : Requeues(job, r, f, u)
<1> DEFINE c == [job EXCEPT !.completed = @ + 1]
<1>1. /\ c \in JobRecord
      /\ c.status = job.status /\ c.processed = job.processed
      /\ c.completed = job.completed + 1 /\ c.total = job.total
      /\ c.done = job.done /\ c.errors = job.errors
      /\ c.main = job.main /\ c.background = job.background
      /\ c.left = job.left
  BY DEF JobRecord
<1>2. \/ result = "ok"
         /\ Handled(j, job, f, result, restarted)
              = [c EXCEPT !.done = @ \cup {f}]
      \/ Handled(j, job, f, result, restarted) = Failed(c, f)
      \/ Handled(j, job, f, result, restarted) = Again(c, f)
      \/ Handled(j, job, f, result, restarted) = Failed(Again(c, f), f)
  BY DEF Handled
<1> HIDE DEF c
<1>3. /\ [c EXCEPT !.done = @ \cup {f}].status = job.status
      /\ [c EXCEPT !.done = @ \cup {f}].processed = job.processed
      /\ Settles(job, [c EXCEPT !.done = @ \cup {f}], f)
  BY <1>1 DEF JobRecord, Settles
<1>4. /\ Failed(c, f).status = job.status
      /\ Failed(c, f).processed = job.processed
      /\ Settles(job, Failed(c, f), f)
  BY <1>1 DEF JobRecord, Settles, Failed
<1> DEFINE a == Again(c, f)
<1>5. /\ a \in JobRecord
      /\ a.status = c.status /\ a.processed = c.processed
      /\ a.completed = c.completed /\ a.total = c.total + 1
      /\ a.done = c.done /\ a.errors = c.errors /\ a.left = c.left
      /\ \/ a.main = c.main \cup {f} /\ a.background = c.background
         \/ a.main = c.main /\ a.background = c.background \cup {f}
  BY <1>1, AgainType, AgainEffect
<1> HIDE DEF a
<1>6. \E u \in Queue : Requeues(job, a, f, u)
  BY <1>1, <1>5 DEF Queue, Requeues
<1>7. /\ Failed(a, f).status = a.status
      /\ Failed(a, f).processed = a.processed
      /\ Failed(a, f).completed = a.completed /\ Failed(a, f).total = a.total
      /\ Failed(a, f).done = a.done
      /\ Failed(a, f).errors = a.errors \cup {f}
      /\ Failed(a, f).main = a.main /\ Failed(a, f).background = a.background
      /\ Failed(a, f).left = a.left
  BY <1>5 DEF JobRecord, Failed
<1>8. \E u \in Queue : Requeues(job, Failed(a, f), f, u)
  BY <1>1, <1>5, <1>7 DEF Queue, Requeues
<1>9. \/ Handled(j, job, f, result, restarted)
           = [c EXCEPT !.done = @ \cup {f}]
      \/ Handled(j, job, f, result, restarted) = Failed(c, f)
      \/ Handled(j, job, f, result, restarted) = a
      \/ Handled(j, job, f, result, restarted) = Failed(a, f)
  BY <1>2 DEF a
<1>10. QED BY <1>1, <1>3, <1>4, <1>5, <1>6, <1>7, <1>8, <1>9

(* PutProcessedItem on the main thread settles the item of a running job   *)
(* or queues it again.                                                     *)
LEMMA PutEffect ==
  ASSUME TypeOK, NEW given \in [Jobs -> JobRecord], NEW j \in Jobs,
         NEW f \in Files, NEW result \in Results, NEW m,
         PutOnMain(given, j, f, result, m), given[j].status = "running"
  PROVE  /\ \A i \in Jobs \ {j} : jobs'[i] = given[i]
         /\ jobs'[j].status = "running"
         /\ jobs'[j].processed = given[j].processed
         /\ \/ Settles(given[j], jobs'[j], f)
            \/ \E u \in Queue : Requeues(given[j], jobs'[j], f, u)
<1> DEFINE starts == result # "ok" /\ Retried(j, given[j], f)
                       /\ processor.exists
           r == Handled(j, given[j], f, result, starts)
<1>1. starts \in BOOLEAN
  BY DEF TypeOK, MainType, ProcessorRecord
<1>2. jobs' = [given EXCEPT ![j] = r]
  BY DEF PutOnMain
<1>3. jobs'[j] = r /\ \A i \in Jobs \ {j} : jobs'[i] = given[i]
  BY <1>2
<1> HIDE DEF starts
<1>4. /\ r.status = given[j].status /\ r.processed = given[j].processed
      /\ \/ Settles(given[j], r, f)
         \/ \E u \in Queue : Requeues(given[j], r, f, u)
  BY <1>1, HandledEffect
<1> HIDE DEF r
<1>5. QED BY <1>3, <1>4

(* Nobody takes or gives an item of job i but the lists of its own.        *)
SlotsSame(i) ==
  \A k \in Slots :
    /\ slots'[k] # None /\ slots'[k].job = i
         <=> slots[k] # None /\ slots[k].job = i
    /\ slots[k] # None /\ slots[k].job = i => slots'[k].file = slots[k].file

ThreadSame(i) ==
  /\ thread'.item # None /\ thread'.item.job = i
       <=> thread.item # None /\ thread.item.job = i
  /\ thread.item # None /\ thread.item.job = i
       => thread'.item.file = thread.item.file

ItemsSame(i) ==
  \/ main'.job = main.job /\ main'.items = main.items
  \/ main'.job # i /\ (main.job = i => main.items = {})

(* The accounts of a job that nothing touches are right still.             *)
LEMMA JobUntouched ==
  ASSUME NEW i \in Jobs, Accounted(i), jobs'[i] = jobs[i],
         SlotsSame(i), ThreadSame(i), ItemsSame(i)
  PROVE  Accounted(i)'
<1>1. \A f \in Files, w \in Whereabouts : IsAt(i, f, w)' <=> IsAt(i, f, w)
  <2>1. SUFFICES ASSUME NEW f \in Files, NEW w \in Whereabouts
                 PROVE  IsAt(i, f, w)' <=> IsAt(i, f, w)
    OBVIOUS
  <2>2. (\E k \in Slots : /\ w = <<"slot", k>> /\ slots'[k] # None
                          /\ slots'[k].job = i /\ slots'[k].file = f)
          <=> (\E k \in Slots : /\ w = <<"slot", k>> /\ slots[k] # None
                                /\ slots[k].job = i /\ slots[k].file = f)
    BY DEF SlotsSame
  <2>3. \A r \in Results : main'.job = i /\ <<f, r>> \in main'.items
                            <=> main.job = i /\ <<f, r>> \in main.items
    BY DEF ItemsSame
  <2>4. thread'.item # None /\ thread'.item.job = i /\ thread'.item.file = f
          <=> thread.item # None /\ thread.item.job = i
                /\ thread.item.file = f
    BY DEF ThreadSame
  <2>5. QED BY <2>2, <2>3, <2>4 DEF IsAt
<1>2. Pieces(i)' = Pieces(i)
  BY <1>1, PiecesKept
<1>3. main'.job = i => main'.items \cap jobs'[i].processed = {}
  BY DEF ItemsSame, Accounted
<1>4. QED BY <1>2, <1>3, AccountKept

(* Settled survives a step that gives items of running jobs only, and ends *)
(* no job.                                                                 *)
LEMMA SettledKept ==
  ASSUME Settled,
         \A i \in Jobs : \/ jobs'[i] = jobs[i]
                         \/ /\ jobs[i].status = "running"
                            /\ jobs'[i].status = "running",
         calls'.started = calls.started,
         service'.array \subseteq service.array,
         main'.todo \subseteq main.todo \cup service.array,
         main'.todo \subseteq Jobs, service.array \subseteq Jobs,
         main'.job \in main.todo \cup {main.job, None},
         main'.job \in Jobs \cup {None},
         \A k \in Slots : slots'[k] # None =>
           \/ slots[k] # None /\ slots'[k].job = slots[k].job
           \/ jobs[slots'[k].job].status # "none",
         thread'.item # None =>
           \/ thread.item # None /\ thread'.item.job = thread.item.job
           \/ jobs[thread'.item.job].status # "none",
         \A k \in Slots : slots'[k] # None => slots'[k].job \in Jobs,
         thread'.item # None => thread'.item.job \in Jobs
  PROVE  Settled'
<1>1. \A i \in Jobs : jobs[i].status # "none" => jobs'[i].status # "none"
  OBVIOUS
<1>2. \A i \in Jobs : jobs'[i].status \in {"succeeded", "failed"}
        => jobs'[i] = jobs[i]
  OBVIOUS
<1>3. \A i \in Jobs : jobs'[i].status \in {"succeeded", "failed"}
        => Progressed(jobs'[i]).status = jobs'[i].status
  BY <1>2 DEF Settled
<1>4. \A i \in Jobs : jobs'[i].status = "succeeded"
        => jobs'[i].completed = jobs'[i].total
  BY <1>2 DEF Settled
<1>5. \A i \in service'.array \cup main'.todo \cup ({main'.job} \ {None}) :
        jobs'[i].status # "none"
  BY <1>1 DEF Settled
<1>6. \A i \in Jobs \ calls'.started : jobs'[i].status = "none"
  BY DEF Settled
<1>7. \A k \in Slots : slots'[k] # None
      => jobs'[slots'[k].job].status # "none"
  BY <1>1 DEF Settled
<1>8. thread'.item # None => jobs'[thread'.item.job].status # "none"
  BY <1>1 DEF Settled
<1>9. QED BY <1>3, <1>4, <1>5, <1>6, <1>7, <1>8 DEF Settled

(* A step that moves no item and changes no job preserves IInv.            *)
LEMMA NothingMoves ==
  ASSUME IInv, TypeOK', UNCHANGED jobs, calls'.started = calls.started,
         service'.array \subseteq service.array,
         main'.job = main.job, main'.items = main.items,
         main'.todo \subseteq main.todo \cup service.array,
         \A k \in Slots :
           /\ slots'[k] # None <=> slots[k] # None
           /\ slots[k] # None => /\ slots'[k].job = slots[k].job
                                 /\ slots'[k].file = slots[k].file,
         thread'.item # None <=> thread.item # None,
         thread.item # None => /\ thread'.item.job = thread.item.job
                               /\ thread'.item.file = thread.item.file
  PROVE  RunningAccounted' /\ Settled'
<1>1. RunningAccounted'
  <2>1. SUFFICES ASSUME NEW i \in Jobs, jobs[i].status = "running"
                 PROVE  Accounted(i)'
    BY DEF RunningAccounted
  <2>2. Accounted(i)
    BY <2>1 DEF IInv, RunningAccounted
  <2>3. SlotsSame(i) /\ ThreadSame(i) /\ ItemsSame(i)
    BY DEF SlotsSame, ThreadSame, ItemsSame
  <2>4. QED BY <2>2, <2>3, JobUntouched
<1>2. /\ main'.todo \subseteq Jobs /\ service.array \subseteq Jobs
      /\ main'.job \in Jobs \cup {None}
  BY DEF IInv, CrashInv, TypeOK, ServiceType, MainType, MainRecord
<1>3. /\ \A k \in Slots : slots'[k] # None => slots'[k].job \in Jobs
      /\ thread'.item # None => thread'.item.job \in Jobs
  BY DEF TypeOK, MainType, ThreadType, ThreadRecord, Items
<1>4. Settled'
  BY <1>2, <1>3, SettledKept DEF IInv
<1>5. QED BY <1>1, <1>4

(* StartThread preserves IInv.                                             *)
LEMMA StartThreadBooks ==
  ASSUME IInv, StartThread
  PROVE  IInv'
<1>1. CrashInv'
  BY StartThreadCrash DEF IInv
<1>2. main \in MainRecord /\ thread \in ThreadRecord
      /\ slots \in [Slots -> Items \cup {None}]
      /\ thread' \in ThreadRecord
  BY <1>1 DEF IInv, CrashInv, TypeOK, MainType, ThreadType
<1>3. main'.job = main.job /\ main'.items = main.items
      /\ main'.todo \subseteq main.todo \cup service.array
  BY <1>2 DEF MainRecord, StartThread, StartedThread
<1>4. /\ thread'.item # None <=> thread.item # None
      /\ thread.item # None => /\ thread'.item.job = thread.item.job
                               /\ thread'.item.file = thread.item.file
  BY <1>2 DEF ThreadRecord, StartThread, StartedThread
<1>5. \A s \in Slots :
        /\ slots'[s] # None <=> slots[s] # None
        /\ slots[s] # None => /\ slots'[s].job = slots[s].job
                              /\ slots'[s].file = slots[s].file
  BY <1>2 DEF StartThread, StartedThread
<1>6. UNCHANGED jobs /\ calls'.started = calls.started
      /\ service'.array \subseteq service.array /\ TypeOK'
  BY <1>1 DEF IInv, CrashInv, TypeOK, ServiceType, StartThread, StartedThread
<1>7. QED BY <1>1, <1>3, <1>4, <1>5, <1>6, NothingMoves DEF IInv

(* StartEvent preserves IInv.                                              *)
LEMMA StartEventBooks ==
  ASSUME IInv, StartEvent
  PROVE  IInv'
<1>1. CrashInv'
  BY StartEventCrash DEF IInv
<1>2. main \in MainRecord /\ thread \in ThreadRecord
      /\ slots \in [Slots -> Items \cup {None}]
      /\ thread' \in ThreadRecord
  BY <1>1 DEF IInv, CrashInv, TypeOK, MainType, ThreadType
<1>3. main'.job = main.job /\ main'.items = main.items
      /\ main'.todo \subseteq main.todo \cup service.array
  BY <1>2 DEF MainRecord, StartEvent, StartedThread
<1>4. /\ thread'.item # None <=> thread.item # None
      /\ thread.item # None => /\ thread'.item.job = thread.item.job
                               /\ thread'.item.file = thread.item.file
  BY <1>2 DEF ThreadRecord, StartEvent, StartedThread
<1>5. \A s \in Slots :
        /\ slots'[s] # None <=> slots[s] # None
        /\ slots[s] # None => /\ slots'[s].job = slots[s].job
                              /\ slots'[s].file = slots[s].file
  BY <1>2 DEF StartEvent, StartedThread
<1>6. UNCHANGED jobs /\ calls'.started = calls.started
      /\ service'.array \subseteq service.array /\ TypeOK'
  BY <1>1 DEF IInv, CrashInv, TypeOK, ServiceType, StartEvent, StartedThread
<1>7. QED BY <1>1, <1>3, <1>4, <1>5, <1>6, NothingMoves DEF IInv

(* NotifyTimer preserves IInv.                                             *)
LEMMA NotifyTimerBooks ==
  ASSUME IInv, NotifyTimer
  PROVE  IInv'
<1>1. CrashInv'
  BY NotifyTimerCrash DEF IInv
<1>2. main \in MainRecord /\ thread \in ThreadRecord
      /\ slots \in [Slots -> Items \cup {None}]
      /\ thread' \in ThreadRecord
  BY <1>1 DEF IInv, CrashInv, TypeOK, MainType, ThreadType
<1>3. main'.job = main.job /\ main'.items = main.items
      /\ main'.todo \subseteq main.todo \cup service.array
  BY <1>2 DEF MainRecord, NotifyTimer
<1>4. /\ thread'.item # None <=> thread.item # None
      /\ thread.item # None => /\ thread'.item.job = thread.item.job
                               /\ thread'.item.file = thread.item.file
  BY <1>2 DEF ThreadRecord, NotifyTimer
<1>5. \A s \in Slots :
        /\ slots'[s] # None <=> slots[s] # None
        /\ slots[s] # None => /\ slots'[s].job = slots[s].job
                              /\ slots'[s].file = slots[s].file
  BY <1>2 DEF NotifyTimer
<1>6. UNCHANGED jobs /\ calls'.started = calls.started
      /\ service'.array \subseteq service.array /\ TypeOK'
  BY <1>1 DEF IInv, CrashInv, TypeOK, ServiceType, NotifyTimer
<1>7. QED BY <1>1, <1>3, <1>4, <1>5, <1>6, NothingMoves DEF IInv

(* SlotBusy preserves IInv.                                                *)
LEMMA SlotBusyBooks ==
  ASSUME IInv, NEW k \in Slots, SlotBusy(k)
  PROVE  IInv'
<1>1. CrashInv'
  BY SlotBusyCrash DEF IInv
<1>2. main \in MainRecord /\ thread \in ThreadRecord
      /\ slots \in [Slots -> Items \cup {None}]
      /\ thread' \in ThreadRecord
  BY <1>1 DEF IInv, CrashInv, TypeOK, MainType, ThreadType
<1>3. main'.job = main.job /\ main'.items = main.items
      /\ main'.todo \subseteq main.todo \cup service.array
  BY <1>2 DEF MainRecord, SlotBusy, NextSlot
<1>4. /\ thread'.item # None <=> thread.item # None
      /\ thread.item # None => /\ thread'.item.job = thread.item.job
                               /\ thread'.item.file = thread.item.file
  BY <1>2 DEF ThreadRecord, SlotBusy, NextSlot
<1>5. \A s \in Slots :
        /\ slots'[s] # None <=> slots[s] # None
        /\ slots[s] # None => /\ slots'[s].job = slots[s].job
                              /\ slots'[s].file = slots[s].file
  BY <1>2 DEF SlotBusy, NextSlot
<1>6. UNCHANGED jobs /\ calls'.started = calls.started
      /\ service'.array \subseteq service.array /\ TypeOK'
  BY <1>1 DEF IInv, CrashInv, TypeOK, ServiceType, SlotBusy, NextSlot
<1>7. QED BY <1>1, <1>3, <1>4, <1>5, <1>6, NothingMoves DEF IInv

(* SlotEmpty preserves IInv.                                               *)
LEMMA SlotEmptyBooks ==
  ASSUME IInv, NEW k \in Slots, SlotEmpty(k)
  PROVE  IInv'
<1>1. CrashInv'
  BY SlotEmptyCrash DEF IInv
<1>2. main \in MainRecord /\ thread \in ThreadRecord
      /\ slots \in [Slots -> Items \cup {None}]
      /\ thread' \in ThreadRecord
  BY <1>1 DEF IInv, CrashInv, TypeOK, MainType, ThreadType
<1>3. main'.job = main.job /\ main'.items = main.items
      /\ main'.todo \subseteq main.todo \cup service.array
  BY <1>2 DEF MainRecord, SlotEmpty, NextSlot
<1>4. /\ thread'.item # None <=> thread.item # None
      /\ thread.item # None => /\ thread'.item.job = thread.item.job
                               /\ thread'.item.file = thread.item.file
  BY <1>2 DEF ThreadRecord, SlotEmpty, NextSlot
<1>5. \A s \in Slots :
        /\ slots'[s] # None <=> slots[s] # None
        /\ slots[s] # None => /\ slots'[s].job = slots[s].job
                              /\ slots'[s].file = slots[s].file
  BY <1>2 DEF SlotEmpty, NextSlot
<1>6. UNCHANGED jobs /\ calls'.started = calls.started
      /\ service'.array \subseteq service.array /\ TypeOK'
  BY <1>1 DEF IInv, CrashInv, TypeOK, ServiceType, SlotEmpty, NextSlot
<1>7. QED BY <1>1, <1>3, <1>4, <1>5, <1>6, NothingMoves DEF IInv

(* NotifyEnd preserves IInv.                                               *)
LEMMA NotifyEndBooks ==
  ASSUME IInv, NotifyEnd
  PROVE  IInv'
<1>1. CrashInv'
  BY NotifyEndCrash DEF IInv
<1>2. main \in MainRecord /\ thread \in ThreadRecord
      /\ slots \in [Slots -> Items \cup {None}]
      /\ thread' \in ThreadRecord
  BY <1>1 DEF IInv, CrashInv, TypeOK, MainType, ThreadType
<1>3. main'.job = main.job /\ main'.items = main.items
      /\ main'.todo \subseteq main.todo \cup service.array
  BY <1>2 DEF MainRecord, NotifyEnd
<1>4. /\ thread'.item # None <=> thread.item # None
      /\ thread.item # None => /\ thread'.item.job = thread.item.job
                               /\ thread'.item.file = thread.item.file
  BY <1>2 DEF ThreadRecord, NotifyEnd
<1>5. \A s \in Slots :
        /\ slots'[s] # None <=> slots[s] # None
        /\ slots[s] # None => /\ slots'[s].job = slots[s].job
                              /\ slots'[s].file = slots[s].file
  BY <1>2 DEF NotifyEnd
<1>6. UNCHANGED jobs /\ calls'.started = calls.started
      /\ service'.array \subseteq service.array /\ TypeOK'
  BY <1>1 DEF IInv, CrashInv, TypeOK, ServiceType, NotifyEnd
<1>7. QED BY <1>1, <1>3, <1>4, <1>5, <1>6, NothingMoves DEF IInv

(* Observe preserves IInv.                                                 *)
LEMMA ObserveBooks ==
  ASSUME IInv, Observe
  PROVE  IInv'
<1>1. CrashInv'
  BY ObserveCrash DEF IInv
<1>2. main \in MainRecord /\ thread \in ThreadRecord
      /\ slots \in [Slots -> Items \cup {None}]
      /\ thread' \in ThreadRecord
  BY <1>1 DEF IInv, CrashInv, TypeOK, MainType, ThreadType
<1>3. main'.job = main.job /\ main'.items = main.items
      /\ main'.todo \subseteq main.todo \cup service.array
  BY <1>2 DEF MainRecord, Observe
<1>4. /\ thread'.item # None <=> thread.item # None
      /\ thread.item # None => /\ thread'.item.job = thread.item.job
                               /\ thread'.item.file = thread.item.file
  BY <1>2 DEF ThreadRecord, Observe
<1>5. \A s \in Slots :
        /\ slots'[s] # None <=> slots[s] # None
        /\ slots[s] # None => /\ slots'[s].job = slots[s].job
                              /\ slots'[s].file = slots[s].file
  BY <1>2 DEF Observe
<1>6. UNCHANGED jobs /\ calls'.started = calls.started
      /\ service'.array \subseteq service.array /\ TypeOK'
  BY <1>1 DEF IInv, CrashInv, TypeOK, ServiceType, Observe
<1>7. QED BY <1>1, <1>3, <1>4, <1>5, <1>6, NothingMoves DEF IInv

(* Shutdown preserves IInv.                                                *)
LEMMA ShutdownBooks ==
  ASSUME IInv, Shutdown
  PROVE  IInv'
<1>1. CrashInv'
  BY ShutdownCrash DEF IInv
<1>2. main \in MainRecord /\ thread \in ThreadRecord
      /\ slots \in [Slots -> Items \cup {None}]
      /\ thread' \in ThreadRecord
  BY <1>1 DEF IInv, CrashInv, TypeOK, MainType, ThreadType
<1>3. main'.job = main.job /\ main'.items = main.items
      /\ main'.todo \subseteq main.todo \cup service.array
  BY <1>2 DEF MainRecord, Shutdown
<1>4. /\ thread'.item # None <=> thread.item # None
      /\ thread.item # None => /\ thread'.item.job = thread.item.job
                               /\ thread'.item.file = thread.item.file
  BY <1>2 DEF ThreadRecord, Shutdown
<1>5. \A s \in Slots :
        /\ slots'[s] # None <=> slots[s] # None
        /\ slots[s] # None => /\ slots'[s].job = slots[s].job
                              /\ slots'[s].file = slots[s].file
  BY <1>2 DEF Shutdown
<1>6. UNCHANGED jobs /\ calls'.started = calls.started
      /\ service'.array \subseteq service.array /\ TypeOK'
  BY <1>1 DEF IInv, CrashInv, TypeOK, ServiceType, Shutdown, Interruption
<1>7. QED BY <1>1, <1>3, <1>4, <1>5, <1>6, NothingMoves DEF IInv

(* StopEmptySlot preserves IInv.                                           *)
LEMMA StopEmptySlotBooks ==
  ASSUME IInv, NEW k \in Slots, StopEmptySlot(k)
  PROVE  IInv'
<1>1. CrashInv'
  BY StopEmptySlotCrash DEF IInv
<1>2. main \in MainRecord /\ thread \in ThreadRecord
      /\ slots \in [Slots -> Items \cup {None}]
      /\ thread' \in ThreadRecord
  BY <1>1 DEF IInv, CrashInv, TypeOK, MainType, ThreadType
<1>3. main'.job = main.job /\ main'.items = main.items
      /\ main'.todo \subseteq main.todo \cup service.array
  BY <1>2 DEF MainRecord, StopEmptySlot
<1>4. /\ thread'.item # None <=> thread.item # None
      /\ thread.item # None => /\ thread'.item.job = thread.item.job
                               /\ thread'.item.file = thread.item.file
  BY <1>2 DEF ThreadRecord, StopEmptySlot
<1>5. \A s \in Slots :
        /\ slots'[s] # None <=> slots[s] # None
        /\ slots[s] # None => /\ slots'[s].job = slots[s].job
                              /\ slots'[s].file = slots[s].file
  BY <1>2 DEF StopEmptySlot
<1>6. UNCHANGED jobs /\ calls'.started = calls.started
      /\ service'.array \subseteq service.array /\ TypeOK'
  BY <1>1 DEF IInv, CrashInv, TypeOK, ServiceType, StopEmptySlot
<1>7. QED BY <1>1, <1>3, <1>4, <1>5, <1>6, NothingMoves DEF IInv

(* StopThread preserves IInv.                                              *)
LEMMA StopThreadBooks ==
  ASSUME IInv, StopThread
  PROVE  IInv'
<1>1. CrashInv'
  BY StopThreadCrash DEF IInv
<1>2. main \in MainRecord /\ thread \in ThreadRecord
      /\ slots \in [Slots -> Items \cup {None}]
      /\ thread' \in ThreadRecord
  BY <1>1 DEF IInv, CrashInv, TypeOK, MainType, ThreadType
<1>3. main'.job = main.job /\ main'.items = main.items
      /\ main'.todo \subseteq main.todo \cup service.array
  BY <1>2 DEF MainRecord, StopThread
<1>4. /\ thread'.item # None <=> thread.item # None
      /\ thread.item # None => /\ thread'.item.job = thread.item.job
                               /\ thread'.item.file = thread.item.file
  BY <1>2 DEF ThreadRecord, StopThread
<1>5. \A s \in Slots :
        /\ slots'[s] # None <=> slots[s] # None
        /\ slots[s] # None => /\ slots'[s].job = slots[s].job
                              /\ slots'[s].file = slots[s].file
  BY <1>2 DEF StopThread
<1>6. UNCHANGED jobs /\ calls'.started = calls.started
      /\ service'.array \subseteq service.array /\ TypeOK'
  BY <1>1 DEF IInv, CrashInv, TypeOK, ServiceType, StopThread
<1>7. QED BY <1>1, <1>3, <1>4, <1>5, <1>6, NothingMoves DEF IInv

(* ThreadGoesOn preserves IInv.                                            *)
LEMMA ThreadGoesOnBooks ==
  ASSUME IInv, ThreadGoesOn
  PROVE  IInv'
<1>1. CrashInv'
  BY ThreadGoesOnCrash DEF IInv
<1>2. main \in MainRecord /\ thread \in ThreadRecord
      /\ slots \in [Slots -> Items \cup {None}]
      /\ thread' \in ThreadRecord
  BY <1>1 DEF IInv, CrashInv, TypeOK, MainType, ThreadType
<1>3. main'.job = main.job /\ main'.items = main.items
      /\ main'.todo \subseteq main.todo \cup service.array
  BY <1>2 DEF MainRecord, ThreadGoesOn
<1>4. /\ thread'.item # None <=> thread.item # None
      /\ thread.item # None => /\ thread'.item.job = thread.item.job
                               /\ thread'.item.file = thread.item.file
  BY <1>2 DEF ThreadRecord, ThreadGoesOn
<1>5. \A s \in Slots :
        /\ slots'[s] # None <=> slots[s] # None
        /\ slots[s] # None => /\ slots'[s].job = slots[s].job
                              /\ slots'[s].file = slots[s].file
  BY <1>2 DEF ThreadGoesOn
<1>6. UNCHANGED jobs /\ calls'.started = calls.started
      /\ service'.array \subseteq service.array /\ TypeOK'
  BY <1>1 DEF IInv, CrashInv, TypeOK, ServiceType, ThreadGoesOn
<1>7. QED BY <1>1, <1>3, <1>4, <1>5, <1>6, NothingMoves DEF IInv

(* ThreadWaits preserves IInv.                                             *)
LEMMA ThreadWaitsBooks ==
  ASSUME IInv, ThreadWaits
  PROVE  IInv'
<1>1. CrashInv'
  BY ThreadWaitsCrash DEF IInv
<1>2. main \in MainRecord /\ thread \in ThreadRecord
      /\ slots \in [Slots -> Items \cup {None}]
      /\ thread' \in ThreadRecord
  BY <1>1 DEF IInv, CrashInv, TypeOK, MainType, ThreadType
<1>3. main'.job = main.job /\ main'.items = main.items
      /\ main'.todo \subseteq main.todo \cup service.array
  BY <1>2 DEF MainRecord, ThreadWaits
<1>4. /\ thread'.item # None <=> thread.item # None
      /\ thread.item # None => /\ thread'.item.job = thread.item.job
                               /\ thread'.item.file = thread.item.file
  BY <1>2 DEF ThreadRecord, ThreadWaits
<1>5. \A s \in Slots :
        /\ slots'[s] # None <=> slots[s] # None
        /\ slots[s] # None => /\ slots'[s].job = slots[s].job
                              /\ slots'[s].file = slots[s].file
  BY <1>2 DEF ThreadWaits
<1>6. UNCHANGED jobs /\ calls'.started = calls.started
      /\ service'.array \subseteq service.array /\ TypeOK'
  BY <1>1 DEF IInv, CrashInv, TypeOK, ServiceType, ThreadWaits
<1>7. QED BY <1>1, <1>3, <1>4, <1>5, <1>6, NothingMoves DEF IInv

(* ThreadEnds preserves IInv.                                              *)
LEMMA ThreadEndsBooks ==
  ASSUME IInv, NEW result \in Results, ThreadEnds(result)
  PROVE  IInv'
<1>1. CrashInv'
  BY ThreadEndsCrash DEF IInv
<1>2. main \in MainRecord /\ thread \in ThreadRecord
      /\ slots \in [Slots -> Items \cup {None}]
      /\ thread' \in ThreadRecord
  BY <1>1 DEF IInv, CrashInv, TypeOK, MainType, ThreadType
<1>3. main'.job = main.job /\ main'.items = main.items
      /\ main'.todo \subseteq main.todo \cup service.array
  BY <1>2 DEF MainRecord, ThreadEnds, Attached
<1>4. /\ thread'.item # None <=> thread.item # None
      /\ thread.item # None => /\ thread'.item.job = thread.item.job
                               /\ thread'.item.file = thread.item.file
  <2>1. thread.item # None /\ thread.item \in Items
    BY <1>2 DEF ThreadRecord, ThreadEnds, IInv, CrashInv, Attached
  <2>2. /\ thread'.item \in Items /\ thread'.item.job = thread.item.job
        /\ thread'.item.file = thread.item.file
    <3>1. /\ [thread.item EXCEPT !.result = result].job = thread.item.job
          /\ [thread.item EXCEPT !.result = result].file = thread.item.file
          /\ [thread.item EXCEPT !.result = result] \in Items
      BY <2>1 DEF Items, Results
    <3>2. thread'.item = [thread.item EXCEPT !.result = result]
      BY <1>2 DEF ThreadRecord, ThreadEnds
    <3>3. QED BY <3>1, <3>2
  <2>3. QED BY <2>1, <2>2, NotNone
<1>5. \A s \in Slots :
        /\ slots'[s] # None <=> slots[s] # None
        /\ slots[s] # None => /\ slots'[s].job = slots[s].job
                              /\ slots'[s].file = slots[s].file
  BY <1>2 DEF ThreadEnds, Attached
<1>6. UNCHANGED jobs /\ calls'.started = calls.started
      /\ service'.array \subseteq service.array /\ TypeOK'
  BY <1>1 DEF IInv, CrashInv, TypeOK, ServiceType, ThreadEnds, Attached
<1>7. QED BY <1>1, <1>3, <1>4, <1>5, <1>6, NothingMoves DEF IInv

(* HandlerCompletes preserves IInv.                                        *)
LEMMA HandlerCompletesBooks ==
  ASSUME IInv, NEW k \in Slots, NEW result \in Results, HandlerCompletes(k,
         result)
  PROVE  IInv'
<1>1. CrashInv'
  BY HandlerCompletesCrash DEF IInv
<1>2. main \in MainRecord /\ thread \in ThreadRecord
      /\ slots \in [Slots -> Items \cup {None}]
      /\ thread' \in ThreadRecord
  BY <1>1 DEF IInv, CrashInv, TypeOK, MainType, ThreadType
<1>3. main'.job = main.job /\ main'.items = main.items
      /\ main'.todo \subseteq main.todo \cup service.array
  BY <1>2 DEF MainRecord, HandlerCompletes
<1>4. /\ thread'.item # None <=> thread.item # None
      /\ thread.item # None => /\ thread'.item.job = thread.item.job
                               /\ thread'.item.file = thread.item.file
  BY <1>2 DEF ThreadRecord, HandlerCompletes
<1>5. \A s \in Slots :
        /\ slots'[s] # None <=> slots[s] # None
        /\ slots[s] # None => /\ slots'[s].job = slots[s].job
                              /\ slots'[s].file = slots[s].file
  <2>1. slots[k] \in Items
    BY <1>2 DEF HandlerCompletes
  <2>2. /\ [slots[k] EXCEPT !.result = result].job = slots[k].job
        /\ [slots[k] EXCEPT !.result = result].file = slots[k].file
        /\ [slots[k] EXCEPT !.result = result] \in Items
    BY <2>1 DEF Items, Results
  <2>3. slots' = [slots EXCEPT ![k] = [slots[k] EXCEPT !.result = result]]
    BY DEF HandlerCompletes
  <2>4. QED BY <1>2, <2>1, <2>2, <2>3, NotNone
<1>6. UNCHANGED jobs /\ calls'.started = calls.started
      /\ service'.array \subseteq service.array /\ TypeOK'
  BY <1>1 DEF IInv, CrashInv, TypeOK, ServiceType, HandlerCompletes
<1>7. QED BY <1>1, <1>3, <1>4, <1>5, <1>6, NothingMoves DEF IInv

(* ObserveEnd preserves IInv.                                              *)
LEMMA ObserveEndBooks ==
  ASSUME IInv, ObserveEnd
  PROVE  IInv'
<1>1. CrashInv'
  BY ObserveEndCrash DEF IInv
<1>2. main \in MainRecord /\ thread \in ThreadRecord
      /\ slots \in [Slots -> Items \cup {None}]
      /\ thread' \in ThreadRecord
  BY <1>1 DEF IInv, CrashInv, TypeOK, MainType, ThreadType
<1>3. main'.job = main.job /\ main'.items = main.items
      /\ main'.todo \subseteq main.todo \cup service.array
  BY <1>2 DEF MainRecord, ObserveEnd
<1>4. /\ thread'.item # None <=> thread.item # None
      /\ thread.item # None => /\ thread'.item.job = thread.item.job
                               /\ thread'.item.file = thread.item.file
  BY <1>2 DEF ThreadRecord, ObserveEnd
<1>5. \A s \in Slots :
        /\ slots'[s] # None <=> slots[s] # None
        /\ slots[s] # None => /\ slots'[s].job = slots[s].job
                              /\ slots'[s].file = slots[s].file
  BY <1>2 DEF ObserveEnd
<1>6. UNCHANGED jobs /\ calls'.started = calls.started
      /\ service'.array \subseteq service.array /\ TypeOK'
  BY <1>1 DEF IInv, CrashInv, TypeOK, ServiceType, ObserveEnd
<1>7. QED BY <1>1, <1>3, <1>4, <1>5, <1>6, NothingMoves DEF IInv

(* When the accounts of one job are right after a step that touches no     *)
(* other, all are.                                                         *)
LEMMA OthersUntouched ==
  ASSUME IInv, NEW j \in Jobs, jobs'[j].status = "running" => Accounted(j)',
         \A i \in Jobs \ {j} :
           jobs'[i] = jobs[i] /\ SlotsSame(i) /\ ThreadSame(i) /\ ItemsSame(i)
  PROVE  RunningAccounted'
<1>1. SUFFICES ASSUME NEW i \in Jobs, i # j, jobs'[i].status = "running"
               PROVE  Accounted(i)'
  BY DEF RunningAccounted
<1>2. jobs'[i] = jobs[i] /\ Accounted(i)
  BY <1>1 DEF IInv, RunningAccounted
<1>3. SlotsSame(i) /\ ThreadSame(i) /\ ItemsSame(i)
  BY <1>1
<1>4. QED BY <1>2, <1>3, JobUntouched

(* What taking an item from its list does to its job.                      *)
LEMMA TakenEffect ==
  ASSUME TypeOK, NEW list \in {"main", "background"}, NEW j \in Jobs,
         NEW f \in Files
  PROVE  LET r == TakenFrom(list, j, f) IN
         /\ \A i \in Jobs \ {j} : r[i] = jobs[i]
         /\ r[j].status = jobs[j].status /\ r[j].total = jobs[j].total
         /\ r[j].completed = jobs[j].completed
         /\ r[j].done = jobs[j].done /\ r[j].errors = jobs[j].errors
         /\ r[j].processed = jobs[j].processed
         /\ r[j].main = IF list = "main" THEN jobs[j].main \ {f}
                                         ELSE jobs[j].main
         /\ r[j].background = IF list = "background"
                                THEN jobs[j].background \ {f}
                                ELSE jobs[j].background
         /\ r[j].left = jobs[j].left
<1> DEFINE r == [jobs[j] EXCEPT ![list] = @ \ {f}]
<1>1. jobs \in [Jobs -> JobRecord]
  BY DEF TypeOK
<1>2. TakenFrom(list, j, f) = [jobs EXCEPT ![j] = r]
  BY DEF TakenFrom
<1>3. /\ r.status = jobs[j].status /\ r.total = jobs[j].total
      /\ r.completed = jobs[j].completed
      /\ r.done = jobs[j].done /\ r.errors = jobs[j].errors
      /\ r.processed = jobs[j].processed
      /\ r.main = IF list = "main" THEN jobs[j].main \ {f} ELSE jobs[j].main
      /\ r.background = IF list = "background" THEN jobs[j].background \ {f}
                                               ELSE jobs[j].background
      /\ r.left = jobs[j].left
  <2>1. CASE list = "main"
    BY <1>1, <2>1 DEF JobRecord
  <2>2. CASE list = "background"
    BY <1>1, <2>2 DEF JobRecord
  <2>3. QED BY <2>1, <2>2
<1> HIDE DEF r
<1>4. QED BY <1>1, <1>2, <1>3

(* Where else than in its lists an item of job j can be.                   *)
Elsewhere(j, f, w) ==
  \/ \E r \in Results : /\ w = <<r, 0>>
                        /\ \/ <<f, r>> \in jobs[j].processed
                           \/ main.job = j /\ <<f, r>> \in main.items
  \/ \E k \in Slots : /\ w = <<"slot", k>> /\ slots[k] # None
                      /\ slots[k].job = j /\ slots[k].file = f
  \/ /\ w = <<"thread", 0>> /\ thread.item # None
     /\ thread.item.job = j /\ thread.item.file = f
  \/ w = <<"left", 0>> /\ f \in jobs[j].left

(* Job j without the item of f that was at v, but for what is put in its   *)
(* lists.                                                                  *)
GivenWithout(given, j, f, v) ==
  \A g \in Files, w \in Whereabouts :
    \/ w = <<"main", 0>> /\ g \in given[j].main
    \/ w = <<"background", 0>> /\ g \in given[j].background
    \/ Elsewhere(j, g, w)'
    <=> IsAt(j, g, w) /\ ~(g = f /\ w = v)

(* When the item of f has left the place it was at, and PutProcessedItem   *)
(* has handled it, the accounts of its job are right.                      *)
LEMMA PutAccounts ==
  ASSUME IInv, NEW j \in Jobs, NEW f \in Files, NEW v \in Whereabouts,
         NEW result \in Results, NEW m, NEW given \in [Jobs -> JobRecord],
         PutOnMain(given, j, f, result, m),
         jobs[j].status = "running", <<f, v>> \in Pieces(j),
         /\ given[j].status = "running"
         /\ given[j].total = jobs[j].total
         /\ given[j].completed = jobs[j].completed
         /\ given[j].done = jobs[j].done /\ given[j].errors = jobs[j].errors,
         main'.job = j => main'.items \cap given[j].processed = {},
         GivenWithout(given, j, f, v)
  PROVE  Accounted(j)'
<1>1. TypeOK /\ Accounted(j)
  BY DEF IInv, CrashInv, RunningAccounted
<1>2. /\ jobs'[j].processed = given[j].processed
      /\ \/ Settles(given[j], jobs'[j], f)
         \/ \E u \in Queue : Requeues(given[j], jobs'[j], f, u)
  BY <1>1, PutEffect
<1>3. main'.job = j => main'.items \cap jobs'[j].processed = {}
  BY <1>2
<1>4. \A g \in Files, w \in Whereabouts :
        IsAt(j, g, w)' <=> \/ w = <<"main", 0>> /\ g \in jobs'[j].main
                           \/ w = <<"background", 0>>
                                /\ g \in jobs'[j].background
                           \/ Elsewhere(j, g, w)'
  BY DEF IsAt, Elsewhere
<1>5. CASE Settles(given[j], jobs'[j], f)
  <2>1. \A g \in Files, w \in Whereabouts :
          IsAt(j, g, w)' <=> IsAt(j, g, w) /\ ~(g = f /\ w = v)
    BY <1>4, <1>5 DEF Settles, GivenWithout
  <2>2. Pieces(j)' = Pieces(j) \ {<<f, v>>}
    BY <2>1, PieceGoes
  <2>3. QED BY <1>1, <1>3, <1>5, <2>2, AccountSettles DEF Settles
<1>6. ASSUME NEW u \in Queue, Requeues(given[j], jobs'[j], f, u)
      PROVE  Accounted(j)'
  <2>1. u \in Whereabouts
    BY QueuesAreThere
  <2>2. \A g \in Files, w \in Whereabouts :
          IsAt(j, g, w)' <=> \/ IsAt(j, g, w) /\ ~(g = f /\ w = v)
                             \/ g = f /\ w = u
    <3>1. CASE u = <<"main", 0>>
      <4>1. /\ jobs'[j].main = given[j].main \cup {f}
            /\ jobs'[j].background = given[j].background
        BY <1>6, <3>1 DEF Requeues
      <4>2. QED BY <1>4, <3>1, <4>1 DEF GivenWithout
    <3>2. CASE u = <<"background", 0>>
      <4>1. /\ jobs'[j].main = given[j].main
            /\ jobs'[j].background = given[j].background \cup {f}
        BY <1>6, <3>2 DEF Requeues
      <4>2. QED BY <1>4, <3>2, <4>1 DEF GivenWithout
    <3>3. QED BY <3>1, <3>2 DEF Queue
  <2>3. Pieces(j)' = (Pieces(j) \ {<<f, v>>}) \cup {<<f, u>>}
    BY <2>1, <2>2, PieceMoves
  <2>4. /\ 1 \in Nat
        /\ jobs'[j].total = jobs[j].total + 1
        /\ jobs'[j].completed = jobs[j].completed + 1
        /\ jobs'[j].done = jobs[j].done
        /\ \/ jobs'[j].errors = jobs[j].errors
           \/ jobs'[j].errors = jobs[j].errors \cup {f}
    BY <1>6 DEF Requeues
  <2>5. QED BY <1>1, <1>3, <2>1, <2>3, <2>4, AccountMoves
<1>7. QED BY <1>2, <1>5, <1>6

(* What PutOnMain leaves of the jobs and of main, for Settled.             *)
LEMMA PutKeeps ==
  ASSUME TypeOK, NEW given \in [Jobs -> JobRecord], NEW j \in Jobs,
         NEW f \in Files, NEW result \in Results, NEW m \in MainRecord,
         PutOnMain(given, j, f, result, m)
  PROVE  /\ \A i \in Jobs \ {j} : jobs'[i] = given[i]
         /\ given[j].status # "running" => jobs' = given
         /\ given[j].status = "running" => jobs'[j].status = "running"
         /\ main'.job = m.job /\ main'.items = m.items /\ main'.todo = m.todo
         /\ main' \in MainRecord
<1>1. main' = m \/ main' = [m EXCEPT !.notify = 1, !.finished = TRUE]
  BY DEF PutOnMain
<1>2. main'.todo = m.todo
  BY <1>1 DEF MainRecord
<1>3. CASE given[j].status # "running"
  BY <1>2, <1>3, PutOnMainType DEF PutOnMain
<1>4. CASE given[j].status = "running"
  BY <1>2, <1>4, PutOnMainType, PutEffect
<1>5. QED BY <1>3, <1>4

(* The places of items are places.                                         *)
LEMMA Wheres ==
  /\ \A k \in Slots : <<"slot", k>> \in Whereabouts
  /\ \A r \in Results : <<r, 0>> \in Whereabouts
  /\ <<"main", 0>> \in Whereabouts /\ <<"background", 0>> \in Whereabouts
  /\ <<"thread", 0>> \in Whereabouts /\ <<"left", 0>> \in Whereabouts
BY Ranges DEF Whereabouts, Results

(* Giving back the item of a slot keeps the accounts.                      *)
LEMMA SlotFreed ==
  ASSUME IInv, NEW k \in Slots, slots[k] # None,
         slots' = [slots EXCEPT ![k] = None], UNCHANGED thread,
         NEW m \in MainRecord, m.job = main.job, m.items = main.items,
         m.todo = main.todo, NEW result \in Results,
         PutOnMain(jobs, slots[k].job, slots[k].file, result, m),
         UNCHANGED <<service, calls>>
  PROVE  RunningAccounted' /\ Settled'
<1>1. /\ TypeOK /\ slots[k].job \in Jobs /\ slots[k].file \in Files
      /\ jobs \in [Jobs -> JobRecord] /\ slots \in [Slots -> Items \cup
            {None}]
  BY DEF IInv, CrashInv, TypeOK, MainType, Items
<1>b. PICK j \in Jobs, f \in Files : slots[k].job = j /\ slots[k].file = f
  BY <1>1
<1>c. PICK given \in [Jobs -> JobRecord] : given = jobs
  BY <1>1
<1>a. /\ PutOnMain(given, j, f, result, m)
      /\ slots[k].job = j /\ slots[k].file = f
      /\ \A q \in Slots : slots'[q] = IF q = k THEN None ELSE slots[q]
  BY <1>1, <1>b, <1>c
<1>2. /\ \A i \in Jobs \ {j} : jobs'[i] = jobs[i]
      /\ jobs[j].status # "running" => jobs' = jobs
      /\ jobs[j].status = "running" => jobs'[j].status = "running"
      /\ main'.job = main.job /\ main'.items = main.items
      /\ main'.todo = main.todo /\ main' \in MainRecord
  BY <1>1, <1>a, <1>c, PutKeeps
<1>3. \A i \in Jobs \ {j} : SlotsSame(i) /\ ThreadSame(i) /\ ItemsSame(i)
  BY <1>1, <1>a, <1>2 DEF SlotsSame, ThreadSame, ItemsSame
<1>4. jobs'[j].status = "running" => Accounted(j)'
  <2>1. SUFFICES ASSUME jobs'[j].status = "running"
                 PROVE  Accounted(j)'
    OBVIOUS
  <2>2. jobs[j].status = "running"
    BY <1>2, <2>1
  <2>3. jobs'[j].processed = jobs[j].processed /\ jobs'[j].left = jobs[j].left
    BY <1>1, <1>a, <1>c, <2>2, PutEffect DEF Settles, Requeues
  <2>4. <<"slot", k>> \in Whereabouts
    BY Wheres
  <2>5. <<f, <<"slot", k>>>> \in Pieces(j)
    BY <1>1, <1>a, <2>4, PieceIs DEF IsAt
  <2>6. main'.job = j => main'.items \cap given[j].processed = {}
    BY <1>1, <1>2, <1>c, <2>2 DEF IInv, RunningAccounted, Accounted
  <2>7. GivenWithout(given, j, f, <<"slot", k>>)
    <3>1. SUFFICES ASSUME NEW g \in Files, NEW w \in Whereabouts
                   PROVE  \/ w = <<"main", 0>> /\ g \in jobs[j].main
                          \/ w = <<"background", 0>> /\ g \in
                                jobs[j].background
                          \/ Elsewhere(j, g, w)'
                          <=> IsAt(j, g, w) /\ ~(g = f /\ w = <<"slot", k>>)
      BY <1>c DEF GivenWithout
    <3>2. CASE w = <<"slot", k>>
      BY <1>a, <3>2 DEF IsAt, Elsewhere, Results
    <3>3. CASE w # <<"slot", k>>
      <4>1. (\E q \in Slots : /\ w = <<"slot", q>> /\ slots'[q] # None
                             /\ slots'[q].job = j /\ slots'[q].file = g)
              <=> (\E q \in Slots : /\ w = <<"slot", q>> /\ slots[q] # None
                                   /\ slots[q].job = j /\ slots[q].file = g)
        BY <1>a, <3>3
      <4>2. thread' = thread
        OBVIOUS
      <4>3. QED BY <1>2, <2>3, <3>3, <4>1, <4>2 DEF IsAt, Elsewhere
    <3>4. QED BY <3>2, <3>3
  <2>8. QED BY <1>1, <1>a, <1>c, <2>2, <2>4, <2>5, <2>6, <2>7, PutAccounts
<1>5. RunningAccounted'
  BY <1>1, <1>2, <1>3, <1>4, OthersUntouched
<1>6. Settled'
  <2>1. \A i \in Jobs : \/ jobs'[i] = jobs[i]
                        \/ /\ jobs[i].status = "running"
                           /\ jobs'[i].status = "running"
    BY <1>1, <1>2
  <2>2. /\ main'.todo \subseteq Jobs /\ service.array \subseteq Jobs
        /\ main'.job \in Jobs \cup {None}
    BY <1>1, <1>2 DEF TypeOK, ServiceType, MainRecord
  <2>3. /\ \A i \in Slots : slots'[i] # None => slots'[i].job \in Jobs
        /\ thread'.item # None => thread'.item.job \in Jobs
    BY <1>1, <1>a DEF TypeOK, ThreadType, ThreadRecord, Items
  <2>4. \A i \in Slots : slots'[i] # None =>
          slots[i] # None /\ slots'[i].job = slots[i].job
    BY <1>a
  <2>5. QED BY <1>2, <2>1, <2>2, <2>3, <2>4, SettledKept DEF IInv
<1>7. QED BY <1>5, <1>6

(* SlotCompletes preserves IInv.                                           *)
LEMMA SlotCompletesBooks ==
  ASSUME IInv, NEW k \in Slots, SlotCompletes(k)
  PROVE  IInv'
<1>1. CrashInv'
  BY SlotCompletesCrash DEF IInv
<1>2. main \in MainRecord /\ slots[k].result \in Results
  BY DEF IInv, CrashInv, TypeOK, MainType, Items, Results, SlotCompletes
<1>3. RunningAccounted' /\ Settled'
  BY <1>2, SlotFreed DEF SlotCompletes
<1>4. QED BY <1>1, <1>3 DEF IInv

(* StopSlot preserves IInv.                                                *)
LEMMA StopSlotBooks ==
  ASSUME IInv, NEW k \in Slots, NEW result \in Results, StopSlot(k, result)
  PROVE  IInv'
<1>1. CrashInv'
  BY StopSlotCrash DEF IInv
<1> DEFINE m == [main EXCEPT !.stop = @ + 1]
<1>2. main \in MainRecord
  BY DEF IInv, CrashInv, TypeOK, MainType
<1>3. m \in MainRecord
  BY <1>2, Ranges DEF MainRecord, StopSlot
<1>4. m.job = main.job /\ m.items = main.items /\ m.todo = main.todo
  BY <1>2 DEF MainRecord
<1>5. PutOnMain(jobs, slots[k].job, slots[k].file, result, m)
  BY DEF StopSlot
<1> HIDE DEF m
<1>6. RunningAccounted' /\ Settled'
  BY <1>3, <1>4, <1>5, SlotFreed DEF StopSlot
<1>7. QED BY <1>1, <1>6 DEF IInv

(* CompleteItem preserves IInv.                                            *)
LEMMA CompleteItemBooks ==
  ASSUME IInv, NEW c \in main.items, CompleteItem(c)
  PROVE  IInv'
<1> DEFINE m == [main EXCEPT !.items = @ \ {c}]
<1>1. CrashInv'
  BY CompleteItemCrash DEF IInv
<1>b. /\ TypeOK /\ main.job \in Jobs /\ c \in Files \X Results
      /\ jobs \in [Jobs -> JobRecord] /\ main \in MainRecord
      /\ main.items \subseteq Files \X Results
  BY DEF IInv, CrashInv, TypeOK, MainType, MainRecord, Attached
<1>c. PICK j \in Jobs, f \in Files, r \in Results :
        main.job = j /\ c = <<f, r>>
  BY <1>b
<1>d. PICK given \in [Jobs -> JobRecord] : given = jobs
  BY <1>b
<1>2. /\ TypeOK /\ j \in Jobs /\ f \in Files /\ r \in Results /\ c = <<f, r>>
      /\ jobs \in [Jobs -> JobRecord] /\ main \in MainRecord
      /\ main.items \subseteq Files \X Results
  BY <1>b, <1>c
<1>3. /\ m \in MainRecord /\ m.job = main.job /\ m.items = main.items \ {c}
      /\ m.todo = main.todo
  BY <1>2 DEF MainRecord
<1>4. PutOnMain(given, j, f, r, m)
  BY <1>c, <1>d DEF CompleteItem
<1>a. main.job = j
  BY <1>c
<1> HIDE DEF m
<1>5. /\ \A i \in Jobs \ {j} : jobs'[i] = jobs[i]
      /\ jobs[j].status # "running" => jobs' = jobs
      /\ jobs[j].status = "running" => jobs'[j].status = "running"
      /\ main'.job = main.job /\ main'.items = main.items \ {c}
      /\ main'.todo = main.todo /\ main' \in MainRecord
  BY <1>2, <1>a, <1>d, <1>3, <1>4, PutKeeps
<1>6. \A i \in Jobs \ {j} : SlotsSame(i) /\ ThreadSame(i) /\ ItemsSame(i)
  BY <1>2, <1>a, <1>5 DEF SlotsSame, ThreadSame, ItemsSame, CompleteItem
<1>7. jobs'[j].status = "running" => Accounted(j)'
  <2>1. SUFFICES ASSUME jobs'[j].status = "running"
                 PROVE  Accounted(j)'
    OBVIOUS
  <2>2. jobs[j].status = "running"
    BY <1>5, <2>1
  <2>3. jobs'[j].processed = jobs[j].processed /\ jobs'[j].left = jobs[j].left
    BY <1>2, <1>4, <1>d, <2>2, PutEffect DEF Settles, Requeues
  <2>4. <<r, 0>> \in Whereabouts
    BY <1>2, Wheres
  <2>5. <<f, <<r, 0>>>> \in Pieces(j)
    BY <1>2, <1>a, <2>4, PieceIs DEF IsAt
  <2>6. main'.items \cap given[j].processed = {} /\ main.items \cap
        jobs[j].processed = {}
    BY <1>2, <1>a, <1>d, <1>5, <2>2 DEF IInv, RunningAccounted, Accounted
  <2>7. GivenWithout(given, j, f, <<r, 0>>)
    <3>1. SUFFICES ASSUME NEW g \in Files, NEW w \in Whereabouts
                   PROVE  \/ w = <<"main", 0>> /\ g \in jobs[j].main
                          \/ w = <<"background", 0>> /\ g \in
                                jobs[j].background
                          \/ Elsewhere(j, g, w)'
                          <=> IsAt(j, g, w) /\ ~(g = f /\ w = <<r, 0>>)
      BY <1>d DEF GivenWithout
    <3>2. \A s \in Results : <<g, s>> \in main'.items
            <=> <<g, s>> \in main.items /\ ~(g = f /\ s = r)
      BY <1>2, <1>5
    <3>3. CASE w = <<r, 0>>
      BY <1>2, <1>a, <1>5, <2>3, <2>6, <3>2, <3>3
        DEF IsAt, Elsewhere, Results, CompleteItem
    <3>4. CASE w # <<r, 0>>
      <4>1. (\E s \in Results : /\ w = <<s, 0>>
                               /\ \/ <<g, s>> \in jobs'[j].processed
                                  \/ main'.job = j /\ <<g, s>> \in
                                        main'.items)
              <=> (\E s \in Results : /\ w = <<s, 0>>
                                     /\ \/ <<g, s>> \in jobs[j].processed
                                        \/ <<g, s>> \in main.items)
        BY <1>a, <1>5, <2>3, <3>2, <3>4
      <4>2. slots' = slots /\ thread' = thread
        BY DEF CompleteItem
      <4>3. QED BY <1>a, <2>3, <3>4, <4>1, <4>2 DEF IsAt, Elsewhere
    <3>5. QED BY <3>3, <3>4
  <2>8. QED BY <1>2, <1>a, <1>d, <1>4, <1>5, <2>2, <2>4, <2>5, <2>6, <2>7,
               PutAccounts
<1>8. RunningAccounted'
  BY <1>2, <1>5, <1>6, <1>7, OthersUntouched
<1>9. Settled'
  <2>1. \A i \in Jobs : \/ jobs'[i] = jobs[i]
                        \/ /\ jobs[i].status = "running"
                           /\ jobs'[i].status = "running"
    BY <1>2, <1>5
  <2>2. /\ main'.todo \subseteq Jobs /\ service.array \subseteq Jobs
        /\ main'.job \in Jobs \cup {None}
    BY <1>2, <1>5 DEF TypeOK, ServiceType, MainRecord
  <2>3. /\ \A i \in Slots : slots'[i] # None => slots'[i].job \in Jobs
        /\ thread'.item # None => thread'.item.job \in Jobs
    BY <1>2
      DEF TypeOK, MainType, ThreadType, ThreadRecord, Items, CompleteItem
  <2>4. QED BY <1>5, <2>1, <2>2, <2>3, SettledKept DEF IInv, CompleteItem
<1>10. QED BY <1>1, <1>8, <1>9 DEF IInv

(* A queued item is an item of a running job.                              *)
LEMMA QueuedIs ==
  ASSUME IInv, NEW list \in {"main", "background"}, NEW j \in Jobs,
         NEW f \in Files, Queued(list, j, f)
  PROVE  /\ jobs[j].status = "running" /\ Accounted(j) /\ TypeOK
         /\ <<list, 0>> \in Whereabouts /\ <<f, <<list, 0>>>> \in Pieces(j)
<1>1. jobs[j].status = "running" /\ f \in jobs[j][list]
  BY DEF Queued
<1>2. Accounted(j) /\ TypeOK
  BY <1>1 DEF IInv, CrashInv, RunningAccounted
<1>3. <<list, 0>> \in Whereabouts
  BY Wheres
<1>4. CASE list = "main"
  BY <1>1, <1>2, <1>3, <1>4, PieceIs DEF IsAt
<1>5. CASE list = "background"
  BY <1>1, <1>2, <1>3, <1>5, PieceIs DEF IsAt
<1>6. QED BY <1>1, <1>2, <1>3, <1>4, <1>5

(* Taking an item from the list of the main thread and giving it back as   *)
(* failed keeps the accounts.                                              *)
LEMMA GivenBack ==
  ASSUME IInv, NEW j \in Jobs, NEW f \in Files, Queued("main", j, f),
         UNCHANGED <<slots, thread, service, calls>>,
         NEW m \in MainRecord, m.job = main.job, m.items = main.items,
         m.todo = main.todo, NEW result \in Results,
         PutOnMain(TakenFrom("main", j, f), j, f, result, m)
  PROVE  RunningAccounted' /\ Settled'
<1>1. /\ jobs[j].status = "running" /\ Accounted(j) /\ TypeOK
      /\ <<"main", 0>> \in Whereabouts /\ <<f, <<"main", 0>>>> \in Pieces(j)
  BY QueuedIs
<1>2. PICK given \in [Jobs -> JobRecord] : given = TakenFrom("main", j, f)
  BY <1>1, TakenType
<1>3. /\ \A i \in Jobs \ {j} : given[i] = jobs[i]
      /\ given[j].status = jobs[j].status /\ given[j].total = jobs[j].total
      /\ given[j].completed = jobs[j].completed
      /\ given[j].done = jobs[j].done /\ given[j].errors = jobs[j].errors
      /\ given[j].processed = jobs[j].processed
      /\ given[j].main = jobs[j].main \ {f}
      /\ given[j].background = jobs[j].background
      /\ given[j].left = jobs[j].left
  BY <1>1, <1>2, TakenEffect
<1>4. PutOnMain(given, j, f, result, m)
  BY <1>2
<1>5. /\ \A i \in Jobs \ {j} : jobs'[i] = jobs[i]
      /\ jobs'[j].status = "running"
      /\ main'.job = main.job /\ main'.items = main.items
      /\ main'.todo = main.todo /\ main' \in MainRecord
  BY <1>1, <1>3, <1>4, PutKeeps
<1>6. jobs'[j].processed = jobs[j].processed /\ jobs'[j].left = jobs[j].left
  BY <1>1, <1>3, <1>4, PutEffect DEF Settles, Requeues
<1>7. \A i \in Jobs \ {j} : SlotsSame(i) /\ ThreadSame(i) /\ ItemsSame(i)
  BY <1>5 DEF SlotsSame, ThreadSame, ItemsSame
<1>8. main'.job = j => main'.items \cap given[j].processed = {}
  BY <1>1, <1>3, <1>5 DEF Accounted
<1>9. GivenWithout(given, j, f, <<"main", 0>>)
  <2>1. SUFFICES ASSUME NEW g \in Files, NEW w \in Whereabouts
                 PROVE  \/ w = <<"main", 0>> /\ g \in given[j].main
                        \/ w = <<"background", 0>> /\ g \in
                              given[j].background
                        \/ Elsewhere(j, g, w)'
                        <=> IsAt(j, g, w) /\ ~(g = f /\ w = <<"main", 0>>)
    BY DEF GivenWithout
  <2>2. Elsewhere(j, g, w)' <=> Elsewhere(j, g, w)
    BY <1>5, <1>6 DEF Elsewhere
  <2>3. IsAt(j, g, w) <=> \/ w = <<"main", 0>> /\ g \in jobs[j].main
                          \/ w = <<"background", 0>> /\ g \in
                                jobs[j].background
                          \/ Elsewhere(j, g, w)
    BY DEF IsAt, Elsewhere
  <2>4. CASE w = <<"main", 0>>
    <3>1. ~Elsewhere(j, g, w)
      BY <2>4 DEF Elsewhere, Results
    <3>2. QED BY <1>3, <2>2, <2>3, <2>4, <3>1
  <2>5. CASE w # <<"main", 0>>
    BY <1>3, <2>2, <2>3, <2>5
  <2>6. QED BY <2>4, <2>5
<1>10. Accounted(j)'
  BY <1>1, <1>3, <1>4, <1>8, <1>9, PutAccounts
<1>11. RunningAccounted'
  BY <1>5, <1>7, <1>10, OthersUntouched
<1>12. Settled'
  <2>1. \A i \in Jobs : \/ jobs'[i] = jobs[i]
                        \/ /\ jobs[i].status = "running"
                           /\ jobs'[i].status = "running"
    BY <1>1, <1>5
  <2>2. /\ main'.todo \subseteq Jobs /\ service.array \subseteq Jobs
        /\ main'.job \in Jobs \cup {None}
    BY <1>1, <1>5 DEF TypeOK, ServiceType, MainRecord
  <2>3. /\ \A i \in Slots : slots'[i] # None => slots'[i].job \in Jobs
        /\ thread'.item # None => thread'.item.job \in Jobs
    BY <1>1 DEF TypeOK, MainType, ThreadType, ThreadRecord, Items
  <2>4. QED BY <1>5, <2>1, <2>2, <2>3, SettledKept DEF IInv
<1>13. QED BY <1>11, <1>12

(* SlotSkips preserves IInv.                                               *)
LEMMA SlotSkipsBooks ==
  ASSUME IInv, NEW k \in Slots, NEW j \in Jobs, NEW f \in Files,
         SlotSkips(k, j, f)
  PROVE  IInv'
<1>1. CrashInv'
  BY SlotSkipsCrash DEF IInv
<1>2. main \in MainRecord /\ "bad" \in Results
  BY DEF IInv, CrashInv, TypeOK, MainType, Results
<1>3. RunningAccounted' /\ Settled'
  BY <1>2, GivenBack DEF SlotSkips
<1>4. QED BY <1>1, <1>3 DEF IInv

(* SlotRefused preserves IInv.                                             *)
LEMMA SlotRefusedBooks ==
  ASSUME IInv, NEW k \in Slots, NEW j \in Jobs, NEW f \in Files,
         SlotRefused(k, j, f)
  PROVE  IInv'
<1>1. CrashInv'
  BY SlotRefusedCrash DEF IInv
<1> DEFINE m == NextSlot(FALSE)
<1>2. main \in MainRecord /\ "bad" \in Results
  BY DEF IInv, CrashInv, TypeOK, MainType, Results
<1>3. m \in MainRecord
  BY <1>2, Ranges DEF MainRecord, SlotRefused, InSlot, NextSlot
<1>4. m.job = main.job /\ m.items = main.items /\ m.todo = main.todo
  BY <1>2 DEF MainRecord, NextSlot
<1>5. PutOnMain(TakenFrom("main", j, f), j, f, "bad", m)
  BY DEF SlotRefused
<1> HIDE DEF m
<1>6. RunningAccounted' /\ Settled'
  BY <1>2, <1>3, <1>4, <1>5, GivenBack DEF SlotRefused
<1>7. QED BY <1>1, <1>6 DEF IInv

(* SlotPrepareFails preserves IInv.                                        *)
LEMMA SlotPrepareFailsBooks ==
  ASSUME IInv, NEW k \in Slots, NEW j \in Jobs, NEW f \in Files,
         SlotPrepareFails(k, j, f)
  PROVE  IInv'
<1>1. CrashInv'
  BY SlotPrepareFailsCrash DEF IInv
<1> DEFINE m == [main EXCEPT !.notify = 0]
<1>2. main \in MainRecord /\ "bad" \in Results
  BY DEF IInv, CrashInv, TypeOK, MainType, Results
<1>3. m \in MainRecord
  BY <1>2, Ranges DEF MainRecord
<1>4. m.job = main.job /\ m.items = main.items /\ m.todo = main.todo
  BY <1>2 DEF MainRecord
<1>5. PutOnMain(TakenFrom("main", j, f), j, f, "bad", m)
  BY DEF SlotPrepareFails
<1> HIDE DEF m
<1>6. RunningAccounted' /\ Settled'
  BY <1>2, <1>3, <1>4, <1>5, GivenBack DEF SlotPrepareFails
<1>7. QED BY <1>1, <1>6 DEF IInv

(* An item of job j goes from v to u, and nothing else happens.            *)
LEMMA OneMoves ==
  ASSUME IInv, TypeOK', NEW j \in Jobs, NEW f \in Files,
         NEW v \in Whereabouts, NEW u \in Whereabouts,
         <<f, v>> \in Pieces(j), jobs[j].status = "running",
         \A g \in Files, w \in Whereabouts :
           IsAt(j, g, w)' <=> \/ IsAt(j, g, w) /\ ~(g = f /\ w = v)
                              \/ g = f /\ w = u,
         /\ jobs'[j].status = "running" /\ jobs'[j].total = jobs[j].total
         /\ jobs'[j].completed = jobs[j].completed
         /\ jobs'[j].done = jobs[j].done /\ jobs'[j].errors = jobs[j].errors,
         main'.job = j => main'.items \cap jobs'[j].processed = {},
         main'.job = main.job, main'.todo = main.todo,
         UNCHANGED service, UNCHANGED calls,
         \A i \in Jobs \ {j} :
           jobs'[i] = jobs[i] /\ SlotsSame(i) /\ ThreadSame(i) /\
                 ItemsSame(i),
         \A k \in Slots : slots'[k] # None =>
           \/ slots[k] # None /\ slots'[k].job = slots[k].job
           \/ slots'[k].job = j,
         thread'.item # None =>
           \/ thread.item # None /\ thread'.item.job = thread.item.job
           \/ thread'.item.job = j
  PROVE  RunningAccounted' /\ Settled'
<1>1. Pieces(j)' = (Pieces(j) \ {<<f, v>>}) \cup {<<f, u>>}
  BY PieceMoves
<1>2. TypeOK /\ Accounted(j) /\ 0 \in Nat
  BY DEF IInv, CrashInv, RunningAccounted
<1>3. /\ jobs'[j].total = jobs[j].total + 0
      /\ jobs'[j].completed = jobs[j].completed + 0
  BY <1>2, Counters
<1>4. Accounted(j)'
  BY <1>1, <1>2, <1>3, AccountMoves
<1>5. RunningAccounted'
  BY <1>4, OthersUntouched
<1>6. Settled'
  <2>1. \A i \in Jobs : \/ jobs'[i] = jobs[i]
                        \/ /\ jobs[i].status = "running"
                           /\ jobs'[i].status = "running"
    OBVIOUS
  <2>2. /\ main'.todo \subseteq Jobs /\ service.array \subseteq Jobs
        /\ main'.job \in Jobs \cup {None}
    BY <1>2 DEF TypeOK, ServiceType, MainType, MainRecord
  <2>3. /\ \A k \in Slots : slots'[k] # None => slots'[k].job \in Jobs
        /\ thread'.item # None => thread'.item.job \in Jobs
    BY DEF TypeOK, MainType, ThreadType, ThreadRecord, Items
  <2>4. jobs[j].status # "none"
    OBVIOUS
  <2>5. QED BY <2>1, <2>2, <2>3, <2>4, SettledKept DEF IInv
<1>7. QED BY <1>5, <1>6

(* SlotTakes preserves IInv.                                               *)
LEMMA SlotTakesBooks ==
  ASSUME IInv, NEW k \in Slots, NEW j \in Jobs, NEW f \in Files,
         SlotTakes(k, j, f)
  PROVE  IInv'
<1>1. CrashInv'
  BY SlotTakesCrash DEF IInv
<1>2. /\ jobs[j].status = "running" /\ Accounted(j) /\ TypeOK
      /\ <<"main", 0>> \in Whereabouts /\ <<f, <<"main", 0>>>> \in Pieces(j)
  BY QueuedIs DEF SlotTakes
<1>3. /\ \A i \in Jobs \ {j} : jobs'[i] = jobs[i]
      /\ jobs'[j].status = jobs[j].status /\ jobs'[j].total = jobs[j].total
      /\ jobs'[j].completed = jobs[j].completed
      /\ jobs'[j].done = jobs[j].done /\ jobs'[j].errors = jobs[j].errors
      /\ jobs'[j].processed = jobs[j].processed
      /\ jobs'[j].main = jobs[j].main \ {f}
      /\ jobs'[j].background = jobs[j].background
      /\ jobs'[j].left = jobs[j].left
  BY <1>2, TakenEffect DEF SlotTakes
<1>4. /\ main'.job = main.job /\ main'.items = main.items
      /\ main'.todo = main.todo
  BY <1>2 DEF TypeOK, MainType, MainRecord, SlotTakes, NextSlot
<1>5. /\ slots[k] = None /\ slots'[k] # None
      /\ slots'[k].job = j /\ slots'[k].file = f
      /\ \A q \in Slots \ {k} : slots'[q] = slots[q]
      /\ thread' = thread /\ service' = service /\ calls' = calls
  BY <1>2, ItemType DEF TypeOK, MainType, SlotTakes
<1>6. \A i \in Jobs \ {j} : SlotsSame(i) /\ ThreadSame(i) /\ ItemsSame(i)
  BY <1>4, <1>5 DEF SlotsSame, ThreadSame, ItemsSame
<1>7. main'.job = j => main'.items \cap jobs'[j].processed = {}
  BY <1>2, <1>3, <1>4 DEF Accounted
<1>8. <<"slot", k>> \in Whereabouts
  BY Wheres
<1>9. \A g \in Files, w \in Whereabouts :
        IsAt(j, g, w)' <=> \/ IsAt(j, g, w) /\ ~(g = f /\ w = <<"main", 0>>)
                           \/ g = f /\ w = <<"slot", k>>
  <2>1. SUFFICES ASSUME NEW g \in Files, NEW w \in Whereabouts
                 PROVE  IsAt(j, g, w)' <=>
                          \/ IsAt(j, g, w) /\ ~(g = f /\ w = <<"main", 0>>)
                          \/ g = f /\ w = <<"slot", k>>
    OBVIOUS
  <2>2. CASE w = <<"main", 0>>
    BY <1>3, <2>2 DEF IsAt, Results
  <2>3. CASE w = <<"slot", k>>
    BY <1>5, <2>3 DEF IsAt, Results
  <2>4. CASE w # <<"main", 0>> /\ w # <<"slot", k>>
    <3>1. (\E q \in Slots : /\ w = <<"slot", q>> /\ slots'[q] # None
                           /\ slots'[q].job = j /\ slots'[q].file = g)
            <=> (\E q \in Slots : /\ w = <<"slot", q>> /\ slots[q] # None
                                 /\ slots[q].job = j /\ slots[q].file = g)
      BY <1>5, <2>4
    <3>2. QED BY <1>3, <1>4, <1>5, <2>4, <3>1 DEF IsAt
  <2>5. QED BY <2>2, <2>3, <2>4
<1>10. \A q \in Slots : slots'[q] # None =>
         \/ slots[q] # None /\ slots'[q].job = slots[q].job
         \/ slots'[q].job = j
  BY <1>5
<1>11. TypeOK'
  BY <1>1 DEF CrashInv
<1>12. RunningAccounted' /\ Settled'
  BY <1>2, <1>3, <1>4, <1>5, <1>6, <1>7, <1>8, <1>9, <1>10, <1>11, OneMoves
<1>13. QED BY <1>1, <1>12 DEF IInv

(* ThreadTakes preserves IInv.                                             *)
LEMMA ThreadTakesBooks ==
  ASSUME IInv, NEW j \in Jobs, NEW f \in Files, ThreadTakes(j, f)
  PROVE  IInv'
<1>1. CrashInv'
  BY ThreadTakesCrash DEF IInv
<1>2. /\ jobs[j].status = "running" /\ Accounted(j) /\ TypeOK
      /\ <<"background", 0>> \in Whereabouts
      /\ <<f, <<"background", 0>>>> \in Pieces(j)
  BY QueuedIs DEF ThreadTakes
<1>3. /\ \A i \in Jobs \ {j} : jobs'[i] = jobs[i]
      /\ jobs'[j].status = jobs[j].status /\ jobs'[j].total = jobs[j].total
      /\ jobs'[j].completed = jobs[j].completed
      /\ jobs'[j].done = jobs[j].done /\ jobs'[j].errors = jobs[j].errors
      /\ jobs'[j].processed = jobs[j].processed
      /\ jobs'[j].main = jobs[j].main /\ jobs'[j].left = jobs[j].left
      /\ jobs'[j].background = jobs[j].background \ {f}
  BY <1>2, TakenEffect DEF ThreadTakes
<1>4. thread.item = None
  BY DEF IInv, CrashInv, Attached, ThreadTakes
<1>5. /\ thread'.item # None /\ thread'.item.job = j /\ thread'.item.file = f
      /\ main' = main /\ slots' = slots /\ service' = service
      /\ calls' = calls
  BY <1>2, ItemType DEF TypeOK, ThreadType, ThreadRecord, ThreadTakes
<1>6. \A i \in Jobs \ {j} : SlotsSame(i) /\ ThreadSame(i) /\ ItemsSame(i)
  BY <1>4, <1>5 DEF SlotsSame, ThreadSame, ItemsSame
<1>7. main'.job = j => main'.items \cap jobs'[j].processed = {}
  BY <1>2, <1>3, <1>5 DEF Accounted
<1>8. <<"thread", 0>> \in Whereabouts
  BY Wheres
<1>9. \A g \in Files, w \in Whereabouts :
        IsAt(j, g, w)' <=>
          \/ IsAt(j, g, w) /\ ~(g = f /\ w = <<"background", 0>>)
          \/ g = f /\ w = <<"thread", 0>>
  BY <1>3, <1>4, <1>5 DEF IsAt, Results
<1>10. TypeOK'
  BY <1>1 DEF CrashInv
<1>11. RunningAccounted' /\ Settled'
  BY <1>2, <1>3, <1>5, <1>6, <1>7, <1>8, <1>9, <1>10, OneMoves
<1>12. QED BY <1>1, <1>11 DEF IInv

(* ThreadSkips preserves IInv.                                             *)
LEMMA ThreadSkipsBooks ==
  ASSUME IInv, NEW j \in Jobs, NEW f \in Files, ThreadSkips(j, f)
  PROVE  IInv'
<1>1. CrashInv'
  BY ThreadSkipsCrash DEF IInv
<1>2. /\ jobs[j].status = "running" /\ Accounted(j) /\ TypeOK
      /\ <<"background", 0>> \in Whereabouts
      /\ <<f, <<"background", 0>>>> \in Pieces(j)
  BY QueuedIs DEF ThreadSkips
<1> DEFINE given == TakenFrom("background", j, f)
<1>3. /\ \A i \in Jobs \ {j} : given[i] = jobs[i]
      /\ given[j].status = jobs[j].status /\ given[j].total = jobs[j].total
      /\ given[j].completed = jobs[j].completed
      /\ given[j].done = jobs[j].done /\ given[j].errors = jobs[j].errors
      /\ given[j].processed = jobs[j].processed
      /\ given[j].main = jobs[j].main /\ given[j].left = jobs[j].left
      /\ given[j].background = jobs[j].background \ {f}
  BY <1>2, TakenEffect
<1>4. given \in [Jobs -> JobRecord]
  BY <1>2, TakenType
<1>5. jobs' = [given EXCEPT ![j].processed = @ \cup {<<f, "bad">>}]
  BY DEF ThreadSkips
<1> HIDE DEF given
<1>6. /\ \A i \in Jobs \ {j} : jobs'[i] = jobs[i]
      /\ jobs'[j].status = jobs[j].status /\ jobs'[j].total = jobs[j].total
      /\ jobs'[j].completed = jobs[j].completed
      /\ jobs'[j].done = jobs[j].done /\ jobs'[j].errors = jobs[j].errors
      /\ jobs'[j].processed = jobs[j].processed \cup {<<f, "bad">>}
      /\ jobs'[j].main = jobs[j].main /\ jobs'[j].left = jobs[j].left
      /\ jobs'[j].background = jobs[j].background \ {f}
  BY <1>3, <1>4, <1>5 DEF JobRecord
<1>7. /\ thread' = thread /\ main' = main /\ slots' = slots
      /\ service' = service /\ calls' = calls
  BY DEF ThreadSkips
<1>8. \A i \in Jobs \ {j} : SlotsSame(i) /\ ThreadSame(i) /\ ItemsSame(i)
  BY <1>7 DEF SlotsSame, ThreadSame, ItemsSame
<1>9. <<"bad", 0>> \in Whereabouts
  BY Wheres DEF Results
<1>10. main'.job = j => main'.items \cap jobs'[j].processed = {}
  <2>1. SUFFICES ASSUME main.job = j, <<f, "bad">> \in main.items
                 PROVE  FALSE
    BY <1>2, <1>6, <1>7 DEF Accounted
  <2>2. <<f, <<"bad", 0>>>> \in Pieces(j)
    BY <1>9, <2>1, PieceIs DEF IsAt, Results
  <2>3. <<f, <<"bad", 0>>>> = <<f, <<"background", 0>>>>
    BY <1>2, <2>2 DEF Accounted
  <2>4. QED BY <2>3
<1>11. \A g \in Files, w \in Whereabouts :
        IsAt(j, g, w)' <=>
          \/ IsAt(j, g, w) /\ ~(g = f /\ w = <<"background", 0>>)
          \/ g = f /\ w = <<"bad", 0>>
  BY <1>6, <1>7 DEF IsAt, Results
<1>12. TypeOK'
  BY <1>1 DEF CrashInv
<1>13. RunningAccounted' /\ Settled'
  BY <1>2, <1>6, <1>7, <1>8, <1>9, <1>10, <1>11, <1>12, OneMoves
<1>14. QED BY <1>1, <1>13 DEF IInv

(* ThreadPuts preserves IInv.                                              *)
LEMMA ThreadPutsBooks ==
  ASSUME IInv, ThreadPuts
  PROVE  IInv'
<1>1. CrashInv'
  BY ThreadPutsCrash DEF IInv
<1>2. /\ TypeOK /\ thread.item # None /\ thread.item \in Items
      /\ thread.item.result \in Results
  BY DEF IInv, CrashInv, Attached, ThreadPuts, TypeOK, ThreadType,
         ThreadRecord
<1>3. PICK j \in Jobs, f \in Files, r \in Results :
        thread.item.job = j /\ thread.item.file = f /\ thread.item.result = r
  BY <1>2 DEF Items
<1>4. /\ thread'.item = None
      /\ main' = main /\ slots' = slots /\ service' = service
      /\ calls' = calls
  BY <1>2 DEF TypeOK, ThreadType, ThreadRecord, ThreadPuts
<1>5. \A i \in Jobs \ {j} : SlotsSame(i) /\ ThreadSame(i) /\ ItemsSame(i)
  BY <1>3, <1>4 DEF SlotsSame, ThreadSame, ItemsSame
<1>6. \A i \in Jobs \ {j} : jobs'[i] = jobs[i]
  BY <1>2, <1>3 DEF TypeOK, ThreadPuts
<1>7. TypeOK'
  BY <1>1 DEF CrashInv
<1>8. CASE jobs[j].status = "running"
  <2>1. Accounted(j)
    BY <1>8 DEF IInv, RunningAccounted
  <2>2. /\ jobs'[j].status = jobs[j].status /\ jobs'[j].total = jobs[j].total
        /\ jobs'[j].completed = jobs[j].completed
        /\ jobs'[j].done = jobs[j].done /\ jobs'[j].errors = jobs[j].errors
        /\ jobs'[j].processed = jobs[j].processed \cup {<<f, r>>}
        /\ jobs'[j].main = jobs[j].main
        /\ jobs'[j].background = jobs[j].background
        /\ jobs'[j].left = jobs[j].left
    BY <1>2, <1>3, <1>8 DEF TypeOK, JobRecord, ThreadPuts, Deferred
  <2>3. <<r, 0>> \in Whereabouts /\ <<"thread", 0>> \in Whereabouts
    BY Wheres
  <2>4. <<f, <<"thread", 0>>>> \in Pieces(j)
    BY <1>2, <1>3, <2>3, PieceIs DEF IsAt
  <2>5. main'.job = j => main'.items \cap jobs'[j].processed = {}
    <3>1. SUFFICES ASSUME main.job = j, <<f, r>> \in main.items
                   PROVE  FALSE
      BY <1>4, <2>1, <2>2 DEF Accounted
    <3>2. <<f, <<r, 0>>>> \in Pieces(j)
      BY <2>3, <3>1, PieceIs DEF IsAt
    <3>3. <<f, <<r, 0>>>> = <<f, <<"thread", 0>>>>
      BY <2>1, <2>4, <3>2 DEF Accounted
    <3>4. QED BY <3>3 DEF Results
  <2>6. \A g \in Files, w \in Whereabouts :
          IsAt(j, g, w)' <=>
            \/ IsAt(j, g, w) /\ ~(g = f /\ w = <<"thread", 0>>)
            \/ g = f /\ w = <<r, 0>>
    BY <1>2, <1>3, <1>4, <2>2 DEF IsAt, Results
  <2>7. RunningAccounted' /\ Settled'
    BY <1>4, <1>5, <1>6, <1>7, <1>8, <2>2, <2>3, <2>4, <2>5, <2>6, OneMoves
  <2>8. QED BY <1>1, <2>7 DEF IInv
<1>9. CASE jobs[j].status # "running"
  <2>1. jobs'[j] = jobs[j]
    BY <1>2, <1>3, <1>9 DEF TypeOK, ThreadPuts, Deferred
  <2>2. RunningAccounted'
    BY <1>5, <1>6, <1>9, <2>1, OthersUntouched
  <2>3. Settled'
    <3>1. \A i \in Jobs : jobs'[i] = jobs[i]
      BY <1>6, <2>1
    <3>2. /\ main'.todo \subseteq Jobs /\ service.array \subseteq Jobs
          /\ main'.job \in Jobs \cup {None}
      BY <1>2, <1>4 DEF TypeOK, ServiceType, MainType, MainRecord
    <3>3. \A k \in Slots : slots'[k] # None => slots'[k].job \in Jobs
      BY <1>7 DEF TypeOK, MainType, Items
    <3>4. QED BY <1>4, <3>1, <3>2, <3>3, SettledKept DEF IInv
  <2>4. QED BY <1>1, <2>2, <2>3 DEF IInv
<1>10. QED BY <1>8, <1>9

(* What the end of OnJobProgress does to a job.                            *)
LEMMA ProgressedEffect ==
  ASSUME NEW job \in JobRecord
  PROVE  LET r == Progressed(job) IN
         /\ r.completed = job.completed /\ r.total = job.total
         /\ r.errors = job.errors /\ r.done = job.done
         /\ job.completed = job.total =>
              r.status = IF job.errors = {} THEN "succeeded" ELSE "failed"
         /\ job.completed # job.total => r = job
BY DEF JobRecord, Progressed

(* ThreadDrops preserves IInv.                                             *)
LEMMA ThreadDropsBooks ==
  ASSUME IInv, ThreadDrops
  PROVE  IInv'
<1>1. CrashInv'
  BY ThreadDropsCrash DEF IInv
<1>2. /\ TypeOK /\ TypeOK' /\ jobs \in [Jobs -> JobRecord]
      /\ thread.item # None /\ thread.item \in Items
  BY <1>1 DEF IInv, CrashInv, Attached, ThreadDrops, TypeOK, ThreadType,
              ThreadRecord
<1>3. PICK j \in Jobs, f \in Files :
        thread.item.job = j /\ thread.item.file = f
  BY <1>2 DEF Items
<1>4. /\ thread'.item = None
      /\ main' = main /\ slots' = slots /\ service' = service
      /\ calls' = calls
  BY <1>2 DEF TypeOK, ThreadType, ThreadRecord, ThreadDrops
<1>5. \A i \in Jobs \ {j} : SlotsSame(i) /\ ThreadSame(i) /\ ItemsSame(i)
  BY <1>3, <1>4 DEF SlotsSame, ThreadSame, ItemsSame
<1>6. /\ \A i \in Jobs \ {j} : jobs'[i] = jobs[i]
      /\ jobs'[j].status = jobs[j].status /\ jobs'[j].total = jobs[j].total
      /\ jobs'[j].completed = jobs[j].completed
      /\ jobs'[j].done = jobs[j].done /\ jobs'[j].errors = jobs[j].errors
      /\ jobs'[j].processed = jobs[j].processed
      /\ jobs'[j].main = jobs[j].main
      /\ jobs'[j].background = jobs[j].background
      /\ jobs'[j].left = jobs[j].left \cup {f}
  <2>1. jobs' = [jobs EXCEPT ![j] = [jobs[j] EXCEPT !.left = @ \cup {f}]]
    BY <1>2, <1>3 DEF ThreadDrops
  <2>2. jobs[j] \in JobRecord
    BY <1>2
  <2>3. QED BY <1>2, <2>1, <2>2 DEF JobRecord
<1>7. CASE jobs[j].status = "running"
  <2>1. Accounted(j)
    BY <1>7 DEF IInv, RunningAccounted
  <2>2. <<"left", 0>> \in Whereabouts /\ <<"thread", 0>> \in Whereabouts
    BY Wheres
  <2>3. <<f, <<"thread", 0>>>> \in Pieces(j)
    BY <1>2, <1>3, <2>2, PieceIs DEF IsAt
  <2>4. main'.job = j => main'.items \cap jobs'[j].processed = {}
    BY <1>4, <1>6, <2>1 DEF Accounted
  <2>5. \A g \in Files, w \in Whereabouts :
          IsAt(j, g, w)' <=>
            \/ IsAt(j, g, w) /\ ~(g = f /\ w = <<"thread", 0>>)
            \/ g = f /\ w = <<"left", 0>>
    BY <1>2, <1>3, <1>4, <1>6 DEF IsAt, Results
  <2>6. RunningAccounted' /\ Settled'
    BY SMTT(40), <1>2, <1>4, <1>5, <1>6, <1>7, <2>2, <2>3, <2>4, <2>5, OneMoves
  <2>7. QED BY <1>1, <2>6 DEF IInv
<1>8. CASE jobs[j].status # "running"
  <2>1. RunningAccounted'
    BY <1>5, <1>6, <1>8, OthersUntouched
  <2>2. \A i \in Jobs : jobs'[i].status = jobs[i].status
    BY <1>6
  <2>3. \A i \in Jobs : jobs'[i].status \in {"succeeded", "failed"}
          => Progressed(jobs'[i]).status = jobs'[i].status
    <3>1. jobs'[j] \in JobRecord /\ jobs[j] \in JobRecord
      BY <1>2 DEF TypeOK
    <3>2. Progressed(jobs'[j]).status = Progressed(jobs[j]).status
      BY <1>6, <3>1, ProgressedEffect
    <3>3. QED BY <1>6, <3>2 DEF IInv, Settled
  <2>4. \A i \in Jobs : jobs'[i].status = "succeeded"
          => jobs'[i].completed = jobs'[i].total
    BY <1>6 DEF IInv, Settled
  <2>5. \A i \in service'.array \cup main'.todo \cup ({main'.job} \ {None}) :
          i \in Jobs /\ jobs'[i].status # "none"
    BY <1>2, <1>4, <2>2
      DEF IInv, Settled, TypeOK, ServiceType, MainType, MainRecord
  <2>6. \A i \in Jobs \ calls'.started : jobs'[i].status = "none"
    BY <1>4, <2>2 DEF IInv, Settled
  <2>7. \A k \in Slots : slots[k] # None => slots[k].job \in Jobs
    BY <1>2 DEF TypeOK, MainType, Items
  <2>8. /\ \A k \in Slots :
             slots'[k] # None => jobs'[slots'[k].job].status # "none"
        /\ thread'.item = None
    BY <1>4, <2>2, <2>7 DEF IInv, Settled
  <2>9. Settled'
    BY <2>3, <2>4, <2>5, <2>6, <2>8 DEF Settled
  <2>10. QED BY <1>1, <2>1, <2>9 DEF IInv
<1>9. QED BY <1>7, <1>8

(* What Cancel does to a job: it succeeds if it had counted everything and *)
(* nothing has failed.                                                     *)
LEMMA CancelledEffect ==
  ASSUME NEW job \in JobRecord
  PROVE  LET r == Cancelled(job) IN
         /\ r.completed = job.completed /\ r.total = job.total
         /\ r.errors = job.errors /\ r.done = job.done
         /\ r.status = IF job.completed = job.total /\ job.errors = {}
                         THEN "succeeded" ELSE "failed"
<1> DEFINE c == [job EXCEPT !.main = {}, !.background = {}, !.processed = {},
                            !.status = "failed"]
<1>1. /\ c \in JobRecord
      /\ c.completed = job.completed /\ c.total = job.total
      /\ c.errors = job.errors /\ c.done = job.done /\ c.status = "failed"
  BY DEF JobRecord, Statuses
<1>2. Cancelled(job) = Progressed(c)
  BY DEF Cancelled
<1> HIDE DEF c
<1>3. QED BY <1>1, <1>2, ProgressedEffect

(* Job i has ended, with the outcome its books tell.                       *)
HasEnded(job) ==
  /\ job.status = "succeeded" =>
       job.completed = job.total /\ job.errors = {}
  /\ job.status \in {"succeeded", "failed"}
  /\ job.completed = job.total /\ job.errors = {} => job.status = "succeeded"

(* A job that has ended is not ended otherwise later.                      *)
LEMMA EndedIsSettled ==
  ASSUME NEW job \in JobRecord, HasEnded(job)
  PROVE  Progressed(job).status = job.status
BY ProgressedEffect DEF HasEnded

(* A step that does nothing but end jobs preserves IInv.                   *)
LEMMA JobsEnd ==
  ASSUME IInv, CrashInv',
         \A i \in Jobs :
           \/ jobs'[i] = jobs[i]
           \/ jobs[i].status # "none" /\ HasEnded(jobs'[i]),
         \A i \in Jobs : SlotsSame(i) /\ ThreadSame(i) /\ ItemsSame(i),
         UNCHANGED slots, calls'.started = calls.started, thread'.item =
               thread.item,
         service'.array \subseteq service.array,
         main'.todo = main.todo, main'.job \in {main.job, None}
  PROVE  IInv'
<1>1. TypeOK /\ TypeOK'
  BY DEF IInv, CrashInv
<1>2. RunningAccounted'
  <2>1. SUFFICES ASSUME NEW i \in Jobs, jobs'[i].status = "running"
                 PROVE  Accounted(i)'
    BY DEF RunningAccounted
  <2>2. jobs'[i] = jobs[i]
    BY <2>1 DEF HasEnded
  <2>3. Accounted(i)
    BY <2>1, <2>2 DEF IInv, RunningAccounted
  <2>4. QED BY <2>2, <2>3, JobUntouched
<1>3. Settled'
  <2>1. jobs' \in [Jobs -> JobRecord]
    BY <1>1 DEF TypeOK
  <2>2. \A i \in Jobs : jobs[i].status # "none" => jobs'[i].status # "none"
    BY DEF HasEnded
  <2>3. \A i \in Jobs : jobs'[i].status \in {"succeeded", "failed"}
          => Progressed(jobs'[i]).status = jobs'[i].status
    <3>1. SUFFICES ASSUME NEW i \in Jobs,
                          jobs'[i].status \in {"succeeded", "failed"}
                   PROVE  Progressed(jobs'[i]).status = jobs'[i].status
      OBVIOUS
    <3>2. CASE jobs'[i] = jobs[i]
      BY <3>1, <3>2 DEF IInv, Settled
    <3>3. CASE HasEnded(jobs'[i])
      BY <2>1, <3>3, EndedIsSettled
    <3>4. QED BY <3>2, <3>3
  <2>4. \A i \in Jobs : jobs'[i].status = "succeeded"
          => jobs'[i].completed = jobs'[i].total
    BY DEF IInv, Settled, HasEnded
  <2>5. /\ main'.todo \subseteq Jobs /\ service'.array \subseteq Jobs
        /\ main'.job \in Jobs \cup {None}
    BY <1>1 DEF TypeOK, ServiceType, MainType, MainRecord
  <2>6. \A i \in service'.array \cup main'.todo \cup ({main'.job} \ {None}) :
          jobs'[i].status # "none"
    BY <2>2, <2>5 DEF IInv, Settled
  <2>7. \A i \in Jobs \ calls'.started : jobs'[i].status = "none"
    BY DEF IInv, Settled
  <2>8. /\ \A k \in Slots : slots[k] # None => slots[k].job \in Jobs
        /\ thread.item # None => thread.item.job \in Jobs
    BY <1>1 DEF TypeOK, MainType, ThreadType, ThreadRecord, Items
  <2>9. \A k \in Slots :
          slots'[k] # None => jobs'[slots'[k].job].status # "none"
    BY <2>2, <2>8 DEF IInv, Settled
  <2>10. thread'.item # None => jobs'[thread'.item.job].status # "none"
    BY <2>2, <2>8 DEF IInv, Settled
  <2>11. QED BY <2>3, <2>4, <2>6, <2>7, <2>9, <2>10 DEF Settled
<1>4. QED BY <1>2, <1>3 DEF IInv

(* Cancel preserves IInv.                                                  *)
LEMMA CancelBooks ==
  ASSUME IInv, NEW j \in Jobs, Cancel(j)
  PROVE  IInv'
<1>1. CrashInv'
  BY CancelCrash DEF IInv
<1>2. jobs \in [Jobs -> JobRecord]
  BY DEF IInv, CrashInv, TypeOK
<1>3. HasEnded(Cancelled(jobs[j]))
  BY <1>2, CancelledEffect DEF HasEnded
<1>4. \A i \in Jobs :
        \/ jobs'[i] = jobs[i]
        \/ jobs[i].status # "none" /\ HasEnded(jobs'[i])
  <2>1. jobs'[j] = Cancelled(jobs[j]) /\ jobs[j].status # "none"
    BY <1>2 DEF Cancel
  <2>2. \A i \in Jobs \ {j} : jobs'[i] = jobs[i]
    BY <1>2 DEF Cancel
  <2>3. HasEnded(jobs'[j])
    BY <1>3, <2>1
  <2>4. QED BY <2>1, <2>2, <2>3
<1>5. /\ UNCHANGED <<slots, thread, service, main>>
      /\ calls'.started = calls.started
  BY DEF Cancel, Interruption, IInv, CrashInv, TypeOK, ServiceType
<1>6. \A i \in Jobs : SlotsSame(i) /\ ThreadSame(i) /\ ItemsSame(i)
  BY <1>5 DEF SlotsSame, ThreadSame, ItemsSame
<1>7. QED BY <1>1, <1>4, <1>5, <1>6, JobsEnd

(* JobProgressed preserves IInv.                                           *)
LEMMA JobProgressedBooks ==
  ASSUME IInv, JobProgressed
  PROVE  IInv'
<1>1. CrashInv'
  BY JobProgressedCrash DEF IInv
<1>2. jobs \in [Jobs -> JobRecord] /\ main \in MainRecord
  BY DEF IInv, CrashInv, TypeOK, MainType
<1>3. PICK j \in Jobs : main.job = j
  BY <1>2 DEF MainRecord, JobProgressed
<1>4. jobs[j].status # "none"
  BY <1>3 DEF IInv, Settled, JobProgressed
<1>5. jobs' = [jobs EXCEPT ![j] = Progressed(jobs[j])]
  BY <1>3 DEF JobProgressed
<1>6. jobs'[j] = jobs[j] \/ HasEnded(jobs'[j])
  BY <1>2, <1>5, ProgressedEffect DEF HasEnded
<1>7. \A i \in Jobs :
        \/ jobs'[i] = jobs[i]
        \/ jobs[i].status # "none" /\ HasEnded(jobs'[i])
  <2>1. \A i \in Jobs \ {j} : jobs'[i] = jobs[i]
    BY <1>2, <1>5
  <2>2. QED BY <1>4, <1>6, <2>1
<1>8. /\ UNCHANGED <<slots, thread, service, calls>>
      /\ main'.job = None /\ main'.items = main.items /\ main.items = {}
      /\ main'.todo = main.todo
  BY <1>2 DEF JobProgressed, MainRecord
<1>9. \A i \in Jobs : SlotsSame(i) /\ ThreadSame(i) /\ ItemsSame(i)
  BY <1>8, MetadataAssumption DEF SlotsSame, ThreadSame, ItemsSame
<1>10. QED BY <1>1, <1>7, <1>8, <1>9, JobsEnd

(* ShutdownEnd preserves IInv.                                             *)
LEMMA ShutdownEndBooks ==
  ASSUME IInv, ShutdownEnd
  PROVE  IInv'
<1>1. CrashInv'
  BY ShutdownEndCrash DEF IInv
<1>2. jobs \in [Jobs -> JobRecord] /\ service.array \subseteq Jobs
  BY DEF IInv, CrashInv, TypeOK, ServiceType
<1>3. \A i \in Jobs : HasEnded(Cancelled(jobs[i]))
  BY <1>2, CancelledEffect DEF HasEnded
<1>4. \A i \in Jobs :
        \/ jobs'[i] = jobs[i]
        \/ jobs[i].status # "none" /\ HasEnded(jobs'[i])
  <2>1. \A i \in service.array : jobs[i].status # "none"
    BY DEF IInv, Settled
  <2>2. SUFFICES ASSUME NEW i \in Jobs
                 PROVE  \/ jobs'[i] = jobs[i]
                        \/ jobs[i].status # "none" /\ HasEnded(jobs'[i])
    OBVIOUS
  <2>3. CASE i \in service.array
    <3>1. jobs'[i] = Cancelled(jobs[i])
      BY <2>3 DEF ShutdownEnd
    <3>2. QED BY <1>3, <2>1, <2>3, <3>1
  <2>4. CASE i \notin service.array
    BY <2>4 DEF ShutdownEnd
  <2>5. QED BY <2>3, <2>4
<1>5. /\ UNCHANGED <<slots, main, calls>> /\ thread'.item = thread.item
      /\ service'.array \subseteq service.array
  BY DEF ShutdownEnd, IInv, CrashInv, TypeOK, ThreadType, ThreadRecord
<1>6. \A i \in Jobs : SlotsSame(i) /\ ThreadSame(i) /\ ItemsSame(i)
  BY <1>5 DEF SlotsSame, ThreadSame, ItemsSame
<1>7. QED BY <1>1, <1>4, <1>5, <1>6, JobsEnd

(* OnJobProgress preserves IInv.                                           *)
LEMMA OnJobProgressBooks ==
  ASSUME IInv, NEW j \in Jobs, OnJobProgress(j)
  PROVE  IInv'
<1>1. CrashInv'
  BY OnJobProgressCrash DEF IInv
<1>2. TypeOK /\ TypeOK' /\ jobs \in [Jobs -> JobRecord] /\ main \in MainRecord
  BY <1>1 DEF IInv, CrashInv, TypeOK, MainType
<1>3. /\ main.job = None /\ main.items = {} /\ j # None
      /\ main'.job = j /\ main'.todo = main.todo \ {j} /\ j \in main.todo
      /\ UNCHANGED <<slots, thread, service, calls>>
  BY <1>2, MetadataAssumption
    DEF OnJobProgress, MainRecord, IInv, CrashInv, Attached
<1>4. /\ \A i \in Jobs \ {j} : jobs'[i] = jobs[i]
      /\ jobs'[j].status = jobs[j].status /\ jobs'[j].total = jobs[j].total
      /\ jobs'[j].completed = jobs[j].completed
      /\ jobs'[j].done = jobs[j].done /\ jobs'[j].errors = jobs[j].errors
      /\ jobs'[j].main = jobs[j].main /\ jobs'[j].left = jobs[j].left
      /\ jobs'[j].background = jobs[j].background
      /\ \/ main'.items = jobs[j].processed /\ jobs'[j].processed = {}
         \/ main'.items = {} /\ jobs' = jobs
  <2>1. CASE NeedsCompletion(jobs[j])
    <3>1. jobs' = [jobs EXCEPT ![j].processed = {}]
      BY <2>1 DEF OnJobProgress
    <3>2. main'.items = jobs[j].processed
      BY <1>2, <2>1 DEF OnJobProgress, MainRecord
    <3>3. jobs[j] \in JobRecord
      BY <1>2
    <3>4. QED BY <1>2, <3>1, <3>2, <3>3 DEF JobRecord
  <2>2. CASE ~NeedsCompletion(jobs[j])
    BY <1>2, <1>3, <2>2 DEF OnJobProgress, MainRecord
  <2>3. QED BY <2>1, <2>2
<1>5. \A i \in Jobs \ {j} : SlotsSame(i) /\ ThreadSame(i) /\ ItemsSame(i)
  BY <1>3 DEF SlotsSame, ThreadSame, ItemsSame
<1>6. jobs'[j].status = "running" => Accounted(j)'
  <2>1. SUFFICES ASSUME jobs'[j].status = "running"
                 PROVE  Accounted(j)'
    OBVIOUS
  <2>2. Accounted(j)
    BY <1>4, <2>1 DEF IInv, RunningAccounted
  <2>3. \A f \in Files, w \in Whereabouts : IsAt(j, f, w)' <=> IsAt(j, f, w)
    <3>1. SUFFICES ASSUME NEW f \in Files, NEW w \in Whereabouts
                   PROVE  IsAt(j, f, w)' <=> IsAt(j, f, w)
      OBVIOUS
    <3>2. slots' = slots /\ thread' = thread
      BY <1>3
    <3>3. \A r \in Results :
            \/ <<f, r>> \in jobs'[j].processed
            \/ main'.job = j /\ <<f, r>> \in main'.items
            <=> \/ <<f, r>> \in jobs[j].processed
                \/ main.job = j /\ <<f, r>> \in main.items
      BY <1>3, <1>4
    <3>4. QED BY <1>4, <3>2, <3>3 DEF IsAt
  <2>4. Pieces(j)' = Pieces(j)
    BY <2>3, PiecesKept
  <2>5. main'.job = j => main'.items \cap jobs'[j].processed = {}
    BY <1>4
  <2>6. QED BY <1>4, <2>2, <2>4, <2>5, AccountKept
<1>7. RunningAccounted'
  BY <1>4, <1>5, <1>6, OthersUntouched
<1>8. Settled'
  <2>1. jobs[j].status # "none"
    BY <1>3 DEF IInv, Settled
  <2>2. \A i \in Jobs : jobs'[i].status = jobs[i].status
    BY <1>4
  <2>3. \A i \in Jobs : jobs'[i].status \in {"succeeded", "failed"}
          => Progressed(jobs'[i]).status = jobs'[i].status
    <3>1. jobs[j].status \in {"succeeded", "failed"}
            => Progressed(jobs[j]).status = jobs[j].status
      BY DEF IInv, Settled
    <3>2. jobs'[j] \in JobRecord /\ jobs[j] \in JobRecord
      BY <1>2 DEF TypeOK
    <3>3. Progressed(jobs'[j]).status = Progressed(jobs[j]).status
      BY <1>4, <3>2, ProgressedEffect
    <3>4. QED BY <1>4, <3>1, <3>3 DEF IInv, Settled
  <2>4. \A i \in Jobs : jobs'[i].status = "succeeded"
          => jobs'[i].completed = jobs'[i].total
    BY <1>4 DEF IInv, Settled
  <2>5. \A i \in service'.array \cup main'.todo \cup ({main'.job} \ {None}) :
          i \in Jobs /\ jobs'[i].status # "none"
    BY <1>2, <1>3, <2>1, <2>2
      DEF IInv, Settled, TypeOK, ServiceType, MainRecord
  <2>6. \A i \in Jobs \ calls'.started : jobs'[i].status = "none"
    BY <1>3, <2>2 DEF IInv, Settled
  <2>7. /\ \A k \in Slots : slots[k] # None => slots[k].job \in Jobs
        /\ thread.item # None => thread.item.job \in Jobs
    BY <1>2 DEF TypeOK, MainType, ThreadType, ThreadRecord, Items
  <2>8. /\ \A k \in Slots :
             slots'[k] # None => jobs'[slots'[k].job].status # "none"
        /\ thread'.item # None => jobs'[thread'.item.job].status # "none"
    BY <1>3, <2>2, <2>7 DEF IInv, Settled
  <2>9. QED BY <2>3, <2>4, <2>5, <2>6, <2>8 DEF Settled
<1>9. QED BY <1>1, <1>7, <1>8 DEF IInv

(* What AppendMediaItems does to a new job.                                *)
LEMMA MediaItemsEffect ==
  ASSUME NEW fs \in SUBSET Files, NEW bad, NEW job,
         bad = {f \in fs : ~HasHandler(f)}, job = MediaItems(fs)
  PROVE  /\ job.status = "running" /\ job.done = {} /\ job.errors = bad
         /\ job.total = Cardinality(fs) /\ job.completed = Cardinality(bad)
         /\ job.processed = {} /\ job.left = {}
         /\ job.main = {f \in fs \ bad : HandlersOf[f][1] = "main"}
         /\ job.background
              = {f \in fs \ bad : HandlersOf[f][1] = "background"}
BY DEF MediaItems, NewJob

(* The first handler of a file that has one.                               *)
LEMMA FirstHandler ==
  ASSUME NEW f \in Files, HasHandler(f)
  PROVE  HandlersOf[f][1] \in {"main", "background"}
<1>1. HandlersOf[f] \in Seq({"main", "background"}) /\ HandlersOf[f] # <<>>
  BY MetadataAssumption DEF HasHandler
<1>2. QED BY <1>1

(* A job that is accepted starts with right accounts.                      *)
LEMMA AcceptBooks ==
  ASSUME IInv, CrashInv', NEW j \in Jobs, Accept(j),
         main'.job = main.job, main'.items = main.items,
         main'.todo = main.todo, UNCHANGED <<slots, thread>>
  PROVE  IInv'
<1>1. CrashInv'
  OBVIOUS
<1>2. TypeOK /\ TypeOK' /\ jobs \in [Jobs -> JobRecord] /\ main \in MainRecord
  BY <1>1 DEF IInv, CrashInv, TypeOK, MainType
<1>3. /\ \A i \in Jobs \ {j} : jobs'[i] = jobs[i]
      /\ jobs'[j] = MediaItems(FilesOf[j])
      /\ main'.job = main.job /\ main'.items = main.items
      /\ main'.todo = main.todo /\ UNCHANGED <<slots, thread>>
      /\ service'.array = service.array \cup {j}
      /\ calls'.started = calls.started \cup {j}
  BY <1>2 DEF Accept, TypeOK, ServiceType
<1>4. /\ jobs[j].status = "none" /\ main.job # j
      /\ \A k \in Slots : slots[k] # None => slots[k].job # j
      /\ thread.item # None => thread.item.job # j
  BY MetadataAssumption DEF Accept, IInv, Settled
<1>5. \A i \in Jobs \ {j} : SlotsSame(i) /\ ThreadSame(i) /\ ItemsSame(i)
  BY <1>3 DEF SlotsSame, ThreadSame, ItemsSame
<1> DEFINE fs == FilesOf[j]
<1>a. PICK bad : bad = {f \in fs : ~HasHandler(f)}
  OBVIOUS
<1> DEFINE first == [f \in fs \ bad |-> <<f, <<HandlersOf[f][1], 0>>>>]
<1>6. /\ fs \in SUBSET Files /\ bad \in SUBSET fs
      /\ IsFiniteSet(fs) /\ IsFiniteSet(bad) /\ IsFiniteSet(fs \ bad)
  <2>1. fs \in SUBSET Files /\ bad \in SUBSET fs
    BY <1>a, MetadataAssumption
  <2>2. QED BY <2>1, MetadataAssumption, FS_Subset
<1>7. /\ jobs'[j].status = "running" /\ jobs'[j].done = {}
      /\ jobs'[j].errors = bad
      /\ jobs'[j].total = Cardinality(fs)
      /\ jobs'[j].completed = Cardinality(bad)
      /\ jobs'[j].processed = {} /\ jobs'[j].left = {}
      /\ jobs'[j].main = {f \in fs \ bad : HandlersOf[f][1] = "main"}
      /\ jobs'[j].background
           = {f \in fs \ bad : HandlersOf[f][1] = "background"}
  BY <1>3, <1>6, <1>a, MediaItemsEffect
<1>8. \A f \in fs \ bad : /\ HandlersOf[f][1] \in {"main", "background"}
                          /\ <<HandlersOf[f][1], 0>> \in Whereabouts
  BY <1>6, <1>a, FirstHandler, Wheres
<1>9. \A f \in Files, w \in Whereabouts :
        IsAt(j, f, w)' <=> f \in fs \ bad /\ w = <<HandlersOf[f][1], 0>>
  <2>1. SUFFICES ASSUME NEW f \in Files, NEW w \in Whereabouts
                 PROVE  IsAt(j, f, w)'
                          <=> f \in fs \ bad /\ w = <<HandlersOf[f][1], 0>>
    OBVIOUS
  <2>2. IsAt(j, f, w)' <=> \/ w = <<"main", 0>> /\ f \in jobs'[j].main
                           \/ w = <<"background", 0>>
                                /\ f \in jobs'[j].background
    BY ZenonT(40), <1>3, <1>4, <1>7 DEF IsAt
  <2>3. QED BY <1>7, <1>8, <2>2
<1> DEFINE P == Pieces(j)'
<1>10. P = {first[f] : f \in fs \ bad}
  <2>1. \A x \in P : x \in {first[f] : f \in fs \ bad}
    BY <1>9, PieceIsNext
  <2>2. \A f \in fs \ bad : first[f] \in P
    BY <1>6, <1>8, <1>9, PieceIsNext
  <2>3. QED BY <2>1, <2>2
<1>11. Cardinality(P) = Cardinality(fs \ bad)
  <2>1. first \in Surjection(fs \ bad, P)
    BY <1>10 DEF Surjection
  <2>2. first \in Injection(fs \ bad, P)
    BY <1>10 DEF Injection, IsInjective
  <2>3. QED BY <1>6, <2>1, <2>2, FS_Surjection
<1>13. /\ \A x, y \in P : x[1] = y[1] => x = y
       /\ \A x \in P : x[1] \in fs
       /\ \A f \in fs \ bad : \E x \in P : x[1] = f
  <2>1. \A f \in fs \ bad : first[f][1] = f /\ first[f] \in P
    BY <1>10
  <2>2. \A x \in P : \E f \in fs \ bad : x = first[f]
    BY <1>10
  <2> HIDE DEF first, P
  <2>3. QED BY <1>6, <2>1, <2>2
<1> HIDE DEF fs, first
<1>12. jobs'[j].total = jobs'[j].completed + Cardinality(P)
  <2>1. /\ Cardinality(fs \ bad) = Cardinality(fs) - Cardinality(fs \cap bad)
        /\ fs \cap bad = bad
        /\ Cardinality(fs) \in Nat /\ Cardinality(bad) \in Nat
    BY <1>6, FS_Difference, FS_CardinalityType
  <2>2. Cardinality(P) = Cardinality(fs) - Cardinality(bad)
    BY <1>11, <2>1
  <2>3. jobs'[j].total = Cardinality(fs) /\ jobs'[j].completed =
        Cardinality(bad)
    BY <1>7
  <2> HIDE DEF P
  <2>4. QED BY <2>1, <2>2, <2>3
<1>14. main'.job = j => main'.items \cap jobs'[j].processed = {}
  BY <1>3, <1>4
<1>15. Accounted(j)'
  BY <1>6, <1>7, <1>12, <1>13, <1>14 DEF Accounted, fs
<1>16. RunningAccounted'
  BY <1>3, <1>5, <1>15, OthersUntouched
<1>17. Settled'
  <2>1. \A i \in Jobs : jobs[i].status # "none" => jobs'[i].status # "none"
    BY <1>3, <1>4
  <2>2. /\ \A i \in Jobs : jobs'[i].status \in {"succeeded", "failed"}
             => Progressed(jobs'[i]).status = jobs'[i].status
        /\ \A i \in Jobs : jobs'[i].status = "succeeded"
             => jobs'[i].completed = jobs'[i].total
    BY <1>3, <1>7 DEF IInv, Settled
  <2>3. \A i \in service'.array \cup main'.todo \cup ({main'.job} \ {None}) :
          i \in Jobs /\ jobs'[i].status # "none"
    BY <1>2, <1>3, <1>7, <2>1
      DEF IInv, Settled, TypeOK, ServiceType, MainRecord
  <2>4. \A i \in Jobs \ calls'.started : jobs'[i].status = "none"
    BY <1>3 DEF IInv, Settled
  <2>5. /\ \A k \in Slots : slots[k] # None => slots[k].job \in Jobs
        /\ thread.item # None => thread.item.job \in Jobs
    BY <1>2 DEF TypeOK, MainType, ThreadType, ThreadRecord, Items
  <2>6. /\ \A k \in Slots :
             slots'[k] # None => jobs'[slots'[k].job].status # "none"
        /\ thread'.item # None => jobs'[thread'.item.job].status # "none"
    BY <1>3, <2>1, <2>5 DEF IInv, Settled
  <2>7. QED BY <2>2, <2>3, <2>4, <2>6 DEF Settled
<1>18. QED BY <1>1, <1>16, <1>17 DEF IInv

(* StartJob preserves IInv.                                                *)
LEMMA StartJobBooks ==
  ASSUME IInv, NEW j \in Jobs, StartJob(j)
  PROVE  IInv'
<1>1. CrashInv'
  BY StartJobCrash DEF IInv
<1>2. main \in MainRecord
  BY DEF IInv, CrashInv, TypeOK, MainType
<1>3. /\ main'.job = main.job /\ main'.items = main.items
      /\ main'.todo = main.todo
  BY <1>2 DEF MainRecord, StartJob, StartProcessor
<1>4. QED BY <1>1, <1>3, AcceptBooks DEF StartJob

(* FirstJob preserves IInv.                                                *)
LEMMA FirstJobBooks ==
  ASSUME IInv, NEW j \in Jobs, FirstJob(j)
  PROVE  IInv'
<1>1. CrashInv'
  BY FirstJobCrash DEF IInv
<1>2. main \in MainRecord
  BY DEF IInv, CrashInv, TypeOK, MainType
<1>3. /\ main'.job = main.job /\ main'.items = main.items
      /\ main'.todo = main.todo
  BY <1>2 DEF MainRecord, FirstJob
<1>4. QED BY <1>1, <1>3, AcceptBooks DEF FirstJob

(* WriteURL preserves IInv.                                                *)
LEMMA WriteURLBooks ==
  ASSUME IInv, NEW f \in Files, WriteURL(f)
  PROVE  IInv'
<1>1. CrashInv'
  BY WriteURLCrash DEF IInv
<1>2. TypeOK'
  BY <1>1 DEF CrashInv
<1>3. QED BY <1>1, <1>2, NothingMoves DEF IInv, WriteURL

(* TrackerReady preserves IInv.                                            *)
LEMMA TrackerReadyBooks ==
  ASSUME IInv, TrackerReady
  PROVE  IInv'
<1>1. CrashInv'
  BY TrackerReadyCrash DEF IInv
<1>2. TypeOK' /\ main \in MainRecord
  BY <1>1 DEF IInv, CrashInv, TypeOK, MainType
<1>3. /\ main'.job = main.job /\ main'.items = main.items
      /\ main'.todo = main.todo
  BY <1>2 DEF MainRecord, TrackerReady, StartProcessor
<1>4. QED BY <1>1, <1>2, <1>3, NothingMoves DEF IInv, TrackerReady

(* With no job started there is nothing to account for.                    *)
LEMMA NothingStarted ==
  ASSUME \A j \in Jobs : jobs[j].status = "none",
         service.array = {}, main = Idle, thread.item = None,
         \A k \in Slots : slots[k] = None
  PROVE  RunningAccounted /\ Settled
BY DEF RunningAccounted, Settled, Idle

(* The death of the process preserves IInv.                                *)
LEMMA CrashBooks ==
  ASSUME IInv, Crash
  PROVE  IInv'
<1>1. CrashInv'
  BY CrashCrash DEF IInv
<1>2. /\ \A j \in Jobs : jobs'[j].status = "none"
      /\ service'.array = {} /\ main' = Idle /\ thread'.item = None
      /\ \A k \in Slots : slots'[k] = None
  BY DEF Crash, NewJob
<1>3. RunningAccounted' /\ Settled'
  BY <1>2 DEF RunningAccounted, Settled, Idle
<1>4. QED BY <1>1, <1>3 DEF IInv

(* A step that changes nothing preserves IInv.                             *)
LEMMA StutterBooks ==
  ASSUME IInv, UNCHANGED vars
  PROVE  IInv'
<1>1. CrashInv'
  BY StutterCrash DEF IInv
<1>2. TypeOK'
  BY <1>1 DEF CrashInv
<1>3. QED BY <1>1, <1>2, NothingMoves DEF IInv, vars

(* IInv holds when the application is first started.                       *)
LEMMA InitBooks == Init => IInv
<1>1. Init => /\ \A j \in Jobs : jobs[j].status = "none"
              /\ service.array = {} /\ main = Idle /\ thread.item = None
              /\ \A k \in Slots : slots[k] = None
  BY DEF Init, InitSession, NewJob
<1>2. QED BY <1>1, InitCrash, NothingStarted DEF IInv

(* Every step of the service preserves IInv.                               *)
LEMMA NextBooks == IInv /\ [Next]_vars => IInv'
<1>. SUFFICES ASSUME IInv, [Next]_vars PROVE IInv'
  OBVIOUS
<1>1. ASSUME NEW j \in Jobs, StartJob(j) \/ FirstJob(j) \/ Cancel(j)
      PROVE  IInv'
  BY <1>1, StartJobBooks, FirstJobBooks, CancelBooks
<1>2. CASE NotifyStep
  BY <1>2, SlotBusyBooks, SlotCompletesBooks, SlotEmptyBooks,
     SlotSkipsBooks, SlotPrepareFailsBooks, SlotTakesBooks, SlotRefusedBooks,
     NotifyEndBooks
     DEF NotifyStep
<1>3. CASE ObserveStep
  BY <1>3, OnJobProgressBooks, CompleteItemBooks, JobProgressedBooks,
     ObserveEndBooks DEF ObserveStep
<1>4. CASE StopStep
  BY <1>4, StopEmptySlotBooks, StopSlotBooks, StopThreadBooks DEF StopStep
<1>5. CASE MainStep
  BY <1>2, <1>3, <1>4, <1>5, WriteURLBooks, TrackerReadyBooks,
     StartThreadBooks DEF MainStep
<1>6. CASE ThreadStep
  BY <1>6, ThreadGoesOnBooks, ThreadWaitsBooks, ThreadPutsBooks,
     ThreadDropsBooks, ThreadTakesBooks, ThreadSkipsBooks, ThreadEndsBooks
     DEF ThreadStep
<1>7. CASE HandlerStep
  BY <1>7, HandlerCompletesBooks DEF HandlerStep
<1>8. CASE StartEvent \/ NotifyTimer \/ Observe \/ ShutdownEnd
  BY <1>8, StartEventBooks, NotifyTimerBooks, ObserveBooks, ShutdownEndBooks
<1>9. CASE Shutdown \/ Crash
  BY <1>9, ShutdownBooks, CrashBooks
<1>10. CASE UNCHANGED vars
  BY <1>10, StutterBooks
<1>11. QED BY <1>1, <1>5, <1>6, <1>7, <1>8, <1>9, <1>10 DEF Next

(* IInv holds in every reachable state of the service.                     *)
THEOREM Invariance == Spec => []IInv
BY InitBooks, NextBooks, PTL DEF Spec

-----------------------------------------------------------------------------
(* What the promise sees of job i is as before.                            *)
SeenSame(i) ==
  /\ jobs'[i].status = jobs[i].status /\ jobs'[i].done = jobs[i].done
  /\ jobs'[i].errors = jobs[i].errors

(* A job that has not been started has done nothing.                       *)
Unstarted == \A j \in Jobs : jobs[j].status = "none" => jobs[j].done = {}

(* A step of the promise, or none.                                         *)
PromiseStep == [Promise!Next]_(Promise!vars)

(* The promise sees nothing of a step that settles no file and ends no job.*)
LEMMA SeesNothing ==
  ASSUME \A i \in Jobs : SeenSame(i)
  PROVE  PromiseStep
BY DEF SeenSame, PromiseStep, Promise!vars

(* A step that settles a file of a running job, or adds it to the errors,  *)
(* is one of the promise.                                                  *)
LEMMA SettlesOne ==
  ASSUME NEW j \in Jobs, \A i \in Jobs \ {j} : SeenSame(i),
         jobs[j].status = "running" /\ jobs'[j].status = "running",
         NEW f \in FilesOf[j] \ jobs[j].done,
         \/ /\ jobs'[j].done = jobs[j].done \cup {f}
            /\ jobs'[j].errors = jobs[j].errors
         \/ /\ jobs'[j].done = jobs[j].done
            /\ \/ jobs'[j].errors = jobs[j].errors
               \/ jobs'[j].errors = jobs[j].errors \cup {f}
  PROVE  PromiseStep
<1>1. CASE jobs'[j].done = jobs[j].done \cup {f}
             /\ jobs'[j].errors = jobs[j].errors
  <2>1. Promise!Do(j, f)
    BY <1>1 DEF Promise!Do, SeenSame
  <2>2. QED BY <2>1 DEF PromiseStep, Promise!Next
<1>2. CASE jobs'[j].done = jobs[j].done
             /\ jobs'[j].errors = jobs[j].errors \cup {f}
  <2>1. Promise!Fail(j, f)
    BY <1>2 DEF Promise!Fail, SeenSame
  <2>2. QED BY <2>1 DEF PromiseStep, Promise!Next
<1>3. CASE jobs'[j].done = jobs[j].done /\ jobs'[j].errors = jobs[j].errors
  BY <1>3, SeesNothing DEF SeenSame
<1>4. QED BY <1>1, <1>2, <1>3

(* When a running job has counted everything every file is settled, and    *)
(* when it has done every file it has counted everything.                  *)
LEMMA OutcomeIs ==
  ASSUME IInv, NEW j \in Jobs, jobs[j].status = "running"
  PROVE  /\ jobs[j].completed = jobs[j].total
              => jobs[j].done \cup jobs[j].errors = FilesOf[j]
         /\ jobs[j].done = FilesOf[j] => jobs[j].completed = jobs[j].total
<1>1. Accounted(j)
  BY DEF IInv, RunningAccounted
<1>2. IsFiniteSet(Pieces(j)) /\ Cardinality(Pieces(j)) \in Nat
  BY PiecesFinite
<1>3. jobs[j].completed \in Nat /\ jobs[j].total \in Nat
  BY DEF IInv, CrashInv, TypeOK, JobRecord
<1>4. jobs[j].completed = jobs[j].total <=> Pieces(j) = {}
  <2>1. jobs[j].total = jobs[j].completed + Cardinality(Pieces(j))
    BY <1>1 DEF Accounted
  <2>2. Cardinality(Pieces(j)) = 0 <=> Pieces(j) = {}
    BY <1>2, FS_EmptySet
  <2>3. QED BY <1>2, <1>3, <2>1, <2>2
<1>5. Pieces(j) = {} => jobs[j].done \cup jobs[j].errors = FilesOf[j]
  BY <1>1 DEF Accounted
<1>6. jobs[j].done = FilesOf[j] => Pieces(j) = {}
  BY <1>1 DEF Accounted
<1>7. QED BY <1>4, <1>5, <1>6

(* So is one in which PutProcessedItem handles an item of a file that is   *)
(* not done.                                                               *)
LEMMA PutPromise ==
  ASSUME IInv, NEW given \in [Jobs -> JobRecord], NEW j \in Jobs,
         NEW f \in Files, NEW result \in Results, NEW m,
         PutOnMain(given, j, f, result, m),
         \A i \in Jobs : /\ given[i].status = jobs[i].status
                         /\ given[i].done = jobs[i].done
                         /\ given[i].errors = jobs[i].errors,
         jobs[j].status = "running" => f \in FilesOf[j] \ jobs[j].done
  PROVE  PromiseStep
<1>1. CASE given[j].status # "running"
  <2>1. jobs' = given
    BY <1>1 DEF PutOnMain
  <2>2. QED BY <2>1, SeesNothing DEF SeenSame
<1>2. CASE given[j].status = "running"
  <2>1. TypeOK
    BY DEF IInv, CrashInv
  <2>2. /\ \A i \in Jobs \ {j} : jobs'[i] = given[i]
        /\ jobs'[j].status = "running"
        /\ \/ Settles(given[j], jobs'[j], f)
           \/ \E u \in Queue : Requeues(given[j], jobs'[j], f, u)
    BY <1>2, <2>1, PutEffect
  <2>3. \A i \in Jobs \ {j} : SeenSame(i)
    BY <2>2 DEF SeenSame
  <2>4. \/ /\ jobs'[j].done = jobs[j].done \cup {f}
           /\ jobs'[j].errors = jobs[j].errors
        \/ /\ jobs'[j].done = jobs[j].done
           /\ \/ jobs'[j].errors = jobs[j].errors
              \/ jobs'[j].errors = jobs[j].errors \cup {f}
    BY <2>2 DEF Settles, Requeues
  <2>5. QED BY <1>2, <2>2, <2>3, <2>4, SettlesOne
<1>3. QED BY <1>1, <1>2

(* An item that is somewhere is of a file that is not done.                *)
LEMMA PieceIsUnsettled ==
  ASSUME IInv, NEW j \in Jobs, jobs[j].status = "running",
         NEW f \in Files, NEW w \in Whereabouts, IsAt(j, f, w)
  PROVE  f \in FilesOf[j] \ jobs[j].done
<1>1. Accounted(j) /\ <<f, w>> \in Pieces(j)
  BY PieceIs DEF IInv, RunningAccounted
<1>2. <<f, w>>[1] = f
  OBVIOUS
<1>3. QED BY <1>1, <1>2 DEF Accounted

(* The promise does not see that an item is taken from its list.           *)
LEMMA TakenSeen ==
  ASSUME TypeOK, NEW list \in {"main", "background"}, NEW j \in Jobs,
         NEW f \in Files
  PROVE  /\ TakenFrom(list, j, f) \in [Jobs -> JobRecord]
         /\ \A i \in Jobs :
              /\ TakenFrom(list, j, f)[i].status = jobs[i].status
              /\ TakenFrom(list, j, f)[i].done = jobs[i].done
              /\ TakenFrom(list, j, f)[i].errors = jobs[i].errors
<1>1. jobs \in [Jobs -> JobRecord]
  BY DEF TypeOK
<1>2. TakenFrom(list, j, f) \in [Jobs -> JobRecord]
  BY TakenType
<1>3. QED BY ZenonT(40), <1>1, <1>2 DEF TakenFrom, JobRecord

(* SlotCompletes is a step of the promise, or none.                        *)
LEMMA SlotCompletesPromise ==
  ASSUME IInv, NEW k \in Slots, SlotCompletes(k)
  PROVE  PromiseStep
<1>1. TypeOK /\ jobs \in [Jobs -> JobRecord]
  BY DEF IInv, CrashInv, TypeOK
<1>2. slots[k] \in Items /\ slots[k].result \in Results
  BY <1>1 DEF MainType, TypeOK, SlotCompletes, Items, Results
<1>3. PICK j \in Jobs, f \in Files : slots[k].job = j /\ slots[k].file = f
  BY <1>2 DEF Items
<1>4. PutOnMain(jobs, j, f, slots[k].result, main)
  BY <1>3 DEF SlotCompletes
<1>5. IsAt(j, f, <<"slot", k>>) /\ <<"slot", k>> \in Whereabouts
  BY <1>3, Wheres DEF SlotCompletes, IsAt
<1>6. jobs[j].status = "running" => f \in FilesOf[j] \ jobs[j].done
  BY <1>5, PieceIsUnsettled
<1> DEFINE r == slots[k].result
<1>7. r \in Results /\ PutOnMain(jobs, j, f, r, main)
  BY <1>2, <1>4
<1> HIDE DEF r
<1>8. QED BY <1>1, <1>6, <1>7, PutPromise

(* StopSlot is a step of the promise, or none.                             *)
LEMMA StopSlotPromise ==
  ASSUME IInv, NEW k \in Slots, NEW r \in Results, StopSlot(k, r)
  PROVE  PromiseStep
<1>1. TypeOK /\ jobs \in [Jobs -> JobRecord]
  BY DEF IInv, CrashInv, TypeOK
<1>2. slots[k] \in Items
  BY <1>1 DEF MainType, TypeOK, StopSlot
<1>3. PICK j \in Jobs, f \in Files : slots[k].job = j /\ slots[k].file = f
  BY <1>2 DEF Items
<1>4. PutOnMain(jobs, j, f, r, [main EXCEPT !.stop = @ + 1])
  BY <1>3 DEF StopSlot
<1>5. IsAt(j, f, <<"slot", k>>) /\ <<"slot", k>> \in Whereabouts
  BY <1>3, Wheres DEF StopSlot, IsAt
<1>6. jobs[j].status = "running" => f \in FilesOf[j] \ jobs[j].done
  BY <1>5, PieceIsUnsettled
<1>7. QED BY <1>1, <1>4, <1>6, PutPromise

(* A file in the list of the main thread is not done.                      *)
LEMMA QueuedUnsettled ==
  ASSUME IInv, NEW j \in Jobs, NEW f \in Files, Queued("main", j, f)
  PROVE  jobs[j].status = "running" => f \in FilesOf[j] \ jobs[j].done
<1>1. IsAt(j, f, <<"main", 0>>) /\ <<"main", 0>> \in Whereabouts
  BY Wheres DEF Queued, IsAt
<1>2. QED BY <1>1, PieceIsUnsettled

(* SlotSkips is a step of the promise, or none.                            *)
LEMMA SlotSkipsPromise ==
  ASSUME IInv, NEW k \in Slots, NEW j \in Jobs, NEW f \in Files,
         SlotSkips(k, j, f)
  PROVE  PromiseStep
<1>1. TypeOK
  BY DEF IInv, CrashInv
<1>2. /\ PutOnMain(TakenFrom("main", j, f), j, f, "bad", main)
      /\ Queued("main", j, f) /\ "bad" \in Results
  BY DEF SlotSkips, Results
<1> DEFINE given == TakenFrom("main", j, f)
<1>3. /\ given \in [Jobs -> JobRecord]
      /\ \A i \in Jobs : /\ given[i].status = jobs[i].status
                         /\ given[i].done = jobs[i].done
                         /\ given[i].errors = jobs[i].errors
  BY <1>1, TakenSeen
<1>4. PutOnMain(given, j, f, "bad", main)
  BY <1>2
<1> HIDE DEF given
<1>5. QED BY <1>2, <1>3, <1>4, QueuedUnsettled, PutPromise

(* SlotRefused is a step of the promise, or none.                          *)
LEMMA SlotRefusedPromise ==
  ASSUME IInv, NEW k \in Slots, NEW j \in Jobs, NEW f \in Files,
         SlotRefused(k, j, f)
  PROVE  PromiseStep
<1>1. TypeOK
  BY DEF IInv, CrashInv
<1>2. /\ PutOnMain(TakenFrom("main", j, f), j, f, "bad", NextSlot(FALSE))
      /\ Queued("main", j, f) /\ "bad" \in Results
  BY DEF SlotRefused, Results
<1> DEFINE given == TakenFrom("main", j, f)
<1>3. /\ given \in [Jobs -> JobRecord]
      /\ \A i \in Jobs : /\ given[i].status = jobs[i].status
                         /\ given[i].done = jobs[i].done
                         /\ given[i].errors = jobs[i].errors
  BY <1>1, TakenSeen
<1>4. PutOnMain(given, j, f, "bad", NextSlot(FALSE))
  BY <1>2
<1> HIDE DEF given
<1>5. QED BY <1>2, <1>3, <1>4, QueuedUnsettled, PutPromise

(* SlotPrepareFails is a step of the promise, or none.                     *)
LEMMA SlotPrepareFailsPromise ==
  ASSUME IInv, NEW k \in Slots, NEW j \in Jobs, NEW f \in Files,
         SlotPrepareFails(k, j, f)
  PROVE  PromiseStep
<1>1. TypeOK
  BY DEF IInv, CrashInv
<1> DEFINE given == TakenFrom("main", j, f)
           m == [main EXCEPT !.notify = 0]
<1>2. /\ PutOnMain(given, j, f, "bad", m)
      /\ Queued("main", j, f) /\ "bad" \in Results
  BY DEF SlotPrepareFails, Results
<1>3. /\ given \in [Jobs -> JobRecord]
      /\ \A i \in Jobs : /\ given[i].status = jobs[i].status
                         /\ given[i].done = jobs[i].done
                         /\ given[i].errors = jobs[i].errors
  BY <1>1, TakenSeen
<1> HIDE DEF given, m
<1>4. QED BY <1>2, <1>3, QueuedUnsettled, PutPromise

(* CompleteItem is a step of the promise, or none.                         *)
LEMMA CompleteItemPromise ==
  ASSUME IInv, NEW x \in main.items, CompleteItem(x)
  PROVE  PromiseStep
<1>1. /\ TypeOK /\ jobs \in [Jobs -> JobRecord]
      /\ main.items \subseteq Files \X Results
      /\ main.job \in Jobs \cup {None}
  BY DEF IInv, CrashInv, TypeOK, MainType, MainRecord
<1>2. main.job \in Jobs
  BY <1>1 DEF IInv, CrashInv, Attached
<1>3. PICK j \in Jobs : main.job = j
  BY <1>2
<1>4. PICK f \in Files, r \in Results : x = <<f, r>>
  BY <1>1
<1>5. PutOnMain(jobs, j, f, r, [main EXCEPT !.items = @ \ {x}])
  BY <1>3, <1>4 DEF CompleteItem
<1>6. IsAt(j, f, <<r, 0>>) /\ <<r, 0>> \in Whereabouts
  BY <1>3, <1>4, Wheres DEF IsAt
<1>7. jobs[j].status = "running" => f \in FilesOf[j] \ jobs[j].done
  BY <1>6, PieceIsUnsettled
<1>8. QED BY <1>1, <1>5, <1>7, PutPromise

(* SlotTakes is a step of the promise, or none.                            *)
LEMMA SlotTakesPromise ==
  ASSUME IInv, NEW k \in Slots, NEW j \in Jobs, NEW f \in Files,
         SlotTakes(k, j, f)
  PROVE  PromiseStep
<1>1. TypeOK /\ jobs' = TakenFrom("main", j, f)
  BY DEF SlotTakes, IInv, CrashInv
<1>2. QED BY <1>1, TakenSeen, SeesNothing DEF SeenSame

(* ThreadTakes is a step of the promise, or none.                          *)
LEMMA ThreadTakesPromise ==
  ASSUME IInv, NEW j \in Jobs, NEW f \in Files, ThreadTakes(j, f)
  PROVE  PromiseStep
<1>1. TypeOK /\ jobs' = TakenFrom("background", j, f)
  BY DEF ThreadTakes, IInv, CrashInv
<1>2. QED BY <1>1, TakenSeen, SeesNothing DEF SeenSame

(* ThreadSkips is a step of the promise, or none.                          *)
LEMMA ThreadSkipsPromise ==
  ASSUME IInv, NEW j \in Jobs, NEW f \in Files, ThreadSkips(j, f)
  PROVE  PromiseStep
<1> DEFINE given == TakenFrom("background", j, f)
<1>1. TypeOK
  BY DEF IInv, CrashInv
<1>2. /\ given \in [Jobs -> JobRecord]
      /\ \A i \in Jobs : /\ given[i].status = jobs[i].status
                         /\ given[i].done = jobs[i].done
                         /\ given[i].errors = jobs[i].errors
  BY <1>1, TakenSeen
<1>3. jobs' = [given EXCEPT ![j].processed = @ \cup {<<f, "bad">>}]
  BY DEF ThreadSkips
<1> HIDE DEF given
<1>4. \A i \in Jobs : /\ jobs'[i].status = given[i].status
                      /\ jobs'[i].done = given[i].done
                      /\ jobs'[i].errors = given[i].errors
  BY <1>2, <1>3 DEF JobRecord
<1>5. QED BY <1>2, <1>4, SeesNothing DEF SeenSame

(* ThreadPuts is a step of the promise, or none.                           *)
LEMMA ThreadPutsPromise ==
  ASSUME IInv, ThreadPuts
  PROVE  PromiseStep
<1>1. jobs \in [Jobs -> JobRecord]
  BY DEF IInv, CrashInv, TypeOK
<1>2. \A x : \A job \in JobRecord :
        /\ Deferred(job, x).status = job.status
        /\ Deferred(job, x).done = job.done
        /\ Deferred(job, x).errors = job.errors
  BY DEF Deferred, JobRecord
<1>3. \A i \in Jobs : \/ jobs'[i] = jobs[i]
                      \/ jobs'[i] = Deferred(jobs[i], thread.item)
  BY <1>1 DEF ThreadPuts
<1>4. QED BY <1>1, <1>2, <1>3, SeesNothing DEF SeenSame

(* The promise does not see that the thread drops an item.                 *)
LEMMA ThreadDropsPromise ==
  ASSUME IInv, ThreadDrops
  PROVE  PromiseStep
<1>1. /\ jobs \in [Jobs -> JobRecord] /\ thread \in ThreadRecord
      /\ thread.item # None
  BY DEF IInv, CrashInv, TypeOK, ThreadType, Attached, ThreadDrops
<1>2. PICK j \in Jobs, f \in Files :
        thread.item.job = j /\ thread.item.file = f
  BY <1>1 DEF ThreadRecord, Items
<1>3. jobs' = [jobs EXCEPT ![j].left = @ \cup {f}]
  BY <1>2 DEF ThreadDrops
<1>4. \A i \in Jobs : SeenSame(i)
  BY <1>1, <1>3 DEF SeenSame, JobRecord
<1>5. QED BY <1>4, SeesNothing

(* OnJobProgress is a step of the promise, or none.                        *)
LEMMA OnJobProgressPromise ==
  ASSUME IInv, NEW j \in Jobs, OnJobProgress(j)
  PROVE  PromiseStep
<1>1. jobs \in [Jobs -> JobRecord]
  BY DEF IInv, CrashInv, TypeOK
<1>2. jobs' = jobs \/ jobs' = [jobs EXCEPT ![j].processed = {}]
  BY DEF OnJobProgress
<1>3. \A i \in Jobs : SeenSame(i)
  BY <1>1, <1>2 DEF SeenSame, JobRecord
<1>4. QED BY <1>3, SeesNothing

(* Accepting a job is a step of the promise.                               *)
LEMMA AcceptPromise ==
  ASSUME IInv, Unstarted, NEW j \in Jobs, Accept(j)
  PROVE  PromiseStep
<1>1. jobs \in [Jobs -> JobRecord]
  BY DEF IInv, CrashInv, TypeOK
<1>2. jobs[j].status = "none" /\ jobs[j].done = {}
  BY DEF Accept, IInv, Settled, Unstarted
<1>3. FilesOf[j] \in SUBSET Files
  BY MetadataAssumption
<1>4. PICK bad : bad = {f \in FilesOf[j] : ~HasHandler(f)}
  OBVIOUS
<1>5. /\ jobs'[j] = MediaItems(FilesOf[j])
      /\ \A i \in Jobs \ {j} : jobs'[i] = jobs[i]
  BY <1>1 DEF Accept
<1>6. /\ jobs'[j].status = "running" /\ jobs'[j].done = jobs[j].done
      /\ jobs'[j].errors = bad
  BY <1>2, <1>3, <1>4, <1>5, MediaItemsEffect
<1>7. bad \in SUBSET FilesOf[j]
  BY <1>4
<1>8. Promise!Start(j)
  BY <1>2, <1>5, <1>6, <1>7 DEF Promise!Start
<1>9. QED BY <1>8 DEF PromiseStep, Promise!Next

(* A job that is cancelled has the outcome its files give it.              *)
LEMMA CancelledOutcome ==
  ASSUME IInv, NEW j \in Jobs, jobs[j].status # "none"
  PROVE  /\ Cancelled(jobs[j]).done = jobs[j].done
         /\ Cancelled(jobs[j]).errors = jobs[j].errors
         /\ jobs[j].status = "running" => Cancelled(jobs[j]).status
              = IF jobs[j].done = FilesOf[j] /\ jobs[j].errors = {}
                  THEN "succeeded" ELSE "failed"
         /\ jobs[j].status # "running"
              => Cancelled(jobs[j]).status = jobs[j].status
<1>1. jobs[j] \in JobRecord
  BY DEF IInv, CrashInv, TypeOK
<1>2. /\ Cancelled(jobs[j]).done = jobs[j].done
      /\ Cancelled(jobs[j]).errors = jobs[j].errors
      /\ Cancelled(jobs[j]).status
           = IF jobs[j].completed = jobs[j].total /\ jobs[j].errors = {}
               THEN "succeeded" ELSE "failed"
  BY <1>1, CancelledEffect
<1>3. ASSUME jobs[j].status = "running"
      PROVE  Cancelled(jobs[j]).status
              = IF jobs[j].done = FilesOf[j] /\ jobs[j].errors = {}
                  THEN "succeeded" ELSE "failed"
  <2>1. /\ jobs[j].completed = jobs[j].total
             => jobs[j].done \cup jobs[j].errors = FilesOf[j]
        /\ jobs[j].done = FilesOf[j] => jobs[j].completed = jobs[j].total
    BY <1>3, OutcomeIs
  <2>2. QED BY <1>2, <2>1
<1>4. ASSUME jobs[j].status # "running"
      PROVE  Cancelled(jobs[j]).status = jobs[j].status
  <2>1. jobs[j].status \in {"succeeded", "failed"}
    BY <1>1, <1>4 DEF JobRecord, Statuses
  <2>2. /\ Progressed(jobs[j]).status = jobs[j].status
        /\ jobs[j].status = "succeeded" => jobs[j].completed = jobs[j].total
    BY <2>1 DEF IInv, Settled
  <2>3. jobs[j].completed = jobs[j].total =>
          jobs[j].status = IF jobs[j].errors = {} THEN "succeeded"
                                                  ELSE "failed"
    BY <1>1, <2>2, ProgressedEffect
  <2>4. QED BY <1>2, <2>1, <2>2, <2>3
<1>5. QED BY <1>2, <1>3, <1>4

(* Cancelling some jobs of the session is a step of the promise.           *)
LEMMA JobsCancelled ==
  ASSUME IInv, NEW js \in SUBSET Jobs,
         \A j \in js : jobs[j].status # "none",
         \A j \in Jobs : jobs'[j] = IF j \in js THEN Cancelled(jobs[j])
                                                ELSE jobs[j]
  PROVE  PromiseStep
<1>1. \A j \in Jobs : jobs'[j].done = jobs[j].done
                       /\ jobs'[j].errors = jobs[j].errors
  BY CancelledOutcome
<1>2. \A j \in Jobs : jobs'[j].status
        = IF j \in js /\ jobs[j].status = "running"
            THEN IF jobs[j].done = FilesOf[j] /\ jobs[j].errors = {}
                   THEN "succeeded" ELSE "failed"
            ELSE jobs[j].status
  BY CancelledOutcome
<1>3. Promise!Cancel(js)
  BY <1>1, <1>2 DEF Promise!Cancel, Promise!Outcome
<1>4. QED BY <1>3 DEF PromiseStep, Promise!Next

(* Cancel is a step of the promise, or none.                               *)
LEMMA CancelPromise ==
  ASSUME IInv, NEW j \in Jobs, Cancel(j)
  PROVE  PromiseStep
<1>1. jobs \in [Jobs -> JobRecord]
  BY DEF IInv, CrashInv, TypeOK
<1>2. \A i \in Jobs : jobs'[i] = IF i \in {j} THEN Cancelled(jobs[i])
                                              ELSE jobs[i]
  BY <1>1 DEF Cancel
<1>3. {j} \in SUBSET Jobs /\ \A i \in {j} : jobs[i].status # "none"
  BY DEF Cancel
<1>4. QED BY <1>2, <1>3, JobsCancelled

(* ShutdownEnd is a step of the promise, or none.                          *)
LEMMA ShutdownEndPromise ==
  ASSUME IInv, ShutdownEnd
  PROVE  PromiseStep
<1>1. /\ service.array \in SUBSET Jobs
      /\ \A j \in service.array : jobs[j].status # "none"
  BY DEF IInv, CrashInv, TypeOK, ServiceType, Settled
<1>2. PICK js \in SUBSET Jobs : js = service.array
  BY <1>1
<1>3. \A i \in Jobs : jobs'[i] = IF i \in js THEN Cancelled(jobs[i])
                                             ELSE jobs[i]
  BY <1>2 DEF ShutdownEnd
<1>4. QED BY <1>1, <1>2, <1>3, JobsCancelled

(* JobProgressed is a step of the promise, or none.                        *)
LEMMA JobProgressedPromise ==
  ASSUME IInv, JobProgressed
  PROVE  PromiseStep
<1>1. jobs \in [Jobs -> JobRecord] /\ main.job \in Jobs \cup {None}
  BY DEF IInv, CrashInv, TypeOK, MainType, MainRecord
<1>2. PICK j \in Jobs : main.job = j
  BY <1>1 DEF JobProgressed
<1>3. jobs[j].status # "none"
  BY <1>2 DEF IInv, Settled, JobProgressed
<1>4. /\ jobs'[j] = Progressed(jobs[j])
      /\ \A i \in Jobs \ {j} : jobs'[i] = jobs[i]
  BY <1>1, <1>2 DEF JobProgressed
<1>5. /\ jobs'[j].errors = jobs[j].errors /\ jobs'[j].done = jobs[j].done
      /\ jobs[j].completed = jobs[j].total =>
           jobs'[j].status = IF jobs[j].errors = {} THEN "succeeded"
                                                    ELSE "failed"
      /\ jobs[j].completed # jobs[j].total => jobs'[j] = jobs[j]
  BY <1>1, <1>4, ProgressedEffect
<1>6. CASE jobs[j].completed # jobs[j].total
  BY <1>4, <1>5, <1>6, SeesNothing DEF SeenSame
<1>7. CASE jobs[j].completed = jobs[j].total /\ jobs[j].status = "running"
  <2>1. jobs[j].done \cup jobs[j].errors = FilesOf[j]
    BY <1>7, OutcomeIs
  <2>2. jobs'[j].status = IF jobs[j].done = FilesOf[j] /\ jobs[j].errors = {}
                            THEN "succeeded" ELSE "failed"
    BY <1>5, <1>7, <2>1
  <2>3. Promise!End(j)
    BY <1>4, <1>5, <1>7, <2>1, <2>2 DEF Promise!End, Promise!Outcome
  <2>4. QED BY <2>3 DEF PromiseStep, Promise!Next
<1>8. CASE jobs[j].status # "running"
  <2>1. jobs[j].status \in {"succeeded", "failed"}
    BY <1>1, <1>3, <1>8 DEF JobRecord, Statuses
  <2>2. jobs'[j].status = jobs[j].status
    BY <1>4, <2>1 DEF IInv, Settled
  <2>3. QED BY <1>4, <1>5, <2>2, SeesNothing DEF SeenSame
<1>9. QED BY <1>6, <1>7, <1>8

(* Crash is a step of the promise, or none.                                *)
LEMMA CrashPromise ==
  ASSUME Crash
  PROVE  PromiseStep
<1>1. \A j \in Jobs : /\ jobs'[j].status = "none" /\ jobs'[j].done = {}
                      /\ jobs'[j].errors = {}
  BY DEF Crash, NewJob
<1>2. Promise!Die
  BY <1>1 DEF Promise!Die
<1>3. QED BY <1>2 DEF PromiseStep, Promise!Next

(* Every step of the service is a step of the promise, or none.            *)
LEMMA NextPromise ==
  ASSUME IInv, Unstarted, [Next]_vars
  PROVE  PromiseStep
<1>1. ASSUME UNCHANGED jobs PROVE PromiseStep
  BY <1>1, SeesNothing DEF SeenSame
<1>2. ASSUME NEW j \in Jobs, StartJob(j) \/ FirstJob(j) \/ Cancel(j)
      PROVE  PromiseStep
  BY <1>2, AcceptPromise, CancelPromise DEF StartJob, FirstJob
<1>3. CASE NotifyStep
  <2>1. ASSUME NEW k \in Slots,
               SlotBusy(k) \/ SlotCompletes(k) \/ SlotEmpty(k)
        PROVE  PromiseStep
    BY <1>1, <2>1, SlotCompletesPromise DEF SlotBusy, SlotEmpty
  <2>2. ASSUME NEW k \in Slots, NEW j \in Jobs, NEW f \in Files,
               SlotSkips(k, j, f) \/ SlotPrepareFails(k, j, f)
                 \/ SlotTakes(k, j, f) \/ SlotRefused(k, j, f)
        PROVE  PromiseStep
    BY <2>2, SlotSkipsPromise, SlotPrepareFailsPromise, SlotTakesPromise,
       SlotRefusedPromise
  <2>3. CASE NotifyEnd
    BY <1>1, <2>3 DEF NotifyEnd
  <2>4. QED BY <1>3, <2>1, <2>2, <2>3 DEF NotifyStep
<1>4. CASE ObserveStep
  <2>1. CASE ObserveEnd
    BY <1>1, <2>1 DEF ObserveEnd
  <2>2. QED BY <1>4, <2>1, OnJobProgressPromise, CompleteItemPromise,
              JobProgressedPromise DEF ObserveStep
<1>5. CASE StopStep
  <2>1. ASSUME NEW k \in Slots, StopEmptySlot(k) PROVE PromiseStep
    BY <1>1, <2>1 DEF StopEmptySlot
  <2>2. CASE StopThread
    BY <1>1, <2>2 DEF StopThread
  <2>3. QED BY <1>5, <2>1, <2>2, StopSlotPromise DEF StopStep
<1>6. CASE MainStep
  <2>1. ASSUME NEW f \in Files, WriteURL(f) PROVE PromiseStep
    BY <1>1, <2>1 DEF WriteURL
  <2>2. CASE TrackerReady \/ StartThread
    BY <1>1, <2>2 DEF TrackerReady, StartThread
  <2>3. QED BY <1>3, <1>4, <1>5, <1>6, <2>1, <2>2 DEF MainStep
<1>7. CASE ThreadStep
  <2>1. CASE ThreadGoesOn \/ ThreadWaits \/ \E r \in Results : ThreadEnds(r)
    BY <1>1, <2>1 DEF ThreadGoesOn, ThreadWaits, ThreadEnds
  <2>2. QED BY <1>7, <2>1, ThreadPutsPromise, ThreadDropsPromise,
              ThreadTakesPromise, ThreadSkipsPromise DEF ThreadStep
<1>8. CASE HandlerStep
  BY <1>1, <1>8 DEF HandlerStep, HandlerCompletes
<1>9. CASE StartEvent \/ NotifyTimer \/ Observe \/ Shutdown
  BY <1>1, <1>9 DEF StartEvent, NotifyTimer, Observe, Shutdown
<1>10. CASE ShutdownEnd \/ Crash
  BY <1>10, ShutdownEndPromise, CrashPromise
<1>11. CASE UNCHANGED vars
  BY <1>1, <1>11 DEF vars
<1>12. QED BY <1>2, <1>6, <1>7, <1>8, <1>9, <1>10, <1>11 DEF Next

(* The promise itself keeps jobs that have not been started untouched.     *)
LEMMA PromiseUnstarted ==
  ASSUME Unstarted, PromiseStep
  PROVE  Unstarted'
<1>1. CASE UNCHANGED Promise!vars
  BY <1>1 DEF Promise!vars, Unstarted
<1>2. ASSUME NEW j \in Jobs, Promise!Start(j) PROVE Unstarted'
  BY <1>2 DEF Promise!Start, Unstarted
<1>3. ASSUME NEW j \in Jobs, Promise!End(j) PROVE Unstarted'
  BY <1>3 DEF Promise!End, Promise!Outcome, Unstarted
<1>4. ASSUME NEW j \in Jobs, NEW f \in FilesOf[j],
             Promise!Do(j, f) \/ Promise!Fail(j, f)
      PROVE  Unstarted'
  <2>1. CASE Promise!Do(j, f)
    <3>1. /\ \A i \in Jobs : jobs'[i].status = jobs[i].status
          /\ \A i \in Jobs \ {j} : jobs'[i].done = jobs[i].done
          /\ jobs[j].status = "running"
      BY <2>1 DEF Promise!Do
    <3>2. QED BY <3>1 DEF Unstarted
  <2>2. CASE Promise!Fail(j, f)
    <3>1. \A i \in Jobs : /\ jobs'[i].status = jobs[i].status
                          /\ jobs'[i].done = jobs[i].done
      BY <2>2 DEF Promise!Fail
    <3>2. QED BY <3>1 DEF Unstarted
  <2>3. QED BY <1>4, <2>1, <2>2
<1>5. ASSUME NEW js \in SUBSET Jobs, Promise!Cancel(js) PROVE Unstarted'
  BY <1>5 DEF Promise!Cancel, Promise!Outcome, Unstarted
<1>6. CASE Promise!Die
  BY <1>6 DEF Promise!Die, Unstarted
<1>7. QED BY <1>1, <1>2, <1>3, <1>4, <1>5, <1>6
        DEF PromiseStep, Promise!Next

(* The service implements the promise of a metadata job: however the main  *)
(* thread, the background thread, the handlers, cancels, a shutdown and a  *)
(* death of the process interleave, a job ends only when each of its files *)
(* is done or reported, unless it is cancelled; it succeeds just when all  *)
(* are done and none reported; and no file is done for a job that has      *)
(* ended.                                                                  *)
THEOREM Implementation == Spec => PromiseKept
<1>1. Init => Promise!Init /\ Unstarted
  BY DEF Init, InitSession, NewJob, Promise!Init, Unstarted
<1>2. IInv /\ Unstarted /\ [Next]_vars => PromiseStep /\ Unstarted'
  BY NextPromise, PromiseUnstarted
<1>3. Spec => []IInv
  BY InitBooks, NextBooks, PTL DEF Spec
<1>4. QED BY <1>1, <1>2, <1>3, PTL
        DEF Spec, PromiseKept, Promise!Spec, PromiseStep

(* As many images as elements, when no two elements have the same.         *)
LEMMA ImageSize ==
  ASSUME NEW S, IsFiniteSet(S), NEW g,
         g = [x \in S |-> g[x]], \A x, y \in S : g[x] = g[y] => x = y
  PROVE  LET T == {g[x] : x \in S}
         IN IsFiniteSet(T) /\ Cardinality(T) = Cardinality(S)
<1> DEFINE T == {g[x] : x \in S}
<1>1. g \in Surjection(S, T)
  BY DEF Surjection
<1>2. g \in Injection(S, T)
  BY DEF Injection, IsInjective
<1>3. QED BY <1>1, <1>2, FS_Surjection

(* The size of two sets that have nothing in common.                       *)
LEMMA DisjointSize ==
  ASSUME NEW S, NEW T, IsFiniteSet(S), IsFiniteSet(T), S \cap T = {}
  PROVE  /\ IsFiniteSet(S \cup T)
         /\ Cardinality(S \cup T) = Cardinality(S) + Cardinality(T)
         /\ Cardinality(S) \in Nat /\ Cardinality(T) \in Nat
<1>1. /\ IsFiniteSet(S \cup T)
      /\ Cardinality(S \cup T)
           = Cardinality(S) + Cardinality(T) - Cardinality(S \cap T)
  BY FS_Union
<1>2. Cardinality(S \cap T) = 0
  BY FS_EmptySet
<1>3. Cardinality(S) \in Nat /\ Cardinality(T) \in Nat
  BY FS_CardinalityType
<1>4. QED BY <1>1, <1>2, <1>3

(* The pieces of a job, added up list by list.                             *)
LEMMA PiecesCounted ==
  ASSUME TypeOK, NEW j \in Jobs, Accounted(j)
  PROVE  Cardinality(Pieces(j))
           = Cardinality(jobs[j].main) + Cardinality(jobs[j].background)
               + Cardinality(jobs[j].processed) + Cardinality(jobs[j].left)
               + Away(j)
<1> DEFINE M == jobs[j].main
           B == jobs[j].background
           R == jobs[j].processed
           L == jobs[j].left
           I == IF main.job = j THEN main.items ELSE {}
           K == {k \in Slots : slots[k] # None /\ slots[k].job = j}
           H == {x \in {thread.item} : x # None /\ x.job = j}
<1>1. /\ M \in SUBSET Files /\ B \in SUBSET Files /\ L \in SUBSET Files
      /\ R \in SUBSET (Files \X Results) /\ I \in SUBSET (Files \X Results)
      /\ K \in SUBSET Slots
      /\ \A k \in K : slots[k].file \in Files
      /\ \A x \in H : x.file \in Files
  BY DEF TypeOK, JobRecord, MainType, MainRecord, ThreadType, ThreadRecord,
         Items
<1>2. /\ IsFiniteSet(M) /\ IsFiniteSet(B) /\ IsFiniteSet(R)
      /\ IsFiniteSet(I) /\ IsFiniteSet(K) /\ IsFiniteSet(H)
      /\ IsFiniteSet(L)
  <2>1. IsFiniteSet(Results)
    <3>1. IsFiniteSet({"ok"}) /\ IsFiniteSet({"bad"})
      BY FS_Singleton
    <3>2. Results = {"ok"} \cup {"bad"}
      BY DEF Results
    <3>3. QED BY <3>1, <3>2, FS_Union
  <2>2. IsFiniteSet(Files \X Results)
    BY <2>1, MetadataAssumption, FS_Product
  <2>3. IsFiniteSet(Slots)
    BY MetadataAssumption, FS_Interval DEF Slots
  <2>4. IsFiniteSet({thread.item}) /\ H \subseteq {thread.item}
    BY FS_Singleton
  <2>5. IsFiniteSet(H)
    BY <2>4, FS_Subset
  <2>6. QED BY <1>1, <2>2, <2>3, <2>5, MetadataAssumption, FS_Subset
<1>3. I \cap R = {}
  BY DEF Accounted
<1>4. Away(j) = Cardinality(K) + Cardinality(H) + Cardinality(I)
  <2>1. Cardinality({}) = 0 /\ \A x : Cardinality({x}) = 1
    BY FS_EmptySet, FS_Singleton
  <2>2. Cardinality(H)
          = IF thread.item # None /\ thread.item.job = j THEN 1 ELSE 0
    <3>1. CASE thread.item # None /\ thread.item.job = j
      <4>1. H = {thread.item}
        BY <3>1
      <4>2. QED BY <2>1, <3>1, <4>1
    <3>2. CASE ~(thread.item # None /\ thread.item.job = j)
      <4>1. H = {}
        BY <3>2
      <4>2. QED BY <2>1, <3>2, <4>1
    <3>3. QED BY <3>1, <3>2
  <2>3. Cardinality(I)
          = IF main.job = j THEN Cardinality(main.items) ELSE 0
    BY <2>1
  <2>4. QED BY <2>2, <2>3 DEF Away
<1> DEFINE gm == [f \in M |-> <<f, <<"main", 0>>>>]
           gb == [f \in B |-> <<f, <<"background", 0>>>>]
           gr == [x \in R \cup I |-> <<x[1], <<x[2], 0>>>>]
           gk == [k \in K |-> <<slots[k].file, <<"slot", k>>>>]
           gh == [x \in H |-> <<x.file, <<"thread", 0>>>>]
           gl == [f \in L |-> <<f, <<"left", 0>>>>]
           PM == {gm[f] : f \in M}
           PB == {gb[f] : f \in B}
           PR == {gr[x] : x \in R \cup I}
           PK == {gk[k] : k \in K}
           PH == {gh[x] : x \in H}
           PL == {gl[f] : f \in L}
<1>5. /\ IsFiniteSet(R \cup I)
      /\ Cardinality(R \cup I) = Cardinality(R) + Cardinality(I)
  BY <1>2, <1>3, DisjointSize
<1>p. \A f, w, n : <<f, <<w, n>>>>[2][1] = w
  OBVIOUS
<1>q. /\ \A f \in M : gm[f] = <<f, <<"main", 0>>>>
      /\ \A f \in B : gb[f] = <<f, <<"background", 0>>>>
      /\ \A x \in R \cup I : gr[x] = <<x[1], <<x[2], 0>>>>
      /\ \A k \in K : gk[k] = <<slots[k].file, <<"slot", k>>>>
      /\ \A x \in H : gh[x] = <<x.file, <<"thread", 0>>>>
      /\ \A f \in L : gl[f] = <<f, <<"left", 0>>>>
  OBVIOUS
<1>6. /\ IsFiniteSet(PM) /\ Cardinality(PM) = Cardinality(M)
      /\ \A p \in PM : p[2][1] = "main"
  <2>1. \A x, y \in M : gm[x] = gm[y] => x = y
    OBVIOUS
  <2>2. gm = [x \in M |-> gm[x]]
    OBVIOUS
  <2> HIDE DEF gm, M
  <2>3. \A p \in PM : p[2][1] = "main"
    BY <1>p, <1>q
  <2>4. QED BY <1>2, <2>1, <2>2, <2>3, ImageSize
<1>7. /\ IsFiniteSet(PB) /\ Cardinality(PB) = Cardinality(B)
      /\ \A p \in PB : p[2][1] = "background"
  <2>1. \A x, y \in B : gb[x] = gb[y] => x = y
    OBVIOUS
  <2>2. gb = [x \in B |-> gb[x]]
    OBVIOUS
  <2> HIDE DEF gb, B
  <2>3. \A p \in PB : p[2][1] = "background"
    BY <1>p, <1>q
  <2>4. QED BY <1>2, <2>1, <2>2, <2>3, ImageSize
<1>8. /\ IsFiniteSet(PR) /\ Cardinality(PR) = Cardinality(R \cup I)
      /\ \A p \in PR : p[2][1] \in Results
  <2>1. \A x, y \in R \cup I : gr[x] = gr[y] => x = y
    <3>1. SUFFICES ASSUME NEW x \in R \cup I, NEW y \in R \cup I,
                          gr[x] = gr[y]
                   PROVE  x = y
      OBVIOUS
    <3>2. x[1] = y[1] /\ <<x[2], 0>> = <<y[2], 0>>
      BY <3>1
    <3>3. x[2] = y[2]
      BY <3>2
    <3>4. x = <<x[1], x[2]>> /\ y = <<y[1], y[2]>>
      BY <1>1
    <3>5. QED BY <3>2, <3>3, <3>4
  <2>2. gr = [x \in R \cup I |-> gr[x]]
    OBVIOUS
  <2> DEFINE U == R \cup I
  <2>3. \A x \in U : x[2] \in Results
    BY <1>1
  <2>4. IsFiniteSet(U)
    BY <1>5
  <2>5. /\ \A x \in U : gr[x] = <<x[1], <<x[2], 0>>>>
        /\ \A x, y \in U : gr[x] = gr[y] => x = y
        /\ gr = [x \in U |-> gr[x]]
    BY <1>q, <2>1, <2>2
  <2>6. PR = {gr[x] : x \in U}
    OBVIOUS
  <2> HIDE DEF gr, U, PR
  <2>7. \A p \in PR : p[2][1] \in Results
    BY <1>p, <2>3, <2>5, <2>6
  <2>8. IsFiniteSet(PR) /\ Cardinality(PR) = Cardinality(U)
    BY <2>4, <2>5, <2>6, ImageSize
  <2>9. QED BY <2>7, <2>8 DEF U
<1>9. /\ IsFiniteSet(PK) /\ Cardinality(PK) = Cardinality(K)
      /\ \A p \in PK : p[2][1] = "slot"
  <2>1. \A x, y \in K : gk[x] = gk[y] => x = y
    OBVIOUS
  <2>2. gk = [x \in K |-> gk[x]]
    OBVIOUS
  <2> HIDE DEF gk, K
  <2>3. \A p \in PK : p[2][1] = "slot"
    BY <1>p, <1>q
  <2>4. QED BY <1>2, <2>1, <2>2, <2>3, ImageSize
<1>10. /\ IsFiniteSet(PH) /\ Cardinality(PH) = Cardinality(H)
       /\ \A p \in PH : p[2][1] = "thread"
  <2>1. \A x, y \in H : gh[x] = gh[y] => x = y
    OBVIOUS
  <2>2. gh = [x \in H |-> gh[x]]
    OBVIOUS
  <2> HIDE DEF gh, H
  <2>3. \A p \in PH : p[2][1] = "thread"
    BY <1>p, <1>q
  <2>4. QED BY <1>2, <2>1, <2>2, <2>3, ImageSize
<1>l. /\ IsFiniteSet(PL) /\ Cardinality(PL) = Cardinality(L)
      /\ \A p \in PL : p[2][1] = "left"
  <2>1. \A x, y \in L : gl[x] = gl[y] => x = y
    OBVIOUS
  <2>2. gl = [x \in L |-> gl[x]]
    OBVIOUS
  <2> HIDE DEF gl, L
  <2>3. \A p \in PL : p[2][1] = "left"
    BY <1>p, <1>q
  <2>4. QED BY <1>2, <2>1, <2>2, <2>3, ImageSize
<1>11. Pieces(j) = PM \cup PB \cup PR \cup PK \cup PH \cup PL
  <2>1. \A x \in PM : x \in Pieces(j)
    <3>1. SUFFICES ASSUME NEW f \in M PROVE gm[f] \in Pieces(j)
      OBVIOUS
    <3>2. f \in Files /\ IsAt(j, f, <<"main", 0>>)
      BY <1>1 DEF IsAt
    <3>3. <<"main", 0>> \in Whereabouts
      BY <1>1, Wheres
    <3>4. gm[f] = <<f, <<"main", 0>>>>
      BY <1>q
    <3> HIDE DEF gm, M
    <3>5. QED BY <3>2, <3>3, <3>4, PieceIs
  <2>2. \A x \in PB : x \in Pieces(j)
    <3>1. SUFFICES ASSUME NEW f \in B PROVE gb[f] \in Pieces(j)
      OBVIOUS
    <3>2. f \in Files /\ IsAt(j, f, <<"background", 0>>)
      BY <1>1 DEF IsAt
    <3>3. <<"background", 0>> \in Whereabouts
      BY <1>1, Wheres
    <3>4. gb[f] = <<f, <<"background", 0>>>>
      BY <1>q
    <3> HIDE DEF gb, B
    <3>5. QED BY <3>2, <3>3, <3>4, PieceIs
  <2>3. \A x \in PR : x \in Pieces(j)
    <3>1. SUFFICES ASSUME NEW x \in R \cup I PROVE gr[x] \in Pieces(j)
      OBVIOUS
    <3>2. PICK f \in Files, r \in Results : x = <<f, r>>
      BY <1>1
    <3>3. IsAt(j, f, <<r, 0>>)
      BY <3>2 DEF IsAt
    <3>4. gr[x] = <<f, <<r, 0>>>>
      BY <3>2
    <3>5. QED BY <3>3, <3>4, Wheres, PieceIs
  <2>4. \A x \in PK : x \in Pieces(j)
    <3>1. SUFFICES ASSUME NEW k \in K PROVE gk[k] \in Pieces(j)
      OBVIOUS
    <3>2. slots[k].file \in Files /\ IsAt(j, slots[k].file, <<"slot", k>>)
      BY <1>1 DEF IsAt
    <3>3. <<"slot", k>> \in Whereabouts
      BY <1>1, Wheres
    <3>4. gk[k] = <<slots[k].file, <<"slot", k>>>>
      BY <1>q
    <3> HIDE DEF gk, K
    <3>5. QED BY <3>2, <3>3, <3>4, PieceIs
  <2>5. \A x \in PH : x \in Pieces(j)
    <3>1. SUFFICES ASSUME NEW x \in H PROVE gh[x] \in Pieces(j)
      OBVIOUS
    <3>2. x.file \in Files /\ IsAt(j, x.file, <<"thread", 0>>)
      BY <1>1 DEF IsAt
    <3>3. <<"thread", 0>> \in Whereabouts
      BY <1>1, Wheres
    <3>4. gh[x] = <<x.file, <<"thread", 0>>>>
      BY <1>q
    <3> HIDE DEF gh, H
    <3>5. QED BY <3>2, <3>3, <3>4, PieceIs
  <2>l. \A x \in PL : x \in Pieces(j)
    <3>1. SUFFICES ASSUME NEW f \in L PROVE gl[f] \in Pieces(j)
      OBVIOUS
    <3>2. f \in Files /\ IsAt(j, f, <<"left", 0>>)
      BY <1>1 DEF IsAt
    <3>3. <<"left", 0>> \in Whereabouts
      BY <1>1, Wheres
    <3>4. gl[f] = <<f, <<"left", 0>>>>
      BY <1>q
    <3> HIDE DEF gl, L
    <3>5. QED BY <3>2, <3>3, <3>4, PieceIs
  <2>6. ASSUME NEW p \in Pieces(j)
        PROVE  p \in PM \cup PB \cup PR \cup PK \cup PH \cup PL
    <3>1. PICK f \in Files, w \in Whereabouts : p = <<f, w>> /\ IsAt(j, f, w)
      BY PieceIs
    <3>2. CASE w = <<"main", 0>> /\ f \in M
      BY <3>1, <3>2
    <3>3. CASE w = <<"background", 0>> /\ f \in B
      BY <3>1, <3>3
    <3>4. ASSUME NEW r \in Results, w = <<r, 0>>,
                 \/ <<f, r>> \in jobs[j].processed
                 \/ main.job = j /\ <<f, r>> \in main.items
          PROVE  p \in PR
      <4>1. <<f, r>> \in R \cup I
        BY <3>4
      <4>2. gr[<<f, r>>] = p
        BY <3>1, <3>4, <4>1
      <4>3. QED BY <4>1, <4>2
    <3>5. ASSUME NEW k \in Slots, w = <<"slot", k>>, slots[k] # None,
                 slots[k].job = j, slots[k].file = f
          PROVE  p \in PK
      BY <3>1, <3>5
    <3>6. CASE /\ w = <<"thread", 0>> /\ thread.item # None
               /\ thread.item.job = j /\ thread.item.file = f
      BY <3>1, <3>6
    <3>l. CASE w = <<"left", 0>> /\ f \in L
      BY <3>1, <3>l
    <3>7. \/ w = <<"main", 0>> /\ f \in M
          \/ w = <<"background", 0>> /\ f \in B
          \/ \E r \in Results :
               /\ w = <<r, 0>>
               /\ \/ <<f, r>> \in jobs[j].processed
                  \/ main.job = j /\ <<f, r>> \in main.items
          \/ \E k \in Slots : /\ w = <<"slot", k>> /\ slots[k] # None
                              /\ slots[k].job = j /\ slots[k].file = f
          \/ /\ w = <<"thread", 0>> /\ thread.item # None
             /\ thread.item.job = j /\ thread.item.file = f
          \/ w = <<"left", 0>> /\ f \in L
      BY <3>1 DEF IsAt
    <3> HIDE DEF M, B, L, PM, PB, PR, PK, PH, PL
    <3>8. QED BY <3>2, <3>3, <3>4, <3>5, <3>6, <3>7, <3>l
  <2> HIDE DEF PM, PB, PR, PK, PH, PL
  <2>7. QED BY <2>1, <2>2, <2>3, <2>4, <2>5, <2>6, <2>l
<1> HIDE DEF M, B, R, L, I, K, H, gm, gb, gr, gk, gh, gl,
             PM, PB, PR, PK, PH, PL
<1> DEFINE P2 == PM \cup PB
           P3 == P2 \cup PR
           P4 == P3 \cup PK
           P5 == P4 \cup PH
           P6 == P5 \cup PL
<1>12. "slot" \notin Results /\ "thread" \notin Results
       /\ "main" \notin Results /\ "background" \notin Results
       /\ "left" \notin Results
  BY DEF Results
<1>13. /\ IsFiniteSet(P2) /\ Cardinality(P2) = Cardinality(M) + Cardinality(B)
       /\ Cardinality(M) \in Nat /\ Cardinality(B) \in Nat
  <2>1. PM \cap PB = {}
    BY <1>6, <1>7
  <2>2. /\ IsFiniteSet(P2)
        /\ Cardinality(P2) = Cardinality(PM) + Cardinality(PB)
        /\ Cardinality(PM) \in Nat /\ Cardinality(PB) \in Nat
    BY <1>6, <1>7, <2>1, DisjointSize
  <2>3. QED BY <1>6, <1>7, <2>2
<1>14. /\ IsFiniteSet(P3)
       /\ Cardinality(P3) = Cardinality(P2) + Cardinality(PR)
       /\ Cardinality(PR) \in Nat
  <2>1. P2 \cap PR = {}
    BY <1>6, <1>7, <1>8, <1>12
  <2>2. QED BY <1>8, <1>13, <2>1, DisjointSize
<1>15. /\ IsFiniteSet(P4)
       /\ Cardinality(P4) = Cardinality(P3) + Cardinality(PK)
       /\ Cardinality(PK) \in Nat
  <2>1. P3 \cap PK = {}
    BY <1>6, <1>7, <1>8, <1>9, <1>12
  <2>2. QED BY <1>9, <1>14, <2>1, DisjointSize
<1>16. /\ IsFiniteSet(P5)
       /\ Cardinality(P5) = Cardinality(P4) + Cardinality(PH)
       /\ Cardinality(PH) \in Nat
  <2>1. P4 \cap PH = {}
    BY <1>6, <1>7, <1>8, <1>9, <1>10, <1>12
  <2>2. QED BY <1>10, <1>15, <2>1, DisjointSize
<1>m. /\ Cardinality(P6) = Cardinality(P5) + Cardinality(PL)
      /\ Cardinality(PL) \in Nat
  <2>1. P5 \cap PL = {}
    BY <1>6, <1>7, <1>8, <1>9, <1>10, <1>12, <1>l
  <2>2. QED BY <1>16, <1>l, <2>1, DisjointSize
<1>17. /\ Cardinality(R) \in Nat /\ Cardinality(I) \in Nat
       /\ Cardinality(K) \in Nat /\ Cardinality(H) \in Nat
  BY <1>2, FS_CardinalityType
<1>18. Cardinality(Pieces(j)) = Cardinality(P6)
  BY <1>11
<1> HIDE DEF P2, P3, P4, P5, P6
<1>19. Cardinality(Pieces(j)) = Cardinality(M) + Cardinality(B)
         + Cardinality(R) + Cardinality(L) + Away(j)
  BY <1>4, <1>5, <1>6, <1>7, <1>8, <1>9, <1>10, <1>13, <1>14, <1>15, <1>16,
     <1>17, <1>18, <1>l, <1>m
<1>20. QED BY <1>19 DEF M, B, R, L

(* What a running job has still to count is always what is in its lists,   *)
(* in a handler, on the background thread, being completed, or dropped by  *)
(* that thread: no other item is lost, and none is counted twice.          *)
THEOREM EveryItemCounted == Spec => []EveryItemIsCounted
<1>1. ASSUME IInv PROVE EveryItemIsCounted
  <2>1. SUFFICES ASSUME NEW j \in Jobs, jobs[j].status = "running"
                 PROVE  jobs[j].total - jobs[j].completed
                          = Cardinality(jobs[j].main)
                              + Cardinality(jobs[j].background)
                              + Cardinality(jobs[j].processed)
                              + Cardinality(jobs[j].left) + Away(j)
    BY DEF EveryItemIsCounted
  <2>2. TypeOK /\ Accounted(j)
    BY <1>1, <2>1 DEF IInv, CrashInv, RunningAccounted
  <2>3. jobs[j].total \in Nat /\ jobs[j].completed \in Nat
    BY <2>2 DEF TypeOK, JobRecord
  <2>4. Cardinality(Pieces(j)) \in Nat
    BY PiecesFinite
  <2>5. jobs[j].total = jobs[j].completed + Cardinality(Pieces(j))
    BY <2>2 DEF Accounted
  <2>6. jobs[j].total - jobs[j].completed = Cardinality(Pieces(j))
    BY <2>3, <2>4, <2>5
  <2>7. QED BY <2>2, <2>6, PiecesCounted
<1>2. QED BY <1>1, InitBooks, NextBooks, PTL DEF Spec

=============================================================================
