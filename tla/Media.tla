------------------------------- MODULE Media -------------------------------
(***************************************************************************)
(* The media of one organization: the files of the local store, the cache  *)
(* that keeps one object per content and counts the references to it       *)
(* (services/mediacache), the queue that removes the files of objects      *)
(* nobody uses (services/mediacleanup), and the writers: uploads,          *)
(* generations and compositions (services/generation), and the migration   *)
(* of external media (services/mediamigrate, a program of its own).        *)
(*                                                                         *)
(* A writer saves its file, enters it in the cache in one transaction, and *)
(* updates the rows that show it, here and there in a second transaction.  *)
(* Another writer, a deletion or a cleaner may come between two of them,   *)
(* and so may a restart.  Removing the writer's own copy of a content the  *)
(* cache already has follows the transaction that found it, and is one     *)
(* step with it here.  The URLs that storyboards, characters and scenes    *)
(* show hold no reference and are left out.                                *)
(***************************************************************************)
EXTENDS Integers, FiniteSets

CONSTANTS Images, Videos, \* what a file of each kind can hold (content_hash)
          Values,       \* what a cached answer can hold (no file)
          ValueKeys,    \* keys of cached answers (ai_request, job_result)
          Shots,        \* rows composed into a file of their own: shot_<id>.mp4
          Clips,        \* records whose every generation is a new file: TTS and the
                        \* retries of a generation (of one kind here: each keeps its own)
          None,         \* no content, no row
          Writers,      \* uploads, generations and migrations under way
          Cleaners,     \* the hourly loop and the purge requests
          Hourly,       \* the cleaner that is the hourly loop
          MaxAttempts,  \* attempts at removing a file (10 in the code)
          MaxAssets,    \* bound: rows of the library
          MaxSaves,     \* bound: files written in all
          MaxValues,    \* bound: answers cached in all
          MaxTrouble    \* bound: failed transactions and restarts

ASSUME MediaAssumption ==
  /\ Hourly \in Cleaners
  /\ Images \cap Videos = {} /\ (Images \cup Videos) \cap Values = {}
  /\ Shots \cap Clips = {}
  /\ None \notin Images \cup Videos \cup Values \cup Shots \cup Clips
  /\ {MaxAttempts, MaxAssets, MaxSaves, MaxValues, MaxTrouble} \subseteq Nat
  /\ (Shots \cup Clips) \cap Nat = {}

VARIABLES
  files,      \* the content of each path
  object,     \* media_cache_objects
  ref,        \* media_cache_references
  asset,      \* the library (assets)
  task,       \* media_deletion_tasks
  writer,     \* what each writer has in memory
  cleaner,    \* the tasks each cleaner has listed and not yet processed
  saves, values, trouble

vars == <<files, object, ref, asset, task, writer, cleaner, saves, values, trouble>>
store == <<object, ref>>

Contents == Images \cup Videos
NoPath == 0
Paths == (1..MaxSaves) \cup Shots
AssetIds == 1..MaxAssets
Keys == ({"upload"} \X (1..MaxSaves)) \cup ({"asset"} \X AssetIds)
        \cup ({"row"} \X (Shots \cup Clips)) \cup ({"value"} \X ValueKeys)

NoObject == [path |-> NoPath, refs |-> 0, status |-> "none", due |-> FALSE]
NoRef == [to |-> None, due |-> FALSE]
NoAsset == [state |-> "none", path |-> NoPath, of |-> None]
NoTask == [status |-> "none", attempts |-> 0]
Idle == [op |-> "idle"]

----------------------------------------------------------------------------
(* The cache.  Each operator is a part of one transaction: it takes the    *)
(* two tables and gives what they become.                                  *)

\* decrementObject
Decremented(objects, c) ==
  LET refs == IF objects[c].refs > 0 THEN objects[c].refs - 1 ELSE 0
  IN [objects EXCEPT ![c] = IF refs > 0 THEN [@ EXCEPT !.refs = refs]
                            ELSE [@ EXCEPT !.refs = 0, !.status = "orphaned", !.due = FALSE]]

\* Put finds an object whose file is missing and gives it the new one.
Renewed(c, path) ==
  path # NoPath /\ (object[c].path = NoPath \/ files[object[c].path] = None)

\* Put takes an object that is there as it is.
Reused(c, path) == object[c].status # "none" /\ ~ Renewed(c, path)

Entered(c, path) ==
  IF object[c].status = "none"
  THEN [object EXCEPT ![c] = [path |-> path, refs |-> 0, status |-> "active", due |-> FALSE]]
  ELSE IF Renewed(c, path) THEN [object EXCEPT ![c].path = path] ELSE object

\* Mutant: the object that named the file keeps naming it.
Moved_KeepsPath(objects, from, path) == Decremented(objects, from)

\* Mutant: the object the key leaves keeps its count.
Moved_KeepsCount(objects, from, path) ==
  IF path # NoPath /\ objects[from].path = path THEN [objects EXCEPT ![from].path = NoPath] ELSE objects
\* A key that moves to another content: an object that named the file just
\* written names it no longer.
Moved(objects, from, path) ==
  Decremented(IF path # NoPath /\ objects[from].path = path
              THEN [objects EXCEPT ![from].path = NoPath] ELSE objects, from)

\* The objects after Put(key, c, path).
PutObjects(key, c, path) ==
  LET from == ref[key].to
      entered == Entered(c, path)
      left == IF from = None THEN entered ELSE Moved(entered, from, path)
  IN IF from = c THEN entered
     ELSE [left EXCEPT ![c].refs = @ + 1, ![c].status = "active", ![c].due = FALSE]

PutRefs(key, c) == [ref EXCEPT ![key] = [to |-> c, due |-> FALSE]]

Put(key, c, path) == object' = PutObjects(key, c, path) /\ ref' = PutRefs(key, c)

\* Release of one key, after a Put in the same transaction or on its own.
Released(objects, refs, key) ==
  IF refs[key].to = None THEN objects ELSE Decremented(objects, refs[key].to)
Dropped(refs, key) == [refs EXCEPT ![key] = NoRef]

\* The path that the cache gives for content c after Put(key, c, path).
Canonical(key, c, path) == PutObjects(key, c, path)[c].path

\* The writer's own file goes when the cache names another one.
FilesAfterPut(key, c, path) ==
  IF Reused(c, path) /\ Canonical(key, c, path) # path
  THEN [files EXCEPT ![path] = None] ELSE files

----------------------------------------------------------------------------
(* Saving a file, and what can go wrong.                                   *)

Become(w, state) == writer' = [writer EXCEPT ![w] = state]

NewAsset == CHOOSE a \in AssetIds : asset[a].state = "none" /\ \A b \in AssetIds :
                asset[b].state = "none" => a <= b
RoomForAsset == \E a \in AssetIds : asset[a].state = "none"

\* LocalStorage.Save makes a new name; ffmpeg writes over the shot's own.
Saved(path, c) ==
  /\ saves < MaxSaves
  /\ saves' = saves + 1
  /\ files' = [files EXCEPT ![path] = c]

Troubled == trouble < MaxTrouble /\ trouble' = trouble + 1

----------------------------------------------------------------------------
(* Uploads.                                                                *)

SaveUpload(w, kind, c) ==
  /\ writer[w] = Idle
  /\ Saved(saves + 1, c)
  /\ Become(w, [op |-> kind, path |-> saves + 1, of |-> c])
  /\ UNCHANGED <<store, asset, task, cleaner, values, trouble>>

\* POST /upload/image: the cache first, under a key of the upload's own.
PutUpload(w) ==
  LET me == writer[w]
      key == <<"upload", me.path>>
  IN /\ me.op = "image"
     /\ Put(key, me.of, me.path)
     /\ files' = FilesAfterPut(key, me.of, me.path)
     /\ Become(w, [op |-> "binding", path |-> me.path, of |-> me.of,
                   canonical |-> Canonical(key, me.of, me.path),
                   reused |-> Reused(me.of, me.path)])
     /\ UNCHANGED <<asset, task, cleaner, saves, values, trouble>>

\* bindUploadedImage: the asset, its own key, and the release of the upload's
\* key, in one transaction.
BindUpload(w) ==
  LET me == writer[w]
      own == <<"asset", NewAsset>>
      upload == <<"upload", me.path>>
      objects == PutObjects(own, me.of, me.canonical)
      refs == PutRefs(own, me.of)
  IN /\ me.op = "binding" /\ RoomForAsset
     /\ asset' = [asset EXCEPT ![NewAsset] = [state |-> "own", path |-> me.canonical, of |-> me.of]]
     /\ object' = Released(objects, refs, upload)
     /\ ref' = Dropped(refs, upload)
     /\ Become(w, Idle)
     /\ UNCHANGED <<files, task, cleaner, saves, values, trouble>>

\* A binding that is refused or fails: Release, then Remove.
UnbindUpload(w) ==
  LET me == writer[w]
      upload == <<"upload", me.path>>
  IN /\ me.op = "binding" /\ Troubled
     /\ object' = Released(object, ref, upload)
     /\ ref' = Dropped(ref, upload)
     /\ Become(w, [op |-> "unbinding", path |-> me.path, reused |-> me.reused])
     /\ UNCHANGED <<files, asset, task, cleaner, saves, values>>

RemoveUnbound(w) ==
  /\ writer[w].op = "unbinding"
  /\ files' = IF writer[w].reused THEN files ELSE [files EXCEPT ![writer[w].path] = None]
  /\ Become(w, Idle)
  /\ UNCHANGED <<store, asset, task, cleaner, saves, values, trouble>>

\* POST /upload/media: the asset and the cache in one transaction.
RegisterMedia(w) ==
  LET me == writer[w]
      own == <<"asset", NewAsset>>
  IN /\ me.op = "media" /\ RoomForAsset
     /\ Put(own, me.of, me.path)
     /\ files' = FilesAfterPut(own, me.of, me.path)
     /\ asset' = [asset EXCEPT ![NewAsset] =
                    [state |-> "own", path |-> Canonical(own, me.of, me.path), of |-> me.of]]
     /\ Become(w, Idle)
     /\ UNCHANGED <<task, cleaner, saves, values, trouble>>

\* A transaction that fails before the cache has the file.
DropUpload(w) ==
  /\ writer[w].op \in {"image", "media"} /\ Troubled
  /\ files' = [files EXCEPT ![writer[w].path] = None]
  /\ Become(w, Idle)
  /\ UNCHANGED <<store, asset, task, cleaner, saves, values>>

----------------------------------------------------------------------------
(* Generations and compositions.                                           *)

Generate(w, row, c) ==
  LET path == IF row \in Shots THEN row ELSE saves + 1
  IN /\ writer[w] = Idle
     /\ Saved(path, c)
     /\ Become(w, [op |-> "generated", row |-> row, path |-> path, of |-> c])
     /\ UNCHANGED <<store, asset, task, cleaner, values, trouble>>

\* cacheGeneratedFile
CacheGenerated(w) ==
  LET me == writer[w]
      key == <<"row", me.row>>
  IN /\ me.op = "generated"
     /\ Put(key, me.of, me.path)
     /\ files' = FilesAfterPut(key, me.of, me.path)
     /\ Become(w, [op |-> "cached", row |-> me.row, path |-> Canonical(key, me.of, me.path), of |-> me.of])
     /\ UNCHANGED <<asset, task, cleaner, saves, values, trouble>>

\* registerAsset: once per row and file, with no key of its own.
Listed(row, path) == \E a \in AssetIds : asset[a] = [state |-> "made", path |-> path, of |-> row]

CommitGenerated(w) ==
  LET me == writer[w]
  IN /\ me.op = "cached"
     /\ IF Listed(me.row, me.path) THEN asset' = asset
        ELSE /\ RoomForAsset
             /\ asset' = [asset EXCEPT ![NewAsset] = [state |-> "made", path |-> me.path, of |-> me.row]]
     /\ Become(w, Idle)
     /\ UNCHANGED <<files, store, task, cleaner, saves, values, trouble>>

\* The job was canceled or taken over, a query failed, or the migration was
\* stopped: what was saved and cached so far stays.
AbandonGenerated(w) ==
  /\ writer[w].op \in {"generated", "cached", "migrating"} /\ Troubled
  /\ Become(w, Idle)
  /\ UNCHANGED <<files, store, asset, task, cleaner, saves, values>>

----------------------------------------------------------------------------
(* The library.                                                            *)

\* POST /assets with an external URL.
AddRemoteAsset ==
  /\ RoomForAsset
  /\ asset' = [asset EXCEPT ![NewAsset] = [state |-> "remote", path |-> NoPath, of |-> None]]
  /\ UNCHANGED <<files, store, task, writer, cleaner, saves, values, trouble>>

\* DELETE /assets/:id
DeleteAsset(a) ==
  /\ asset[a].state \in {"own", "made", "remote"}
  /\ asset' = [asset EXCEPT ![a] = [NoAsset EXCEPT !.state = "deleted"]]
  /\ IF asset[a].state = "remote" THEN UNCHANGED store
     ELSE /\ object' = Released(object, ref, <<"asset", a>>)
          /\ ref' = Dropped(ref, <<"asset", a>>)
  /\ UNCHANGED <<files, task, writer, cleaner, saves, values, trouble>>

\* migrateOne, in a program of its own, for a row that Scan found remote.
Migrate(w, a, c) ==
  /\ writer[w] = Idle /\ asset[a].state = "remote"
  /\ \A v \in Writers : writer[v].op # "migrating"
  /\ Saved(saves + 1, c)
  /\ Become(w, [op |-> "migrating", asset |-> a, path |-> saves + 1, of |-> c])
  /\ UNCHANGED <<store, asset, task, cleaner, values, trouble>>

\* The row may have been deleted since: its update does not ask.
RegisterMigrated(w) ==
  LET me == writer[w]
      own == <<"asset", me.asset>>
  IN /\ me.op = "migrating"
     /\ Put(own, me.of, me.path)
     /\ files' = IF Canonical(own, me.of, me.path) # me.path
                 THEN [files EXCEPT ![me.path] = None] ELSE files
     /\ asset' = IF asset[me.asset].state = "deleted" THEN asset
                 ELSE [asset EXCEPT ![me.asset] =
                         [state |-> "own", path |-> Canonical(own, me.of, me.path), of |-> me.of]]
     /\ Become(w, Idle)
     /\ UNCHANGED <<task, cleaner, saves, values, trouble>>

DropMigrated(w) ==
  /\ writer[w].op = "migrating" /\ Troubled
  /\ files' = [files EXCEPT ![writer[w].path] = None]
  /\ Become(w, Idle)
  /\ UNCHANGED <<store, asset, task, cleaner, saves, values>>

----------------------------------------------------------------------------
(* Cached answers, and the passing of time.                                *)

PutValue(k, v) ==
  /\ values < MaxValues /\ values' = values + 1
  /\ Put(<<"value", k>>, v, NoPath)
  /\ UNCHANGED <<files, asset, task, writer, cleaner, saves, trouble>>

\* The hour of an answer, the day of an orphaned object.
ValueFallsDue(k) ==
  /\ ref[<<"value", k>>].to # None /\ ~ ref[<<"value", k>>].due
  /\ ref' = [ref EXCEPT ![<<"value", k>>].due = TRUE]
  /\ UNCHANGED <<files, object, asset, task, writer, cleaner, saves, values, trouble>>

OrphanFallsDue(c) ==
  /\ object[c].status = "orphaned" /\ ~ object[c].due
  /\ object' = [object EXCEPT ![c].due = TRUE]
  /\ UNCHANGED <<files, ref, asset, task, writer, cleaner, saves, values, trouble>>

----------------------------------------------------------------------------
(* The cleaners.                                                           *)

DueRefs == {key \in Keys : ref[key].to # None /\ ref[key].due}
DueObjects == {c \in Contents \cup Values :
                 object[c].status = "orphaned" /\ object[c].refs = 0 /\ object[c].due}

\* Mutant: a file is not queued.
Queued_Not(t) == t
\* QueueReason
Queued(t) ==
  CASE t.status = "none" -> [status |-> "pending", attempts |-> 0]
    [] t.status = "completed" -> t
    [] OTHER -> [t EXCEPT !.status = "pending"]

\* What the purge makes of an object: an orphan that is due goes, the others
\* lose the references that go.
\* Mutant: an object loses one reference, however many go.
Purged_Once(c) ==
  IF c \in DueObjects THEN NoObject
  ELSE IF \E key \in DueRefs : ref[key].to = c THEN Decremented(object, c)[c] ELSE object[c]
Purged(c) ==
  LET times == Cardinality({key \in DueRefs : ref[key].to = c})
  IN IF c \in DueObjects THEN NoObject
     ELSE IF times = 0 THEN object[c]
     ELSE IF object[c].refs > times THEN [object[c] EXCEPT !.refs = @ - times]
     ELSE [object[c] EXCEPT !.refs = 0, !.status = "orphaned", !.due = FALSE]

\* PurgeExpired, one transaction: references whose time has come, then the
\* objects that were orphans before it, their files queued for removal.
PurgeExpired(w) ==
  LET paths == {object[c].path : c \in DueObjects} \ {NoPath}
  IN /\ cleaner[w] = {} /\ (DueRefs # {} \/ DueObjects # {})
     /\ ref' = [key \in Keys |-> IF key \in DueRefs THEN NoRef ELSE ref[key]]
     /\ object' = [c \in Contents \cup Values |-> Purged(c)]
     /\ task' = [p \in Paths |-> IF p \in paths THEN Queued(task[p]) ELSE task[p]]
     /\ UNCHANGED <<files, asset, writer, cleaner, saves, values, trouble>>

Open(p) == task[p].status \in {"pending", "failed"} /\ task[p].attempts < MaxAttempts

\* ProcessOrganization reads the tasks, and works on what it read.
ListTasks(w) ==
  /\ cleaner[w] = {} /\ \E p \in Paths : Open(p)
  /\ cleaner' = [cleaner EXCEPT ![w] = {[path |-> p, attempts |-> task[p].attempts] : p \in {q \in Paths : Open(q)}}]
  /\ UNCHANGED <<files, store, asset, task, writer, saves, values, trouble>>

ProcessTask(w, t) ==
  /\ t \in cleaner[w]
  /\ cleaner' = [cleaner EXCEPT ![w] = @ \ {t}]
  /\ \/ /\ files' = [files EXCEPT ![t.path] = None]
        /\ task' = [task EXCEPT ![t.path] = [status |-> "completed", attempts |-> t.attempts + 1]]
     \/ /\ files' = files
        /\ task' = [task EXCEPT ![t.path] = [status |-> "failed", attempts |-> t.attempts + 1]]
  /\ UNCHANGED <<store, asset, writer, saves, values, trouble>>

\* The server stops: everything in memory is lost.
Restart ==
  /\ Troubled
  /\ \E w \in Writers : writer[w].op \notin {"idle", "migrating"}
  /\ writer' = [w \in Writers |-> IF writer[w].op = "migrating" THEN writer[w] ELSE Idle]
  /\ cleaner' = [w \in Cleaners |-> {}]
  /\ UNCHANGED <<files, store, asset, task, saves, values>>

----------------------------------------------------------------------------
Init ==
  /\ files = [p \in Paths |-> None]
  /\ object = [c \in Contents \cup Values |-> NoObject]
  /\ ref = [key \in Keys |-> NoRef]
  /\ asset = [a \in AssetIds |-> NoAsset]
  /\ task = [p \in Paths |-> NoTask]
  /\ writer = [w \in Writers |-> Idle]
  /\ cleaner = [w \in Cleaners |-> {}]
  /\ saves = 0 /\ values = 0 /\ trouble = 0

Write(w) ==
  \/ \E c \in Images : SaveUpload(w, "image", c)
  \/ \E c \in Videos : SaveUpload(w, "media", c) \/ \E row \in Shots \cup Clips : Generate(w, row, c)
  \/ \E c \in Contents, a \in AssetIds : Migrate(w, a, c)
  \/ PutUpload(w) \/ UnbindUpload(w) \/ RemoveUnbound(w)
  \/ BindUpload(w)
  \/ RegisterMedia(w) \/ DropUpload(w)
  \/ CacheGenerated(w) \/ CommitGenerated(w) \/ AbandonGenerated(w)
  \/ RegisterMigrated(w) \/ DropMigrated(w)

Clean(w) == PurgeExpired(w) \/ ListTasks(w) \/ \E t \in cleaner[w] : ProcessTask(w, t)

Next ==
  \/ \E w \in Writers : Write(w)
  \/ AddRemoteAsset
  \/ \E a \in AssetIds : DeleteAsset(a)
  \/ \E k \in ValueKeys : ValueFallsDue(k) \/ \E v \in Values : PutValue(k, v)
  \/ \E c \in Contents \cup Values : OrphanFallsDue(c)
  \/ \E w \in Cleaners : Clean(w)
  \/ Restart

\* Time passes, and cacheLoop comes round every hour; a cleaner that has
\* listed tasks goes through them.  Nothing makes anybody upload or delete.
Fairness ==
  /\ \A c \in Contents \cup Values : WF_vars(OrphanFallsDue(c))
  /\ WF_vars(PurgeExpired(Hourly)) /\ WF_vars(ListTasks(Hourly))
  /\ \A w \in Cleaners : WF_vars(\E t \in cleaner[w] : ProcessTask(w, t))

Spec == Init /\ [][Next]_vars /\ Fairness

----------------------------------------------------------------------------
(* Properties.                                                             *)

\* Every variable holds what its table or its memory can hold.
MediaTypeOK ==
  /\ files \in [Paths -> Contents \cup {None}]
  /\ object \in [Contents \cup Values ->
        [path : Paths \cup {NoPath}, refs : Nat, status : {"none", "active", "orphaned"}, due : BOOLEAN]]
  /\ ref \in [Keys -> [to : Contents \cup Values \cup {None}, due : BOOLEAN]]
  /\ asset \in [AssetIds -> [state : {"none", "own", "made", "remote", "deleted"}, path : Paths \cup {NoPath},
                             of : Contents \cup Shots \cup Clips \cup {None}]]
  /\ task \in [Paths -> [status : {"none", "pending", "failed", "completed"}, attempts : 0..MaxAttempts]]
  /\ \A w \in Writers : writer[w].op \in
        {"idle", "image", "binding", "unbinding", "media", "generated", "cached", "migrating"}
  /\ \A w \in Cleaners : \A t \in cleaner[w] : t.path \in Paths /\ t.attempts \in 0..MaxAttempts
  /\ {saves, values, trouble} \subseteq Nat

\* reference_count is the number of references, whatever the order of puts,
\* moved keys, releases, expiries and purges, and an object that anybody
\* refers to is there and active (mediacache: Put, Release, PurgeExpired).
CountsAreExact ==
  \A c \in Contents \cup Values :
    LET holders == {key \in Keys : ref[key].to = c}
    IN /\ object[c].refs = Cardinality(holders)
       /\ holders # {} <=> object[c].status = "active"

\* What every step of the media keeps.
MediaInv == MediaTypeOK /\ CountsAreExact

\* A cleaner never removes the file of an object somebody refers to: not on
\* a list read before the object came back, and not a file that a shot's next
\* composition wrote over (mediacache.Put clears the old path, 148).
CleanersSpareUsedFiles ==
  [][\A p \in Paths : cleaner' # cleaner /\ files[p] # None /\ files'[p] = None
        => \A c \in Contents : object[c].path = p => object[c].refs = 0]_vars

\* The file of an object that nobody refers to goes in the end, unless the
\* object is used again, or its removal has failed as often as it may.
OrphanedFilesGo ==
  \A c \in Contents : \A p \in Paths :
    (object[c].status = "orphaned" /\ object[c].path = p) ~>
      (files[p] = None \/ task[p].attempts = MaxAttempts
       \/ \E d \in Contents : object[d].path = p /\ object[d].refs > 0)

\* Objects are kept by the hash of what they hold (docs/FUNCTIONAL_PARITY.md:69):
\* while nobody is writing, the file of an object in use holds its content.
\* The code breaks this.
ObjectsHoldTheirContent ==
  (\A w \in Writers : writer[w] = Idle) =>
    \A c \in Contents : object[c].refs > 0 /\ object[c].path # NoPath => files[object[c].path] = c
=============================================================================
