---------------------------- MODULE MediaProofs ----------------------------
(***************************************************************************)
(* Theorems about Media, proved by TLAPS for any contents, rows, writers   *)
(* and cleaners.                                                           *)
(*                                                                         *)
(* The inductive invariant has two halves.  The first says that every      *)
(* object counts its references: each transaction is a composition of a    *)
(* put, releases and a purge, and each of those keeps the counts of the    *)
(* tables it is given.  The second says who may still name a file: a       *)
(* numbered file holds one content and no other object names it, a         *)
(* writer's file is its own until it is in the cache, the file of a shot   *)
(* belongs to the object that the shot's key refers to, and so a file      *)
(* that was ever queued for removal is named by no object as long as it    *)
(* is there.                                                               *)
(***************************************************************************)
EXTENDS Media, FiniteSetTheorems, TLAPS

Holdings == Contents \cup Values
Objects == [path : Paths \cup {NoPath}, refs : Nat, status : {"none", "active", "orphaned"}, due : BOOLEAN]
References == [to : Holdings \cup {None}, due : BOOLEAN]

\* The references to c in a table of references.
Holders(refs, c) == {key \in Keys : refs[key].to = c}

\* The counts of the tables are exact; only finitely many references are held.
Exact(objects, refs) ==
  /\ objects \in [Holdings -> Objects]
  /\ refs \in [Keys -> References]
  /\ \A c \in Holdings :
       /\ IsFiniteSet(Holders(refs, c))
       /\ objects[c].refs = Cardinality(Holders(refs, c))
       /\ Holders(refs, c) # {} <=> objects[c].status = "active"

-----------------------------------------------------------------------------
(* Who names a file.                                                       *)

Numbered == 1..MaxSaves

\* A writer whose file is in no object yet.
Fresh(w) == writer[w].op \in {"image", "media", "migrating", "generated"} /\ writer[w].path \in Numbered
HasOwn(w) == Fresh(w) \/ writer[w].op \in {"binding", "unbinding"}

WriterOK(me) ==
  /\ me.op \in {"idle", "image", "binding", "unbinding", "media", "generated", "cached", "migrating"}
  /\ me.op \in {"image", "binding"} => me.of \in Images
  /\ me.op \in {"media", "generated"} => me.of \in Videos
  /\ me.op = "migrating" => me.of \in Contents /\ me.asset \in AssetIds
  /\ me.op \in {"image", "media", "migrating", "binding", "unbinding"} => me.path \in 1..saves
  /\ me.op = "generated" => \/ me.row \in Shots /\ me.path = me.row
                            \/ me.row \in Clips /\ me.path \in 1..saves
  /\ me.op = "cached" => me.row \in Shots \cup Clips /\ me.path \in Paths \cup {NoPath}

FilesOK == files \in [Paths -> Contents \cup {None}] /\ saves \in 0..MaxSaves /\ {values, trouble} \subseteq Nat

AssetsOK == asset \in [AssetIds -> [state : {"none", "own", "made", "remote", "deleted"},
                                    path : Paths \cup {NoPath}, of : Contents \cup Shots \cup Clips \cup {None}]]

WritersOK ==
  /\ DOMAIN writer = Writers
  /\ \A w \in Writers : WriterOK(writer[w])
  /\ \A w, v \in Writers : HasOwn(w) /\ HasOwn(v) /\ writer[w].path = writer[v].path => w = v

\* The compositions of shots are never queued, and no file before it is written.
TasksOK ==
  /\ task \in [Paths -> [status : {"none", "pending", "failed", "completed"}, attempts : 0..MaxAttempts]]
  /\ DOMAIN cleaner = Cleaners
  /\ \A p \in Paths : p \in Shots \/ p > saves => task[p].status = "none"
  /\ \A w \in Cleaners : \A t \in cleaner[w] :
       t.path \in Paths /\ t.attempts \in Nat /\ t.attempts < MaxAttempts /\ task[t.path].status # "none"

\* The object that names a numbered file is of what the file holds; the one
\* that names the file of a shot is what the shot's key refers to.
Names(objects, refs, stored) ==
  \A c \in Holdings :
    /\ objects[c].path \in Numbered => objects[c].path <= saves /\ stored[objects[c].path] \in {c, None}
    /\ objects[c].path \in Shots => c \in Videos /\ refs[<<"row", objects[c].path>>].to = c

\* No object names a file that is there and was ever queued for removal.
Spared(objects, stored) ==
  \A p \in Paths, c \in Holdings : stored[p] # None /\ task[p].status # "none" => objects[c].path # p

\* Only the references of cached answers fall due.
DueOK(refs) == \A key \in Keys : refs[key].due => key[1] = "value"

\* The tables of the cache and the files, whoever is writing.
StoreOK(objects, refs, stored) ==
  Exact(objects, refs) /\ Names(objects, refs, stored) /\ Spared(objects, stored) /\ DueOK(refs)

\* The file of a writer that is not in the cache yet is named by nobody.
FreshIn(objects, stored, w) ==
  /\ stored[writer[w].path] \in {writer[w].of, None}
  /\ task[writer[w].path].status = "none"
  /\ \A c \in Holdings : objects[c].path # writer[w].path

\* An upload holds its content until it is bound.
BoundIn(objects, refs, stored, w) ==
  LET me == writer[w]
  IN /\ me.canonical \in 1..saves
     /\ stored[me.canonical] \in {me.of, None}
     /\ stored[me.canonical] # None => objects[me.of].path = me.canonical
     /\ refs[<<"upload", me.path>>].to = me.of
     /\ \A v \in Writers : Fresh(v) => writer[v].path # me.canonical

FreshOK == \A w \in Writers : Fresh(w) => FreshIn(object, files, w)
BoundOK == \A w \in Writers : writer[w].op = "binding" => BoundIn(object, ref, files, w)

MediaSound ==
  FilesOK /\ AssetsOK /\ WritersOK /\ TasksOK /\ StoreOK(object, ref, files) /\ FreshOK /\ BoundOK

-----------------------------------------------------------------------------
(* The operations of the cache, on any tables whose counts are exact.      *)

\* decrementObject takes one from a count, and an object orphaned at zero.
LEMMA DecrementedObject ==
  ASSUME NEW objects \in [Holdings -> Objects], NEW d \in Holdings, objects[d].refs > 0
  PROVE  \E x \in Objects :
           /\ Decremented(objects, d) = [objects EXCEPT ![d] = x]
           /\ x.refs = objects[d].refs - 1 /\ x.path = objects[d].path
           /\ x.refs > 0 => x.status = objects[d].status
           /\ x.refs = 0 => x.status = "orphaned"
<1> DEFINE n == objects[d].refs - 1
           kept == [objects[d] EXCEPT !.refs = n]
           orphan == [objects[d] EXCEPT !.refs = 0, !.status = "orphaned", !.due = FALSE]
<1>1. objects[d] \in Objects /\ n \in Nat
  BY DEF Objects
<1>2. kept \in Objects /\ kept.refs = n /\ kept.path = objects[d].path /\ kept.status = objects[d].status
  BY <1>1 DEF Objects
<1>3. orphan \in Objects /\ orphan.refs = 0 /\ orphan.path = objects[d].path /\ orphan.status = "orphaned"
  BY <1>1 DEF Objects
<1>4. n > 0 \/ n = 0
  <2>1. n \in Nat
    BY <1>1
  <2> HIDE DEF n
  <2> QED
    BY <2>1
<1> SUFFICES \E x \in Objects :
       /\ Decremented(objects, d) = [objects EXCEPT ![d] = x]
       /\ x.refs = n /\ x.path = objects[d].path
       /\ n > 0 => x.status = objects[d].status
       /\ n = 0 => x.status = "orphaned"
  OBVIOUS
<1>5. CASE n > 0
  <2>1. Decremented(objects, d) = [objects EXCEPT ![d] = kept]
    BY <1>1, <1>5 DEF Decremented
  <2>2. ~ (n = 0)
    BY <1>5
  <2> HIDE DEF kept, n
  <2> QED
    BY <1>2, <2>2, <2>1
<1>6. CASE n = 0
  <2>1. objects[d].refs = 1
    BY <1>1, <1>6 DEF Objects
  <2>2. Decremented(objects, d) = [objects EXCEPT ![d] = orphan]
    BY <2>1 DEF Decremented
  <2>3. ~ (n > 0)
    BY <1>6
  <2> HIDE DEF orphan, n
  <2> QED
    BY <1>3, <1>6, <2>2, <2>3
<1> QED
  BY <1>4, <1>5, <1>6

\* Release takes away the reference and its count, and leaves the paths.
LEMMA ReleaseExact ==
  ASSUME NEW objects, NEW refs, Exact(objects, refs), NEW key \in Keys
  PROVE  /\ Exact(Released(objects, refs, key), Dropped(refs, key))
         /\ \A x \in Holdings : Released(objects, refs, key)[x].path = objects[x].path
<1> DEFINE d == refs[key].to
           after == Dropped(refs, key)
<1>1. /\ objects \in [Holdings -> Objects] /\ refs \in [Keys -> References]
      /\ d \in Holdings \cup {None} /\ None \notin Holdings
  BY MediaAssumption DEF Exact, References, Holdings, Contents
<1>2. after \in [Keys -> References] /\ \A k \in Keys : after[k].to = IF k = key THEN None ELSE refs[k].to
  BY <1>1 DEF Dropped, NoRef, References
<1>3. \A c \in Holdings : Holders(after, c) = Holders(refs, c) \ {key}
  BY <1>1, <1>2 DEF Holders
<1>4. \A c \in Holdings : c # d => Holders(after, c) = Holders(refs, c)
  BY <1>1, <1>2 DEF Holders
<1> HIDE DEF after
<1>5. CASE d = None
  <2>1. Released(objects, refs, key) = objects
    BY <1>5 DEF Released
  <2> QED
    BY <1>1, <1>2, <1>4, <1>5, <2>1 DEF Exact, after
<1>6. CASE d \in Holdings
  <2>1. key \in Holders(refs, d) /\ IsFiniteSet(Holders(refs, d))
    BY <1>6 DEF Holders, Exact
  <2>2. /\ IsFiniteSet(Holders(after, d))
        /\ Cardinality(Holders(after, d)) = Cardinality(Holders(refs, d)) - 1
        /\ Cardinality(Holders(after, d)) \in Nat
        /\ Cardinality(Holders(after, d)) = 0 <=> Holders(after, d) = {}
    BY <1>3, <1>6, <2>1, FS_RemoveElement, FS_CardinalityType, FS_EmptySet
  <2>3. objects[d].refs = Cardinality(Holders(refs, d)) /\ objects[d].status = "active"
    BY <1>6, <2>1 DEF Exact
  <2>4. objects[d].refs > 0
    BY <2>2, <2>3, <1>1, <1>6 DEF Objects
  <2>5. PICK x \in Objects :
           /\ Decremented(objects, d) = [objects EXCEPT ![d] = x]
           /\ x.refs = objects[d].refs - 1 /\ x.path = objects[d].path
           /\ x.refs > 0 => x.status = objects[d].status
           /\ x.refs = 0 => x.status = "orphaned"
    BY <1>1, <1>6, <2>4, DecrementedObject
  <2>6. Released(objects, refs, key) = [objects EXCEPT ![d] = x]
    BY <1>1, <1>6, <2>5 DEF Released
  <2>7. /\ x.refs = Cardinality(Holders(after, d))
        /\ Holders(after, d) # {} <=> x.status = "active"
    <3>1. x.refs = Cardinality(Holders(after, d))
      BY <2>2, <2>3, <2>5
    <3>2. x.refs = 0 \/ x.refs > 0
      <4>1. x.refs \in Nat
        BY <2>2, <3>1
      <4> QED
        BY <4>1
    <3> QED
      BY <2>2, <2>3, <2>5, <3>1, <3>2
  <2>8. /\ Released(objects, refs, key) \in [Holdings -> Objects]
        /\ \A c \in Holdings : Released(objects, refs, key)[c] = IF c = d THEN x ELSE objects[c]
    BY <1>1, <1>6, <2>6
  <2>9. \A c \in Holdings :
           /\ IsFiniteSet(Holders(after, c))
           /\ Released(objects, refs, key)[c].refs = Cardinality(Holders(after, c))
           /\ Holders(after, c) # {} <=> Released(objects, refs, key)[c].status = "active"
    BY <1>4, <2>2, <2>7, <2>8 DEF Exact
  <2> QED
    BY <1>2, <2>5, <2>8, <2>9 DEF Exact, after
<1> QED
  BY <1>1, <1>5, <1>6

\* A key that moves to another content leaves an object, which no longer
\* names the file that was just written.
LEMMA MovedObject ==
  ASSUME NEW objects \in [Holdings -> Objects], NEW d \in Holdings, objects[d].refs > 0,
         NEW path \in Paths \cup {NoPath}
  PROVE  \E x \in Objects :
           /\ Moved(objects, d, path) = [objects EXCEPT ![d] = x]
           /\ x.refs = objects[d].refs - 1
           /\ x.refs > 0 => x.status = objects[d].status
           /\ x.refs = 0 => x.status = "orphaned"
           /\ x.path = IF path # NoPath /\ objects[d].path = path THEN NoPath ELSE objects[d].path
<1>1. CASE path # NoPath /\ objects[d].path = path
  <2> DEFINE base == [objects EXCEPT ![d].path = NoPath]
  <2>1. Moved(objects, d, path) = Decremented(base, d)
    BY <1>1 DEF Moved
  <2>2. /\ base \in [Holdings -> Objects] /\ base[d].path = NoPath
        /\ base[d].refs = objects[d].refs /\ base[d].status = objects[d].status
        /\ \A x : [base EXCEPT ![d] = x] = [objects EXCEPT ![d] = x]
    BY DEF Objects
  <2> HIDE DEF base
  <2>3. PICK x \in Objects :
           /\ Decremented(base, d) = [base EXCEPT ![d] = x]
           /\ x.refs = base[d].refs - 1 /\ x.path = base[d].path
           /\ x.refs > 0 => x.status = base[d].status
           /\ x.refs = 0 => x.status = "orphaned"
    BY <2>2, DecrementedObject
  <2>4. Moved(objects, d, path) = [objects EXCEPT ![d] = x] /\ x.path = NoPath
    BY <2>1, <2>2, <2>3
  <2>5. (IF path # NoPath /\ objects[d].path = path THEN NoPath ELSE objects[d].path) = NoPath
    BY <1>1
  <2> QED
    BY <2>2, <2>3, <2>4, <2>5
<1>2. CASE ~ (path # NoPath /\ objects[d].path = path)
  <2>1. Moved(objects, d, path) = Decremented(objects, d)
    BY <1>2 DEF Moved
  <2> QED
    BY <1>2, <2>1, DecrementedObject
<1> QED
  BY <1>1, <1>2

\* Put takes an object as it is, or with the file it brings.
LEMMA EnteredObject ==
  ASSUME Exact(object, ref), NEW c \in Holdings, NEW path \in Paths \cup {NoPath}
  PROVE  \E y \in Objects :
           /\ Entered(c, path) = [object EXCEPT ![c] = y]
           /\ y.refs = object[c].refs
           /\ object[c].status # "none" => y.status = object[c].status
           /\ y.path = IF Reused(c, path) THEN object[c].path ELSE path
<1>1. object \in [Holdings -> Objects] /\ object[c] \in Objects
  BY DEF Exact
<1>2. CASE object[c].status = "none"
  <2> DEFINE y == [path |-> path, refs |-> 0, status |-> "active", due |-> FALSE]
  <2>1. y \in Objects /\ y.refs = 0 /\ y.path = path
    BY DEF Objects
  <2>2. object[c].refs = 0
    BY <1>2, FS_EmptySet DEF Exact
  <2>3. Entered(c, path) = [object EXCEPT ![c] = y]
    BY <1>2 DEF Entered
  <2> HIDE DEF y
  <2> QED
    BY <1>2, <2>1, <2>2, <2>3 DEF Reused
<1>3. CASE object[c].status # "none" /\ Renewed(c, path)
  <2> DEFINE y == [object[c] EXCEPT !.path = path]
  <2>1. y \in Objects /\ y.refs = object[c].refs /\ y.path = path /\ y.status = object[c].status
    BY <1>1 DEF Objects
  <2>2. Entered(c, path) = [object EXCEPT ![c] = y]
    BY <1>1, <1>3 DEF Entered
  <2> HIDE DEF y
  <2> QED
    BY <1>3, <2>1, <2>2 DEF Reused
<1>4. CASE object[c].status # "none" /\ ~ Renewed(c, path)
  <2>1. Entered(c, path) = [object EXCEPT ![c] = object[c]]
    BY <1>1, <1>4 DEF Entered
  <2> QED
    BY <1>1, <1>4, <2>1 DEF Reused
<1> QED
  BY <1>2, <1>3, <1>4

\* Which file each object names after a put.
PathsPut(key, c, path, objects) ==
  \A x \in Holdings :
    objects[x].path = IF x = c THEN IF Reused(c, path) THEN object[c].path ELSE path
                      ELSE IF ref[key].to = x /\ path # NoPath /\ object[x].path = path THEN NoPath
                      ELSE object[x].path

\* Put adds the reference and its count, and takes both from the content
\* that the key referred to before.
LEMMA PutExact ==
  ASSUME Exact(object, ref), NEW key \in Keys, NEW c \in Holdings, NEW path \in Paths \cup {NoPath}
  PROVE  Exact(PutObjects(key, c, path), PutRefs(key, c)) /\ PathsPut(key, c, path, PutObjects(key, c, path))
<1> DEFINE from == ref[key].to
           after == PutRefs(key, c)
           objects == PutObjects(key, c, path)
<1>1. /\ object \in [Holdings -> Objects] /\ ref \in [Keys -> References]
      /\ from \in Holdings \cup {None} /\ None \notin Holdings
  BY MediaAssumption DEF Exact, References, Holdings, Contents
<1>2. after \in [Keys -> References] /\ \A k \in Keys : after[k].to = IF k = key THEN c ELSE ref[k].to
  BY <1>1 DEF PutRefs, References
<1>3. PICK y \in Objects :
           /\ Entered(c, path) = [object EXCEPT ![c] = y]
           /\ y.refs = object[c].refs
           /\ object[c].status # "none" => y.status = object[c].status
           /\ y.path = IF Reused(c, path) THEN object[c].path ELSE path
  BY EnteredObject
<1> HIDE DEF after
<1>4. CASE from = c
  <2>1. objects = [object EXCEPT ![c] = y]
    BY <1>3, <1>4 DEF PutObjects
  <2>2. \A x \in Holdings : Holders(after, x) = Holders(ref, x)
    BY <1>2, <1>4 DEF Holders
  <2>3. key \in Holders(ref, c)
    BY <1>4 DEF Holders
  <2>4. object[c].status = "active"
    BY <2>3 DEF Exact
  <2>5. objects \in [Holdings -> Objects] /\ \A x \in Holdings : objects[x] = IF x = c THEN y ELSE object[x]
    BY <1>1, <2>1
  <2> HIDE DEF objects
  <2>6. \A x \in Holdings :
           /\ IsFiniteSet(Holders(after, x))
           /\ objects[x].refs = Cardinality(Holders(after, x))
           /\ Holders(after, x) # {} <=> objects[x].status = "active"
    BY <1>3, <2>2, <2>4, <2>5 DEF Exact
  <2>7. Exact(objects, after)
    BY <1>2, <2>5, <2>6 DEF Exact
  <2>8. PathsPut(key, c, path, objects)
    BY <1>3, <1>4, <2>5 DEF PathsPut
  <2> QED
    BY <2>7, <2>8 DEF objects, after
<1>5. CASE from # c
  <2> DEFINE z == [y EXCEPT !.refs = y.refs + 1, !.status = "active", !.due = FALSE]
  <2>1. z \in Objects /\ z.refs = object[c].refs + 1 /\ z.status = "active" /\ z.path = y.path
    <3>1. y \in Objects /\ y.refs = object[c].refs
      BY <1>3
    <3>2. \A n \in Nat : LET u == [y EXCEPT !.refs = n, !.status = "active", !.due = FALSE]
                         IN u \in Objects /\ u.refs = n /\ u.status = "active" /\ u.path = y.path
      BY <3>1 DEF Objects
    <3>3. y.refs + 1 \in Nat
      BY <3>1 DEF Objects
    <3> QED
      BY <3>1, <3>2, <3>3
  <2>2. key \notin Holders(ref, c)
    BY <1>5 DEF Holders
  <2>3. Holders(after, c) = Holders(ref, c) \cup {key}
    BY <1>2 DEF Holders
  <2>4. /\ IsFiniteSet(Holders(after, c)) /\ Holders(after, c) # {}
        /\ Cardinality(Holders(after, c)) = Cardinality(Holders(ref, c)) + 1
    BY <2>2, <2>3, FS_AddElement DEF Exact
  <2>5. z.refs = Cardinality(Holders(after, c))
    BY <2>1, <2>4 DEF Exact
  <2>6. \A x \in Holdings : x # c /\ x # from => Holders(after, x) = Holders(ref, x)
    BY <1>2 DEF Holders
  <2>7. CASE from = None
    <3>1. objects = [[object EXCEPT ![c] = y] EXCEPT ![c] = z]
      BY <1>1, <1>3, <1>5, <2>7 DEF PutObjects
    <3> HIDE DEF z
    <3>2. objects \in [Holdings -> Objects] /\ \A x \in Holdings : objects[x] = IF x = c THEN z ELSE object[x]
      BY <1>1, <2>1, <3>1
    <3> HIDE DEF objects
    <3>3. \A x \in Holdings :
           /\ IsFiniteSet(Holders(after, x))
           /\ objects[x].refs = Cardinality(Holders(after, x))
           /\ Holders(after, x) # {} <=> objects[x].status = "active"
      BY <1>1, <2>1, <2>4, <2>5, <2>6, <2>7, <3>2 DEF Exact
    <3>4. Exact(objects, after)
      BY <1>2, <3>2, <3>3 DEF Exact
    <3>5. PathsPut(key, c, path, objects)
      BY <1>1, <1>3, <2>1, <2>7, <3>2 DEF PathsPut
    <3> QED
      BY <3>4, <3>5 DEF objects, after
  <2>8. CASE from \in Holdings
    <3> DEFINE entered == [object EXCEPT ![c] = y]
    <3>1. entered \in [Holdings -> Objects] /\ entered[from] = object[from]
      BY <1>1, <1>5, <2>8
    <3>2. key \in Holders(ref, from) /\ IsFiniteSet(Holders(ref, from))
      BY <2>8 DEF Holders, Exact
    <3>3. Holders(after, from) = Holders(ref, from) \ {key}
      BY <1>2, <1>5 DEF Holders
    <3>4. /\ IsFiniteSet(Holders(after, from))
          /\ Cardinality(Holders(after, from)) = Cardinality(Holders(ref, from)) - 1
          /\ Cardinality(Holders(after, from)) \in Nat
          /\ Cardinality(Holders(after, from)) = 0 <=> Holders(after, from) = {}
      BY <3>2, <3>3, FS_RemoveElement, FS_CardinalityType, FS_EmptySet
    <3>5. object[from].refs = Cardinality(Holders(ref, from)) /\ object[from].status = "active"
      BY <2>8, <3>2 DEF Exact
    <3>6. entered[from].refs > 0
      BY <2>8, <3>1, <3>4, <3>5, <1>1 DEF Objects
    <3> HIDE DEF entered
    <3>7. PICK x \in Objects :
           /\ Moved(entered, from, path) = [entered EXCEPT ![from] = x]
           /\ x.refs = entered[from].refs - 1
           /\ x.refs > 0 => x.status = entered[from].status
           /\ x.refs = 0 => x.status = "orphaned"
           /\ x.path = IF path # NoPath /\ entered[from].path = path THEN NoPath ELSE entered[from].path
      <4> HIDE DEF from
      <4> QED
        BY <2>8, <3>1, <3>6, MovedObject
    <3>8. objects = [[entered EXCEPT ![from] = x] EXCEPT ![c] = z]
      <4>1. [entered EXCEPT ![from] = x][c] = y
        BY <1>1, <1>5, <2>8, <3>1 DEF entered
      <4>2. objects = [Moved(entered, from, path) EXCEPT ![c].refs = @ + 1, ![c].status = "active", ![c].due = FALSE]
        BY <1>1, <1>3, <1>5, <2>8 DEF PutObjects, entered
      <4> QED
        BY <3>7, <3>1, <4>1, <4>2, <1>1, <2>8
    <3> HIDE DEF z
    <3>9. /\ objects \in [Holdings -> Objects]
          /\ \A d \in Holdings : objects[d] = IF d = c THEN z ELSE IF d = from THEN x ELSE object[d]
      BY <1>1, <1>5, <2>1, <2>8, <3>1, <3>8 DEF entered
    <3>10. x.refs = Cardinality(Holders(after, from)) /\ (Holders(after, from) # {} <=> x.status = "active")
      <4>1. x.refs = Cardinality(Holders(after, from))
        BY <3>1, <3>4, <3>5, <3>7
      <4>2. x.refs = 0 \/ x.refs > 0
        <5>1. x.refs \in Nat
          BY <3>4, <4>1
        <5> QED
          BY <5>1
      <4> QED
        BY <3>1, <3>4, <3>5, <3>7, <4>1, <4>2
    <3> HIDE DEF objects
    <3>11. \A d \in Holdings :
           /\ IsFiniteSet(Holders(after, d))
           /\ objects[d].refs = Cardinality(Holders(after, d))
           /\ Holders(after, d) # {} <=> objects[d].status = "active"
      BY <2>1, <2>4, <2>5, <2>6, <3>4, <3>9, <3>10 DEF Exact
    <3>12. Exact(objects, after)
      BY <1>2, <3>9, <3>11 DEF Exact
    <3>13. PathsPut(key, c, path, objects)
      BY <1>1, <1>3, <1>5, <2>1, <3>1, <3>7, <3>9 DEF PathsPut
    <3> QED
      BY <3>12, <3>13 DEF objects, after
  <2> QED
    BY <1>1, <2>7, <2>8
<1> QED
  BY <1>4, <1>5

\* The purge takes the references that are due from the counts, and forgets
\* the objects that are due, whose counts were zero.
LEMMA PurgeExact ==
  ASSUME Exact(object, ref),
         NEW objects, objects = [c \in Contents \cup Values |-> Purged(c)],
         NEW refs, refs = [key \in Keys |-> IF key \in DueRefs THEN NoRef ELSE ref[key]]
  PROVE  /\ Exact(objects, refs)
         /\ \A c \in Holdings : objects[c].path = IF c \in DueObjects THEN NoPath ELSE object[c].path
<1>1. /\ object \in [Holdings -> Objects] /\ ref \in [Keys -> References] /\ None \notin Holdings
  BY MediaAssumption DEF Exact, Holdings, Contents
<1>2. /\ refs \in [Keys -> References]
      /\ \A k \in Keys : refs[k].to = IF k \in DueRefs THEN None ELSE ref[k].to
  BY <1>1 DEF NoRef, References, DueRefs
<1>3. DOMAIN objects = Holdings /\ objects = [c \in Holdings |-> objects[c]]
      /\ \A c \in Holdings : objects[c] = Purged(c)
  BY DEF Holdings
<1>4. ASSUME NEW c \in Holdings
      PROVE  /\ objects[c] \in Objects
             /\ IsFiniteSet(Holders(refs, c))
             /\ objects[c].refs = Cardinality(Holders(refs, c))
             /\ Holders(refs, c) # {} <=> objects[c].status = "active"
             /\ objects[c].path = IF c \in DueObjects THEN NoPath ELSE object[c].path
  <2> DEFINE going == {key \in DueRefs : ref[key].to = c}
             held == Holders(ref, c)
             left == Holders(refs, c)
             times == Cardinality(going)
  <2>1. /\ object[c] \in Objects /\ IsFiniteSet(held) /\ object[c].refs = Cardinality(held)
        /\ held # {} <=> object[c].status = "active"
    BY <1>1 DEF Exact
  <2>2. going \in SUBSET held /\ left = held \ going
    BY <1>1, <1>2 DEF Holders, DueRefs
  <2>3. IsFiniteSet(going) /\ times <= Cardinality(held) /\ times \in Nat /\ Cardinality(held) \in Nat
    BY <2>1, <2>2, FS_Subset, FS_CardinalityType
  <2>4. IsFiniteSet(left) /\ Cardinality(left) = Cardinality(held) - times
    <3>1. held \cap going = going
      BY <2>2
    <3> HIDE DEF held, going, left
    <3>2. IsFiniteSet(held \ going) /\ Cardinality(held \ going) = Cardinality(held) - Cardinality(held \cap going)
      BY <2>1, FS_Difference
    <3> QED
      BY <2>2, <3>1, <3>2
  <2>5. Cardinality(left) = 0 <=> left = {}
    BY <2>4, FS_EmptySet
  <2>6. CASE c \in DueObjects
    <3>1. objects[c] = NoObject
      BY <1>3, <2>6 DEF Purged
    <3>2. object[c].refs = 0
      BY <2>6 DEF DueObjects
    <3>3. held = {}
      BY <2>1, <3>2, FS_EmptySet
    <3>4. left = {} /\ Cardinality(left) = 0
      BY <2>2, <3>3, FS_EmptySet
    <3>5. NoObject \in Objects /\ NoObject.refs = 0 /\ NoObject.status = "none" /\ NoObject.path = NoPath
      BY DEF NoObject, Objects
    <3> QED
      BY <2>4, <2>6, <3>1, <3>4, <3>5
  <2>7. CASE c \notin DueObjects /\ times = 0
    <3>1. objects[c] = object[c]
      BY <1>3, <2>7 DEF Purged
    <3>2. going = {}
      BY <2>3, <2>7, FS_EmptySet
    <3>3. left = held
      BY <2>2, <3>2
    <3> QED
      BY <2>1, <2>7, <3>1, <3>3
  <2>8. CASE c \notin DueObjects /\ times # 0 /\ object[c].refs > times
    <3> DEFINE n == object[c].refs - times
               z == [object[c] EXCEPT !.refs = n]
    <3>1. objects[c] = z
      BY <1>3, <2>1, <2>8 DEF Purged, Objects
    <3>2. n \in Nat /\ n # 0 /\ n = Cardinality(left)
      BY <2>1, <2>3, <2>4, <2>8
    <3>3. held # {}
      <4>1. Cardinality(held) # 0
        BY <2>1, <2>3, <2>8
      <4> QED
        BY <4>1, FS_EmptySet
    <3> HIDE DEF n
    <3>4. z \in Objects /\ z.refs = n /\ z.status = object[c].status /\ z.path = object[c].path
      BY <2>1, <3>2 DEF Objects
    <3> QED
      BY <2>1, <2>4, <2>5, <2>8, <3>1, <3>2, <3>3, <3>4
  <2>9. CASE c \notin DueObjects /\ times # 0 /\ ~ (object[c].refs > times)
    <3> DEFINE z == [object[c] EXCEPT !.refs = 0, !.status = "orphaned", !.due = FALSE]
    <3>1. objects[c] = z
      BY <1>3, <2>9 DEF Purged
    <3>2. Cardinality(left) = 0
      BY <2>1, <2>3, <2>4, <2>9
    <3>3. z \in Objects /\ z.refs = 0 /\ z.status = "orphaned" /\ z.path = object[c].path
      BY <2>1 DEF Objects
    <3> QED
      BY <2>4, <2>5, <2>9, <3>1, <3>2, <3>3
  <2> QED
    BY <2>6, <2>7, <2>8, <2>9
<1> QED
  BY <1>2, <1>3, <1>4 DEF Exact

-----------------------------------------------------------------------------
(* What the operations of the cache keep of the rest.                      *)

LEMMA Places ==
  /\ MaxSaves \in Nat /\ MaxAssets \in Nat /\ MaxAttempts \in Nat
  /\ NoPath \notin Paths /\ Numbered \cap Shots = {} /\ Numbered \subseteq Paths /\ Shots \subseteq Paths
  /\ Images \cap Videos = {} /\ Contents \subseteq Holdings /\ Values \subseteq Holdings /\ None \notin Holdings
  /\ \A n \in Numbered : <<"upload", n>> \in Keys
  /\ \A a \in AssetIds : <<"asset", a>> \in Keys
  /\ \A r \in Shots \cup Clips : <<"row", r>> \in Keys
  /\ \A k \in ValueKeys : <<"value", k>> \in Keys
  /\ \A n \in 1..saves : saves \in 0..MaxSaves => n \in Numbered /\ n <= saves
<1>1. MaxSaves \in Nat /\ MaxAssets \in Nat /\ MaxAttempts \in Nat
  BY MediaAssumption
<1>2. Numbered \cap Shots = {} /\ NoPath \notin Paths
  BY <1>1, MediaAssumption DEF NoPath, Paths, Numbered
<1>3. \A n \in 1..saves : saves \in 0..MaxSaves => n \in Numbered /\ n <= saves
  BY <1>1 DEF Numbered
<1> QED
  BY <1>1, <1>2, <1>3, MediaAssumption DEF Paths, Numbered, Holdings, Contents, Keys

\* Files that go disturb nobody.
LEMMA FilesGo ==
  ASSUME NEW objects \in [Holdings -> Objects], NEW refs, NEW before, StoreOK(objects, refs, before),
         NEW after, \A p \in Paths : after[p] \in {before[p], None}
  PROVE  StoreOK(objects, refs, after)
<1>1. Names(objects, refs, after)
  BY Places DEF StoreOK, Names
<1>2. Spared(objects, after)
  BY Places DEF StoreOK, Spared
<1> QED
  BY <1>1, <1>2 DEF StoreOK

LEMMA FreshFilesGo ==
  ASSUME NEW objects, NEW before, NEW after, \A p \in Paths : after[p] \in {before[p], None},
         NEW w \in Writers, Fresh(w), FreshIn(objects, before, w)
  PROVE  FreshIn(objects, after, w)
BY Places DEF FreshIn, Fresh

LEMMA BoundFilesGo ==
  ASSUME NEW objects, NEW refs, NEW before, NEW after, \A p \in Paths : after[p] \in {before[p], None},
         NEW w \in Writers, saves \in 0..MaxSaves, BoundIn(objects, refs, before, w)
  PROVE  BoundIn(objects, refs, after, w)
<1>1. writer[w].canonical \in 1..saves /\ writer[w].canonical \in Paths
  BY Places DEF BoundIn
<1> QED
  BY <1>1 DEF BoundIn

\* A put of a file of the content it brings.
LEMMA PutKeeps ==
  ASSUME MediaSound, NEW key \in Keys, NEW c \in Holdings, NEW path \in Paths \cup {NoPath},
         path \in Numbered => path <= saves /\ files[path] \in {c, None},
         path \in Shots => c \in Videos /\ key = <<"row", path>>,
         \A s \in Shots : key = <<"row", s>> => path = s,
         path \in Paths /\ files[path] # None => task[path].status = "none"
  PROVE  /\ StoreOK(PutObjects(key, c, path), PutRefs(key, c), files)
         /\ PathsPut(key, c, path, PutObjects(key, c, path))
         /\ \A v \in Writers : Fresh(v) /\ writer[v].path # path
                              => FreshIn(PutObjects(key, c, path), files, v)
         /\ \A v \in Writers : writer[v].op = "binding" /\ key # <<"upload", writer[v].path>>
                              => BoundIn(PutObjects(key, c, path), PutRefs(key, c), files, v)
<1> DEFINE objects == PutObjects(key, c, path)
           refs == PutRefs(key, c)
<1>1. Exact(object, ref) /\ Names(object, ref, files) /\ Spared(object, files) /\ DueOK(ref)
  BY DEF MediaSound, StoreOK
<1>2. Exact(objects, refs) /\ PathsPut(key, c, path, objects)
  BY <1>1, PutExact
<1>3. /\ ref \in [Keys -> References] /\ object \in [Holdings -> Objects]
      /\ \A k \in Keys : refs[k] = IF k = key THEN [to |-> c, due |-> FALSE] ELSE ref[k]
  BY <1>1 DEF Exact, PutRefs
<1> HIDE DEF objects, refs
<1>4. Names(objects, refs, files)
  <2>1. ASSUME NEW x \in Holdings, objects[x].path \in Numbered
        PROVE  objects[x].path <= saves /\ files[objects[x].path] \in {x, None}
    BY <1>1, <1>2, <2>1, Places DEF PathsPut, Names
  <2>2. ASSUME NEW x \in Holdings, objects[x].path \in Shots
        PROVE  x \in Videos /\ refs[<<"row", objects[x].path>>].to = x
    <3> DEFINE s == objects[x].path
    <3>1. <<"row", s>> \in Keys /\ s # NoPath
      BY <2>2, Places
    <3>2. CASE x = c
      BY <1>1, <1>2, <1>3, <2>2, <3>1, <3>2 DEF PathsPut, Names
    <3>3. CASE x # c
      <4>1. object[x].path = s /\ ~ (ref[key].to = x /\ path # NoPath /\ s = path)
        BY <1>2, <3>1, <3>3 DEF PathsPut
      <4>2. x \in Videos /\ ref[<<"row", s>>].to = x
        BY <1>1, <2>2, <4>1 DEF Names
      <4>3. key # <<"row", s>>
        BY <2>2, <3>1, <4>1, <4>2
      <4> QED
        BY <1>3, <3>1, <4>2, <4>3
    <3> QED
      BY <3>2, <3>3
  <2> QED
    BY <2>1, <2>2 DEF Names
<1>5. Spared(objects, files)
  BY <1>1, <1>2, Places DEF Spared, PathsPut
<1>6. DueOK(refs)
  BY <1>1, <1>3 DEF DueOK
<1>7. ASSUME NEW v \in Writers, Fresh(v), writer[v].path # path
      PROVE  FreshIn(objects, files, v)
  <2>1. FreshIn(object, files, v) /\ writer[v].path \in Numbered
    BY <1>7 DEF MediaSound, FreshOK, Fresh
  <2> QED
    BY <1>2, <1>7, <2>1, Places DEF FreshIn, PathsPut
<1>8. ASSUME NEW v \in Writers, writer[v].op = "binding", key # <<"upload", writer[v].path>>
      PROVE  BoundIn(objects, refs, files, v)
  <2> DEFINE me == writer[v]
  <2>1. BoundIn(object, ref, files, v) /\ me.of \in Images /\ me.path \in 1..saves /\ saves \in 0..MaxSaves
    BY <1>8 DEF MediaSound, BoundOK, WritersOK, WriterOK, FilesOK
  <2>2. me.of \in Holdings /\ <<"upload", me.path>> \in Keys /\ me.canonical \in Numbered /\ me.canonical # NoPath
    BY <2>1, Places DEF BoundIn, Contents
  <2>3. refs[<<"upload", me.path>>].to = me.of
    BY <1>3, <1>8, <2>1, <2>2 DEF BoundIn
  <2>4. ASSUME files[me.canonical] # None
        PROVE  objects[me.of].path = me.canonical
    <3>1. object[me.of].path = me.canonical /\ files[me.canonical] = me.of
      BY <2>1, <2>4 DEF BoundIn
    <3>2. CASE me.of = c
      <4>1. <<"upload", me.path>> \in Holders(ref, c)
        BY <2>1, <2>2, <3>2 DEF Holders, BoundIn
      <4>2. object[c].status = "active"
        BY <1>1, <4>1 DEF Exact
      <4>3. Reused(c, path)
        BY <2>2, <2>4, <3>1, <3>2, <4>2 DEF Reused, Renewed
      <4> QED
        BY <1>2, <3>1, <3>2, <4>3 DEF PathsPut
    <3>3. CASE me.of # c
      BY <1>2, <2>2, <2>4, <3>1, <3>3 DEF PathsPut
    <3> QED
      BY <3>2, <3>3
  <2> QED
    BY <2>1, <2>3, <2>4 DEF BoundIn
<1> QED
  BY <1>2, <1>4, <1>5, <1>6, <1>7, <1>8 DEF StoreOK, objects, refs

\* A release of a key that is not the key of a row.
LEMMA ReleaseKeeps ==
  ASSUME NEW objects, NEW refs, StoreOK(objects, refs, files), FilesOK, WritersOK,
         NEW key \in Keys, \A s \in Shots : key # <<"row", s>>
  PROVE  /\ StoreOK(Released(objects, refs, key), Dropped(refs, key), files)
         /\ \A v \in Writers : FreshIn(objects, files, v)
                              => FreshIn(Released(objects, refs, key), files, v)
         /\ \A v \in Writers : /\ writer[v].op = "binding" /\ key # <<"upload", writer[v].path>>
                               /\ BoundIn(objects, refs, files, v)
                              => BoundIn(Released(objects, refs, key), Dropped(refs, key), files, v)
<1> DEFINE left == Released(objects, refs, key)
           held == Dropped(refs, key)
<1>1. Exact(objects, refs) /\ Names(objects, refs, files) /\ Spared(objects, files) /\ DueOK(refs)
  BY DEF StoreOK
<1>2. Exact(left, held) /\ \A x \in Holdings : left[x].path = objects[x].path
  BY <1>1, ReleaseExact
<1>3. refs \in [Keys -> References] /\ \A k \in Keys : held[k] = IF k = key THEN NoRef ELSE refs[k]
  BY <1>1 DEF Exact, Dropped
<1> HIDE DEF left, held
<1>4. Names(left, held, files)
  BY <1>1, <1>2, <1>3, Places DEF Names
<1>5. Spared(left, files)
  BY <1>1, <1>2 DEF Spared
<1>6. DueOK(held)
  BY <1>1, <1>3 DEF DueOK, NoRef
<1>7. ASSUME NEW v \in Writers, FreshIn(objects, files, v)
      PROVE  FreshIn(left, files, v)
  BY <1>2, <1>7 DEF FreshIn
<1>8. ASSUME NEW v \in Writers, writer[v].op = "binding", key # <<"upload", writer[v].path>>,
             BoundIn(objects, refs, files, v)
      PROVE  BoundIn(left, held, files, v)
  <2>1. writer[v].of \in Images /\ writer[v].path \in 1..saves /\ saves \in 0..MaxSaves
    BY <1>8 DEF WritersOK, WriterOK, FilesOK
  <2>2. writer[v].of \in Holdings /\ <<"upload", writer[v].path>> \in Keys
    BY <2>1, Places DEF Contents
  <2> QED
    BY <1>2, <1>3, <1>8, <2>2 DEF BoundIn
<1> QED
  BY <1>2, <1>4, <1>5, <1>6, <1>7, <1>8 DEF StoreOK, left, held

-----------------------------------------------------------------------------
(* The steps.                                                              *)

\* The id of a new row of the library is one that no row has.
LEMMA NewAssetIsThere ==
  ASSUME RoomForAsset
  PROVE  NewAsset \in AssetIds
<1> DEFINE Unused == {a \in AssetIds : asset[a].state = "none"}
           Below == {p \in Nat \X Nat : p[1] < p[2]}
<1>1. Unused \in SUBSET Nat /\ Unused # {}
  BY Places DEF RoomForAsset, AssetIds
<1>2. IsWellFoundedOn(Below, Nat)
  BY NatLessThanWellFounded DEF OpToRel
<1>3. \E a \in Unused : \A b \in Unused : ~ (<<b, a>> \in Below)
  <2> HIDE DEF Below, Unused
  <2> QED
    BY <1>1, <1>2, WFMin
<1>4. PICK a \in Unused : \A b \in Unused : ~ (<<b, a>> \in Below)
  BY <1>3
<1>5. \A b \in Unused : a <= b
  <2>1. ASSUME NEW b \in Unused, b < a PROVE FALSE
    <3>1. <<b, a>> \in Nat \X Nat
      BY <1>1
    <3> QED
      BY <3>1, <1>4, <2>1
  <2> QED
    BY <1>1, <2>1
<1> QED
  BY <1>5 DEF NewAsset

\* The cache as it is, seen after a step that leaves the tasks and the files' numbers.
LEMMA StoreAfter ==
  ASSUME StoreOK(object', ref', files'), UNCHANGED <<task, saves>>
  PROVE  StoreOK(object, ref, files)'
BY DEF StoreOK, Exact, Names, Spared, DueOK, Holders

\* Writers, files and cleaners that go disturb nobody.
LEMMA Subsides ==
  ASSUME MediaSound, UNCHANGED <<object, ref, task, saves>>,
         files' \in [Paths -> Contents \cup {None}], \A p \in Paths : files'[p] \in {files[p], None},
         DOMAIN writer' = Writers, \A w \in Writers : writer'[w] \in {writer[w], Idle},
         DOMAIN cleaner' = Cleaners, \A w \in Cleaners : cleaner'[w] \subseteq cleaner[w],
         AssetsOK', {values', trouble'} \subseteq Nat
  PROVE  MediaSound'
<1>1. FilesOK /\ WritersOK /\ TasksOK /\ StoreOK(object, ref, files) /\ FreshOK /\ BoundOK
  BY DEF MediaSound
<1>2. FilesOK'
  BY <1>1 DEF FilesOK
<1>3. \A w \in Writers : writer'[w].op # "idle" => writer'[w] = writer[w]
  BY DEF Idle
<1>4. ASSUME NEW w \in Writers
      PROVE  /\ Fresh(w)' => Fresh(w) /\ writer'[w] = writer[w]
             /\ HasOwn(w)' => HasOwn(w) /\ writer'[w] = writer[w]
  BY <1>3 DEF Fresh, HasOwn
<1>5. WritersOK'
  <2>1. ASSUME NEW w \in Writers PROVE WriterOK(writer[w])'
    <3>1. CASE writer'[w] = Idle
      BY <3>1 DEF WriterOK, Idle
    <3>2. CASE writer'[w] = writer[w]
      BY <1>1, <3>2 DEF WritersOK, WriterOK
    <3> QED
      BY <3>1, <3>2
  <2> QED
    BY <1>1, <1>4, <2>1 DEF WritersOK
<1>6. TasksOK'
  BY <1>1 DEF TasksOK
<1>7. StoreOK(object, ref, files)'
  <2>1. object \in [Holdings -> Objects]
    BY <1>1 DEF StoreOK, Exact
  <2>2. StoreOK(object', ref', files')
    BY <1>1, <2>1, FilesGo
  <2> QED
    BY <2>2, StoreAfter
<1>8. FreshOK'
  <2>1. ASSUME NEW w \in Writers, Fresh(w)' PROVE FreshIn(object, files, w)'
    <3>1. Fresh(w) /\ writer'[w] = writer[w]
      BY <1>4, <2>1
    <3>2. FreshIn(object, files', w)
      BY <1>1, <3>1, FreshFilesGo DEF FreshOK
    <3> QED
      BY <3>1, <3>2 DEF FreshIn
  <2> QED
    BY <2>1 DEF FreshOK
<1>9. BoundOK'
  <2>1. ASSUME NEW w \in Writers, writer'[w].op = "binding" PROVE BoundIn(object, ref, files, w)'
    <3>1. writer'[w] = writer[w] /\ BoundIn(object, ref, files, w) /\ saves \in 0..MaxSaves
      BY <1>1, <1>3, <2>1 DEF BoundOK, FilesOK
    <3>2. BoundIn(object, ref, files', w)
      BY <3>1, BoundFilesGo
    <3> QED
      BY <1>4, <3>1, <3>2 DEF BoundIn, Fresh
  <2> QED
    BY <2>1 DEF BoundOK
<1> QED
  BY <1>2, <1>5, <1>6, <1>7, <1>8, <1>9 DEF MediaSound

\* A writer enters its file in the cache: an upload goes on to the library with
\* the file that the cache names, the others have done with theirs.
LEMMA WriterPuts ==
  ASSUME MediaSound, NEW w \in Writers, NEW key \in Keys, NEW state,
         writer[w].op \in {"image", "media", "migrating", "generated"},
         Put(key, writer[w].of, writer[w].path),
         \A s \in Shots : key = <<"row", s>> <=> writer[w].path = s,
         \A v \in Writers : writer[v].op = "binding" => key # <<"upload", writer[v].path>>,
         files' \in [Paths -> Contents \cup {None}], \A p \in Paths : files'[p] \in {files[p], None},
         Become(w, state), WriterOK(state),
         \/ state.op \in {"idle", "cached"}
         \/ /\ state.op = "binding" /\ writer[w].op = "image" /\ key = <<"upload", writer[w].path>>
            /\ state.path = writer[w].path /\ state.of = writer[w].of
            /\ state.canonical = Canonical(key, writer[w].of, writer[w].path),
         AssetsOK', UNCHANGED <<task, cleaner, saves, values, trouble>>
  PROVE  MediaSound'
<1> DEFINE me == writer[w]
           c == me.of
           path == me.path
           objects == PutObjects(key, c, path)
           refs == PutRefs(key, c)
<1>1. FilesOK /\ WritersOK /\ TasksOK /\ StoreOK(object, ref, files) /\ FreshOK /\ BoundOK
  BY DEF MediaSound
<1>2. /\ DOMAIN writer = Writers /\ WriterOK(me) /\ saves \in 0..MaxSaves
      /\ writer' = [writer EXCEPT ![w] = state]
  BY <1>1 DEF FilesOK, WritersOK, Become
<1>3. c \in Contents /\ c \in Holdings
  BY <1>2, Places DEF WriterOK, Contents
<1>4. \/ path \in Numbered /\ path <= saves /\ Fresh(w) /\ FreshIn(object, files, w)
      \/ path \in Shots /\ c \in Videos
  <2>1. CASE path \in 1..saves
    <3>1. path \in Numbered /\ path <= saves
      BY <1>2, <2>1, Places
    <3> QED
      BY <1>1, <3>1 DEF Fresh, FreshOK
  <2>2. CASE path \notin 1..saves
    BY <1>2, <2>2 DEF WriterOK
  <2> QED
    BY <2>1, <2>2
<1>5. path \in Paths /\ path # NoPath
  BY <1>4, Places
<1>6. /\ path \in Numbered => path <= saves /\ files[path] \in {c, None}
      /\ path \in Shots => c \in Videos /\ key = <<"row", path>>
      /\ \A s \in Shots : key = <<"row", s>> => path = s
      /\ files[path] # None => task[path].status = "none"
  <2>1. CASE path \in Numbered /\ path <= saves /\ Fresh(w) /\ FreshIn(object, files, w)
    BY <2>1, Places DEF FreshIn
  <2>2. CASE path \in Shots /\ c \in Videos
    BY <1>1, <1>5, <2>2, Places DEF TasksOK
  <2> QED
    BY <1>4, <2>1, <2>2
<1>7. /\ object' = objects /\ ref' = refs
      /\ StoreOK(objects, refs, files) /\ PathsPut(key, c, path, objects)
      /\ \A v \in Writers : Fresh(v) /\ writer[v].path # path => FreshIn(objects, files, v)
      /\ \A v \in Writers : writer[v].op = "binding" /\ key # <<"upload", writer[v].path>>
                           => BoundIn(objects, refs, files, v)
  <2> HIDE DEF c, path
  <2> QED
    BY <1>3, <1>5, <1>6, PutKeeps DEF Put, c, path
<1> HIDE DEF objects, refs
<1>8. objects \in [Holdings -> Objects]
  BY <1>7 DEF StoreOK, Exact
<1>9. FilesOK'
  BY <1>1 DEF FilesOK
<1>10. TasksOK'
  BY <1>1 DEF TasksOK
<1>11. StoreOK(object, ref, files)'
  <2>1. StoreOK(object', ref', files')
    BY <1>7, <1>8, FilesGo
  <2> QED
    BY <2>1, StoreAfter
<1>12. ASSUME NEW v \in Writers
       PROVE  /\ Fresh(v)' => Fresh(v) /\ v # w /\ writer'[v] = writer[v] /\ writer[v].path # path
              /\ HasOwn(v)' => /\ v = w => writer[w].op = "image" /\ writer'[w].path = path
                               /\ v # w => HasOwn(v) /\ writer'[v] = writer[v]
  <2>1. CASE v = w
    <3>1. writer'[v] = state
      BY <1>2, <2>1
    <3> QED
      BY <2>1, <3>1 DEF Fresh, HasOwn
  <2>2. CASE v # w
    <3>1. writer'[v] = writer[v]
      BY <1>2, <2>2
    <3>2. Fresh(v) => writer[v].path # path
      BY <1>1, <1>4, <2>2, Places DEF WritersOK, HasOwn, Fresh
    <3> QED
      BY <2>2, <3>1, <3>2 DEF Fresh, HasOwn
  <2> QED
    BY <2>1, <2>2
<1>13. WritersOK'
  <2>1. ASSUME NEW v \in Writers PROVE WriterOK(writer[v])'
    <3>1. WriterOK(writer'[v])
      BY <1>1, <1>2 DEF WritersOK
    <3> QED
      BY <3>1 DEF WriterOK
  <2>2. ASSUME NEW v \in Writers, NEW u \in Writers, HasOwn(v)', HasOwn(u)', writer'[v].path = writer'[u].path
        PROVE  u = v
    <3>1. ASSUME NEW x \in Writers, HasOwn(x), writer[x].path = path, writer[w].op = "image" PROVE x = w
      <4>1. path \in 1..saves
        BY <1>2, <3>1 DEF WriterOK
      <4>2. HasOwn(w)
        BY <1>2, <3>1, <4>1, Places DEF HasOwn, Fresh
      <4> QED
        BY <1>1, <3>1, <4>2 DEF WritersOK
    <3>2. /\ v = w => writer[w].op = "image" /\ writer'[v].path = path
          /\ v # w => HasOwn(v) /\ writer'[v] = writer[v]
      BY <1>12, <2>2
    <3>3. /\ u = w => writer[w].op = "image" /\ writer'[u].path = path
          /\ u # w => HasOwn(u) /\ writer'[u] = writer[u]
      BY <1>12, <2>2
    <3> QED
      BY <1>1, <2>2, <3>1, <3>2, <3>3 DEF WritersOK
  <2> QED
    BY <1>2, <2>1, <2>2 DEF WritersOK
<1>14. FreshOK'
  <2>1. ASSUME NEW v \in Writers, Fresh(v)' PROVE FreshIn(object, files, v)'
    <3>1. Fresh(v) /\ v # w /\ writer'[v] = writer[v] /\ writer[v].path # path
      BY <1>12, <2>1
    <3>2. FreshIn(objects, files, v)
      BY <1>7, <3>1
    <3>3. FreshIn(objects, files', v)
      BY <3>1, <3>2, FreshFilesGo
    <3> QED
      BY <1>7, <3>1, <3>3 DEF FreshIn
  <2> QED
    BY <2>1 DEF FreshOK
<1>15. BoundOK'
  <2>1. ASSUME NEW v \in Writers, writer'[v].op = "binding", v # w PROVE BoundIn(object, ref, files, v)'
    <3>1. writer'[v] = writer[v] /\ key # <<"upload", writer[v].path>>
      BY <1>2, <2>1
    <3>2. BoundIn(objects, refs, files, v)
      BY <1>7, <2>1, <3>1
    <3>3. BoundIn(objects, refs, files', v)
      BY <1>2, <3>2, BoundFilesGo
    <3> QED
      BY <1>7, <1>12, <3>1, <3>3 DEF BoundIn, Fresh
  <2>2. ASSUME writer'[w].op = "binding" PROVE BoundIn(object, ref, files, w)'
    <3> DEFINE d == objects[c].path
    <3>1. writer'[w] = state
      BY <1>2
    <3>2. /\ writer[w].op = "image" /\ key = <<"upload", path>>
          /\ state.path = path /\ state.of = c /\ state.canonical = d
      BY <2>2, <3>1 DEF Canonical, objects
    <3>3. c \in Images /\ c \notin Videos /\ path \in Numbered /\ path <= saves
      BY <1>2, <1>4, <3>2, Places DEF WriterOK
    <3>4. d = IF Reused(c, path) THEN object[c].path ELSE path
      BY <1>3, <1>7 DEF PathsPut
    <3>5. object[c].path \in Paths \cup {NoPath}
      BY <1>1, <1>3 DEF StoreOK, Exact, Objects
    <3>6. Reused(c, path) => object[c].path \in Paths
      BY <1>5, <3>5 DEF Reused, Renewed
    <3>7. d \in Numbered
      BY <1>1, <1>3, <3>3, <3>4, <3>6 DEF StoreOK, Names, Paths, Numbered
    <3>8. d <= saves /\ files[d] \in {c, None}
      BY <1>3, <1>7, <3>7 DEF StoreOK, Names
    <3>9. d \in 1..saves /\ files'[d] \in {c, None}
      BY <1>2, <3>7, <3>8, Places DEF Numbered
    <3>10. refs[<<"upload", path>>].to = c
      BY <1>1, <3>2 DEF refs, PutRefs, StoreOK, Exact
    <3>11. ASSUME NEW v \in Writers, Fresh(v)' PROVE writer'[v].path # d
      <4>1. Fresh(v) /\ writer'[v] = writer[v] /\ writer[v].path # path
        BY <1>12, <3>11
      <4>2. \A x \in Holdings : object[x].path # writer[v].path
        BY <1>1, <4>1 DEF FreshOK, FreshIn
      <4> QED
        BY <1>3, <3>4, <4>1, <4>2
    <3> HIDE DEF d
    <3> QED
      BY <1>7, <3>1, <3>2, <3>9, <3>10, <3>11 DEF BoundIn, d
  <2> QED
    BY <2>1, <2>2 DEF BoundOK
<1> QED
  BY <1>9, <1>10, <1>11, <1>13, <1>14, <1>15 DEF MediaSound

\* A writer saves a file: one that nobody names, or the composition of a shot.
LEMMA WriterSaves ==
  ASSUME MediaSound, NEW w \in Writers, NEW c \in Contents, NEW path, NEW state,
         writer[w] = Idle, Saved(path, c), Become(w, state),
         \/ state = [op |-> "image", path |-> path, of |-> c] /\ c \in Images /\ path = saves + 1
         \/ state = [op |-> "media", path |-> path, of |-> c] /\ c \in Videos /\ path = saves + 1
         \/ \E row \in Shots \cup Clips :
              /\ state = [op |-> "generated", row |-> row, path |-> path, of |-> c] /\ c \in Videos
              /\ path = IF row \in Shots THEN row ELSE saves + 1
         \/ \E a \in AssetIds :
              state = [op |-> "migrating", asset |-> a, path |-> path, of |-> c] /\ path = saves + 1,
         UNCHANGED <<store, asset, task, cleaner, values, trouble>>
  PROVE  MediaSound'
<1>1. FilesOK /\ WritersOK /\ TasksOK /\ StoreOK(object, ref, files) /\ FreshOK /\ BoundOK
  BY DEF MediaSound
<1>2. /\ saves \in 0..MaxSaves /\ saves \in Nat /\ saves + 1 \in Numbered /\ saves' = saves + 1
      /\ saves' \in 0..MaxSaves /\ files' = [files EXCEPT ![path] = c] /\ writer' = [writer EXCEPT ![w] = state]
      /\ DOMAIN writer = Writers
  BY <1>1, Places DEF FilesOK, Saved, Numbered, Become, WritersOK
<1>3. \/ path = saves + 1
      \/ path \in Shots /\ state.op = "generated"
  OBVIOUS
<1>4. path \in Paths /\ state.path = path /\ state.of = c
      /\ state.op \in {"image", "media", "generated", "migrating"}
  BY <1>2, <1>3, Places
<1>5. \A n \in 1..saves : n \in 1..saves' /\ n \in Numbered /\ n # path /\ n <= saves'
  BY <1>2, <1>3, Places
<1>6. /\ object' = object /\ ref' = ref /\ task' = task /\ cleaner' = cleaner /\ asset' = asset
      /\ files \in [Paths -> Contents \cup {None}]
  BY <1>1 DEF store, FilesOK
<1>7. \A p \in Paths : files'[p] = IF p = path THEN c ELSE files[p]
  BY <1>2, <1>6
<1>8. FilesOK'
  BY <1>1, <1>2, <1>4 DEF FilesOK
<1>9. ASSUME NEW v \in Writers, v # w
      PROVE  /\ writer'[v] = writer[v] /\ WriterOK(writer[v])
             /\ Fresh(v)' <=> Fresh(v)
             /\ HasOwn(v)' <=> HasOwn(v)
             /\ HasOwn(v) => writer[v].path \in 1..saves
             /\ Fresh(v) => HasOwn(v)
  <2>1. writer'[v] = writer[v] /\ WriterOK(writer[v])
    BY <1>1, <1>2, <1>9 DEF WritersOK
  <2>2. HasOwn(v) => writer[v].path \in 1..saves
    BY <2>1, <1>2, Places DEF HasOwn, Fresh, WriterOK
  <2> QED
    BY <2>1, <2>2 DEF HasOwn, Fresh
<1>10. /\ writer'[w] = state
       /\ Fresh(w)' => path = saves + 1
       /\ HasOwn(w)' => path = saves + 1
  <2>1. writer'[w] = state
    BY <1>2
  <2>2. path \in Shots => path \notin Numbered
    BY Places
  <2> QED
    BY <2>1, <2>2, <1>3, <1>4 DEF HasOwn, Fresh
<1>11. WritersOK'
  <2>1. WriterOK(state)'
    <3>1. saves + 1 \in 1..saves' /\ Numbered \cap Shots = {}
      BY <1>2, Places
    <3> QED
      BY <3>1 DEF WriterOK
  <2>2. ASSUME NEW v \in Writers PROVE WriterOK(writer[v])'
    <3>1. CASE v = w
      BY <1>10, <2>1, <3>1 DEF WriterOK
    <3>2. CASE v # w
      <4>1. WriterOK(writer[v]) /\ writer'[v] = writer[v]
        BY <1>9, <3>2
      <4> QED
        BY <4>1, <1>5 DEF WriterOK
    <3> QED
      BY <3>1, <3>2
  <2>3. ASSUME NEW x \in Writers, NEW y \in Writers, HasOwn(x)', HasOwn(y)', writer'[x].path = writer'[y].path
        PROVE  x = y
    <3>1. CASE x # w /\ y # w
      <4>1. HasOwn(x) /\ HasOwn(y) /\ writer[x].path = writer[y].path
        BY <1>9, <2>3, <3>1
      <4> QED
        BY <1>1, <4>1 DEF WritersOK
    <3>2. CASE x = w /\ y # w
      <4>1. writer'[y].path \in 1..saves
        BY <1>9, <2>3, <3>2
      <4>2. writer'[x].path = saves + 1
        BY <1>4, <1>10, <2>3, <3>2
      <4> QED
        BY <4>1, <4>2, <2>3, <1>2
    <3>3. CASE x # w /\ y = w
      <4>1. writer'[x].path \in 1..saves
        BY <1>9, <2>3, <3>3
      <4>2. writer'[y].path = saves + 1
        BY <1>4, <1>10, <2>3, <3>3
      <4> QED
        BY <4>1, <4>2, <2>3, <1>2
    <3> QED
      BY <3>1, <3>2, <3>3
  <2> QED
    BY <1>2, <2>2, <2>3 DEF WritersOK
<1>12. TasksOK'
  <2>1. \A p \in Paths : p \in Shots \/ p \in Numbered
    BY DEF Paths, Numbered
  <2>2. \A p \in Numbered : p > saves' => p > saves
    BY <1>2 DEF Numbered
  <2> QED
    BY <1>1, <1>6, <2>1, <2>2 DEF TasksOK
<1>13. /\ \A x \in Holdings : path \in Numbered => object[x].path # path
       /\ task[path].status = "none"
  <2>1. CASE path = saves + 1
    <3>1. \A x \in Holdings : object[x].path \in Numbered => object[x].path <= saves
      BY <1>1 DEF StoreOK, Names
    <3>2. saves + 1 > saves /\ \A n \in Numbered : n <= saves => n # saves + 1
      BY <1>2 DEF Numbered
    <3> QED
      BY <2>1, <3>1, <3>2, <1>1, <1>2, <1>4 DEF TasksOK
  <2>2. CASE path \in Shots
    BY <1>1, <1>4, <2>2, Places DEF TasksOK
  <2> QED
    BY <2>1, <2>2, <1>3
<1>14. StoreOK(object, ref, files)'
  <2>1. Names(object, ref, files)'
    <3>1. ASSUME NEW x \in Holdings, object[x].path \in Numbered
          PROVE  object[x].path <= saves' /\ files'[object[x].path] \in {x, None}
      <4>1. object[x].path <= saves /\ files[object[x].path] \in {x, None}
        BY <1>1, <3>1 DEF StoreOK, Names
      <4>2. object[x].path # path /\ object[x].path <= saves'
        BY <1>2, <1>13, <3>1, <4>1 DEF Numbered
      <4> QED
        BY <1>7, <3>1, <4>1, <4>2, Places
    <3> QED
      BY <1>1, <1>6, <3>1 DEF StoreOK, Names, Numbered
  <2>2. Spared(object, files)'
    BY <1>1, <1>6, <1>7, <1>13 DEF StoreOK, Spared
  <2> QED
    BY <1>1, <1>6, <2>1, <2>2 DEF StoreOK, Exact, DueOK, Holders
<1>15. FreshOK'
  <2>1. ASSUME NEW v \in Writers, Fresh(v)', v # w PROVE FreshIn(object, files, v)'
    <3>1. FreshIn(object, files, v) /\ writer'[v] = writer[v] /\ writer[v].path \in 1..saves
      BY <1>1, <1>9, <2>1 DEF FreshOK
    <3> QED
      BY <1>5, <1>6, <1>7, <3>1, Places DEF FreshIn
  <2>2. ASSUME Fresh(w)' PROVE FreshIn(object, files, w)'
    BY <1>2, <1>4, <1>6, <1>7, <1>10, <1>13, <2>2 DEF FreshIn
  <2> QED
    BY <2>1, <2>2 DEF FreshOK
<1>16. BoundOK'
  <2>1. ASSUME NEW v \in Writers, writer'[v].op = "binding" PROVE BoundIn(object, ref, files, v)'
    <3>1. v # w
      BY <1>4, <1>10, <2>1
    <3>2. BoundIn(object, ref, files, v) /\ writer'[v] = writer[v]
      BY <1>1, <1>9, <2>1, <3>1 DEF BoundOK
    <3>3. writer[v].canonical \in 1..saves' /\ writer[v].canonical \in Paths /\ writer[v].canonical # path
      BY <1>5, <3>2, Places DEF BoundIn
    <3>4. ASSUME NEW u \in Writers, Fresh(u)' PROVE writer'[u].path # writer'[v].canonical
      <4>1. CASE u = w
        BY <1>4, <1>10, <3>2, <3>3, <4>1
      <4>2. CASE u # w
        <5>1. Fresh(u) /\ writer'[u] = writer[u]
          BY <1>9, <3>4, <4>2
        <5> QED
          BY <3>2, <5>1 DEF BoundIn
      <4> QED
        BY <4>1, <4>2
    <3> QED
      BY <1>6, <1>7, <3>2, <3>3, <3>4 DEF BoundIn
  <2> QED
    BY <2>1 DEF BoundOK
<1> QED
  BY <1>1, <1>6, <1>8, <1>11, <1>12, <1>14, <1>15, <1>16 DEF MediaSound, AssetsOK

\* The tables of the cache move; a writer whose upload is bound, or is not, has done.
LEMMA StoreMoves ==
  ASSUME MediaSound, UNCHANGED <<files, task, cleaner, saves>>, StoreOK(object', ref', files),
         AssetsOK', {values', trouble'} \subseteq Nat, DOMAIN writer' = Writers,
         \A v \in Writers : \/ writer'[v] = writer[v]
                            \/ writer'[v] = Idle
                            \/ /\ writer[v].op = "binding" /\ writer'[v].op = "unbinding"
                               /\ writer'[v].path = writer[v].path,
         \A v \in Writers : Fresh(v) => FreshIn(object', files, v),
         \A v \in Writers : writer[v].op = "binding" /\ writer'[v] = writer[v] => BoundIn(object', ref', files, v)
  PROVE  MediaSound'
<1>1. FilesOK /\ WritersOK /\ TasksOK
  BY DEF MediaSound
<1>2. FilesOK' /\ TasksOK'
  BY <1>1 DEF FilesOK, TasksOK
<1>3. StoreOK(object, ref, files)'
  BY StoreAfter
<1>4. ASSUME NEW v \in Writers
      PROVE  /\ Fresh(v)' => Fresh(v) /\ writer'[v] = writer[v]
             /\ HasOwn(v)' => HasOwn(v) /\ writer'[v].path = writer[v].path
             /\ WriterOK(writer[v])'
             /\ writer'[v].op = "binding" => writer'[v] = writer[v]
  <2>1. CASE writer'[v] = writer[v]
    BY <1>1, <2>1 DEF WritersOK, WriterOK, Fresh, HasOwn
  <2>2. CASE writer'[v] = Idle
    BY <2>2 DEF WriterOK, Idle, Fresh, HasOwn
  <2>3. CASE /\ writer[v].op = "binding" /\ writer'[v].op = "unbinding"
             /\ writer'[v].path = writer[v].path
    BY <1>1, <2>3 DEF WritersOK, WriterOK, Fresh, HasOwn
  <2> QED
    BY <2>1, <2>2, <2>3
<1>5. WritersOK'
  <2>1. ASSUME NEW w \in Writers, NEW v \in Writers, HasOwn(w)', HasOwn(v)', writer'[w].path = writer'[v].path
        PROVE  w = v
    <3>1. HasOwn(w) /\ HasOwn(v) /\ writer[w].path = writer[v].path
      BY <1>4, <2>1
    <3> QED
      BY <1>1, <3>1 DEF WritersOK
  <2> QED
    BY <1>4, <2>1 DEF WritersOK
<1>6. FreshOK'
  <2>1. ASSUME NEW v \in Writers, Fresh(v)' PROVE FreshIn(object, files, v)'
    <3>1. Fresh(v) /\ writer'[v] = writer[v]
      BY <1>4, <2>1
    <3>2. FreshIn(object', files, v)
      BY <3>1
    <3> QED
      BY <3>1, <3>2 DEF FreshIn
  <2> QED
    BY <2>1 DEF FreshOK
<1>7. BoundOK'
  <2>1. ASSUME NEW v \in Writers, writer'[v].op = "binding" PROVE BoundIn(object, ref, files, v)'
    <3>1. writer'[v] = writer[v] /\ writer[v].op = "binding"
      BY <1>4, <2>1
    <3>2. BoundIn(object', ref', files, v)
      BY <3>1
    <3> QED
      BY <1>4, <3>1, <3>2 DEF BoundIn, Fresh
  <2> QED
    BY <2>1 DEF BoundOK
<1> QED
  BY <1>2, <1>3, <1>5, <1>6, <1>7 DEF MediaSound

LEMMA AllKeep ==
  ASSUME MediaSound
  PROVE  /\ FilesOK /\ WritersOK /\ TasksOK /\ StoreOK(object, ref, files) /\ AssetsOK
         /\ DOMAIN writer = Writers /\ saves \in 0..MaxSaves
         /\ \A v \in Writers : WriterOK(writer[v])
         /\ \A v \in Writers : Fresh(v) => FreshIn(object, files, v)
         /\ \A v \in Writers : writer[v].op = "binding" => BoundIn(object, ref, files, v)
BY DEF MediaSound, FilesOK, WritersOK, FreshOK, BoundOK

LEMMA SaveUploadStep ==
  ASSUME MediaSound, NEW w \in Writers, NEW c \in Contents,
         \/ SaveUpload(w, "image", c) /\ c \in Images
         \/ SaveUpload(w, "media", c) /\ c \in Videos
  PROVE  MediaSound'
BY WriterSaves DEF SaveUpload

LEMMA GenerateStep ==
  ASSUME MediaSound, NEW w \in Writers, NEW c \in Videos, NEW row \in Shots \cup Clips, Generate(w, row, c)
  PROVE  MediaSound'
<1> DEFINE path == IF row \in Shots THEN row ELSE saves + 1
<1>1. c \in Contents
  BY DEF Contents
<1>2. writer[w] = Idle /\ Saved(path, c) /\ Become(w, [op |-> "generated", row |-> row, path |-> path, of |-> c])
      /\ UNCHANGED <<store, asset, task, cleaner, values, trouble>>
  BY DEF Generate
<1> HIDE DEF path
<1> QED
  BY <1>1, <1>2, WriterSaves DEF path

LEMMA MigrateStep ==
  ASSUME MediaSound, NEW w \in Writers, NEW a \in AssetIds, NEW c \in Contents, Migrate(w, a, c)
  PROVE  MediaSound'
BY WriterSaves DEF Migrate

\* The writer's own file goes, or stays.
LEMMA OneFileGoes ==
  ASSUME FilesOK, NEW path, files' = files \/ files' = [files EXCEPT ![path] = None]
  PROVE  files' \in [Paths -> Contents \cup {None}] /\ \A p \in Paths : files'[p] \in {files[p], None}
BY DEF FilesOK

\* A row of the library is written.
LEMMA OneAssetWritten ==
  ASSUME AssetsOK, NEW a \in AssetIds, NEW row, asset' \in {asset, [asset EXCEPT ![a] = row]},
         row.state \in {"none", "own", "made", "remote", "deleted"}, row.path \in Paths \cup {NoPath},
         row.of \in Contents \cup Shots \cup Clips \cup {None},
         row = [state |-> row.state, path |-> row.path, of |-> row.of]
  PROVE  AssetsOK'
BY DEF AssetsOK

\* What a writer has in memory that is about to enter its file in the cache.
LEMMA WritersFile ==
  ASSUME MediaSound, NEW w \in Writers, writer[w].op \in {"image", "media", "migrating", "generated"}
  PROVE  /\ writer[w].of \in Contents /\ writer[w].of \in Holdings
         /\ writer[w].path \in Paths
         /\ \/ writer[w].path \in 1..saves /\ writer[w].path \in Numbered /\ writer[w].path \notin Shots /\ HasOwn(w)
            \/ writer[w].op = "generated" /\ writer[w].row \in Shots /\ writer[w].path = writer[w].row
         /\ \A key \in Keys : Canonical(key, writer[w].of, writer[w].path) \in Paths \cup {NoPath}
         /\ \A v \in Writers : writer[v].op = "binding" /\ writer[w].path \in Numbered
                              => writer[v].path # writer[w].path
<1>1. WriterOK(writer[w]) /\ saves \in 0..MaxSaves /\ WritersOK /\ Exact(object, ref)
  BY AllKeep DEF StoreOK
<1>2. writer[w].of \in Contents /\ writer[w].of \in Holdings
  BY <1>1, Places DEF WriterOK, Contents
<1>3. \/ writer[w].path \in 1..saves
      \/ writer[w].op = "generated" /\ writer[w].row \in Shots /\ writer[w].path = writer[w].row
  BY <1>1 DEF WriterOK
<1>4. writer[w].path \in 1..saves =>
        writer[w].path \in Numbered /\ writer[w].path \notin Shots /\ HasOwn(w) /\ writer[w].path \in Paths
  BY <1>1, Places DEF HasOwn, Fresh
<1>5. writer[w].path \in Paths
  BY <1>3, <1>4, Places
<1>6. ASSUME NEW key \in Keys
      PROVE  Canonical(key, writer[w].of, writer[w].path) \in Paths \cup {NoPath}
  <2>1. Exact(PutObjects(key, writer[w].of, writer[w].path), PutRefs(key, writer[w].of))
    BY <1>1, <1>2, <1>5, PutExact
  <2> QED
    BY <1>2, <2>1 DEF Exact, Objects, Canonical
<1>7. ASSUME NEW v \in Writers, writer[v].op = "binding", writer[w].path \in Numbered
      PROVE  writer[v].path # writer[w].path
  <2>1. HasOwn(v) /\ v # w
    BY <1>7 DEF HasOwn
  <2>2. HasOwn(w)
    BY <1>7 DEF HasOwn, Fresh
  <2> QED
    BY <1>1, <2>1, <2>2 DEF WritersOK
<1> QED
  BY <1>2, <1>3, <1>4, <1>5, <1>6, <1>7

LEMMA PutUploadStep ==
  ASSUME MediaSound, NEW w \in Writers, PutUpload(w)
  PROVE  MediaSound'
<1> DEFINE me == writer[w]
           key == <<"upload", me.path>>
           state == [op |-> "binding", path |-> me.path, of |-> me.of,
                     canonical |-> Canonical(key, me.of, me.path), reused |-> Reused(me.of, me.path)]
<1>1. me.op = "image" /\ Put(key, me.of, me.path) /\ files' = FilesAfterPut(key, me.of, me.path)
      /\ Become(w, state) /\ UNCHANGED <<asset, task, cleaner, saves, values, trouble>>
  BY DEF PutUpload
<1>2. AssetsOK /\ FilesOK /\ WriterOK(me)
  BY AllKeep
<1>3. me.path \in 1..saves /\ me.path \in Numbered /\ me.path \notin Shots
      /\ \A v \in Writers : writer[v].op = "binding" => writer[v].path # me.path
  BY <1>1, WritersFile
<1>4. key \in Keys /\ (\A s \in Shots : key = <<"row", s>> <=> me.path = s)
      /\ \A v \in Writers : writer[v].op = "binding" => key # <<"upload", writer[v].path>>
  BY <1>3, Places
<1>5. files' \in [Paths -> Contents \cup {None}] /\ \A p \in Paths : files'[p] \in {files[p], None}
  BY <1>1, <1>2, OneFileGoes DEF FilesAfterPut
<1>6. WriterOK(state)
  BY <1>1, <1>2, <1>3 DEF WriterOK
<1>7. state.op = "binding" /\ state.path = me.path /\ state.of = me.of /\ state.canonical = Canonical(key, me.of, me.path)
  OBVIOUS
<1>8. AssetsOK'
  BY <1>1, <1>2 DEF AssetsOK
<1> HIDE DEF state
<1> QED
  BY <1>1, <1>4, <1>5, <1>6, <1>7, <1>8, WriterPuts

LEMMA RegisterMediaStep ==
  ASSUME MediaSound, NEW w \in Writers, RegisterMedia(w)
  PROVE  MediaSound'
<1> DEFINE me == writer[w]
           a == NewAsset
           key == <<"asset", a>>
           row == [state |-> "own", path |-> Canonical(key, me.of, me.path), of |-> me.of]
<1>1. me.op = "media" /\ RoomForAsset /\ Put(key, me.of, me.path) /\ files' = FilesAfterPut(key, me.of, me.path)
      /\ asset' = [asset EXCEPT ![a] = row] /\ Become(w, Idle) /\ UNCHANGED <<task, cleaner, saves, values, trouble>>
  BY DEF RegisterMedia
<1>2. AssetsOK /\ FilesOK /\ a \in AssetIds
  BY <1>1, AllKeep, NewAssetIsThere
<1> HIDE DEF a
<1>3. me.path \notin Shots
  BY <1>1, WritersFile
<1>4. key \in Keys /\ (\A s \in Shots : key = <<"row", s>> <=> me.path = s)
      /\ \A v \in Writers : writer[v].op = "binding" => key # <<"upload", writer[v].path>>
  BY <1>2, <1>3, Places
<1>5. files' \in [Paths -> Contents \cup {None}] /\ \A p \in Paths : files'[p] \in {files[p], None}
  BY <1>1, <1>2, OneFileGoes DEF FilesAfterPut
<1>6. WriterOK(Idle) /\ Idle.op = "idle"
  BY DEF WriterOK, Idle
<1>7. AssetsOK'
  <2>1. me.of \in Contents /\ row.path \in Paths \cup {NoPath}
    BY <1>1, <1>4, WritersFile
  <2>2. /\ row = [state |-> row.state, path |-> row.path, of |-> row.of]
        /\ row.state \in {"none", "own", "made", "remote", "deleted"} /\ row.of = me.of
    OBVIOUS
  <2>3. asset' \in {asset, [asset EXCEPT ![a] = row]}
    BY <1>1
  <2> HIDE DEF row
  <2> QED
    BY <1>2, <2>1, <2>2, <2>3, OneAssetWritten
<1> QED
  BY <1>1, <1>4, <1>5, <1>6, <1>7, WriterPuts

LEMMA CacheGeneratedStep ==
  ASSUME MediaSound, NEW w \in Writers, CacheGenerated(w)
  PROVE  MediaSound'
<1> DEFINE me == writer[w]
           key == <<"row", me.row>>
           state == [op |-> "cached", row |-> me.row, path |-> Canonical(key, me.of, me.path), of |-> me.of]
<1>1. me.op = "generated" /\ Put(key, me.of, me.path) /\ files' = FilesAfterPut(key, me.of, me.path)
      /\ Become(w, state) /\ UNCHANGED <<asset, task, cleaner, saves, values, trouble>>
  BY DEF CacheGenerated
<1>2. AssetsOK /\ FilesOK /\ WriterOK(me) /\ saves \in 0..MaxSaves
  BY AllKeep
<1>3. \/ me.row \in Shots /\ me.path = me.row
      \/ me.row \in Clips /\ me.path \in 1..saves
  BY <1>1, <1>2 DEF WriterOK
<1>4. key \in Keys /\ (\A s \in Shots : key = <<"row", s>> <=> me.path = s)
      /\ \A v \in Writers : writer[v].op = "binding" => key # <<"upload", writer[v].path>>
  <2>1. key \in Keys
    BY <1>3, Places
  <2>2. \A s \in Shots : me.row = s <=> me.path = s
    BY <1>2, <1>3, Places, MediaAssumption
  <2> QED
    BY <2>1, <2>2
<1>5. files' \in [Paths -> Contents \cup {None}] /\ \A p \in Paths : files'[p] \in {files[p], None}
  BY <1>1, <1>2, OneFileGoes DEF FilesAfterPut
<1>6. WriterOK(state)
  <2>1. state.path \in Paths \cup {NoPath} /\ state.op = "cached" /\ state.row \in Shots \cup Clips
    BY <1>1, <1>3, <1>4, WritersFile
  <2> QED
    BY <2>1 DEF WriterOK
<1>7. state.op = "cached"
  OBVIOUS
<1>8. AssetsOK'
  BY <1>1, <1>2 DEF AssetsOK
<1> HIDE DEF state
<1> QED
  BY <1>1, <1>4, <1>5, <1>6, <1>7, <1>8, WriterPuts

LEMMA RegisterMigratedStep ==
  ASSUME MediaSound, NEW w \in Writers, RegisterMigrated(w)
  PROVE  MediaSound'
<1> DEFINE me == writer[w]
           key == <<"asset", me.asset>>
           row == [state |-> "own", path |-> Canonical(key, me.of, me.path), of |-> me.of]
<1>1. /\ me.op = "migrating" /\ Put(key, me.of, me.path)
      /\ files' = files \/ files' = [files EXCEPT ![me.path] = None]
      /\ asset' \in {asset, [asset EXCEPT ![me.asset] = row]}
      /\ Become(w, Idle) /\ UNCHANGED <<task, cleaner, saves, values, trouble>>
  BY DEF RegisterMigrated
<1>2. AssetsOK /\ FilesOK /\ WriterOK(me)
  BY AllKeep
<1>3. me.path \notin Shots /\ me.asset \in AssetIds
  BY <1>1, <1>2, WritersFile DEF WriterOK
<1>4. key \in Keys /\ (\A s \in Shots : key = <<"row", s>> <=> me.path = s)
      /\ \A v \in Writers : writer[v].op = "binding" => key # <<"upload", writer[v].path>>
  BY <1>3, Places
<1>5. files' \in [Paths -> Contents \cup {None}] /\ \A p \in Paths : files'[p] \in {files[p], None}
  BY <1>1, <1>2, OneFileGoes
<1>6. WriterOK(Idle) /\ Idle.op = "idle"
  BY DEF WriterOK, Idle
<1>7. AssetsOK'
  <2>1. me.of \in Contents /\ row.path \in Paths \cup {NoPath}
    BY <1>1, <1>4, WritersFile
  <2> QED
    BY <1>1, <1>2, <1>3, <2>1, OneAssetWritten
<1> QED
  BY <1>1, <1>4, <1>5, <1>6, <1>7, WriterPuts

LEMMA BindUploadStep ==
  ASSUME MediaSound, NEW w \in Writers, BindUpload(w)
  PROVE  MediaSound'
<1> DEFINE me == writer[w]
           a == NewAsset
           own == <<"asset", a>>
           upload == <<"upload", me.path>>
           objects == PutObjects(own, me.of, me.canonical)
           refs == PutRefs(own, me.of)
           row == [state |-> "own", path |-> me.canonical, of |-> me.of]
<1>1. /\ me.op = "binding" /\ RoomForAsset /\ asset' = [asset EXCEPT ![a] = row]
      /\ object' = Released(objects, refs, upload) /\ ref' = Dropped(refs, upload)
      /\ Become(w, Idle) /\ UNCHANGED <<files, task, cleaner, saves, values, trouble>>
  BY DEF BindUpload
<1>2. /\ FilesOK /\ WritersOK /\ AssetsOK /\ WriterOK(me) /\ saves \in 0..MaxSaves /\ a \in AssetIds
      /\ DOMAIN writer = Writers /\ BoundIn(object, ref, files, w) /\ TasksOK /\ StoreOK(object, ref, files)
      /\ \A v \in Writers : Fresh(v) => FreshIn(object, files, v)
  BY <1>1, AllKeep, NewAssetIsThere
<1> HIDE DEF a
<1>3. /\ me.of \in Images /\ me.of \in Holdings /\ me.of \in Contents
      /\ me.path \in 1..saves /\ me.canonical \in 1..saves
      /\ me.canonical \in Numbered /\ me.canonical \in Paths /\ me.canonical \notin Shots /\ me.canonical <= saves
  BY <1>1, <1>2, Places DEF WriterOK, Contents, BoundIn
<1>4. own \in Keys /\ upload \in Keys
  BY <1>2, <1>3, Places
<1>5. /\ files[me.canonical] \in {me.of, None}
      /\ files[me.canonical] # None => task[me.canonical].status = "none"
      /\ \A v \in Writers : Fresh(v) => writer[v].path # me.canonical
  BY <1>2, <1>3 DEF BoundIn, StoreOK, Spared
<1>6. /\ StoreOK(objects, refs, files)
      /\ \A v \in Writers : Fresh(v) /\ writer[v].path # me.canonical => FreshIn(objects, files, v)
      /\ \A v \in Writers : writer[v].op = "binding" /\ own # <<"upload", writer[v].path>>
                           => BoundIn(objects, refs, files, v)
  <2> DEFINE c == me.of
             path == me.canonical
  <2>1. /\ path \in Numbered => path <= saves /\ files[path] \in {c, None}
        /\ path \in Shots => c \in Videos /\ own = <<"row", path>>
        /\ \A s \in Shots : own = <<"row", s>> => path = s
        /\ path \in Paths /\ files[path] # None => task[path].status = "none"
        /\ path \in Paths \cup {NoPath} /\ c \in Holdings
    BY <1>3, <1>5
  <2> HIDE DEF c, path, own
  <2>2. /\ StoreOK(PutObjects(own, c, path), PutRefs(own, c), files)
        /\ \A v \in Writers : Fresh(v) /\ writer[v].path # path => FreshIn(PutObjects(own, c, path), files, v)
        /\ \A v \in Writers : writer[v].op = "binding" /\ own # <<"upload", writer[v].path>>
                             => BoundIn(PutObjects(own, c, path), PutRefs(own, c), files, v)
    BY <1>4, <2>1, PutKeeps
  <2> QED
    BY <2>2 DEF c, path
<1> HIDE DEF objects, refs
<1>7. StoreOK(object', ref', files')
  <2>1. \A s \in Shots : upload # <<"row", s>>
    OBVIOUS
  <2> QED
    BY <1>1, <1>2, <1>4, <1>6, <2>1, ReleaseKeeps
<1>8. ASSUME NEW v \in Writers, Fresh(v) PROVE FreshIn(object', files, v)
  <2>1. FreshIn(objects, files, v)
    BY <1>5, <1>6, <1>8
  <2> QED
    BY <1>1, <1>2, <1>4, <1>6, <2>1, ReleaseKeeps
<1>9. ASSUME NEW v \in Writers, writer[v].op = "binding", writer'[v] = writer[v]
      PROVE  BoundIn(object', ref', files, v)
  <2>1. v # w
    BY <1>1, <1>2, <1>9 DEF Become, Idle
  <2>2. writer[v].path # me.path
    BY <1>1, <1>2, <1>9, <2>1 DEF WritersOK, HasOwn
  <2>3. upload # <<"upload", writer[v].path>> /\ own # <<"upload", writer[v].path>>
    BY <2>2
  <2>4. BoundIn(objects, refs, files, v)
    BY <1>6, <1>9, <2>3
  <2> QED
    BY <1>1, <1>2, <1>4, <1>6, <1>9, <2>3, <2>4, ReleaseKeeps
<1>10. AssetsOK'
  <2>1. /\ row = [state |-> row.state, path |-> row.path, of |-> row.of] /\ row.of \in Contents
        /\ row.state \in {"none", "own", "made", "remote", "deleted"} /\ row.path \in Paths
    BY <1>3
  <2>2. asset' \in {asset, [asset EXCEPT ![a] = row]}
    BY <1>1
  <2> HIDE DEF row
  <2> QED
    BY <1>2, <2>1, <2>2, OneAssetWritten
<1>11. {values', trouble'} \subseteq Nat /\ DOMAIN writer' = Writers
       /\ \A v \in Writers : writer'[v] = writer[v] \/ writer'[v] = Idle
  BY <1>1, <1>2 DEF FilesOK, Become
<1> QED
  BY <1>1, <1>7, <1>8, <1>9, <1>10, <1>11, StoreMoves

LEMMA UnbindUploadStep ==
  ASSUME MediaSound, NEW w \in Writers, UnbindUpload(w)
  PROVE  MediaSound'
<1> DEFINE me == writer[w]
           upload == <<"upload", me.path>>
           state == [op |-> "unbinding", path |-> me.path, reused |-> me.reused]
<1>1. /\ me.op = "binding" /\ trouble' = trouble + 1
      /\ object' = Released(object, ref, upload) /\ ref' = Dropped(ref, upload)
      /\ Become(w, state) /\ UNCHANGED <<files, asset, task, cleaner, saves, values>>
  BY DEF UnbindUpload, Troubled
<1>2. /\ FilesOK /\ WritersOK /\ AssetsOK /\ WriterOK(me) /\ saves \in 0..MaxSaves
      /\ DOMAIN writer = Writers /\ StoreOK(object, ref, files)
      /\ \A v \in Writers : Fresh(v) => FreshIn(object, files, v)
      /\ \A v \in Writers : writer[v].op = "binding" => BoundIn(object, ref, files, v)
  BY AllKeep
<1>3. me.path \in 1..saves
  BY <1>1, <1>2 DEF WriterOK
<1>4. upload \in Keys /\ \A s \in Shots : upload # <<"row", s>>
  BY <1>2, <1>3, Places
<1>5. StoreOK(object', ref', files')
  BY <1>1, <1>2, <1>4, ReleaseKeeps
<1>6. ASSUME NEW v \in Writers, Fresh(v) PROVE FreshIn(object', files, v)
  BY <1>1, <1>2, <1>4, <1>6, ReleaseKeeps
<1>7. ASSUME NEW v \in Writers, writer[v].op = "binding", writer'[v] = writer[v]
      PROVE  BoundIn(object', ref', files, v)
  <2>1. v # w
    BY <1>1, <1>2, <1>7 DEF Become
  <2>2. writer[v].path # me.path
    BY <1>1, <1>2, <1>7, <2>1 DEF WritersOK, HasOwn
  <2>3. upload # <<"upload", writer[v].path>>
    BY <2>2
  <2> QED
    BY <1>1, <1>2, <1>4, <1>7, <2>3, ReleaseKeeps
<1>8. AssetsOK' /\ {values', trouble'} \subseteq Nat /\ DOMAIN writer' = Writers
  BY <1>1, <1>2 DEF AssetsOK, FilesOK, Become
<1>9. ASSUME NEW v \in Writers
      PROVE  \/ writer'[v] = writer[v]
             \/ /\ writer[v].op = "binding" /\ writer'[v].op = "unbinding" /\ writer'[v].path = writer[v].path
  BY <1>1, <1>2 DEF Become
<1> QED
  BY <1>1, <1>5, <1>6, <1>7, <1>8, <1>9, StoreMoves

LEMMA DeleteAssetStep ==
  ASSUME MediaSound, NEW a \in AssetIds, DeleteAsset(a)
  PROVE  MediaSound'
<1> DEFINE own == <<"asset", a>>
           row == [NoAsset EXCEPT !.state = "deleted"]
<1>1. /\ asset' = [asset EXCEPT ![a] = row]
      /\ \/ object' = object /\ ref' = ref
         \/ object' = Released(object, ref, own) /\ ref' = Dropped(ref, own)
      /\ UNCHANGED <<files, task, writer, cleaner, saves, values, trouble>>
  BY DEF DeleteAsset, store
<1>2. /\ FilesOK /\ WritersOK /\ AssetsOK /\ StoreOK(object, ref, files) /\ DOMAIN writer = Writers
      /\ \A v \in Writers : Fresh(v) => FreshIn(object, files, v)
      /\ \A v \in Writers : writer[v].op = "binding" => BoundIn(object, ref, files, v)
  BY AllKeep
<1>3. own \in Keys /\ (\A s \in Shots : own # <<"row", s>>) /\ \A n : own # <<"upload", n>>
  BY Places
<1>4. StoreOK(object', ref', files')
  BY <1>1, <1>2, <1>3, ReleaseKeeps
<1>5. ASSUME NEW v \in Writers, Fresh(v) PROVE FreshIn(object', files, v)
  BY <1>1, <1>2, <1>3, <1>5, ReleaseKeeps
<1>6. ASSUME NEW v \in Writers, writer[v].op = "binding" PROVE BoundIn(object', ref', files, v)
  BY <1>1, <1>2, <1>3, <1>6, ReleaseKeeps
<1>7. AssetsOK'
  <2>1. row = [state |-> "deleted", path |-> NoPath, of |-> None]
    BY DEF NoAsset
  <2>2. /\ row = [state |-> row.state, path |-> row.path, of |-> row.of]
        /\ row.state = "deleted" /\ row.path = NoPath /\ row.of = None
    BY <2>1
  <2>3. asset' \in {asset, [asset EXCEPT ![a] = row]}
    BY <1>1
  <2> HIDE DEF row
  <2> QED
    BY <1>2, <2>2, <2>3, OneAssetWritten
<1>8. {values', trouble'} \subseteq Nat
  BY <1>1, <1>2 DEF FilesOK
<1> QED
  BY <1>1, <1>2, <1>4, <1>5, <1>6, <1>7, <1>8, StoreMoves

LEMMA RemoveUnboundStep ==
  ASSUME MediaSound, NEW w \in Writers, RemoveUnbound(w) \/ DropUpload(w) \/ DropMigrated(w)
  PROVE  MediaSound'
<1>1. /\ files' = files \/ files' = [files EXCEPT ![writer[w].path] = None]
      /\ Become(w, Idle) /\ UNCHANGED <<object, ref, asset, task, cleaner, saves, values>>
      /\ trouble' = trouble \/ trouble' = trouble + 1
  BY DEF RemoveUnbound, DropUpload, DropMigrated, Troubled, store
<1>2. FilesOK /\ AssetsOK /\ TasksOK /\ DOMAIN writer = Writers
  BY AllKeep
<1>3. files' \in [Paths -> Contents \cup {None}] /\ \A p \in Paths : files'[p] \in {files[p], None}
  BY <1>1, <1>2, OneFileGoes
<1>4. DOMAIN writer' = Writers /\ \A v \in Writers : writer'[v] \in {writer[v], Idle}
  BY <1>1, <1>2 DEF Become
<1>5. DOMAIN cleaner' = Cleaners /\ (\A v \in Cleaners : cleaner'[v] \subseteq cleaner[v])
      /\ AssetsOK' /\ {values', trouble'} \subseteq Nat
  BY <1>1, <1>2 DEF TasksOK, AssetsOK, FilesOK
<1> QED
  BY <1>1, <1>3, <1>4, <1>5, Subsides

\* Steps that leave the cache and the files alone.
LEMMA QuietStep ==
  ASSUME MediaSound, UNCHANGED <<object, ref, task, saves, files>>, AssetsOK',
         values' = values, trouble' \in {trouble, trouble + 1},
         DOMAIN writer' = Writers, \A w \in Writers : writer'[w] \in {writer[w], Idle},
         DOMAIN cleaner' = Cleaners, \A w \in Cleaners : cleaner'[w] \subseteq cleaner[w]
  PROVE  MediaSound'
<1>1. FilesOK
  BY AllKeep
<1>2. files' \in [Paths -> Contents \cup {None}] /\ (\A p \in Paths : files'[p] \in {files[p], None})
      /\ {values', trouble'} \subseteq Nat
  BY <1>1 DEF FilesOK
<1> QED
  BY <1>2, Subsides

LEMMA CommitGeneratedStep ==
  ASSUME MediaSound, NEW w \in Writers, CommitGenerated(w)
  PROVE  MediaSound'
<1> DEFINE row == [state |-> "made", path |-> writer[w].path, of |-> writer[w].row]
           a == NewAsset
<1>1. /\ writer[w].op = "cached" /\ Become(w, Idle)
      /\ asset' = asset \/ (RoomForAsset /\ asset' = [asset EXCEPT ![a] = row])
      /\ UNCHANGED <<files, object, ref, task, cleaner, saves, values, trouble>>
  BY DEF CommitGenerated, store
<1>2. AssetsOK /\ TasksOK /\ DOMAIN writer = Writers /\ WriterOK(writer[w])
  BY AllKeep
<1>3. AssetsOK'
  <2>1. /\ row.path \in Paths \cup {NoPath} /\ row.of \in Shots \cup Clips /\ row.state = "made"
        /\ row = [state |-> row.state, path |-> row.path, of |-> row.of]
    BY <1>1, <1>2 DEF WriterOK
  <2>2. RoomForAsset => a \in AssetIds
    BY NewAssetIsThere
  <2> HIDE DEF row, a
  <2>3. CASE asset' = asset
    BY <1>2, <2>3 DEF AssetsOK
  <2>4. CASE RoomForAsset /\ asset' = [asset EXCEPT ![a] = row]
    <3>1. asset' \in {asset, [asset EXCEPT ![a] = row]} /\ a \in AssetIds
      BY <2>2, <2>4
    <3>2. /\ row.of \in Contents \cup Shots \cup Clips \cup {None}
          /\ row.state \in {"none", "own", "made", "remote", "deleted"}
      BY <2>1
    <3> QED
      BY <1>2, <2>1, <3>1, <3>2, OneAssetWritten
  <2> QED
    BY <1>1, <2>3, <2>4
<1>4. DOMAIN writer' = Writers /\ \A v \in Writers : writer'[v] \in {writer[v], Idle}
  BY <1>1, <1>2 DEF Become
<1>5. DOMAIN cleaner' = Cleaners /\ \A v \in Cleaners : cleaner'[v] \subseteq cleaner[v]
  BY <1>1, <1>2 DEF TasksOK
<1> QED
  BY <1>1, <1>3, <1>4, <1>5, QuietStep

LEMMA AbandonGeneratedStep ==
  ASSUME MediaSound, NEW w \in Writers, AbandonGenerated(w)
  PROVE  MediaSound'
<1>1. /\ Become(w, Idle) /\ trouble' = trouble + 1
      /\ UNCHANGED <<files, object, ref, asset, task, cleaner, saves, values>>
  BY DEF AbandonGenerated, Troubled, store
<1>2. AssetsOK /\ TasksOK /\ DOMAIN writer = Writers
  BY AllKeep
<1>3. DOMAIN writer' = Writers /\ \A v \in Writers : writer'[v] \in {writer[v], Idle}
  BY <1>1, <1>2 DEF Become
<1>4. DOMAIN cleaner' = Cleaners /\ (\A v \in Cleaners : cleaner'[v] \subseteq cleaner[v]) /\ AssetsOK'
  BY <1>1, <1>2 DEF TasksOK, AssetsOK
<1> QED
  BY <1>1, <1>3, <1>4, QuietStep

LEMMA AddRemoteAssetStep ==
  ASSUME MediaSound, AddRemoteAsset
  PROVE  MediaSound'
<1> DEFINE row == [state |-> "remote", path |-> NoPath, of |-> None]
           a == NewAsset
<1>1. /\ RoomForAsset /\ asset' = [asset EXCEPT ![a] = row]
      /\ UNCHANGED <<files, object, ref, task, writer, cleaner, saves, values, trouble>>
  BY DEF AddRemoteAsset, store
<1>2. AssetsOK /\ TasksOK /\ DOMAIN writer = Writers /\ a \in AssetIds
  BY <1>1, AllKeep, NewAssetIsThere
<1>3. AssetsOK'
  <2>1. /\ row.path = NoPath /\ row.of = None /\ row.state = "remote"
        /\ row = [state |-> row.state, path |-> row.path, of |-> row.of]
    OBVIOUS
  <2>2. asset' \in {asset, [asset EXCEPT ![a] = row]} /\ a \in AssetIds
    BY <1>1, <1>2
  <2> HIDE DEF row, a
  <2> QED
    BY <1>2, <2>1, <2>2, OneAssetWritten
<1>4. DOMAIN writer' = Writers /\ \A v \in Writers : writer'[v] \in {writer[v], Idle}
  BY <1>1, <1>2
<1>5. DOMAIN cleaner' = Cleaners /\ \A v \in Cleaners : cleaner'[v] \subseteq cleaner[v]
  BY <1>1, <1>2 DEF TasksOK
<1> QED
  BY <1>1, <1>3, <1>4, <1>5, QuietStep

LEMMA RestartStep ==
  ASSUME MediaSound, Restart
  PROVE  MediaSound'
<1>1. /\ trouble' = trouble + 1
      /\ writer' = [w \in Writers |-> IF writer[w].op = "migrating" THEN writer[w] ELSE Idle]
      /\ cleaner' = [w \in Cleaners |-> {}]
      /\ UNCHANGED <<files, object, ref, asset, task, saves, values>>
  BY DEF Restart, Troubled, store
<1>2. AssetsOK'
  BY <1>1, AllKeep DEF AssetsOK
<1> QED
  BY <1>1, <1>2, QuietStep

LEMMA PutValueStep ==
  ASSUME MediaSound, NEW k \in ValueKeys, NEW v \in Values, PutValue(k, v)
  PROVE  MediaSound'
<1> DEFINE key == <<"value", k>>
<1>1. /\ Put(key, v, NoPath) /\ values' = values + 1
      /\ UNCHANGED <<files, asset, task, writer, cleaner, saves, trouble>>
  BY DEF PutValue
<1>2. AssetsOK /\ FilesOK /\ DOMAIN writer = Writers
      /\ \A w \in Writers : Fresh(w) => writer[w].path # NoPath
  BY AllKeep, Places DEF Fresh
<1>3. /\ key \in Keys /\ v \in Holdings /\ NoPath \notin Paths /\ NoPath \notin Numbered /\ NoPath \notin Shots
      /\ (\A s \in Shots : key # <<"row", s>>) /\ \A n : key # <<"upload", n>>
  BY Places
<1>4. /\ StoreOK(PutObjects(key, v, NoPath), PutRefs(key, v), files)
      /\ \A w \in Writers : Fresh(w) /\ writer[w].path # NoPath => FreshIn(PutObjects(key, v, NoPath), files, w)
      /\ \A w \in Writers : writer[w].op = "binding" /\ key # <<"upload", writer[w].path>>
                           => BoundIn(PutObjects(key, v, NoPath), PutRefs(key, v), files, w)
  <2> HIDE DEF key
  <2> QED
    BY <1>3, PutKeeps
<1>5. StoreOK(object', ref', files')
  BY <1>1, <1>4 DEF Put
<1>6. ASSUME NEW w \in Writers, Fresh(w) PROVE FreshIn(object', files, w)
  BY <1>1, <1>2, <1>4, <1>6 DEF Put
<1>7. ASSUME NEW w \in Writers, writer[w].op = "binding" PROVE BoundIn(object', ref', files, w)
  BY <1>1, <1>3, <1>4, <1>7 DEF Put
<1>8. AssetsOK' /\ {values', trouble'} \subseteq Nat
  BY <1>1, <1>2 DEF AssetsOK, FilesOK
<1> QED
  BY <1>1, <1>2, <1>5, <1>6, <1>7, <1>8, StoreMoves

\* Time passes for an answer or an orphan: nothing else of the tables changes.
LEMMA FallsDueStep ==
  ASSUME MediaSound,
         \/ \E k \in ValueKeys : ValueFallsDue(k)
         \/ \E c \in Contents \cup Values : OrphanFallsDue(c)
  PROVE  MediaSound'
<1>1. /\ FilesOK /\ WritersOK /\ AssetsOK /\ DOMAIN writer = Writers
      /\ Exact(object, ref) /\ Names(object, ref, files) /\ Spared(object, files) /\ DueOK(ref)
      /\ \A v \in Writers : WriterOK(writer[v])
      /\ \A v \in Writers : Fresh(v) => FreshIn(object, files, v)
      /\ \A v \in Writers : writer[v].op = "binding" => BoundIn(object, ref, files, v)
  BY AllKeep DEF StoreOK
<1>2. /\ object \in [Holdings -> Objects] /\ ref \in [Keys -> References] /\ saves \in 0..MaxSaves
  BY <1>1 DEF Exact, FilesOK
<1>3. /\ object' \in [Holdings -> Objects] /\ ref' \in [Keys -> References]
      /\ \A x \in Holdings : /\ object'[x].path = object[x].path /\ object'[x].refs = object[x].refs
                             /\ object'[x].status = object[x].status
      /\ \A key \in Keys : ref'[key].to = ref[key].to /\ (ref'[key].due => ref[key].due \/ key[1] = "value")
      /\ UNCHANGED <<files, asset, task, writer, cleaner, saves, values, trouble>>
  <2>1. ASSUME NEW k \in ValueKeys, ValueFallsDue(k)
        PROVE  <1>3!:
    <3> DEFINE key == <<"value", k>>
    <3>1. key \in Keys /\ key[1] = "value" /\ object' = object /\ ref' = [ref EXCEPT ![key].due = TRUE]
          /\ UNCHANGED <<files, asset, task, writer, cleaner, saves, values, trouble>>
      BY <2>1, Places DEF ValueFallsDue
    <3>2. \A r \in References : [r EXCEPT !.due = TRUE] \in References /\ [r EXCEPT !.due = TRUE].to = r.to
      BY DEF References
    <3> HIDE DEF key
    <3>3. ref' = [ref EXCEPT ![key] = [ref[key] EXCEPT !.due = TRUE]]
      BY <1>2, <3>1
    <3> QED
      BY <1>2, <3>1, <3>2, <3>3
  <2>2. ASSUME NEW c \in Holdings, OrphanFallsDue(c)
        PROVE  <1>3!:
    <3>1. ref' = ref /\ object' = [object EXCEPT ![c] = [object[c] EXCEPT !.due = TRUE]]
          /\ UNCHANGED <<files, asset, task, writer, cleaner, saves, values, trouble>>
      BY <1>2, <2>2 DEF OrphanFallsDue
    <3>2. \A x \in Objects : LET y == [x EXCEPT !.due = TRUE]
                             IN y \in Objects /\ y.path = x.path /\ y.refs = x.refs /\ y.status = x.status
      BY DEF Objects
    <3> QED
      BY <1>2, <3>1, <3>2
  <2> QED
    BY <2>1, <2>2 DEF Holdings
<1>4. \A x : Holders(ref', x) = Holders(ref, x)
  BY <1>3 DEF Holders
<1>5. StoreOK(object', ref', files')
  <2>1. Exact(object', ref')
    BY <1>1, <1>3, <1>4 DEF Exact
  <2>2. Names(object', ref', files')
    BY <1>1, <1>3, Places DEF Names
  <2>3. Spared(object', files') /\ DueOK(ref')
    BY <1>1, <1>3 DEF Spared, DueOK
  <2> QED
    BY <2>1, <2>2, <2>3 DEF StoreOK
<1>6. ASSUME NEW v \in Writers, Fresh(v) PROVE FreshIn(object', files, v)
  BY <1>1, <1>3, <1>6 DEF FreshIn
<1>7. ASSUME NEW v \in Writers, writer[v].op = "binding" PROVE BoundIn(object', ref', files, v)
  <2>1. writer[v].of \in Holdings /\ <<"upload", writer[v].path>> \in Keys
    BY <1>1, <1>2, <1>7, Places DEF WriterOK, Contents
  <2> QED
    BY <1>1, <1>3, <1>7, <2>1 DEF BoundIn
<1>8. AssetsOK' /\ {values', trouble'} \subseteq Nat
  BY <1>1, <1>3 DEF AssetsOK, FilesOK
<1> QED
  BY <1>1, <1>3, <1>5, <1>6, <1>7, <1>8, StoreMoves

LEMMA ListTasksStep ==
  ASSUME MediaSound, NEW w \in Cleaners, ListTasks(w)
  PROVE  MediaSound'
<1> DEFINE listed == {[path |-> p, attempts |-> task[p].attempts] : p \in {q \in Paths : Open(q)}}
<1>1. /\ cleaner' = [cleaner EXCEPT ![w] = listed]
      /\ UNCHANGED <<files, object, ref, asset, task, writer, saves, values, trouble>>
  BY DEF ListTasks, store
<1>2. FilesOK /\ WritersOK /\ AssetsOK /\ TasksOK /\ StoreOK(object, ref, files) /\ FreshOK /\ BoundOK
  BY DEF MediaSound
<1>3. \A t \in listed : /\ t.path \in Paths /\ t.attempts \in Nat /\ t.attempts < MaxAttempts
                        /\ task[t.path].status # "none"
  BY <1>2, Places DEF TasksOK, Open
<1> HIDE DEF listed
<1>4. TasksOK'
  BY <1>1, <1>2, <1>3 DEF TasksOK
<1>5. StoreOK(object, ref, files)'
  BY <1>1, <1>2, StoreAfter
<1>6. FilesOK' /\ AssetsOK' /\ WritersOK'
  BY <1>1, <1>2 DEF FilesOK, AssetsOK, WritersOK, WriterOK, HasOwn, Fresh
<1>7. FreshOK' /\ BoundOK'
  BY <1>1, <1>2 DEF FreshOK, BoundOK, FreshIn, BoundIn, Fresh
<1> QED
  BY <1>4, <1>5, <1>6, <1>7 DEF MediaSound

\* Removing a file of a task that was listed: no object names it, if it is there.
LEMMA ProcessTaskStep ==
  ASSUME MediaSound, NEW w \in Cleaners, NEW t \in cleaner[w], ProcessTask(w, t)
  PROVE  MediaSound'
<1>1. /\ cleaner' = [cleaner EXCEPT ![w] = @ \ {t}]
      /\ files' = files \/ files' = [files EXCEPT ![t.path] = None]
      /\ \E status \in {"completed", "failed"} :
           task' = [task EXCEPT ![t.path] = [status |-> status, attempts |-> t.attempts + 1]]
      /\ UNCHANGED <<object, ref, asset, writer, saves, values, trouble>>
  BY DEF ProcessTask, store
<1>2. FilesOK /\ WritersOK /\ AssetsOK /\ TasksOK /\ StoreOK(object, ref, files) /\ FreshOK /\ BoundOK
  BY DEF MediaSound
<1>3. /\ t.path \in Paths /\ t.attempts \in Nat /\ t.attempts < MaxAttempts /\ task[t.path].status # "none"
      /\ task \in [Paths -> [status : {"none", "pending", "failed", "completed"}, attempts : 0..MaxAttempts]]
  BY <1>2 DEF TasksOK
<1>4. PICK status \in {"completed", "failed"} :
           task' = [task EXCEPT ![t.path] = [status |-> status, attempts |-> t.attempts + 1]]
  BY <1>1
<1>5. t.attempts + 1 \in 0..MaxAttempts
  BY <1>3, Places
<1>6. /\ task' \in [Paths -> [status : {"none", "pending", "failed", "completed"}, attempts : 0..MaxAttempts]]
      /\ \A p \in Paths : task'[p].status = "none" <=> task[p].status = "none"
  BY <1>3, <1>4, <1>5
<1>7. files' \in [Paths -> Contents \cup {None}] /\ \A p \in Paths : files'[p] \in {files[p], None}
  BY <1>1, <1>2, OneFileGoes
<1>8. TasksOK'
  BY <1>1, <1>2, <1>6 DEF TasksOK
<1>9. StoreOK(object, ref, files)'
  <2>1. object \in [Holdings -> Objects]
    BY <1>2 DEF StoreOK, Exact
  <2>2. StoreOK(object, ref, files')
    BY <1>2, <1>7, <2>1, FilesGo
  <2>3. Spared(object, files)'
    BY <1>1, <1>6, <2>2 DEF StoreOK, Spared
  <2> QED
    BY <1>1, <2>2, <2>3 DEF StoreOK, Exact, Names, DueOK, Holders
<1>10. FilesOK' /\ AssetsOK' /\ WritersOK'
  BY <1>1, <1>2, <1>7 DEF FilesOK, AssetsOK, WritersOK, WriterOK, HasOwn, Fresh
<1>11. FreshOK'
  <2>1. ASSUME NEW v \in Writers, Fresh(v)' PROVE FreshIn(object, files, v)'
    <3>1. Fresh(v)
      BY <1>1, <2>1 DEF Fresh
    <3>2. FreshIn(object, files', v)
      BY <1>2, <1>7, <3>1, FreshFilesGo DEF FreshOK
    <3>3. writer[v].path \in Paths
      BY <3>1, Places DEF Fresh
    <3> QED
      BY <1>1, <1>6, <3>2, <3>3 DEF FreshIn
  <2> QED
    BY <2>1 DEF FreshOK
<1>12. BoundOK'
  <2>1. ASSUME NEW v \in Writers, writer'[v].op = "binding" PROVE BoundIn(object, ref, files, v)'
    <3>1. BoundIn(object, ref, files, v) /\ saves \in 0..MaxSaves
      BY <1>1, <1>2, <2>1 DEF BoundOK, FilesOK
    <3>2. BoundIn(object, ref, files', v)
      BY <1>7, <3>1, BoundFilesGo
    <3> QED
      BY <1>1, <3>2 DEF BoundIn, Fresh
  <2> QED
    BY <2>1 DEF BoundOK
<1> QED
  BY <1>8, <1>9, <1>10, <1>11, <1>12 DEF MediaSound

\* The purge queues the files of objects that nobody refers to, and forgets
\* those objects: no other object names a file that is there.
LEMMA PurgeExpiredStep ==
  ASSUME MediaSound, NEW w \in Cleaners, PurgeExpired(w)
  PROVE  MediaSound'
<1> DEFINE paths == {object[c].path : c \in DueObjects} \ {NoPath}
<1>1. /\ ref' = [key \in Keys |-> IF key \in DueRefs THEN NoRef ELSE ref[key]]
      /\ object' = [c \in Contents \cup Values |-> Purged(c)]
      /\ task' = [p \in Paths |-> IF p \in paths THEN Queued(task[p]) ELSE task[p]]
      /\ UNCHANGED <<files, asset, writer, cleaner, saves, values, trouble>>
  BY DEF PurgeExpired
<1>2. /\ FilesOK /\ WritersOK /\ AssetsOK /\ TasksOK /\ FreshOK /\ BoundOK /\ saves \in 0..MaxSaves
      /\ Exact(object, ref) /\ Names(object, ref, files) /\ Spared(object, files) /\ DueOK(ref)
  BY DEF MediaSound, StoreOK, FilesOK
<1>3. /\ Exact(object', ref')
      /\ \A c \in Holdings : object'[c].path = IF c \in DueObjects THEN NoPath ELSE object[c].path
  BY <1>1, <1>2, PurgeExact
<1>4. /\ object \in [Holdings -> Objects] /\ ref \in [Keys -> References] /\ DueObjects \subseteq Holdings
      /\ \A key \in Keys : key[1] # "value" => ref'[key] = ref[key]
      /\ \A key \in Keys : ref'[key].due => ref[key].due
  BY <1>1, <1>2 DEF Exact, DueOK, DueRefs, NoRef, DueObjects, Holdings
<1>5. \A c \in DueObjects : Holders(ref, c) = {}
  BY <1>2, <1>4 DEF DueObjects, Exact
\* The paths that are queued.
<1>6. ASSUME NEW p \in Paths, p \in paths
      PROVE  /\ p \in Numbered /\ p <= saves
             /\ files[p] # None => \A c \in Holdings : object'[c].path # p
             /\ \A v \in Writers : Fresh(v) => writer[v].path # p
  <2>1. PICK d \in DueObjects : object[d].path = p
    BY <1>6
  <2>2. p \notin Shots
    <3>1. SUFFICES ASSUME p \in Shots PROVE FALSE
      OBVIOUS
    <3>2. <<"row", p>> \in Holders(ref, d)
      BY <1>2, <1>4, <2>1, <3>1, Places DEF Names, Holders
    <3> QED
      BY <1>5, <3>2
  <2>3. p \in Numbered /\ p <= saves /\ files[p] \in {d, None}
    BY <1>2, <1>4, <2>1, <2>2 DEF Names, Paths, Numbered
  <2>4. ASSUME files[p] # None, NEW c \in Holdings, object'[c].path = p PROVE FALSE
    <3>1. c \notin DueObjects /\ object[c].path = p
      BY <1>3, <2>4, Places
    <3>2. files[p] \in {c, None}
      BY <1>2, <2>3, <3>1 DEF Names
    <3> QED
      BY <2>1, <2>3, <2>4, <3>1, <3>2
  <2>5. ASSUME NEW v \in Writers, Fresh(v) PROVE writer[v].path # p
    BY <1>2, <1>4, <2>1, <2>5 DEF FreshOK, FreshIn
  <2> QED
    BY <2>3, <2>4, <2>5
<1>7. /\ task' \in [Paths -> [status : {"none", "pending", "failed", "completed"}, attempts : 0..MaxAttempts]]
      /\ \A p \in Paths : task[p].status # "none" => task'[p].status # "none"
      /\ \A p \in Paths : p \notin paths => task'[p] = task[p]
  <2> HIDE DEF paths
  <2>1. \A x \in [status : {"none", "pending", "failed", "completed"}, attempts : 0..MaxAttempts] :
           /\ Queued(x) \in [status : {"none", "pending", "failed", "completed"}, attempts : 0..MaxAttempts]
           /\ Queued(x).status # "none"
    BY Places DEF Queued
  <2>2. task \in [Paths -> [status : {"none", "pending", "failed", "completed"}, attempts : 0..MaxAttempts]]
    BY <1>2 DEF TasksOK
  <2> QED
    BY <1>1, <2>1, <2>2
<1>8. TasksOK'
  <2>1. ASSUME NEW p \in Paths, p \in Shots \/ p > saves PROVE task'[p].status = "none"
    <3>1. p \notin paths
      BY <1>2, <1>6, <2>1, Places DEF Numbered
    <3> QED
      BY <1>2, <1>7, <2>1, <3>1 DEF TasksOK
  <2> HIDE DEF paths
  <2> QED
    BY <1>1, <1>2, <1>7, <2>1 DEF TasksOK
<1>9. StoreOK(object, ref, files)'
  <2>1. ASSUME NEW p \in Paths, NEW c \in Holdings, files[p] # None, task'[p].status # "none"
        PROVE  object'[c].path # p
    <3>1. CASE p \in paths
      BY <1>6, <2>1, <3>1
    <3>2. CASE p \notin paths
      BY <1>2, <1>3, <1>7, <2>1, <3>2, Places DEF Spared
    <3> QED
      BY <3>1, <3>2
  <2> HIDE DEF paths
  <2>2. ASSUME NEW c \in Holdings, object'[c].path \in Numbered \cup Shots
        PROVE  /\ object'[c].path = object[c].path
               /\ object'[c].path \in Shots => ref'[<<"row", object'[c].path>>] = ref[<<"row", object'[c].path>>]
    BY <1>3, <1>4, <2>2, Places
  <2>3. Names(object', ref', files)
    BY <1>2, <2>2 DEF Names
  <2>4. DueOK(ref')
    BY <1>2, <1>4 DEF DueOK
  <2> QED
    BY <1>1, <1>3, <2>1, <2>3, <2>4 DEF StoreOK, Spared, Names, DueOK, Exact, Holders
<1>10. FilesOK' /\ AssetsOK' /\ WritersOK'
  BY <1>1, <1>2 DEF FilesOK, AssetsOK, WritersOK, WriterOK, HasOwn, Fresh
<1>11. FreshOK'
  <2>1. ASSUME NEW v \in Writers, Fresh(v)' PROVE FreshIn(object, files, v)'
    <3>1. Fresh(v) /\ writer'[v] = writer[v]
      BY <1>1, <2>1 DEF Fresh
    <3>2. FreshIn(object, files, v) /\ writer[v].path \notin paths /\ writer[v].path \in Numbered /\ writer[v].path \in Paths
      BY <1>2, <1>6, <3>1, Places DEF FreshOK, Fresh
    <3> HIDE DEF paths
    <3>3. \A c \in Holdings : object'[c].path # writer[v].path
      BY <1>3, <3>2, Places DEF FreshIn
    <3>4. task'[writer[v].path] = task[writer[v].path] /\ files' = files
      BY <1>1, <1>7, <3>2
    <3> QED
      BY <3>1, <3>2, <3>3, <3>4 DEF FreshIn
  <2> QED
    BY <2>1 DEF FreshOK
<1>12. BoundOK'
  <2> HIDE DEF paths
  <2>1. ASSUME NEW v \in Writers, writer'[v].op = "binding" PROVE BoundIn(object, ref, files, v)'
    <3> DEFINE me == writer[v]
    <3>1. BoundIn(object, ref, files, v) /\ writer' = writer /\ me.of \in Images /\ me.path \in 1..saves
      BY <1>1, <1>2, <2>1 DEF BoundOK, WritersOK, WriterOK
    <3>2. me.of \in Holdings /\ <<"upload", me.path>> \in Keys
      BY <1>2, <3>1, Places DEF Contents
    <3>3. ref'[<<"upload", me.path>>].to = me.of
      BY <1>4, <3>1, <3>2 DEF BoundIn
    <3>4. me.of \notin DueObjects
      BY <1>5, <3>1, <3>2 DEF Holders, BoundIn
    <3>5. object'[me.of].path = object[me.of].path
      BY <1>3, <3>2, <3>4
    <3> QED
      BY <1>1, <3>1, <3>3, <3>5 DEF BoundIn, Fresh
  <2> QED
    BY <2>1 DEF BoundOK
<1> QED
  BY <1>8, <1>9, <1>10, <1>11, <1>12 DEF MediaSound

-----------------------------------------------------------------------------
(* The theorems.                                                           *)

LEMMA MediaStep ==
  ASSUME MediaSound, [Next]_vars
  PROVE  MediaSound'
<1>1. CASE UNCHANGED vars
  <2>1. AssetsOK /\ TasksOK /\ DOMAIN writer = Writers
    BY AllKeep
  <2>2. AssetsOK' /\ DOMAIN cleaner' = Cleaners
    BY <1>1, <2>1 DEF vars, AssetsOK, TasksOK
  <2> QED
    BY <1>1, <2>1, <2>2, QuietStep DEF vars
<1>2. ASSUME NEW w \in Writers, Write(w) PROVE MediaSound'
  <2>1. ASSUME NEW c \in Images, SaveUpload(w, "image", c) PROVE MediaSound'
    BY <2>1, SaveUploadStep DEF Contents
  <2>2. ASSUME NEW c \in Videos, SaveUpload(w, "media", c) PROVE MediaSound'
    BY <2>2, SaveUploadStep DEF Contents
  <2>3. ASSUME NEW c \in Videos, NEW row \in Shots \cup Clips, Generate(w, row, c) PROVE MediaSound'
    BY <2>3, GenerateStep
  <2>4. ASSUME NEW c \in Contents, NEW a \in AssetIds, Migrate(w, a, c) PROVE MediaSound'
    BY <2>4, MigrateStep
  <2> QED
    BY <1>2, <2>1, <2>2, <2>3, <2>4, PutUploadStep, UnbindUploadStep, RemoveUnboundStep, BindUploadStep,
       RegisterMediaStep, CacheGeneratedStep, CommitGeneratedStep, AbandonGeneratedStep, RegisterMigratedStep
       DEF Write
<1>3. ASSUME NEW w \in Cleaners, Clean(w) PROVE MediaSound'
  BY <1>3, PurgeExpiredStep, ListTasksStep, ProcessTaskStep DEF Clean
<1> QED
  BY <1>1, <1>2, <1>3, AddRemoteAssetStep, DeleteAssetStep, FallsDueStep, PutValueStep, RestartStep DEF Next

\* In every state each object counts its references, and a file that is there
\* and was ever queued for removal is named by no object (mediacache.go:
\* Put, Release, PurgeExpired; the writers of services/generation and httpapi).
THEOREM MediaIsSound == Spec => []MediaSound
<1>1. Init => MediaSound
  <2> SUFFICES ASSUME Init PROVE MediaSound
    OBVIOUS
  <2>1. /\ files = [p \in Paths |-> None] /\ object = [c \in Holdings |-> NoObject]
        /\ ref = [key \in Keys |-> NoRef] /\ asset = [a \in AssetIds |-> NoAsset]
        /\ task = [p \in Paths |-> NoTask] /\ writer = [w \in Writers |-> Idle]
        /\ cleaner = [w \in Cleaners |-> {}] /\ saves = 0 /\ values = 0 /\ trouble = 0
    BY DEF Init, Holdings
  <2>2. FilesOK /\ AssetsOK /\ TasksOK
    BY <2>1, Places DEF FilesOK, AssetsOK, TasksOK, NoAsset, NoTask
  <2>3. \A w \in Writers : WriterOK(writer[w]) /\ ~ HasOwn(w) /\ ~ Fresh(w) /\ writer[w].op # "binding"
    BY <2>1 DEF WriterOK, HasOwn, Fresh, Idle
  <2>4. WritersOK /\ FreshOK /\ BoundOK
    BY <2>1, <2>3 DEF WritersOK, FreshOK, BoundOK
  <2>5. Exact(object, ref)
    <3>1. \A c \in Holdings : Holders(ref, c) = {}
      BY <2>1, Places DEF Holders, NoRef
    <3> QED
      BY <2>1, <3>1, FS_EmptySet DEF Exact, NoObject, NoRef, Objects, References
  <2>6. Names(object, ref, files) /\ Spared(object, files) /\ DueOK(ref)
    BY <2>1, Places DEF Names, Spared, DueOK, NoObject, NoRef, NoTask
  <2> QED
    BY <2>2, <2>4, <2>5, <2>6 DEF MediaSound, StoreOK
<1>2. MediaSound /\ [Next]_vars => MediaSound'
  BY MediaStep
<1> QED
  BY <1>1, <1>2, PTL DEF Spec

\* reference_count is the number of references, and an object that anybody
\* refers to is active (mediacache.go: Put, Release, PurgeExpired).
THEOREM CountsStayExact == Spec => []CountsAreExact
<1>1. MediaSound => CountsAreExact
  BY DEF MediaSound, StoreOK, Exact, Holders, CountsAreExact, Holdings
<1> QED
  BY <1>1, MediaIsSound, PTL

\* Every variable holds what its table can hold, and the counts are exact.
THEOREM MediaIsTyped == Spec => []MediaInv
<1>1. MediaSound => MediaTypeOK
  <2> SUFFICES ASSUME MediaSound PROVE MediaTypeOK
    OBVIOUS
  <2>1. FilesOK /\ AssetsOK /\ WritersOK /\ TasksOK /\ Exact(object, ref)
    BY DEF MediaSound, StoreOK
  <2>2. \A w \in Writers : writer[w].op \in
          {"idle", "image", "binding", "unbinding", "media", "generated", "cached", "migrating"}
    BY <2>1 DEF WritersOK, WriterOK
  <2>3. \A w \in Cleaners : \A t \in cleaner[w] : t.path \in Paths /\ t.attempts \in 0..MaxAttempts
    BY <2>1, Places DEF TasksOK
  <2>4. {saves, values, trouble} \subseteq Nat
    BY <2>1, Places DEF FilesOK
  <2> QED
    BY <2>1, <2>2, <2>3, <2>4
       DEF MediaTypeOK, FilesOK, AssetsOK, TasksOK, Exact, Objects, References, Holdings
<1>2. MediaSound => CountsAreExact
  BY DEF MediaSound, StoreOK, Exact, Holders, CountsAreExact, Holdings
<1> QED
  BY <1>1, <1>2, MediaIsSound, PTL DEF MediaInv

\* No cleaner removes the file of an object somebody refers to: not on a list
\* read before the object came back, and not a composition written over in
\* the meantime (mediacleanup.go: ProcessOrganization).
THEOREM CleanersAreSafe == Spec => CleanersSpareUsedFiles
<1> DEFINE Kept == \A p \in Paths : cleaner' # cleaner /\ files[p] # None /\ files'[p] = None
                     => \A c \in Contents : object[c].path = p => object[c].refs = 0
<1>1. ASSUME MediaSound, [Next]_vars PROVE [Kept]_vars
  <2> SUFFICES ASSUME NEW p \in Paths, cleaner' # cleaner, files[p] # None, files'[p] = None,
                      NEW c \in Contents, object[c].path = p
               PROVE  FALSE
    OBVIOUS
  <2>1. PICK w \in Cleaners : \E t \in cleaner[w] : ProcessTask(w, t)
    <3>1. files' # files
      OBVIOUS
    <3>2. \A w \in Writers : ~ Write(w)
      BY DEF Write, SaveUpload, Generate, Migrate, PutUpload, UnbindUpload, RemoveUnbound, BindUpload,
             RegisterMedia, DropUpload, CacheGenerated, CommitGenerated, AbandonGenerated, RegisterMigrated,
             DropMigrated
    <3>3. ~ AddRemoteAsset /\ ~ Restart /\ (\A a \in AssetIds : ~ DeleteAsset(a))
          /\ (\A k \in ValueKeys : ~ ValueFallsDue(k) /\ \A v \in Values : ~ PutValue(k, v))
          /\ (\A d \in Contents \cup Values : ~ OrphanFallsDue(d))
      BY <3>1 DEF AddRemoteAsset, Restart, DeleteAsset, ValueFallsDue, PutValue, OrphanFallsDue
    <3>4. \A w \in Cleaners : ~ PurgeExpired(w) /\ ~ ListTasks(w)
      BY <3>1 DEF PurgeExpired, ListTasks
    <3> QED
      BY <1>1, <3>1, <3>2, <3>3, <3>4 DEF Next, Clean, vars
  <2>2. PICK t \in cleaner[w] : ProcessTask(w, t)
    BY <2>1
  <2>3. p = t.path
    BY <1>1, <2>2, AllKeep DEF ProcessTask, FilesOK
  <2>4. task[t.path].status # "none" /\ c \in Holdings
    BY <1>1, <2>1, <2>2, AllKeep, Places DEF TasksOK
  <2> QED
    BY <1>1, <2>3, <2>4, AllKeep DEF StoreOK, Spared
<1> QED
  BY <1>1, MediaIsSound, PTL DEF Spec, CleanersSpareUsedFiles

=============================================================================
