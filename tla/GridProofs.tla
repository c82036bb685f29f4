----------------------------- MODULE GridProofs -----------------------------
(***************************************************************************)
(* Theorems about Content and Grid, proved by TLAPS for any number of      *)
(* rows, clients, requests and grids, in five parts:                       *)
(*                                                                         *)
(* ShotsStayInTheirDrama: as long as nothing crosses from one drama to     *)
(* another, the drama of a row that was inserted never changes.  So what a *)
(* request has found to fit together when it looked still fits when it     *)
(* writes, although rows were deleted, moved and edited in between.        *)
(* ReqFits says of each request what it has found.                         *)
(*                                                                         *)
(* SplitOnce: GridInv ties a request and the poller to the history they    *)
(* will write; one request at most has made a history, and only until it   *)
(* has answered can the history have been split under it.                  *)
(*                                                                         *)
(* GridTypeOK: GridTypes says what a request remembers, and that a row     *)
(* that it remembers is never taken away.                                  *)
(*                                                                         *)
(* CellsAndFramesAgree: FramesInv says which shots a split under way has   *)
(* found, where those are that a history assigns a cell to, and that no    *)
(* frame shows a cell of a cut that is still to be made.                   *)
(*                                                                         *)
(* DeletionReachesEverything: OrphansKnown says what a deletion of a drama *)
(* under way will leave behind.                                            *)
(***************************************************************************)
EXTENDS Grid, TLAPS, FiniteSetTheorems, WellFoundedInduction

InsertedEpisode(e) == e \in Episodes /\ episode[e].state # "none"
InsertedScene(s) == s \in Scenes /\ scene[s].state # "none"
InsertedCharacter(p) == p \in Characters /\ character[p].state # "none"
InsertedShot(b) == b \in Shots /\ shot[b].state # "none"

Fitting(e, s, cast) ==
  /\ InsertedEpisode(e)
  /\ s # None => InsertedScene(s) /\ scene[s].drama = DramaOf(e)
  /\ \A p \in cast : InsertedCharacter(p) /\ character[p].drama = DramaOf(e)

\* The tables and the requests are functions, their rows records.
Shape ==
  /\ DOMAIN episode = Episodes /\ DOMAIN scene = Scenes
  /\ DOMAIN character = Characters /\ DOMAIN shot = Shots /\ DOMAIN req = Clients
  /\ \A e \in Episodes : DOMAIN episode[e] = {"state", "drama", "number"}
  /\ \A s \in Scenes : DOMAIN scene[s] = {"state", "drama", "episode"}
  /\ \A p \in Characters : DOMAIN character[p] = {"state", "drama"}
  /\ \A b \in Shots : DOMAIN shot[b] = {"state", "episode", "number", "scene", "cast", "frames", "edited"}
  /\ \A c \in Clients : "op" \in DOMAIN req[c]

ShotsFit == \A b \in Shots : shot[b].state # "none" => Fitting(shot[b].episode, shot[b].scene, shot[b].cast)

ReqFits(r) ==
  /\ r.op \in {"createShot", "copyShot"} => Fitting(r.episode, r.scene, r.cast)
  /\ r.op \in {"copyEpisode", "saveShots"} => InsertedEpisode(r.episode)
  /\ r.op = "saveShots" => \A b \in r.old : InsertedShot(b)
  /\ r.op = "updateShot" =>
       /\ InsertedShot(r.shot)
       /\ \A s \in r.scenes : s # None =>
            InsertedScene(s) /\ scene[s].drama = DramaOf(shot[r.shot].episode)
       /\ \A p \in UNION r.casts :
            InsertedCharacter(p) /\ character[p].drama = DramaOf(shot[r.shot].episode)
  /\ r.op = "moveScene" =>
       /\ InsertedScene(r.scene) /\ InsertedEpisode(r.episode)
       /\ scene[r.scene].drama = DramaOf(r.episode)
       /\ \A b \in DOMAIN r.number : InsertedShot(b) /\ DramaOf(shot[b].episode) = DramaOf(r.episode)

ContentInv == Shape /\ ShotsFit /\ \A c \in Clients : ReqFits(req[c])

\* No step takes a row away or changes the drama it is of.
Keeps ==
  /\ \A e \in Episodes : episode[e].state # "none" =>
       episode'[e].state # "none" /\ episode'[e].drama = episode[e].drama
  /\ \A s \in Scenes : scene[s].state # "none" =>
       scene'[s].state # "none" /\ scene'[s].drama = scene[s].drama
  /\ \A p \in Characters : character[p].state # "none" =>
       character'[p].state # "none" /\ character'[p].drama = character[p].drama
  /\ \A b \in Shots : shot[b].state # "none" =>
       shot'[b].state # "none" /\ episode'[shot'[b].episode].drama = episode[shot[b].episode].drama

\* A shot that was there keeps its scene and cast; one that was not, or is given others, fits.
ShotsKept ==
  \A b \in Shots : shot'[b].state # "none" =>
    \/ shot[b].state # "none" /\ shot'[b].episode = shot[b].episode
       /\ shot'[b].scene = shot[b].scene /\ shot'[b].cast = shot[b].cast
    \/ Fitting(shot[b].episode, shot[b].scene, shot[b].cast)'

\* What fits keeps fitting.
LEMMA FittingKept ==
  ASSUME Keeps, NEW e, NEW s, NEW cast, Fitting(e, s, cast)
  PROVE  /\ e \in Episodes /\ episode'[e].state # "none"
         /\ s # None => s \in Scenes /\ scene'[s].state # "none" /\ scene'[s].drama = episode'[e].drama
         /\ \A p \in cast : p \in Characters /\ character'[p].state # "none"
                             /\ character'[p].drama = episode'[e].drama
BY DEF Keeps, Fitting, InsertedEpisode, InsertedScene, InsertedCharacter, DramaOf

\* So the shots fit after a step that keeps them, or gives them what fits,
LEMMA ShotsStayFitting ==
  ASSUME ContentInv, Keeps, ShotsKept
  PROVE  ShotsFit'
<1> SUFFICES ASSUME NEW b \in Shots, shot'[b].state # "none"
             PROVE  Fitting(shot[b].episode, shot[b].scene, shot[b].cast)'
  BY DEF ShotsFit
<1>1. CASE /\ shot[b].state # "none" /\ shot'[b].episode = shot[b].episode
           /\ shot'[b].scene = shot[b].scene /\ shot'[b].cast = shot[b].cast
  <2>1. Fitting(shot[b].episode, shot[b].scene, shot[b].cast)
    BY <1>1 DEF ContentInv, ShotsFit
  <2> QED
    BY <1>1, <2>1 DEF Keeps, Fitting, InsertedEpisode, InsertedScene, InsertedCharacter, DramaOf
<1> QED
  BY <1>1 DEF ShotsKept

\* and a request that is still under way has found what is still so.
LEMMA ReqStaysFitting ==
  ASSUME ContentInv, Keeps, NEW c \in Clients, req'[c] = req[c]
  PROVE  ReqFits(req[c])'
<1>1. ReqFits(req[c])
  BY DEF ContentInv
<1>2. req[c].op \in {"createShot", "copyShot"} => Fitting(req[c].episode, req[c].scene, req[c].cast)'
  BY <1>1 DEF ReqFits, Keeps, Fitting, InsertedEpisode, InsertedScene, InsertedCharacter, DramaOf
<1>3. req[c].op \in {"copyEpisode", "saveShots"} => InsertedEpisode(req[c].episode)'
  BY <1>1 DEF ReqFits, Keeps, InsertedEpisode
<1>6. req[c].op = "saveShots" => \A b \in req[c].old : InsertedShot(b)'
  BY <1>1 DEF ReqFits, Keeps, InsertedShot
<1>4. req[c].op = "updateShot" =>
       /\ InsertedShot(req[c].shot)'
       /\ \A s \in req[c].scenes : s # None =>
            InsertedScene(s)' /\ scene'[s].drama = episode'[shot'[req[c].shot].episode].drama
       /\ \A p \in UNION req[c].casts :
            InsertedCharacter(p)' /\ character'[p].drama = episode'[shot'[req[c].shot].episode].drama
  BY <1>1 DEF ReqFits, Keeps, InsertedShot, InsertedScene, InsertedCharacter, DramaOf
<1>5. req[c].op = "moveScene" =>
       /\ InsertedScene(req[c].scene)' /\ InsertedEpisode(req[c].episode)'
       /\ scene'[req[c].scene].drama = episode'[req[c].episode].drama
       /\ \A b \in DOMAIN req[c].number :
            InsertedShot(b)' /\ episode'[shot'[b].episode].drama = episode'[req[c].episode].drama
  BY <1>1 DEF ReqFits, Keeps, InsertedShot, InsertedScene, InsertedEpisode, DramaOf
<1> QED
  BY <1>2, <1>3, <1>4, <1>5, <1>6 DEF ReqFits, DramaOf

\* A request that did not change, or whose new contents fit
ReqsKept == \A c \in Clients : req'[c] = req[c] \/ ReqFits(req[c])'

LEMMA StepKeepsInv ==
  ASSUME ContentInv, Keeps, ShotsKept, ReqsKept, Shape'
  PROVE  ContentInv'
<1>1. \A c \in Clients : ReqFits(req[c])'
  BY ReqStaysFitting DEF ReqsKept
<1> QED
  BY <1>1, ShotsStayFitting DEF ContentInv

Tables == <<episode, scene, character, shot>>

\* A step that leaves the tables alone only has its new requests to answer for.
LEMMA TablesUnchanged ==
  ASSUME ContentInv, UNCHANGED Tables, ReqsKept,
         DOMAIN req' = Clients, \A c \in Clients : "op" \in DOMAIN req'[c]
  PROVE  ContentInv'
<1>1. Keeps /\ ShotsKept
  BY DEF Keeps, ShotsKept, Tables
<1>2. Shape'
  BY DEF ContentInv, Shape, Tables
<1> QED
  BY <1>1, <1>2, StepKeepsInv

\* A request that ends, or never looked for anything, fits.
LEMMA EndedFits ==
  ASSUME ContentInv, NEW c \in Clients, End(c)
  PROVE  ReqsKept /\ DOMAIN req' = Clients /\ \A x \in Clients : "op" \in DOMAIN req'[x]
BY DEF ContentInv, Shape, End, ReqsKept, ReqFits, Idle

\* A request may begin with what fits.
LEMMA BeginKeepsInv ==
  ASSUME ContentInv, NEW c \in Clients, NEW r, "op" \in DOMAIN r, ReqFits(r), Begin(c, r)
  PROVE  ContentInv'
<1>1. UNCHANGED Tables /\ DOMAIN req' = Clients /\ \A x \in Clients : "op" \in DOMAIN req'[x]
  BY DEF ContentInv, Shape, Begin, Tables
<1>2. req'[c] = r /\ \A x \in Clients \ {c} : req'[x] = req[x]
  BY DEF ContentInv, Shape, Begin
<1>3. ReqFits(req[c])'
  BY <1>1, <1>2 DEF ReqFits, Tables, Fitting, InsertedEpisode, InsertedScene, InsertedCharacter,
                    InsertedShot, DramaOf
<1>4. ReqsKept
  BY <1>2, <1>3 DEF ReqsKept
<1> QED
  BY <1>1, <1>4, TablesUnchanged
-----------------------------------------------------------------------------
(***************************************************************************)
(* What requests look at                                                   *)
(***************************************************************************)
LEMMA FitsIsFitting ==
  ASSUME NEW e \in Episodes, InsertedEpisode(e), NEW s \in Scenes \cup {None},
         NEW cast \in SUBSET Characters, Fits(DramaOf(e), s, cast)
  PROVE  Fitting(e, s, cast)
BY ContentAssumption DEF Fits, Live, Fitting, InsertedScene, InsertedCharacter

LEMMA LookMoveSceneFits ==
  ASSUME ContentInv, TRUE \notin CrossDrama, NEW c \in Clients, NEW s \in Scenes,
         NEW e \in Episodes, NEW carry \in BOOLEAN, LookMoveScene(c, s, e, carry)
  PROVE  ContentInv'
<1> DEFINE linked == {b \in Shots : Live(shot, b) /\ shot[b].scene = s}
<1>1. PICK order \in Orders(IF carry THEN linked ELSE {}) :
        Begin(c, [op |-> "moveScene", scene |-> s, episode |-> e,
                  number |-> [b \in DOMAIN order |->
                    order[b] + Max({shot[x].number : x \in ShotsOf(e)} \cup {0})]])
  BY DEF LookMoveScene
<1> DEFINE r == [op |-> "moveScene", scene |-> s, episode |-> e,
                 number |-> [b \in DOMAIN order |->
                   order[b] + Max({shot[x].number : x \in ShotsOf(e)} \cup {0})]]
<1>2. Live(scene, s) /\ Live(episode, e) /\ scene[s].drama = DramaOf(e)
  BY DEF LookMoveScene, MayGo
<1>3. DOMAIN r.number \subseteq linked
  BY DEF Orders
<1>4. \A b \in linked : InsertedShot(b) /\ DramaOf(shot[b].episode) = DramaOf(e)
  BY <1>2, ContentAssumption DEF ContentInv, ShotsFit, Fitting, InsertedShot, Live
<1>5. ReqFits(r)
  BY <1>2, <1>3, <1>4 DEF ReqFits, InsertedScene, InsertedEpisode, Live
<1> QED
  BY <1>1, <1>5, BeginKeepsInv

LEMMA LookUpdateShotFits ==
  ASSUME ContentInv, NEW c \in Clients, NEW b \in Shots,
         NEW scenes \in AtMostOne(Scenes \cup {None}),
         NEW casts \in AtMostOne(SUBSET Characters),
         NEW pictures, LookUpdateShot(c, b, scenes, casts, pictures)
  PROVE  ContentInv'
<1> DEFINE e == shot[b].episode
<1> DEFINE r == [op |-> "updateShot", shot |-> b, scenes |-> scenes, casts |-> casts, pictures |-> pictures]
<1>1. /\ Live(shot, b) /\ Begin(c, r)
      /\ \A s \in (IF scenes = {} THEN {shot[b].scene} ELSE scenes) : Fits(DramaOf(e), s, UNION casts)
  BY DEF LookUpdateShot
<1>2. scenes \subseteq Scenes \cup {None} /\ UNION casts \subseteq Characters
  BY DEF AtMostOne
<1>3. \A s \in scenes : s # None => InsertedScene(s) /\ scene[s].drama = DramaOf(e)
  BY <1>1, <1>2 DEF Fits, Live, InsertedScene
<1>4. \A p \in UNION casts : InsertedCharacter(p) /\ character[p].drama = DramaOf(e)
  BY <1>1, <1>2 DEF Fits, Live, InsertedCharacter
<1>5. ReqFits(r)
  BY <1>1, <1>3, <1>4 DEF ReqFits, InsertedShot, Live
<1> QED
  BY <1>1, <1>5, BeginKeepsInv

LEMMA LooksKeepInv ==
  ASSUME ContentInv, TRUE \notin CrossDrama, NEW c \in Clients, Looks(c)
  PROVE  ContentInv'
<1>1. ASSUME NEW d \in Dramas, LookCreateEpisode(c, d) PROVE ContentInv'
  BY <1>1, BeginKeepsInv DEF LookCreateEpisode, ReqFits
<1>2. ASSUME NEW d \in Dramas, LookDeleteDrama(c, d) PROVE ContentInv'
  BY <1>2, BeginKeepsInv DEF LookDeleteDrama, ReqFits
<1>3. ASSUME NEW e \in Episodes, LookCopyEpisode(c, e) PROVE ContentInv'
  BY <1>3, BeginKeepsInv DEF LookCopyEpisode, ReqFits, InsertedEpisode, Live
<1>4. ASSUME NEW e \in Episodes, LookMoveEpisode(c, e) PROVE ContentInv'
  BY <1>4, BeginKeepsInv DEF LookMoveEpisode, ReqFits
<1>5. ASSUME NEW e \in Episodes, LookSaveShots(c, e) PROVE ContentInv'
  BY <1>5, BeginKeepsInv DEF LookSaveShots, ReqFits, InsertedEpisode, InsertedShot
<1>6. ASSUME NEW d \in Dramas, NEW e \in Episodes \cup {None}, LookCreateScene(c, d, e) PROVE ContentInv'
  BY <1>6, BeginKeepsInv DEF LookCreateScene, ReqFits
<1>7. ASSUME NEW d \in Dramas, NEW e \in Episodes \cup {None}, LookCreateCharacter(c, d, e) PROVE ContentInv'
  BY <1>7, BeginKeepsInv DEF LookCreateCharacter, ReqFits
<1>8. ASSUME NEW s \in Scenes, NEW e \in Episodes, LookCopyScene(c, s, e) PROVE ContentInv'
  BY <1>8, BeginKeepsInv DEF LookCopyScene, ReqFits
<1>9. ASSUME NEW e \in Episodes, NEW s \in Scenes \cup {None}, NEW cast \in SUBSET Characters,
             LookCreateShot(c, e, s, cast)
      PROVE  ContentInv'
  <2>1. Fitting(e, s, cast)
    BY <1>9, FitsIsFitting DEF LookCreateShot, InsertedEpisode, Live
  <2> QED
    BY <1>9, <2>1, BeginKeepsInv DEF LookCreateShot, ReqFits
<1>10. ASSUME NEW b \in Shots, LookCopyShot(c, b) PROVE ContentInv'
  <2>1. Fitting(shot[b].episode, shot[b].scene, shot[b].cast)
    BY <1>10 DEF LookCopyShot, Live, ContentInv, ShotsFit
  <2> QED
    BY <1>10, <2>1, BeginKeepsInv DEF LookCopyShot, ReqFits
<1>11. ASSUME NEW b \in Shots, LookMoveShot(c, b) PROVE ContentInv'
  BY <1>11, BeginKeepsInv DEF LookMoveShot, ReqFits
<1>13. ASSUME NEW e \in Episodes, LookSaveDedup(c, e) PROVE ContentInv'
  BY <1>13, BeginKeepsInv DEF LookSaveDedup, ReqFits
<1>12. {} \in AtMostOne(Scenes \cup {None}) /\ {} \in AtMostOne(SUBSET Characters)
  BY DEF AtMostOne
<1> QED
  BY <1>1, <1>2, <1>3, <1>4, <1>5, <1>6, <1>7, <1>8, <1>9, <1>10, <1>11, <1>12, <1>13,
     LookMoveSceneFits, LookUpdateShotFits DEF Looks
-----------------------------------------------------------------------------
(***************************************************************************)
(* What requests write                                                     *)
(***************************************************************************)
\* The drama of a shot that stays in its episode stays too.
LEMMA ShotsKeepTheirDrama ==
  ASSUME ContentInv, NEW b \in Shots, shot[b].state # "none",
         \A e \in Episodes : episode[e].state # "none" => episode'[e].drama = episode[e].drama,
         shot'[b].episode = shot[b].episode
  PROVE  episode'[shot'[b].episode].drama = episode[shot[b].episode].drama
BY DEF ContentInv, ShotsFit, Fitting, InsertedEpisode

LEMMA CreateDramaKeepsInv ==
  ASSUME ContentInv, NEW d \in Dramas, NEW es \in SUBSET Episodes, CreateDrama(d, es)
  PROVE  ContentInv'
<1>1. UNCHANGED <<scene, character, shot, req>>
  BY DEF CreateDrama, Once
<1>2. PICK number \in Orders(es) :
        episode' = [e \in Episodes |-> IF e \in es
                     THEN [state |-> "live", drama |-> d, number |-> number[e]] ELSE episode[e]]
  BY DEF CreateDrama
<1>3. \A e \in Episodes : episode[e].state # "none" => episode'[e] = episode[e]
  BY <1>2 DEF CreateDrama, Free
<1>4. Keeps
  BY <1>1, <1>3, ShotsKeepTheirDrama DEF Keeps
<1>5. ShotsKept /\ ReqsKept
  BY <1>1 DEF ShotsKept, ReqsKept
<1>6. Shape'
  BY <1>1, <1>2 DEF ContentInv, Shape
<1> QED
  BY <1>4, <1>5, <1>6, StepKeepsInv

LEMMA CreateEpisodeKeepsInv ==
  ASSUME ContentInv, NEW c \in Clients, CreateEpisode(c)
  PROVE  ContentInv'
<1>1. UNCHANGED <<scene, character, shot>> /\ End(c)
  BY DEF CreateEpisode
<1>2. PICK e \in Free(episode) :
        episode' = [episode EXCEPT ![e] = [state |-> "live", drama |-> req[c].drama, number |-> req[c].number]]
  BY DEF CreateEpisode
<1>3. \A x \in Episodes : episode[x].state # "none" => episode'[x] = episode[x]
  BY <1>2 DEF Free, ContentInv, Shape
<1>4. Keeps
  BY <1>1, <1>3, ShotsKeepTheirDrama DEF Keeps
<1>5. ShotsKept
  BY <1>1 DEF ShotsKept
<1>6. Shape'
  BY <1>1, <1>2, EndedFits DEF ContentInv, Shape
<1> QED
  BY <1>1, <1>4, <1>5, <1>6, EndedFits, StepKeepsInv

LEMMA MoveEpisodeKeepsInv ==
  ASSUME ContentInv, NEW c \in Clients, MoveEpisode(c)
  PROVE  ContentInv'
<1>1. UNCHANGED <<scene, character, shot>> /\ End(c) /\ episode' = Exchange(episode, req[c])
  BY DEF MoveEpisode
<1>2. /\ DOMAIN episode' = Episodes
      /\ \A x \in Episodes : /\ DOMAIN episode'[x] = {"state", "drama", "number"}
                             /\ episode'[x].state = episode[x].state /\ episode'[x].drama = episode[x].drama
  BY <1>1 DEF Exchange, ContentInv, Shape
<1>3. Keeps
  BY <1>1, <1>2, ShotsKeepTheirDrama DEF Keeps
<1>4. ShotsKept
  BY <1>1 DEF ShotsKept
<1>5. Shape'
  BY <1>1, <1>2, EndedFits DEF ContentInv, Shape
<1> QED
  BY <1>1, <1>3, <1>4, <1>5, EndedFits, StepKeepsInv

LEMMA DeleteEpisodeKeepsInv ==
  ASSUME ContentInv, NEW e \in Episodes, DeleteEpisode(e)
  PROVE  ContentInv'
<1>1. /\ UNCHANGED <<character, req>>
      /\ episode' = Deleted(episode, {e}) /\ shot' = Deleted(shot, ShotsOf(e))
      /\ scene' = Deleted(scene, ScenesOf(e)) /\ Live(episode, e)
  BY DEF DeleteEpisode, Once
<1>2. /\ \A x \in Episodes : /\ episode[x].state # "none" <=> episode'[x].state # "none"
                             /\ episode'[x].drama = episode[x].drama
      /\ \A s \in Scenes : /\ scene[s].state # "none" <=> scene'[s].state # "none"
                           /\ scene'[s].drama = scene[s].drama
      /\ \A b \in Shots : /\ shot[b].state # "none" <=> shot'[b].state # "none"
                          /\ shot'[b].episode = shot[b].episode
                          /\ shot'[b].scene = shot[b].scene /\ shot'[b].cast = shot[b].cast
  BY <1>1 DEF Deleted, ShotsOf, ScenesOf, Live, ContentInv, Shape
<1>3. Keeps
  BY <1>1, <1>2, ShotsKeepTheirDrama DEF Keeps
<1>4. ShotsKept /\ ReqsKept
  BY <1>1, <1>2 DEF ShotsKept, ReqsKept
<1>5. Shape'
  BY <1>1 DEF ContentInv, Shape, Deleted
<1> QED
  BY <1>3, <1>4, <1>5, StepKeepsInv

LEMMA DeleteDramaKeepsInv ==
  ASSUME ContentInv, NEW c \in Clients, DeleteDrama(c)
  PROVE  ContentInv'
<1> DEFINE d == req[c].drama
           gone == UNION {ShotsOf(e) : e \in req[c].episodes}
<1>1. /\ End(c)
      /\ episode' = Deleted(episode, EpisodesOf(d)) /\ shot' = Deleted(shot, gone)
      /\ character' = Deleted(character, {p \in Characters : Live(character, p) /\ character[p].drama = d})
      /\ scene' = Deleted(scene, {s \in Scenes : Live(scene, s) /\ scene[s].drama = d})
  BY DEF DeleteDrama
<1>2. \A b \in gone : Live(shot, b)
  BY DEF ShotsOf
<1>3. \A x \in Episodes : /\ episode[x].state # "none" <=> episode'[x].state # "none"
                          /\ episode'[x].drama = episode[x].drama
  BY <1>1 DEF Deleted, EpisodesOf, Live, ContentInv, Shape
<1>4. \A s \in Scenes : /\ scene[s].state # "none" <=> scene'[s].state # "none"
                        /\ scene'[s].drama = scene[s].drama
  BY <1>1 DEF Deleted, Live, ContentInv, Shape
<1>5. \A p \in Characters : /\ character[p].state # "none" <=> character'[p].state # "none"
                            /\ character'[p].drama = character[p].drama
  BY <1>1 DEF Deleted, Live, ContentInv, Shape
<1>6. \A b \in Shots : /\ shot[b].state # "none" <=> shot'[b].state # "none"
                       /\ shot'[b].episode = shot[b].episode
                       /\ shot'[b].scene = shot[b].scene /\ shot'[b].cast = shot[b].cast
  <2> HIDE DEF gone
  <2> QED
    BY <1>1, <1>2 DEF Deleted, Live, ContentInv, Shape
<1>7. Keeps
  BY <1>3, <1>4, <1>5, <1>6, ShotsKeepTheirDrama DEF Keeps
<1>8. ShotsKept
  BY <1>6 DEF ShotsKept
<1>9. Shape'
  BY <1>1, EndedFits DEF ContentInv, Shape, Deleted
<1> QED
  BY <1>1, <1>7, <1>8, <1>9, EndedFits, StepKeepsInv

LEMMA CreateSceneKeepsInv ==
  ASSUME ContentInv, NEW c \in Clients, CreateScene(c) \/ CopyScene(c)
  PROVE  ContentInv'
<1>1. UNCHANGED <<episode, character, shot>> /\ End(c)
  BY DEF CreateScene, CopyScene
<1>2. PICK s \in Free(scene) :
        \E d, e : scene' = [scene EXCEPT ![s] = [state |-> "live", drama |-> d, episode |-> e]]
  BY DEF CreateScene, CopyScene
<1>3. \A x \in Scenes : scene[x].state # "none" => scene'[x] = scene[x]
  BY <1>2 DEF Free, ContentInv, Shape
<1>4. Keeps
  BY <1>1, <1>3, ShotsKeepTheirDrama DEF Keeps
<1>5. ShotsKept
  BY <1>1 DEF ShotsKept
<1>6. Shape'
  BY <1>1, <1>2, EndedFits DEF ContentInv, Shape
<1> QED
  BY <1>1, <1>4, <1>5, <1>6, EndedFits, StepKeepsInv

LEMMA DeleteSceneKeepsInv ==
  ASSUME ContentInv, NEW s \in Scenes, DeleteScene(s)
  PROVE  ContentInv'
<1>1. UNCHANGED <<episode, character, shot, req>> /\ scene' = Deleted(scene, {s})
  BY DEF DeleteScene, Once
<1>2. Keeps
  BY <1>1, ShotsKeepTheirDrama DEF Keeps, Deleted, ContentInv, Shape
<1>3. ShotsKept /\ ReqsKept
  BY <1>1 DEF ShotsKept, ReqsKept
<1>4. Shape'
  BY <1>1 DEF ContentInv, Shape, Deleted
<1> QED
  BY <1>2, <1>3, <1>4, StepKeepsInv

LEMMA CharactersKeepInv ==
  ASSUME ContentInv, NEW c \in Clients, CreateCharacter(c)
  PROVE  ContentInv'
<1>1. UNCHANGED <<episode, scene, shot>> /\ End(c)
  BY DEF CreateCharacter
<1>2. PICK p \in Free(character) :
        character' = [character EXCEPT ![p] = [state |-> "live", drama |-> req[c].drama]]
  BY DEF CreateCharacter
<1>3. \A x \in Characters : character[x].state # "none" => character'[x] = character[x]
  BY <1>2 DEF Free, ContentInv, Shape
<1>4. Keeps
  BY <1>1, <1>3, ShotsKeepTheirDrama DEF Keeps
<1>5. ShotsKept
  BY <1>1 DEF ShotsKept
<1>6. Shape'
  BY <1>1, <1>2, EndedFits DEF ContentInv, Shape
<1> QED
  BY <1>1, <1>4, <1>5, <1>6, EndedFits, StepKeepsInv

LEMMA DeleteCharacterKeepsInv ==
  ASSUME ContentInv, NEW p \in Characters, DeleteCharacter(p)
  PROVE  ContentInv'
<1>1. UNCHANGED <<episode, scene, shot, req>> /\ character' = Deleted(character, {p})
  BY DEF DeleteCharacter, Once
<1>2. Keeps
  BY <1>1, ShotsKeepTheirDrama DEF Keeps, Deleted, ContentInv, Shape
<1>3. ShotsKept /\ ReqsKept
  BY <1>1 DEF ShotsKept, ReqsKept
<1>4. Shape'
  BY <1>1 DEF ContentInv, Shape, Deleted
<1> QED
  BY <1>2, <1>3, <1>4, StepKeepsInv

\* A step that changes shots only, and nothing of what places a shot that was inserted
LEMMA ShotsOnly ==
  ASSUME ContentInv, UNCHANGED <<episode, scene, character>>, ReqsKept, ShotsKept,
         \A b \in Shots : shot[b].state # "none" =>
           shot'[b].state # "none" /\ shot'[b].episode = shot[b].episode,
         Shape'
  PROVE  ContentInv'
<1>1. Keeps
  BY DEF Keeps
<1> QED
  BY <1>1, StepKeepsInv

LEMMA DeleteShotKeepsInv ==
  ASSUME ContentInv, NEW b \in Shots, DeleteShot(b)
  PROVE  ContentInv'
<1>1. UNCHANGED <<episode, scene, character, req>> /\ shot' = Deleted(shot, {b}) /\ Live(shot, b)
  BY DEF DeleteShot, Once
<1>2. \A x \in Shots : /\ shot[x].state # "none" <=> shot'[x].state # "none"
                       /\ shot'[x].episode = shot[x].episode
                       /\ shot'[x].scene = shot[x].scene /\ shot'[x].cast = shot[x].cast
  BY <1>1 DEF Deleted, Live, ContentInv, Shape
<1>3. ShotsKept /\ ReqsKept
  BY <1>1, <1>2 DEF ShotsKept, ReqsKept
<1>4. Shape'
  BY <1>1 DEF ContentInv, Shape, Deleted
<1> QED
  BY <1>1, <1>2, <1>3, <1>4, ShotsOnly

LEMMA MoveShotKeepsInv ==
  ASSUME ContentInv, NEW c \in Clients, MoveShot(c)
  PROVE  ContentInv'
<1>1. UNCHANGED <<episode, scene, character>> /\ End(c) /\ shot' = Exchange(shot, req[c])
  BY DEF MoveShot
<1>2. \A x \in Shots : /\ shot'[x].state = shot[x].state /\ shot'[x].episode = shot[x].episode
                       /\ shot'[x].scene = shot[x].scene /\ shot'[x].cast = shot[x].cast
  BY <1>1 DEF Exchange, ContentInv, Shape
<1>3. ShotsKept
  BY <1>2 DEF ShotsKept
<1>4. Shape'
  BY <1>1, EndedFits DEF ContentInv, Shape, Exchange
<1> QED
  BY <1>1, <1>2, <1>3, <1>4, EndedFits, ShotsOnly

LEMMA InsertShotKeepsInv ==
  ASSUME ContentInv, NEW c \in Clients, InsertShot(c)
  PROVE  ContentInv'
<1> DEFINE r == req[c]
<1>1. UNCHANGED <<episode, scene, character>> /\ End(c)
  BY DEF InsertShot
<1>2. PICK b \in Free(shot) :
        shot' = [shot EXCEPT ![b] = [NoShot EXCEPT !.state = "live", !.episode = r.episode,
                                       !.number = r.number, !.scene = r.scene, !.cast = r.cast]]
  BY DEF InsertShot
<1>3. /\ \A x \in Shots \ {b} : shot'[x] = shot[x]
      /\ b \in Shots /\ shot[b].state = "none"
      /\ shot'[b].episode = r.episode /\ shot'[b].scene = r.scene /\ shot'[b].cast = r.cast
  BY <1>2 DEF Free, ContentInv, Shape, NoShot
<1>4. Fitting(r.episode, r.scene, r.cast)
  BY DEF InsertShot, ContentInv, ReqFits
<1>5. Fitting(shot[b].episode, shot[b].scene, shot[b].cast)'
  BY <1>1, <1>3, <1>4 DEF Fitting, InsertedEpisode, InsertedScene, InsertedCharacter, DramaOf
<1>6. ShotsKept
  BY <1>3, <1>5 DEF ShotsKept
<1>7. Shape'
  BY <1>1, <1>2, EndedFits DEF ContentInv, Shape, NoShot
<1> QED
  BY <1>1, <1>3, <1>6, <1>7, EndedFits, ShotsOnly

LEMMA UpdateShotKeepsInv ==
  ASSUME ContentInv, NEW c \in Clients, UpdateShot(c)
  PROVE  ContentInv'
<1> PICK b : b = req[c].shot
  OBVIOUS
<1> DEFINE r == req[c]
           e == shot[b].episode
<1>1. /\ UNCHANGED <<episode, scene, character>> /\ End(c)
      /\ shot' = [shot EXCEPT
            ![b].scene = IF r.scenes = {} THEN @ ELSE CHOOSE s \in r.scenes : TRUE,
            ![b].cast = IF r.casts = {} THEN @ ELSE UNION r.casts,
            ![b].frames = [k \in Slots |-> IF k \in DOMAIN r.pictures THEN r.pictures[k] ELSE @[k]],
            ![b].edited = @ \cup DOMAIN r.pictures]
  BY DEF UpdateShot
<1>2. ReqFits(r) /\ r.op = "updateShot"
  BY DEF UpdateShot, ContentInv
<1>3. InsertedShot(b)
  BY <1>2 DEF ReqFits
<1>4. /\ \A x \in Shots \ {b} : shot'[x] = shot[x]
      /\ \A x \in Shots : shot'[x].state = shot[x].state /\ shot'[x].episode = shot[x].episode
      /\ shot'[b].scene = IF r.scenes = {} THEN shot[b].scene ELSE CHOOSE s \in r.scenes : TRUE
      /\ shot'[b].cast = IF r.casts = {} THEN shot[b].cast ELSE UNION r.casts
  <2> PICK s, cast, F, E :
           /\ s = IF r.scenes = {} THEN shot[b].scene ELSE CHOOSE x \in r.scenes : TRUE
           /\ cast = IF r.casts = {} THEN shot[b].cast ELSE UNION r.casts
           /\ F = [k \in Slots |-> IF k \in DOMAIN r.pictures THEN r.pictures[k] ELSE shot[b].frames[k]]
           /\ E = shot[b].edited \cup DOMAIN r.pictures
    OBVIOUS
  <2>1. DOMAIN shot = Shots /\ b \in Shots
        /\ DOMAIN shot[b] = {"state", "episode", "number", "scene", "cast", "frames", "edited"}
    BY <1>3 DEF ContentInv, Shape, InsertedShot
  <2>2. shot' = [shot EXCEPT ![b].scene = s, ![b].cast = cast, ![b].frames = F, ![b].edited = E]
    BY <1>1, <2>1
  <2>3. /\ \A x \in Shots \ {b} : shot'[x] = shot[x]
        /\ shot'[b].state = shot[b].state /\ shot'[b].episode = shot[b].episode
        /\ shot'[b].scene = s /\ shot'[b].cast = cast
    BY <2>1, <2>2
  <2> QED
    BY <2>1, <2>3
<1>5. Fitting(e, shot[b].scene, shot[b].cast)
  BY <1>3 DEF ContentInv, ShotsFit, InsertedShot
<1>6. shot'[b].scene # None => InsertedScene(shot'[b].scene) /\ scene[shot'[b].scene].drama = DramaOf(e)
  BY <1>2, <1>4, <1>5 DEF ReqFits, Fitting
<1>7. \A p \in shot'[b].cast : InsertedCharacter(p) /\ character[p].drama = DramaOf(e)
  BY <1>2, <1>4, <1>5 DEF ReqFits, Fitting
<1>8. Fitting(shot[b].episode, shot[b].scene, shot[b].cast)'
  BY <1>1, <1>3, <1>4, <1>5, <1>6, <1>7
     DEF Fitting, InsertedEpisode, InsertedScene, InsertedCharacter, InsertedShot, DramaOf
<1>9. ShotsKept
  <2> HIDE DEF r
  <2> QED
    BY <1>3, <1>4, <1>8 DEF ShotsKept, InsertedShot
<1>10. Shape'
  BY <1>1, EndedFits DEF ContentInv, Shape
<1> QED
  BY <1>1, <1>4, <1>9, <1>10, EndedFits, ShotsOnly

LEMMA MoveSceneKeepsInv ==
  ASSUME ContentInv, NEW c \in Clients, MoveScene(c)
  PROVE  ContentInv'
<1> PICK e, s, number : e = req[c].episode /\ s = req[c].scene /\ number = req[c].number
  OBVIOUS
<1> DEFINE going == DOMAIN number
<1>1. /\ UNCHANGED <<episode, character>> /\ End(c)
      /\ shot' = [b \in Shots |-> IF b \in going
                    THEN [shot[b] EXCEPT !.episode = e, !.number = number[b]] ELSE shot[b]]
      /\ scene' = [scene EXCEPT ![s].drama = DramaOf(e), ![s].episode = e]
  BY DEF MoveScene
<1>2. ReqFits(req[c]) /\ req[c].op = "moveScene"
  BY DEF MoveScene, ContentInv
<1>3. /\ InsertedScene(s) /\ InsertedEpisode(e) /\ scene[s].drama = DramaOf(e)
      /\ \A b \in going : InsertedShot(b) /\ DramaOf(shot[b].episode) = DramaOf(e)
  BY <1>2 DEF ReqFits
<1>4. \A x \in Scenes : scene'[x].state = scene[x].state /\ scene'[x].drama = scene[x].drama
  BY <1>1, <1>3 DEF ContentInv, Shape, InsertedScene
<1>5. /\ \A b \in Shots : /\ shot'[b].state = shot[b].state
                          /\ shot'[b].scene = shot[b].scene /\ shot'[b].cast = shot[b].cast
      /\ \A b \in Shots \ going : shot'[b].episode = shot[b].episode
      /\ \A b \in going : shot'[b].episode = e
  <2>1. \A b \in Shots \ going : shot'[b] = shot[b]
    BY <1>1
  <2>2. \A b \in going : shot'[b] = [shot[b] EXCEPT !.episode = e, !.number = number[b]]
    BY <1>1, <1>3 DEF InsertedShot
  <2>3. \A b \in Shots : DOMAIN shot[b] = {"state", "episode", "number", "scene", "cast", "frames", "edited"}
    BY DEF ContentInv, Shape
  <2>5. going \subseteq Shots
    BY <1>3 DEF InsertedShot
  <2>6. ASSUME NEW b \in going
        PROVE  /\ shot'[b].state = shot[b].state /\ shot'[b].scene = shot[b].scene
               /\ shot'[b].cast = shot[b].cast /\ shot'[b].episode = e
    <3> PICK n : n = number[b]
      OBVIOUS
    <3>1. shot'[b] = [shot[b] EXCEPT !.episode = e, !.number = n]
      BY <2>2
    <3>2. DOMAIN shot[b] = {"state", "episode", "number", "scene", "cast", "frames", "edited"}
      BY <2>3, <2>5
    <3> QED
      BY <3>1, <3>2
  <2> HIDE DEF going
  <2> QED
    BY <2>1, <2>5, <2>6
<1>6. Keeps
  BY <1>1, <1>3, <1>4, <1>5 DEF Keeps, DramaOf
<1>7. ASSUME NEW b \in going PROVE Fitting(shot[b].episode, shot[b].scene, shot[b].cast)'
  <2>1. Fitting(shot[b].episode, shot[b].scene, shot[b].cast)
    BY <1>3 DEF ContentInv, ShotsFit, InsertedShot
  <2>2. InsertedShot(b) /\ DramaOf(shot[b].episode) = DramaOf(e)
    BY <1>3
  <2>3. /\ shot'[b].episode = e
        /\ shot'[b].scene = shot[b].scene /\ shot'[b].cast = shot[b].cast
    BY <1>5, <2>2 DEF InsertedShot
  <2>4. InsertedEpisode(e)' /\ episode'[e].drama = DramaOf(e)
    BY <1>1, <1>3 DEF InsertedEpisode, DramaOf
  <2>5. shot[b].scene # None =>
          /\ shot[b].scene \in Scenes /\ scene'[shot[b].scene].state # "none"
          /\ scene'[shot[b].scene].drama = DramaOf(e)
    BY <1>4, <2>1, <2>2 DEF Fitting, InsertedScene
  <2>6. \A p \in shot[b].cast :
          p \in Characters /\ character'[p].state # "none" /\ character'[p].drama = DramaOf(e)
    BY <1>1, <2>1, <2>2 DEF Fitting, InsertedCharacter
  <2> QED
    BY <2>3, <2>4, <2>5, <2>6 DEF Fitting, InsertedEpisode, InsertedScene, InsertedCharacter, DramaOf
<1>8. ShotsKept
  <2> HIDE DEF going
  <2> QED
    BY <1>5, <1>7 DEF ShotsKept
<1>9. Shape'
  BY <1>1, EndedFits DEF ContentInv, Shape
<1> QED
  BY <1>1, <1>6, <1>8, <1>9, EndedFits, StepKeepsInv

LEMMA SaveShotsKeepsInv ==
  ASSUME ContentInv, NEW c \in Clients, SaveShots(c)
  PROVE  ContentInv'
<1> PICK e, old : e = req[c].episode /\ old = req[c].old
  OBVIOUS
<1>1. UNCHANGED <<episode, scene, character>> /\ End(c)
  BY DEF SaveShots
<1>2. PICK bs \in (SUBSET Free(shot)) \ {{}} :
        \E number \in Orders(bs), s \in [bs -> Scenes \cup {None}], cast \in [bs -> SUBSET Characters] :
          /\ \A b \in bs : Fits(DramaOf(req[c].episode), s[b], cast[b])
          /\ shot' = [b \in Shots |->
               CASE b \in req[c].old -> [shot[b] EXCEPT !.state = "gone"]
                 [] b \in bs -> [NoShot EXCEPT !.state = "live", !.episode = req[c].episode,
                                   !.number = number[b], !.scene = s[b], !.cast = cast[b]]
                 [] OTHER -> shot[b]]
  BY Zenon DEF SaveShots
<1>3. PICK number \in Orders(bs), s \in [bs -> Scenes \cup {None}], cast \in [bs -> SUBSET Characters] :
        /\ \A b \in bs : Fits(DramaOf(req[c].episode), s[b], cast[b])
        /\ shot' = [b \in Shots |->
             CASE b \in req[c].old -> [shot[b] EXCEPT !.state = "gone"]
               [] b \in bs -> [NoShot EXCEPT !.state = "live", !.episode = req[c].episode,
                                 !.number = number[b], !.scene = s[b], !.cast = cast[b]]
               [] OTHER -> shot[b]]
  BY <1>2
<1>4. InsertedEpisode(e) /\ \A b \in old : InsertedShot(b)
  BY DEF SaveShots, ContentInv, ReqFits
<1>5. \A b \in bs : b \in Shots /\ shot[b].state = "none" /\ b \notin old
  BY <1>2, <1>4 DEF Free, ContentInv, Shape, InsertedShot
<1>6. \A b \in bs : /\ shot'[b].episode = e /\ shot'[b].scene = s[b] /\ shot'[b].cast = cast[b]
                    /\ DOMAIN shot'[b] = {"state", "episode", "number", "scene", "cast", "frames", "edited"}
  BY <1>3, <1>5 DEF NoShot
<1>7. \A b \in Shots \ bs :
        /\ shot'[b].episode = shot[b].episode /\ shot'[b].scene = shot[b].scene
        /\ shot'[b].cast = shot[b].cast
        /\ shot[b].state # "none" <=> shot'[b].state # "none"
        /\ DOMAIN shot'[b] = {"state", "episode", "number", "scene", "cast", "frames", "edited"}
  <2>1. \A b \in Shots \ bs : shot'[b] = IF b \in old THEN [shot[b] EXCEPT !.state = "gone"] ELSE shot[b]
    BY <1>3
  <2>2. \A b \in Shots : DOMAIN shot[b] = {"state", "episode", "number", "scene", "cast", "frames", "edited"}
    BY DEF ContentInv, Shape
  <2> QED
    BY <2>1, <2>2, <1>4 DEF InsertedShot
<1>8. ASSUME NEW b \in bs PROVE Fitting(shot[b].episode, shot[b].scene, shot[b].cast)'
  <2>1. s[b] \in Scenes \cup {None} /\ cast[b] \in SUBSET Characters /\ Fits(DramaOf(e), s[b], cast[b])
    BY <1>3
  <2>2. Fitting(e, s[b], cast[b])
    BY <1>4, <2>1, FitsIsFitting DEF InsertedEpisode
  <2>3. shot'[b].episode = e /\ shot'[b].scene = s[b] /\ shot'[b].cast = cast[b]
    BY <1>6
  <2> QED
    BY <1>1, <2>2, <2>3 DEF Fitting, InsertedEpisode, InsertedScene, InsertedCharacter, DramaOf
<1>9. ShotsKept
  BY <1>5, <1>7, <1>8 DEF ShotsKept
<1>10. Shape'
  <2>1. DOMAIN shot' = Shots
    BY <1>3
  <2> QED
    BY <1>1, <1>6, <1>7, <2>1, EndedFits DEF ContentInv, Shape
<1> QED
  BY <1>1, <1>5, <1>7, <1>9, <1>10, EndedFits, ShotsOnly

\* A copied shot has a scene of the copied episode's drama, and characters of it.
LEMMA CopyEpisodeKeepsInv ==
  ASSUME ContentInv, NEW c \in Clients, CopyEpisode(c)
  PROVE  ContentInv'
<1> DEFINE d == DramaOf(req[c].episode)
           owned == ScenesOf(req[c].episode)
           old == ShotsOf(req[c].episode)
           SceneFor(s, into) == CASE s \in owned -> CHOOSE t \in DOMAIN into : into[t] = s
                                  [] s # None /\ s \notin owned /\ Live(scene, s) -> s
                                  [] OTHER -> None
           Copy(b, from, into, e) ==
             [NoShot EXCEPT !.state = "live", !.episode = e,
                            !.number = shot[from[b]].number,
                            !.scene = SceneFor(shot[from[b]].scene, into),
                            !.cast = {p \in shot[from[b]].cast : Live(character, p)}]
<1>1. UNCHANGED character /\ End(c)
  BY DEF CopyEpisode
<1>2. PICK e \in Free(episode), ts \in SUBSET Free(scene), bs \in SUBSET Free(shot) :
        /\ \E into \in Bijection(ts, owned), from \in Bijection(bs, old) :
             /\ scene' = [s \in Scenes |-> IF s \in ts
                   THEN [state |-> "live", drama |-> d, episode |-> e] ELSE scene[s]]
             /\ shot' = [b \in Shots |-> IF b \in bs THEN Copy(b, from, into, e) ELSE shot[b]]
        /\ episode' = [episode EXCEPT ![e] = [state |-> "live", drama |-> d, number |-> req[c].number]]
  BY Zenon DEF CopyEpisode
<1>3. PICK into \in Bijection(ts, owned), from \in Bijection(bs, old) :
        /\ scene' = [s \in Scenes |-> IF s \in ts
              THEN [state |-> "live", drama |-> d, episode |-> e] ELSE scene[s]]
        /\ shot' = [b \in Shots |-> IF b \in bs THEN Copy(b, from, into, e) ELSE shot[b]]
  BY <1>2
<1>4. InsertedEpisode(req[c].episode)
  BY DEF CopyEpisode, ContentInv, ReqFits
<1>5. /\ e \in Episodes /\ e # None /\ episode[e].state = "none"
      /\ ts \subseteq Scenes /\ \A s \in ts : scene[s].state = "none"
      /\ bs \subseteq Shots /\ \A b \in bs : shot[b].state = "none"
  BY ContentAssumption DEF Free, ContentInv, Shape
<1>6. /\ \A x \in Episodes : episode[x].state # "none" => episode'[x] = episode[x]
      /\ episode'[e] = [state |-> "live", drama |-> d, number |-> req[c].number]
      /\ \A x \in Episodes \ {e} : episode'[x] = episode[x]
      /\ DOMAIN episode' = Episodes
  BY <1>2, <1>5 DEF ContentInv, Shape
<1>7. /\ \A s \in Scenes \ ts : scene'[s] = scene[s]
      /\ \A s \in ts : scene'[s] = [state |-> "live", drama |-> d, episode |-> e]
      /\ DOMAIN scene' = Scenes
  BY <1>3, <1>5
<1>8. /\ \A b \in Shots \ bs : shot'[b] = shot[b]
      /\ DOMAIN shot' = Shots
  BY <1>3, <1>5
<1>9. ASSUME NEW b \in bs
      PROVE  /\ shot'[b].episode = e
             /\ shot'[b].scene = SceneFor(shot[from[b]].scene, into)
             /\ shot'[b].cast = {p \in shot[from[b]].cast : Live(character, p)}
             /\ DOMAIN shot'[b] = {"state", "episode", "number", "scene", "cast", "frames", "edited"}
  <2> PICK s, cast : /\ s = SceneFor(shot[from[b]].scene, into)
                     /\ cast = {p \in shot[from[b]].cast : Live(character, p)}
    OBVIOUS
  <2>1. shot'[b] = [NoShot EXCEPT !.state = "live", !.episode = e, !.number = shot[from[b]].number,
                                  !.scene = s, !.cast = cast]
    BY <1>3, <1>5
  <2> QED
    BY <2>1 DEF NoShot
<1>10. Keeps
  <2>1. \A s \in Scenes : scene[s].state # "none" => scene'[s] = scene[s]
    BY <1>5, <1>7
  <2>2. \A b \in Shots : shot[b].state # "none" => shot'[b] = shot[b]
    BY <1>5, <1>8
  <2> QED
    BY <1>1, <1>6, <2>1, <2>2, ShotsKeepTheirDrama DEF Keeps
<1>11. ASSUME NEW b \in bs PROVE Fitting(shot[b].episode, shot[b].scene, shot[b].cast)'
  <2> PICK was : was = from[b]
    OBVIOUS
  <2>1. was \in old
    BY DEF Bijection, Surjection, Injection
  <2>2. was \in Shots /\ shot[was].episode = req[c].episode /\ shot[was].state # "none"
    BY <2>1 DEF ShotsOf, Live
  <2>3. Fitting(req[c].episode, shot[was].scene, shot[was].cast)
    BY <2>2 DEF ContentInv, ShotsFit
  <2>4. InsertedEpisode(e)' /\ episode'[e].drama = d
    BY <1>5, <1>6 DEF InsertedEpisode
  <2>5. \A p \in shot[was].cast : InsertedCharacter(p)' /\ character'[p].drama = d
    BY <1>1, <2>3 DEF Fitting, InsertedCharacter
  <2>6. ASSUME shot'[b].scene # None
        PROVE  \/ shot'[b].scene \in ts
               \/ /\ InsertedScene(shot'[b].scene) /\ scene'[shot'[b].scene].state # "none"
                  /\ scene'[shot'[b].scene].drama = d
    <3>1. CASE shot[was].scene \in owned
      <4>1. \E t \in ts : into[t] = shot[was].scene
        BY <3>1 DEF Bijection, Surjection
      <4>2. DOMAIN into = ts
        BY DEF Bijection, Injection
      <4>3. (CHOOSE t \in DOMAIN into : into[t] = shot[was].scene) \in ts
        BY <4>1, <4>2
      <4>4. shot'[b].scene = CHOOSE t \in DOMAIN into : into[t] = shot[was].scene
        BY <1>9, <3>1
      <4> QED
        BY <4>3, <4>4
    <3>2. CASE shot[was].scene \notin owned
      <4>1. shot[was].scene # None /\ shot'[b].scene = shot[was].scene
        BY <1>9, <3>2, <2>6
      <4> QED
        BY <1>5, <1>7, <2>3, <4>1 DEF Fitting, InsertedScene
    <3> QED
      BY <3>1, <3>2
  <2>7. shot'[b].scene # None => InsertedScene(shot[b].scene)' /\ scene'[shot'[b].scene].drama = d
    BY <1>5, <1>7, <2>6 DEF InsertedScene
  <2>8. shot'[b].episode = e /\ shot'[b].cast \subseteq shot[was].cast
    BY <1>9
  <2> HIDE DEF d
  <2> QED
    BY <2>4, <2>5, <2>7, <2>8 DEF Fitting, InsertedEpisode, DramaOf
<1>12. ShotsKept
  BY <1>5, <1>8, <1>11 DEF ShotsKept
<1>13. Shape'
  <2>1. \A b \in bs : DOMAIN shot'[b] = {"state", "episode", "number", "scene", "cast", "frames", "edited"}
    BY <1>9
  <2>2. \A x \in Episodes : DOMAIN episode'[x] = {"state", "drama", "number"}
    BY <1>6 DEF ContentInv, Shape
  <2>3. \A x \in Scenes : DOMAIN scene'[x] = {"state", "drama", "episode"}
    BY <1>7 DEF ContentInv, Shape
  <2>4. \A b \in Shots : DOMAIN shot'[b] = {"state", "episode", "number", "scene", "cast", "frames", "edited"}
    BY <1>8, <2>1 DEF ContentInv, Shape
  <2>5. DOMAIN req' = Clients /\ \A x \in Clients : "op" \in DOMAIN req'[x]
    BY <1>1, EndedFits
  <2> QED
    BY <1>1, <1>6, <1>7, <1>8, <2>2, <2>3, <2>4, <2>5 DEF ContentInv, Shape
<1> QED
  BY <1>1, <1>10, <1>12, <1>13, EndedFits, StepKeepsInv

LEMMA ContentNextKeepsInv ==
  ASSUME ContentInv, TRUE \notin CrossDrama, ContentNext
  PROVE  ContentInv'
<1>1. ASSUME Statements PROVE ContentInv'
  BY <1>1, CreateDramaKeepsInv, DeleteEpisodeKeepsInv, DeleteSceneKeepsInv,
     DeleteCharacterKeepsInv, DeleteShotKeepsInv DEF Statements
<1>2. ASSUME NEW c \in Clients, RollBack(c) PROVE ContentInv'
  BY <1>2, EndedFits, TablesUnchanged DEF RollBack, Tables
<1>3. ASSUME NEW c \in Clients, Writes(c) PROVE ContentInv'
  BY <1>2, <1>3, CreateEpisodeKeepsInv, CopyEpisodeKeepsInv, MoveEpisodeKeepsInv, DeleteDramaKeepsInv,
     CreateSceneKeepsInv, MoveSceneKeepsInv, CharactersKeepInv, InsertShotKeepsInv,
     UpdateShotKeepsInv, MoveShotKeepsInv, SaveShotsKeepsInv DEF Writes
<1> QED
  BY <1>1, <1>3, LooksKeepInv DEF ContentNext
-----------------------------------------------------------------------------
(***************************************************************************)
(* The grid                                                                *)
(***************************************************************************)
\* What a grid writes to shots are their frames.
LEMMA FramesOnly ==
  ASSUME ContentInv, UNCHANGED <<episode, scene, character>>, ReqsKept,
         DOMAIN req' = Clients, \A c \in Clients : "op" \in DOMAIN req'[c],
         DOMAIN shot' = Shots,
         \A b \in Shots : /\ DOMAIN shot'[b] = DOMAIN shot[b]
                          /\ shot'[b].state = shot[b].state /\ shot'[b].episode = shot[b].episode
                          /\ shot'[b].scene = shot[b].scene /\ shot'[b].cast = shot[b].cast
  PROVE  ContentInv'
<1>1. ShotsKept
  BY DEF ShotsKept
<1>2. Shape'
  BY DEF ContentInv, Shape
<1> QED
  BY <1>1, <1>2, ShotsOnly

LEMMA GridKeepsRequests ==
  ASSUME ContentInv, UNCHANGED req
  PROVE  ReqsKept /\ DOMAIN req' = Clients /\ \A c \in Clients : "op" \in DOMAIN req'[c]
BY DEF ContentInv, Shape, ReqsKept

LEMMA SplitKeepsInv ==
  ASSUME ContentInv, NEW c \in Clients, Split(c)
  PROVE  ContentInv'
<1> PICK h, assigned : h = req[c].history /\ assigned = req[c].assigned
  OBVIOUS
<1>1. UNCHANGED <<episode, scene, character>> /\ End(c) /\ shot' = Show(h, assigned)
  BY DEF Split
<1> DEFINE M(b) == {k \in Slots : \E i \in DOMAIN assigned : assigned[i] = <<b, k>>}
           E(b) == shot[b].edited \ M(b)
           F(b) == [k \in Slots |->
             IF k \in M(b) THEN Cell(h, CHOOSE i \in DOMAIN assigned : assigned[i] = <<b, k>>)
             ELSE shot[b].frames[k]]
<1>2. shot' = [b \in Shots |-> [shot[b] EXCEPT !.edited = E(b), !.frames = F(b)]]
  BY <1>1 DEF Show
<1> HIDE DEF E, F
<1>3. /\ DOMAIN shot' = Shots
      /\ \A b \in Shots : /\ DOMAIN shot'[b] = DOMAIN shot[b]
                          /\ shot'[b].state = shot[b].state /\ shot'[b].episode = shot[b].episode
                          /\ shot'[b].scene = shot[b].scene /\ shot'[b].cast = shot[b].cast
  BY <1>2 DEF ContentInv, Shape
<1> QED
  BY <1>1, <1>3, EndedFits, FramesOnly

LEMMA AssignCellKeepsInv ==
  ASSUME ContentInv, NEW h, NEW i, NEW b, NEW k, AssignCell(h, i, b, k)
  PROVE  ContentInv'
<1>1. UNCHANGED <<episode, scene, character, req>>
  BY DEF AssignCell, Once
<1> DEFINE E(x) == IF x = b THEN shot[x].edited \ {k} ELSE shot[x].edited
           F(x) == [s \in Slots |->
             IF <<x, s>> = <<b, k>> THEN Cell(h, i)
             ELSE IF <<x, s>> \in Cleared(h, i, <<b, k>>) THEN Blank ELSE shot[x].frames[s]]
<1>2. shot' = [x \in Shots |-> [shot[x] EXCEPT !.edited = E(x), !.frames = F(x)]]
  BY DEF AssignCell
<1> HIDE DEF E, F
<1>3. /\ DOMAIN shot' = Shots
      /\ \A x \in Shots : /\ DOMAIN shot'[x] = DOMAIN shot[x]
                          /\ shot'[x].state = shot[x].state /\ shot'[x].episode = shot[x].episode
                          /\ shot'[x].scene = shot[x].scene /\ shot'[x].cast = shot[x].cast
  BY <1>2 DEF ContentInv, Shape
<1> QED
  BY <1>1, <1>3, GridKeepsRequests, FramesOnly

LEMMA GridNextKeepsInv ==
  ASSUME ContentInv, GridNext
  PROVE  ContentInv'
<1>1. ASSUME NEW c \in Clients, NEW h, NEW e, NEW mode, CreateGrid(c, h, e, mode) PROVE ContentInv'
  <2>1. UNCHANGED Tables /\ req' = [req EXCEPT ![c] = [op |-> "gridGenerate", history |-> h, seen |-> "none"]]
    BY <1>1 DEF CreateGrid, Tables
  <2>2. ReqsKept /\ DOMAIN req' = Clients /\ \A x \in Clients : "op" \in DOMAIN req'[x]
    BY <2>1 DEF ContentInv, Shape, ReqsKept, ReqFits
  <2> QED
    BY <2>1, <2>2, TablesUnchanged
<1>2. ASSUME NEW c \in Clients, NEW h \in Histories, NEW slot, LookSplit(c, h, slot) PROVE ContentInv'
  <2>1. PICK ids \in IdsFor(history[h].mode) :
          Begin(c, [op |-> "gridSplit", history |-> h, assigned |-> Derived(history[h].mode, ids, slot)])
    BY <1>2 DEF LookSplit
  <2> QED
    BY <2>1, BeginKeepsInv DEF ReqFits
<1>3. ASSUME NEW c \in Clients, NEW status, StartImage(c, status) PROVE ContentInv'
  <2>1. /\ UNCHANGED Tables
        /\ req' = [req EXCEPT ![c].seen = status] /\ req[c].op = "gridGenerate"
    BY <1>3 DEF StartImage, Tables
  <2>2. ReqsKept /\ DOMAIN req' = Clients /\ \A x \in Clients : "op" \in DOMAIN req'[x]
    BY <2>1 DEF ContentInv, Shape, ReqsKept, ReqFits
  <2> QED
    BY <2>1, <2>2, TablesUnchanged
<1>4. ASSUME NEW c \in Clients, SaveGrid(c) \/ GridRollBack(c) PROVE ContentInv'
  BY <1>4, EndedFits, TablesUnchanged DEF SaveGrid, GridRollBack, Tables
<1>5. ASSUME NEW h, NEW outcome,
             \/ \E result, tells : PollImage(h, result, tells)
             \/ TellGrid \/ PollerDies \/ EndImageElsewhere(h, outcome) \/ RetryImage(h)
      PROVE  ContentInv'
  BY <1>5, GridKeepsRequests, TablesUnchanged
     DEF PollImage, TellGrid, PollerDies, EndImageElsewhere, RetryImage, contentVars, Tables
<1>6. ASSUME NEW c \in Clients, NEW b \in Shots, LookShowCell(c, b) PROVE ContentInv'
  <2>1. {} \in AtMostOne(Scenes \cup {None}) /\ {} \in AtMostOne(SUBSET Characters)
    BY DEF AtMostOne
  <2> QED
    BY <1>6, <2>1, LookUpdateShotFits DEF LookShowCell
<1> QED
  BY <1>1, <1>2, <1>3, <1>4, <1>5, <1>6, SplitKeepsInv, AssignCellKeepsInv DEF GridNext
-----------------------------------------------------------------------------
LEMMA StutterKeepsInv ==
  ASSUME ContentInv, UNCHANGED vars
  PROVE  ContentInv'
BY GridKeepsRequests, TablesUnchanged DEF vars, contentVars, Tables

LEMMA InitFits ==
  ASSUME Init
  PROVE  ContentInv
BY DEF Init, ContentInit, ContentInv, Shape, ShotsFit, ReqFits, NoShot, Idle

LEMMA ContentInvImplies ==
  ASSUME ContentInv
  PROVE  ShotsStayInTheirDrama
BY DEF ContentInv, ShotsFit, Fitting, ShotsStayInTheirDrama

\* If nobody is allowed to move or copy a scene to another drama, the scene and
\* the characters of every shot are of the drama of its episode, whatever requests,
\* agents and grids overlap (validateStoryboardResources, moveOrCopyScene).
THEOREM ShotsStayInTheirDramaAlways ==
  ASSUME TRUE \notin CrossDrama
  PROVE  Spec => []ShotsStayInTheirDrama
<1>1. Init => ContentInv
  BY InitFits
<1>2. ContentInv /\ [Next]_vars => ContentInv'
  BY ContentNextKeepsInv, GridNextKeepsInv, StutterKeepsInv DEF Next
<1>3. ContentInv => ShotsStayInTheirDrama
  BY ContentInvImplies
<1> QED
  BY <1>1, <1>2, <1>3, PTL DEF Spec
-----------------------------------------------------------------------------
(***************************************************************************)
(* A grid is cut once.  Splitting decides under the lock, and so does the  *)
(* poller.  The request that made the grid saves it without a look at what *)
(* it is by then, and may undo a split; but a grid has one such request,   *)
(* and that saves it once.                                                 *)
(***************************************************************************)
GridOps == {"gridGenerate", "gridSplit"}

HistoryShape ==
  /\ DOMAIN history = Histories
  /\ \A h \in Histories : DOMAIN history[h] = {"state", "mode", "episode", "linked", "assigned", "undone"}
ReqShape == DOMAIN req = Clients /\ \A c \in Clients : "op" \in DOMAIN req[c]

MadeOnce ==
  /\ \A c \in Clients : req[c].op = "gridGenerate" =>
       history[req[c].history].state # "none" /\ ~history[req[c].history].undone
  /\ \A c \in Clients : req[c].op = "gridSplit" => history[req[c].history].state # "none"
  /\ \A c, x \in Clients : req[c].op = "gridGenerate" /\ req[x].op = "gridGenerate"
                             /\ req[c].history = req[x].history => c = x

OfHistories == \A c \in Clients : req[c].op \in GridOps => req[c].history \in Histories

GridInv == HistoryShape /\ ReqShape /\ OfHistories /\ MadeOnce

\* What the poller tells is an end, so never "split".
PollerTellsEnds == poller # Away => poller.history \in Histories /\ poller.tells \in Outcomes

LEMMA PollerKeepsTelling ==
  ASSUME PollerTellsEnds, [Next]_vars
  PROVE  PollerTellsEnds'
<1>1. CASE UNCHANGED poller
  BY <1>1 DEF PollerTellsEnds
<1>2. ASSUME NEW h \in Histories, NEW result, NEW tells \in Outcomes, PollImage(h, result, tells)
      PROVE  PollerTellsEnds'
  BY <1>2 DEF PollImage, PollerTellsEnds
<1>3. ASSUME TellGrid \/ PollerDies PROVE PollerTellsEnds'
  BY <1>3 DEF TellGrid, PollerDies, PollerTellsEnds
<1>4. ASSUME NEW c \in Clients, NEW h \in Histories,
             \/ \E e, mode : CreateGrid(c, h, e, mode)
             \/ \E slot : LookSplit(c, h, slot)
      PROVE  UNCHANGED poller
  BY <1>4 DEF CreateGrid, LookSplit, gridVars
<1>5. ASSUME NEW h \in Histories,
             \/ \E outcome : EndImageElsewhere(h, outcome)
             \/ RetryImage(h)
             \/ \E i, b, k : AssignCell(h, i, b, k)
      PROVE  UNCHANGED poller
  BY <1>5 DEF EndImageElsewhere, RetryImage, AssignCell
<1>6. CASE GridNext
  <2>1. ASSUME NEW c \in Clients, \/ \E status : StartImage(c, status)
                                \/ SaveGrid(c) \/ GridRollBack(c) \/ Split(c)
        PROVE  UNCHANGED poller
    BY <2>1 DEF StartImage, SaveGrid, GridRollBack, Split
  <2>2. ASSUME NEW c \in Clients, NEW b \in Shots, LookShowCell(c, b)
        PROVE  UNCHANGED poller
    BY <2>2 DEF LookShowCell, gridVars
  <2> QED
    BY <1>1, <1>2, <1>3, <1>4, <1>5, <1>6, <2>1, <2>2 DEF GridNext
<1> QED
  BY <1>1, <1>6 DEF Next, vars, gridVars

\* Where a step leaves every request of the grid as it is, or ends it
ReqsOfGridKept ==
  /\ ReqShape'
  /\ \A c \in Clients : req'[c] = req[c] \/ req'[c].op \notin GridOps

\* A request that ends is none of the grid any more.
LEMMA EndKeepsGrid ==
  ASSUME ReqShape, NEW c \in Clients, End(c)
  PROVE  ReqsOfGridKept
BY DEF ReqShape, End, Idle, ReqsOfGridKept, GridOps

\* A request for content that begins is none of the grid either.
LEMMA BeginKeepsGrid ==
  ASSUME ReqShape, NEW c \in Clients, NEW r, "op" \in DOMAIN r, r.op \notin GridOps, Begin(c, r)
  PROVE  ReqsOfGridKept
BY DEF ReqShape, Begin, ReqsOfGridKept

\* What requests for content do is not about the grid.
LEMMA LooksKeepGrid ==
  ASSUME ReqShape, NEW c \in Clients, Looks(c)
  PROVE  ReqsOfGridKept
<1> USE DEF GridOps
<1>1. ASSUME NEW d \in Dramas, LookCreateEpisode(c, d) \/ LookDeleteDrama(c, d) PROVE ReqsOfGridKept
  <2>1. CASE LookCreateEpisode(c, d)
    BY <2>1, BeginKeepsGrid DEF LookCreateEpisode
  <2>2. CASE LookDeleteDrama(c, d)
    BY <2>2, BeginKeepsGrid DEF LookDeleteDrama
  <2> QED
    BY <1>1, <2>1, <2>2
<1>2. ASSUME NEW e \in Episodes, LookCopyEpisode(c, e) PROVE ReqsOfGridKept
  BY <1>2, BeginKeepsGrid DEF LookCopyEpisode
<1>3. ASSUME NEW e \in Episodes, LookMoveEpisode(c, e) PROVE ReqsOfGridKept
  BY <1>3, BeginKeepsGrid DEF LookMoveEpisode
<1>4. ASSUME NEW e \in Episodes, LookSaveDedup(c, e) PROVE ReqsOfGridKept
  BY <1>4, BeginKeepsGrid DEF LookSaveDedup
<1>5. ASSUME NEW e \in Episodes, LookSaveShots(c, e) PROVE ReqsOfGridKept
  BY <1>5, BeginKeepsGrid DEF LookSaveShots
<1>6. ASSUME NEW d \in Dramas, NEW e, LookCreateScene(c, d, e) PROVE ReqsOfGridKept
  BY <1>6, BeginKeepsGrid DEF LookCreateScene
<1>7. ASSUME NEW d \in Dramas, NEW e, LookCreateCharacter(c, d, e) PROVE ReqsOfGridKept
  BY <1>7, BeginKeepsGrid DEF LookCreateCharacter
<1>8. ASSUME NEW s \in Scenes, NEW e \in Episodes, LookCopyScene(c, s, e) PROVE ReqsOfGridKept
  BY <1>8, BeginKeepsGrid DEF LookCopyScene
<1>9. ASSUME NEW s \in Scenes, NEW e \in Episodes, NEW carry, LookMoveScene(c, s, e, carry)
      PROVE  ReqsOfGridKept
  <2>1. PICK number : Begin(c, [op |-> "moveScene", scene |-> s, episode |-> e, number |-> number])
    BY <1>9 DEF LookMoveScene
  <2> QED
    BY <2>1, BeginKeepsGrid
<1>10. ASSUME NEW e \in Episodes, NEW s, NEW cast, LookCreateShot(c, e, s, cast) PROVE ReqsOfGridKept
  BY <1>10, BeginKeepsGrid DEF LookCreateShot
<1>11. ASSUME NEW b \in Shots, LookCopyShot(c, b) PROVE ReqsOfGridKept
  BY <1>11, BeginKeepsGrid DEF LookCopyShot
<1>12. ASSUME NEW b \in Shots, LookMoveShot(c, b) PROVE ReqsOfGridKept
  BY <1>12, BeginKeepsGrid DEF LookMoveShot
<1>13. ASSUME NEW b \in Shots, NEW scenes, NEW casts, NEW pictures,
              LookUpdateShot(c, b, scenes, casts, pictures)
       PROVE  ReqsOfGridKept
  BY <1>13, BeginKeepsGrid DEF LookUpdateShot
<1> QED
  BY <1>1, <1>2, <1>3, <1>4, <1>5, <1>6, <1>7, <1>8, <1>9, <1>10, <1>11, <1>12, <1>13 DEF Looks

LEMMA ContentKeepsGrid ==
  ASSUME ReqShape, ContentNext
  PROVE  ReqsOfGridKept
<1>1. ASSUME Statements PROVE ReqsOfGridKept
  <2>1. UNCHANGED req
    BY <1>1 DEF Statements, CreateDrama, DeleteEpisode, DeleteScene, DeleteCharacter, DeleteShot, Once
  <2> QED
    BY <2>1 DEF ReqShape, ReqsOfGridKept
<1>2. ASSUME NEW c \in Clients, Writes(c) PROVE End(c)
  BY <1>2 DEF Writes, CreateEpisode, CopyEpisode, MoveEpisode, DeleteDrama, CreateScene, CopyScene,
              MoveScene, CreateCharacter, InsertShot, UpdateShot, MoveShot, SaveShots, RollBack
<1> QED
  BY <1>1, <1>2, EndKeepsGrid, LooksKeepGrid DEF ContentNext

\* So is the request that shows a cell.
LEMMA LookShowCellKeepsGrid ==
  ASSUME ReqShape, NEW c \in Clients, NEW b \in Shots, LookShowCell(c, b)
  PROVE  ReqsOfGridKept
<1>1. PICK pictures : LookUpdateShot(c, b, {}, {}, pictures)
  BY DEF LookShowCell
<1> QED
  BY <1>1, BeginKeepsGrid DEF LookUpdateShot, GridOps

\* A history that was inserted stays so, and only the request that made it undoes a split.
LEMMA HistoriesKept ==
  ASSUME GridInv, HistoryShape', ReqsOfGridKept,
         \A h \in Histories :
           /\ history[h].state # "none" => history'[h].state # "none"
           /\ history'[h].undone = history[h].undone
  PROVE  GridInv'
BY DEF GridInv, OfHistories, MadeOnce, ReqsOfGridKept, GridOps

\* Only the histories change of which a step says so, and those stay split.
Splits == \A h \in Histories : StaysSplit(h) \/ UndoneByItsMaker(h)

LEMMA SameHistory ==
  ASSUME GridInv, UNCHANGED history, ReqsOfGridKept
  PROVE  GridInv' /\ Splits
<1>1. HistoryShape'
  BY DEF GridInv, HistoryShape
<1> QED
  BY <1>1, HistoriesKept DEF Splits, StaysSplit

LEMMA CreateGridSplits ==
  ASSUME GridInv, NEW c \in Clients, NEW h \in Histories, NEW e, NEW mode, CreateGrid(c, h, e, mode)
  PROVE  GridInv' /\ Splits
<1>1. /\ history[h].state = "none" /\ req[c] = Idle
      /\ history' = [history EXCEPT ![h] = [NoHistory EXCEPT !.state = "processing", !.mode = mode, !.episode = e]]
      /\ req' = [req EXCEPT ![c] = [op |-> "gridGenerate", history |-> h, seen |-> "none"]]
  BY DEF CreateGrid, NoHistory
<1>2. /\ HistoryShape' /\ history'[h].state = "processing" /\ ~history'[h].undone
      /\ \A x \in Histories \ {h} : history'[x] = history[x]
  BY <1>1 DEF GridInv, HistoryShape, NoHistory
<1>3. /\ ReqShape' /\ req'[c] = [op |-> "gridGenerate", history |-> h, seen |-> "none"]
      /\ \A x \in Clients \ {c} : req'[x] = req[x]
  BY <1>1 DEF GridInv, ReqShape
<1>4. OfHistories'
  BY <1>3 DEF GridInv, OfHistories, GridOps
<1>5. MadeOnce'
  BY <1>1, <1>2, <1>3 DEF GridInv, MadeOnce, OfHistories, GridOps
<1> QED
  BY <1>1, <1>2, <1>3, <1>4, <1>5 DEF GridInv, Splits, StaysSplit

LEMMA LookSplitSplits ==
  ASSUME GridInv, NEW c \in Clients, NEW h \in Histories, NEW slot, LookSplit(c, h, slot)
  PROVE  GridInv' /\ Splits
<1>1. PICK assigned : Begin(c, [op |-> "gridSplit", history |-> h, assigned |-> assigned])
  BY DEF LookSplit
<1>2. UNCHANGED history /\ history[h].state # "none"
  BY DEF LookSplit, gridVars
<1>3. /\ ReqShape' /\ req'[c] = [op |-> "gridSplit", history |-> h, assigned |-> assigned]
      /\ \A x \in Clients \ {c} : req'[x] = req[x]
  BY <1>1 DEF GridInv, ReqShape, Begin
<1>4. OfHistories'
  BY <1>3 DEF GridInv, OfHistories, GridOps
<1>5. MadeOnce'
  BY <1>2, <1>3 DEF GridInv, MadeOnce
<1> QED
  BY <1>2, <1>3, <1>4, <1>5 DEF GridInv, HistoryShape, Splits, StaysSplit

LEMMA StartImageSplits ==
  ASSUME GridInv, NEW c \in Clients, NEW status, StartImage(c, status)
  PROVE  GridInv' /\ Splits
<1>1. UNCHANGED history /\ req' = [req EXCEPT ![c].seen = status] /\ req[c].seen = "none" /\ req[c].op = "gridGenerate"
  BY DEF StartImage
<1>2. /\ ReqShape'
      /\ \A x \in Clients : req'[x].op = req[x].op /\ (req[x].op \in GridOps => req'[x].history = req[x].history)
  BY <1>1 DEF GridInv, ReqShape, GridOps
<1> QED
  BY <1>1, <1>2 DEF GridInv, HistoryShape, OfHistories, MadeOnce, GridOps, Splits, StaysSplit

\* Only the history that the request made is saved, and only once.
LEMMA SaveGridSplits ==
  ASSUME GridInv, NEW c \in Clients, SaveGrid(c)
  PROVE  GridInv' /\ Splits
<1> PICK h, seen, mine : /\ h = req[c].history /\ seen = req[c].seen
                         /\ mine = [history[h] EXCEPT !.assigned = <<>>,
                                                       !.undone = (history[h].state = "split")]
  OBVIOUS
<1>1. /\ req[c].op = "gridGenerate" /\ End(c)
      /\ history' = [history EXCEPT ![h] =
           CASE seen = "none" -> [mine EXCEPT !.state = "failed"]
             [] seen = "completed" -> [mine EXCEPT !.state = "completed", !.linked = TRUE]
             [] OTHER -> [mine EXCEPT !.state = "processing", !.linked = TRUE]]
  BY DEF SaveGrid
<1>2. h \in Histories /\ ~history[h].undone
  BY <1>1 DEF GridInv, OfHistories, MadeOnce, GridOps
<1>3. /\ history'[h] = CASE seen = "none" -> [mine EXCEPT !.state = "failed"]
                         [] seen = "completed" -> [mine EXCEPT !.state = "completed", !.linked = TRUE]
                         [] OTHER -> [mine EXCEPT !.state = "processing", !.linked = TRUE]
      /\ DOMAIN history' = Histories
      /\ \A x \in Histories \ {h} : history'[x] = history[x]
  BY <1>1, <1>2 DEF GridInv, HistoryShape
<1>4. history'[h].state \in {"failed", "completed", "processing"}
      /\ DOMAIN history'[h] = {"state", "mode", "episode", "linked", "assigned", "undone"}
  BY <1>2, <1>3 DEF GridInv, HistoryShape
<1>5. HistoryShape'
  BY <1>3, <1>4 DEF GridInv, HistoryShape
<1>6. ReqsOfGridKept
  BY <1>1, EndKeepsGrid DEF GridInv
<1>7. Generating(c, h) /\ req'[c] = Idle
  BY <1>1 DEF Generating, End, GridInv, ReqShape
<1>8. \A x \in Clients : req'[x].op = "gridGenerate" => req'[x] = req[x] /\ req[x].history # h
  BY <1>1, <1>6, <1>7 DEF GridInv, MadeOnce, ReqsOfGridKept, GridOps, Idle, Generating
<1>9. OfHistories'
  BY <1>6 DEF GridInv, OfHistories, ReqsOfGridKept
<1>10. MadeOnce'
  <2>1. \A x \in Clients : req'[x].op = "gridGenerate" =>
          history'[req'[x].history].state # "none" /\ ~history'[req'[x].history].undone
    BY <1>3, <1>8 DEF GridInv, OfHistories, MadeOnce, GridOps
  <2>2. ASSUME NEW x \in Clients, req'[x].op = "gridSplit"
        PROVE  history'[req'[x].history].state # "none"
    <3>1. req'[x] = req[x]
      BY <1>6, <2>2 DEF ReqsOfGridKept, GridOps
    <3>2. req[x].history \in Histories /\ history[req[x].history].state # "none"
      BY <2>2, <3>1 DEF GridInv, OfHistories, MadeOnce, GridOps
    <3>3. history'[h].state # "none" /\ \A g \in Histories \ {h} : history'[g] = history[g]
      BY <1>3, <1>4
    <3> PICK g : g = req[x].history
      OBVIOUS
    <3>4. g \in Histories /\ history[g].state # "none" /\ req'[x].history = g
      BY <3>1, <3>2
    <3>5. history'[g].state # "none"
      BY <3>3, <3>4
    <3> QED
      BY <3>4, <3>5
  <2>3. \A x, y \in Clients : req'[x].op = "gridGenerate" /\ req'[y].op = "gridGenerate"
                              /\ req'[x].history = req'[y].history => x = y
    BY <1>8 DEF GridInv, MadeOnce
  <2> QED
    BY <2>1, <2>2, <2>3 DEF MadeOnce
<1>11. UndoneByItsMaker(h)
  BY <1>2, <1>7 DEF UndoneByItsMaker
<1> QED
  BY <1>3, <1>5, <1>6, <1>9, <1>10, <1>11 DEF GridInv, ReqsOfGridKept, Splits, StaysSplit

\* A split history is not told, and one that is told does not become split.
LEMMA TellGridSplits ==
  ASSUME GridInv, PollerTellsEnds, TellGrid
  PROVE  GridInv' /\ Splits
<1> PICK h, outcome : h = poller.history /\ outcome = poller.tells
  OBVIOUS
<1>1. /\ UNCHANGED req /\ outcome \in Outcomes /\ h \in Histories
      /\ history' = IF history[h].linked /\ history[h].state \notin {"split", "failed"}
                    THEN [history EXCEPT ![h].state = outcome] ELSE history
  BY DEF TellGrid, contentVars, PollerTellsEnds
<1>2. ReqsOfGridKept
  BY <1>1 DEF GridInv, ReqShape, ReqsOfGridKept
<1>3. /\ HistoryShape'
      /\ \A x \in Histories : history'[x] # history[x] => history[x].state # "split" /\ history'[x].state = outcome
      /\ \A x \in Histories : history'[x].undone = history[x].undone
  BY <1>1 DEF GridInv, HistoryShape
<1> QED
  BY <1>1, <1>2, <1>3, HistoriesKept DEF Outcomes, Splits, StaysSplit

LEMMA SplitSplits ==
  ASSUME GridInv, NEW c \in Clients, Split(c)
  PROVE  GridInv' /\ Splits
<1> PICK h, assigned : h = req[c].history /\ assigned = req[c].assigned
  OBVIOUS
<1>1. /\ req[c].op = "gridSplit" /\ End(c) /\ history[h].state # "split"
      /\ history' = [history EXCEPT ![h].state = "split", ![h].assigned = assigned]
  BY DEF Split
<1>2. h \in Histories
  BY <1>1 DEF GridInv, OfHistories, GridOps
<1>3. /\ HistoryShape' /\ history'[h].state = "split" /\ history'[h].undone = history[h].undone
      /\ \A x \in Histories \ {h} : history'[x] = history[x]
  BY <1>1, <1>2 DEF GridInv, HistoryShape
<1>4. ReqsOfGridKept
  BY <1>1, EndKeepsGrid DEF GridInv
<1>5. GridInv'
  BY <1>3, <1>4, HistoriesKept
<1> QED
  BY <1>1, <1>3, <1>5 DEF Splits, StaysSplit

\* One cell gets another target; the cell that had the target loses it.
LEMMA AssignCellSplits ==
  ASSUME GridInv, NEW h \in Histories, NEW i, NEW b, NEW k, AssignCell(h, i, b, k)
  PROVE  GridInv' /\ Splits
<1> PICK old, target : old = history[h].assigned /\ target = <<b, k>>
  OBVIOUS
<1>1. /\ UNCHANGED req /\ history[h].state = "split"
      /\ history' = [history EXCEPT ![h].assigned = Replaced(old, i, target)]
  BY DEF AssignCell, Once
<1>2. ReqsOfGridKept
  BY <1>1 DEF GridInv, ReqShape, ReqsOfGridKept
<1>3. /\ HistoryShape' /\ history'[h].state = "split" /\ history'[h].assigned = Replaced(old, i, target)
      /\ history'[h].undone = history[h].undone
      /\ \A x \in Histories \ {h} : history'[x] = history[x]
  BY <1>1 DEF GridInv, HistoryShape
<1>4. \A j \in DOMAIN Replaced(old, i, target) : j # i => Replaced(old, i, target)[j] = old[j]
  BY DEF Replaced
<1>5. StaysSplit(h)
  <2> SUFFICES ASSUME NEW x \in DOMAIN old \cap DOMAIN history'[h].assigned,
                      NEW y \in DOMAIN old \cap DOMAIN history'[h].assigned, x # y
               PROVE  \E z \in {x, y} : history'[h].assigned[z] = old[z]
    BY <1>3 DEF StaysSplit
  <2> QED
    BY <1>3, <1>4
<1>6. GridInv'
  BY <1>1, <1>2, <1>3, HistoriesKept
<1> QED
  BY <1>3, <1>5, <1>6 DEF Splits, StaysSplit

LEMMA GridNextSplits ==
  ASSUME GridInv, PollerTellsEnds, GridNext
  PROVE  GridInv' /\ Splits
<1>1. ASSUME NEW c \in Clients, GridRollBack(c) PROVE GridInv' /\ Splits
  <2>1. UNCHANGED history /\ ReqsOfGridKept
    BY <1>1, EndKeepsGrid DEF GridRollBack, GridInv
  <2> QED
    BY <2>1, SameHistory
<1>2. ASSUME NEW h \in Histories, NEW outcome, NEW result, NEW tells,
             PollImage(h, result, tells) \/ EndImageElsewhere(h, outcome) \/ RetryImage(h)
      PROVE  UNCHANGED <<history, req>>
  BY <1>2 DEF PollImage, EndImageElsewhere, RetryImage, contentVars
<1>3. ASSUME PollerDies PROVE UNCHANGED <<history, req>>
  BY <1>3 DEF PollerDies, contentVars
<1>4. ASSUME UNCHANGED <<history, req>> PROVE GridInv' /\ Splits
  <2>1. ReqsOfGridKept
    BY <1>4 DEF GridInv, ReqShape, ReqsOfGridKept
  <2> QED
    BY <1>4, <2>1, SameHistory
<1>5. ASSUME NEW c \in Clients, NEW b \in Shots, LookShowCell(c, b) PROVE GridInv' /\ Splits
  <2>1. UNCHANGED history /\ ReqsOfGridKept
    BY <1>5, LookShowCellKeepsGrid DEF LookShowCell, gridVars, GridInv
  <2> QED
    BY <2>1, SameHistory
<1> QED
  BY <1>1, <1>2, <1>3, <1>4, <1>5, CreateGridSplits, LookSplitSplits, StartImageSplits, SaveGridSplits,
     TellGridSplits, SplitSplits, AssignCellSplits DEF GridNext

\* A grid is cut once, and after that one cell at a time is assigned anew, whatever
\* requests, pollers and webhooks overlap, except that the request that made the grid
\* undoes a split, at most once, with its own last write (gridGenerate,
\* updateGridHistory, gridSplit, gridAssignCell).
THEOREM GridsAreSplitOnce == Spec => SplitOnce
<1>1. Init => GridInv /\ PollerTellsEnds
  BY DEF Init, PollerTellsEnds, ContentInit, Idle, NoHistory, GridInv, HistoryShape, ReqShape, OfHistories, MadeOnce, GridOps
<1>2. GridInv /\ PollerTellsEnds /\ [Next]_vars
      => GridInv' /\ PollerTellsEnds' /\ (Splits \/ UNCHANGED vars)
  <2> SUFFICES ASSUME GridInv, PollerTellsEnds, [Next]_vars PROVE GridInv' /\ (Splits \/ UNCHANGED vars)
    BY PollerKeepsTelling
  <2>1. CASE ContentNext /\ UNCHANGED gridVars
    <3>1. UNCHANGED history /\ ReqsOfGridKept
      BY <2>1, ContentKeepsGrid DEF gridVars, GridInv
    <3> QED
      BY <3>1, SameHistory
  <2>2. CASE GridNext
    BY <2>2, GridNextSplits
  <2>3. CASE UNCHANGED vars
    <3>1. UNCHANGED history /\ ReqsOfGridKept
      BY <2>3 DEF vars, contentVars, gridVars, GridInv, ReqShape, ReqsOfGridKept
    <3> QED
      BY <2>3, <3>1, SameHistory
  <2> QED
    BY <2>1, <2>2, <2>3 DEF Next
<1> QED
  BY <1>1, <1>2, PTL DEF Spec, SplitOnce, Splits

-----------------------------------------------------------------------------
(***************************************************************************)
(* Types.  The rows of the tables name rows that were inserted, a scene    *)
(* and its episode are of one drama, and what a request remembers was      *)
(* there when it looked and is never taken away.                           *)
(***************************************************************************)
EpisodeRows == [state : States, drama : Dramas \cup {None}, number : Nat]
SceneRows == [state : States, drama : Dramas \cup {None}, episode : Episodes \cup {None}]
CharacterRows == [state : States, drama : Dramas \cup {None}]
ShotRows == [state : States, episode : Episodes \cup {None}, number : Nat,
             scene : Scenes \cup {None}, cast : SUBSET Characters, frames : [Slots -> Pictures],
             edited : SUBSET Slots]

EpisodesOK ==
  /\ episode \in [Episodes -> EpisodeRows]
  /\ \A e \in Episodes : episode[e].state # "none" => episode[e].drama \in Dramas

ScenesOK ==
  /\ scene \in [Scenes -> SceneRows]
  /\ \A s \in Scenes : scene[s].state # "none" =>
       /\ scene[s].drama \in Dramas
       /\ scene[s].episode # None => InsertedEpisode(scene[s].episode) /\ DramaOf(scene[s].episode) = scene[s].drama

CharactersOK ==
  /\ character \in [Characters -> CharacterRows]
  /\ \A p \in Characters : character[p].state # "none" => character[p].drama \in Dramas

ShotsOK ==
  /\ shot \in [Shots -> ShotRows]
  /\ \A b \in Shots : shot[b].state # "none" => InsertedEpisode(shot[b].episode)

DramasOK == drama \in [Dramas -> States]

RowsOK == DramasOK /\ EpisodesOK /\ ScenesOK /\ CharactersOK /\ ShotsOK

\* Pictures for some of the slots of a shot
Chosen(pictures) == DOMAIN pictures \subseteq Slots /\ \A k \in DOMAIN pictures : pictures[k] \in Pictures

Remembered(r) ==
  /\ r.op = "createEpisode" => r.drama \in Dramas /\ r.number \in Nat
  /\ r.op = "copyEpisode" => InsertedEpisode(r.episode) /\ r.number \in Nat
  /\ r.op = "moveEpisode" => InsertedEpisode(r.row) /\ InsertedEpisode(r.other)
  /\ r.op = "moveShot" => InsertedShot(r.row) /\ InsertedShot(r.other)
  /\ r.op \in {"moveEpisode", "moveShot"} => r.number \in Nat /\ r.otherNumber \in Nat
  /\ r.op = "deleteDrama" => r.drama \in Dramas /\ r.episodes \subseteq Episodes
  /\ r.op = "createScene" =>
       /\ r.drama \in Dramas
       /\ r.episode # None => InsertedEpisode(r.episode) /\ DramaOf(r.episode) = r.drama
  /\ r.op = "createCharacter" => r.drama \in Dramas
  /\ r.op \in {"copyScene", "saveShots"} => InsertedEpisode(r.episode)
  /\ r.op = "saveShots" => \A b \in r.old : InsertedShot(b)
  /\ r.op = "moveScene" =>
       /\ InsertedScene(r.scene) /\ InsertedEpisode(r.episode)
       /\ \A b \in DOMAIN r.number : InsertedShot(b) /\ r.number[b] \in Nat
  /\ r.op \in {"createShot", "copyShot"} =>
       /\ InsertedEpisode(r.episode)
       /\ r.scene \in Scenes \cup {None} /\ r.cast \subseteq Characters /\ r.number \in Nat
  /\ r.op = "updateShot" =>
       /\ InsertedShot(r.shot) /\ r.scenes \subseteq Scenes \cup {None} /\ UNION r.casts \subseteq Characters
       /\ Chosen(r.pictures)

RequestsOK == ReqShape /\ \A c \in Clients : Remembered(req[c])

ContentOK == RowsOK /\ RequestsOK

\* No step takes a row away, and an episode stays with its drama.
Lasting ==
  /\ \A e \in Episodes : episode[e].state # "none" =>
       episode'[e].state # "none" /\ episode'[e].drama = episode[e].drama
  /\ \A s \in Scenes : scene[s].state # "none" => scene'[s].state # "none"
  /\ \A b \in Shots : shot[b].state # "none" => shot'[b].state # "none"

LEMMA ScenesStayOK ==
  ASSUME ScenesOK, Lasting, UNCHANGED scene
  PROVE  ScenesOK'
BY DEF ScenesOK, Lasting, InsertedEpisode, DramaOf

LEMMA ShotsStayOK ==
  ASSUME ShotsOK, Lasting, UNCHANGED shot
  PROVE  ShotsOK'
BY DEF ShotsOK, Lasting, InsertedEpisode

\* What a request remembers lasts.
LEMMA MemoryLasts ==
  ASSUME Lasting, NEW c \in Clients, Remembered(req[c]), req'[c] = req[c]
  PROVE  Remembered(req[c])'
<1> PICK r : r = req[c]
  OBVIOUS
<1>1. /\ \A e : InsertedEpisode(e) => InsertedEpisode(e)' /\ (DramaOf(e) = DramaOf(e)')
      /\ \A s : InsertedScene(s) => InsertedScene(s)'
      /\ \A b : InsertedShot(b) => InsertedShot(b)'
  BY DEF Lasting, InsertedEpisode, InsertedScene, InsertedShot, DramaOf
<1>2. Remembered(r)
  OBVIOUS
<1>3. Remembered(r)'
  BY <1>1, <1>2 DEF Remembered
<1> QED
  BY <1>3 DEF Remembered, InsertedEpisode, InsertedScene, InsertedShot, DramaOf

\* The requests that go on remember what they did, and a new one what is there now.
LEMMA RequestsStayOK ==
  ASSUME RequestsOK, Lasting, ReqShape',
         \A c \in Clients : req'[c] = req[c] \/ Remembered(req[c])'
  PROVE  RequestsOK'
BY MemoryLasts DEF RequestsOK

LEMMA EndsOK ==
  ASSUME RequestsOK, Lasting, NEW c \in Clients, End(c)
  PROVE  RequestsOK'
<1>1. ReqShape' /\ \A x \in Clients : req'[x] = req[x] \/ req'[x] = Idle
  BY DEF RequestsOK, ReqShape, End, Idle
<1>2. \A x \in Clients : req'[x] = Idle => Remembered(req[x])'
  BY DEF Remembered, Idle
<1> QED
  BY <1>1, <1>2, RequestsStayOK

LEMMA GoesOnOK ==
  ASSUME RequestsOK, Lasting, UNCHANGED req
  PROVE  RequestsOK'
BY RequestsStayOK DEF RequestsOK, ReqShape

LEMMA BeginsOK ==
  ASSUME ContentOK, NEW c \in Clients, NEW r, "op" \in DOMAIN r, Remembered(r), Begin(c, r)
  PROVE  ContentOK'
<1>1. UNCHANGED <<drama, episode, scene, character, shot>>
  BY DEF Begin
<1>2. Lasting
  BY <1>1 DEF Lasting
<1>3. ReqShape' /\ req'[c] = r /\ \A x \in Clients : x # c => req'[x] = req[x]
  BY DEF ContentOK, RequestsOK, ReqShape, Begin
<1>4. Remembered(req[c])'
  BY <1>1, <1>3 DEF Remembered, InsertedEpisode, InsertedScene, InsertedShot, DramaOf
<1>5. RequestsOK'
  BY <1>2, <1>3, <1>4, RequestsStayOK DEF ContentOK
<1>6. RowsOK'
  BY <1>1, <1>2, ScenesStayOK, ShotsStayOK
     DEF ContentOK, RowsOK, DramasOK, EpisodesOK, CharactersOK
<1> QED
  BY <1>5, <1>6 DEF ContentOK

-----------------------------------------------------------------------------
(***************************************************************************)
(* Numbers.  The library's induction takes a formula as a parameter, which *)
(* the provers cannot instantiate; a set of numbers without a least one is *)
(* empty.                                                                  *)
(***************************************************************************)
LEMMA LeastNumber ==
  ASSUME NEW S \in SUBSET Nat, S # {}
  PROVE  \E m \in S : \A n \in S : m <= n
<1> DEFINE Below == {p \in Nat \X Nat : p[1] < p[2]}
<1>1. IsWellFoundedOn(Below, Nat)
  BY NatLessThanWellFounded DEF OpToRel
<1>2. \E x \in S : \A y \in S : ~(<<y, x>> \in Below)
  <2> HIDE DEF Below
  <2> QED
    BY <1>1, WFMin
<1>3. PICK x \in S : \A y \in S : ~(<<y, x>> \in Below)
  BY <1>2
<1>4. ASSUME NEW n \in S, n < x PROVE FALSE
  <2>1. <<n, x>> \in Nat \X Nat
    OBVIOUS
  <2> QED
    BY <1>3, <1>4, <2>1
<1> QED
  BY <1>4

\* Finitely many numbers have a bound: a smallest set without one would have
\* one after all.
LEMMA FinitelyManyBounded ==
  ASSUME NEW T, IsFiniteSet(T), NEW f \in [T -> Nat]
  PROVE  \E n \in Nat : \A x \in T : f[x] <= n
<1> DEFINE Bounded(S) == \E n \in Nat : \A x \in S : f[x] <= n
           Bad == {k \in Nat : \E S \in SUBSET T : Cardinality(S) = k /\ ~Bounded(S)}
<1>1. \A S \in SUBSET T : IsFiniteSet(S) /\ Cardinality(S) \in Nat
  BY FS_Subset, FS_CardinalityType
<1> SUFFICES ASSUME ~Bounded(T) PROVE FALSE
  OBVIOUS
<1>2. Cardinality(T) \in Bad /\ Bad \in SUBSET Nat
  BY <1>1
<1>3. PICK k \in Bad : \A n \in Bad : k <= n
  <2> HIDE DEF Bad
  <2> QED
    BY <1>2, LeastNumber
<1>4. PICK S \in SUBSET T : Cardinality(S) = k /\ ~Bounded(S)
  OBVIOUS
<1>5. S # {}
  <2>1. Bounded({})
    OBVIOUS
  <2> QED
    BY <1>4, <2>1
<1>6. PICK x \in S : TRUE
  BY <1>5
<1>7. Cardinality(S \ {x}) = k - 1 /\ k - 1 \in Nat
  <2>1. IsFiniteSet(S) /\ x \in S /\ S \ {x} \in SUBSET T
    BY <1>1, <1>6
  <2>2. Cardinality(S \ {x}) = Cardinality(S) - 1
    BY <2>1, FS_RemoveElement
  <2>3. Cardinality(S \ {x}) \in Nat
    BY <1>1, <2>1
  <2> QED
    BY <1>4, <2>2, <2>3
<1>8. Bounded(S \ {x})
  <2>1. k - 1 \notin Bad
    BY <1>3, <1>7
  <2> QED
    BY <1>7, <2>1
<1>9. PICK n \in Nat : \A y \in S \ {x} : f[y] <= n
  BY <1>8
<1>10. f[x] \in Nat /\ \A y \in S : f[y] \in Nat
  OBVIOUS
<1>11. \A y \in S : f[y] <= n + f[x]
  BY <1>9, <1>10
<1> QED
  BY <1>4, <1>10, <1>11

\* The highest of finitely many numbers, or 0
LEMMA HighestIsNumber ==
  ASSUME NEW T, IsFiniteSet(T), NEW f \in [T -> Nat]
  PROVE  Max({f[x] : x \in T} \cup {0}) \in Nat
<1> DEFINE N == {f[x] : x \in T} \cup {0}
           Bounds == {m \in Nat : \A y \in N : y <= m}
<1>1. PICK n \in Nat : \A x \in T : f[x] <= n
  BY FinitelyManyBounded
<1>2. n \in Bounds /\ Bounds \in SUBSET Nat
  BY <1>1
<1>3. PICK m \in Bounds : \A k \in Bounds : m <= k
  <2> HIDE DEF Bounds
  <2> QED
    BY <1>2, LeastNumber
<1>4. N \in SUBSET Nat /\ 0 \in N
  OBVIOUS
<1>5. m \in N
  <2> SUFFICES ASSUME m \notin N PROVE FALSE
    OBVIOUS
  <2>1. m \in Nat /\ \A y \in N : y \in Nat /\ y <= m /\ y # m
    BY <1>3, <1>4
  <2>2. m - 1 \in Nat /\ \A y \in N : y <= m - 1
    <3> HIDE DEF N
    <3> QED
      BY <1>4, <2>1
  <2>3. m - 1 \in Bounds
    BY <2>2
  <2> QED
    BY <1>3, <2>1, <2>3
<1>6. \E y \in N : \A z \in N : y >= z
  <2>1. \A z \in N : m >= z
    BY <1>3, <1>4
  <2> QED
    BY <1>5, <2>1
<1>7. Max(N) \in N
  <2> HIDE DEF N
  <2> QED
    BY <1>6 DEF Max
<1> QED
  BY <1>4, <1>7

LEMMA HighestShot ==
  ASSUME ShotsOK, NEW T \in SUBSET Shots
  PROVE  Max({shot[x].number : x \in T} \cup {0}) \in Nat
<1> DEFINE f == [x \in T |-> shot[x].number]
<1>1. f \in [T -> Nat] /\ IsFiniteSet(T)
  BY ContentAssumption, FS_Subset DEF ShotsOK, ShotRows
<1>2. {f[x] : x \in T} = {shot[x].number : x \in T}
  OBVIOUS
<1>3. Max({f[x] : x \in T} \cup {0}) \in Nat
  <2> HIDE DEF f
  <2> QED
    BY <1>1, HighestIsNumber
<1> QED
  BY <1>2, <1>3

LEMMA HighestEpisode ==
  ASSUME EpisodesOK, NEW T \in SUBSET Episodes
  PROVE  Max({episode[x].number : x \in T} \cup {0}) \in Nat
<1> DEFINE f == [x \in T |-> episode[x].number]
<1>1. f \in [T -> Nat] /\ IsFiniteSet(T)
  BY ContentAssumption, FS_Subset DEF EpisodesOK, EpisodeRows
<1>2. {f[x] : x \in T} = {episode[x].number : x \in T}
  OBVIOUS
<1>3. Max({f[x] : x \in T} \cup {0}) \in Nat
  <2> HIDE DEF f
  <2> QED
    BY <1>1, HighestIsNumber
<1> QED
  BY <1>2, <1>3

LEMMA OrdersAreNumbers ==
  ASSUME NEW T, IsFiniteSet(T), NEW order \in Orders(T)
  PROVE  DOMAIN order = T /\ \A x \in T : order[x] \in Nat
<1>1. Cardinality(T) \in Nat
  BY FS_CardinalityType
<1> QED
  BY <1>1 DEF Orders

-----------------------------------------------------------------------------
(***************************************************************************)
(* What requests remember of what they looked at                           *)
(***************************************************************************)
\* Each look, with what it remembers
LEMMA LookMoveSceneOK ==
  ASSUME ContentOK, NEW c \in Clients, NEW s \in Scenes, NEW e \in Episodes, NEW carry \in BOOLEAN,
         LookMoveScene(c, s, e, carry)
  PROVE  ContentOK'
<1> DEFINE linked == {b \in Shots : Live(shot, b) /\ shot[b].scene = s}
           going == IF carry THEN linked ELSE {}
<1>1. PICK order \in Orders(going) :
        Begin(c, [op |-> "moveScene", scene |-> s, episode |-> e,
                  number |-> [b \in DOMAIN order |->
                    order[b] + Max({shot[x].number : x \in ShotsOf(e)} \cup {0})]])
  BY DEF LookMoveScene
<1>2. PICK highest : highest = Max({shot[x].number : x \in ShotsOf(e)} \cup {0})
  OBVIOUS
<1>3. highest \in Nat
  <2>1. ShotsOf(e) \in SUBSET Shots
    BY DEF ShotsOf
  <2> QED
    BY <1>2, <2>1, HighestShot DEF ContentOK, RowsOK
<1>4. DOMAIN order = going /\ \A b \in going : order[b] \in Nat
  <2>1. IsFiniteSet(going)
    BY ContentAssumption, FS_Subset
  <2> HIDE DEF going
  <2> QED
    BY <2>1, OrdersAreNumbers
<1> DEFINE number == [b \in DOMAIN order |-> order[b] + highest]
<1>5. DOMAIN number = going /\ \A b \in going : InsertedShot(b) /\ number[b] \in Nat
  BY <1>3, <1>4 DEF InsertedShot, Live
<1>6. Begin(c, [op |-> "moveScene", scene |-> s, episode |-> e, number |-> number])
  BY <1>1, <1>2
<1>7. InsertedScene(s) /\ InsertedEpisode(e)
  BY DEF LookMoveScene, MayGo, InsertedScene, InsertedEpisode, Live
<1> HIDE DEF number, going
<1>8. Remembered([op |-> "moveScene", scene |-> s, episode |-> e, number |-> number])
  BY <1>5, <1>7 DEF Remembered
<1> QED
  BY <1>6, <1>8, BeginsOK

LEMMA LookCreateEpisodeOK ==
  ASSUME ContentOK, NEW c \in Clients, NEW d \in Dramas, LookCreateEpisode(c, d)
  PROVE  ContentOK'
<1> DEFINE of == {x \in Episodes : episode[x].state # "none" /\ DramaOf(x) = d}
<1>1. PICK n : n = Above({episode[e].number : e \in of})
  OBVIOUS
<1>2. n \in Nat
  <2>1. Max({episode[x].number : x \in of} \cup {0}) \in Nat
    <3>1. of \in SUBSET Episodes
      OBVIOUS
    <3> HIDE DEF of
    <3> QED
      BY <3>1, HighestEpisode DEF ContentOK, RowsOK
  <2> HIDE DEF of
  <2> QED
    BY <1>1, <2>1 DEF Above
<1>3. Begin(c, [op |-> "createEpisode", drama |-> d, number |-> n])
  BY <1>1 DEF LookCreateEpisode
<1>4. Remembered([op |-> "createEpisode", drama |-> d, number |-> n])
  BY <1>2 DEF Remembered
<1> QED
  BY <1>3, <1>4, BeginsOK

LEMMA LookCopyEpisodeOK ==
  ASSUME ContentOK, NEW c \in Clients, NEW e \in Episodes, LookCopyEpisode(c, e)
  PROVE  ContentOK'
<1>1. PICK of : of = EpisodesOf(DramaOf(e))
  OBVIOUS
<1>2. PICK n : n = Above({episode[x].number : x \in of})
  OBVIOUS
<1>3. n \in Nat
  <2>1. of \in SUBSET Episodes
    BY <1>1 DEF EpisodesOf
  <2>2. Max({episode[x].number : x \in of} \cup {0}) \in Nat
    BY <2>1, HighestEpisode DEF ContentOK, RowsOK
  <2> QED
    BY <1>2, <2>2 DEF Above
<1>4. Begin(c, [op |-> "copyEpisode", episode |-> e, number |-> n]) /\ InsertedEpisode(e)
  BY <1>1, <1>2 DEF LookCopyEpisode, InsertedEpisode, Live
<1>5. Remembered([op |-> "copyEpisode", episode |-> e, number |-> n])
  BY <1>3, <1>4 DEF Remembered
<1> QED
  BY <1>4, <1>5, BeginsOK

LEMMA LookMoveEpisodeOK ==
  ASSUME ContentOK, NEW c \in Clients, NEW e \in Episodes, LookMoveEpisode(c, e)
  PROVE  ContentOK'
<1>1. PICK x \in EpisodesOf(DramaOf(e)) :
        Begin(c, [op |-> "moveEpisode", row |-> e, other |-> x,
                  number |-> episode[e].number, otherNumber |-> episode[x].number])
  BY DEF LookMoveEpisode
<1>2. InsertedEpisode(e) /\ InsertedEpisode(x)
  BY <1>1 DEF LookMoveEpisode, EpisodesOf, InsertedEpisode, Live
<1>3. episode[e].number \in Nat /\ episode[x].number \in Nat
  BY <1>2 DEF ContentOK, RowsOK, EpisodesOK, EpisodeRows, InsertedEpisode
<1>4. Remembered([op |-> "moveEpisode", row |-> e, other |-> x,
                  number |-> episode[e].number, otherNumber |-> episode[x].number])
  BY <1>2, <1>3 DEF Remembered
<1> QED
  BY <1>1, <1>4, BeginsOK

LEMMA LookMoveShotOK ==
  ASSUME ContentOK, NEW c \in Clients, NEW b \in Shots, LookMoveShot(c, b)
  PROVE  ContentOK'
<1>1. PICK x \in ShotsOf(shot[b].episode) :
        Begin(c, [op |-> "moveShot", row |-> b, other |-> x,
                  number |-> shot[b].number, otherNumber |-> shot[x].number])
  BY DEF LookMoveShot
<1>2. InsertedShot(b) /\ InsertedShot(x)
  BY <1>1 DEF LookMoveShot, ShotsOf, InsertedShot, Live
<1>3. shot[b].number \in Nat /\ shot[x].number \in Nat
  BY <1>2 DEF ContentOK, RowsOK, ShotsOK, ShotRows, InsertedShot
<1>4. Remembered([op |-> "moveShot", row |-> b, other |-> x,
                  number |-> shot[b].number, otherNumber |-> shot[x].number])
  BY <1>2, <1>3 DEF Remembered
<1> QED
  BY <1>1, <1>4, BeginsOK

LEMMA LookCreateSceneOK ==
  ASSUME ContentOK, NEW c \in Clients, NEW d \in Dramas, NEW e \in Episodes \cup {None},
         LookCreateScene(c, d, e) \/ LookCreateCharacter(c, d, e)
  PROVE  ContentOK'
<1>1. e # None => InsertedEpisode(e) /\ DramaOf(e) = d
  BY DEF LookCreateScene, LookCreateCharacter, Within, InsertedEpisode, Live
<1>2. Remembered([op |-> "createScene", drama |-> d, episode |-> e])
  BY <1>1 DEF Remembered
<1>3. Remembered([op |-> "createCharacter", drama |-> d])
  BY DEF Remembered
<1> QED
  BY <1>2, <1>3, BeginsOK DEF LookCreateScene, LookCreateCharacter

LEMMA LookSaveOK ==
  ASSUME ContentOK, NEW c \in Clients, NEW e \in Episodes, LookSaveDedup(c, e) \/ LookSaveShots(c, e)
  PROVE  ContentOK'
<1>1. InsertedEpisode(e) /\ DramaOf(e) \in Dramas
  BY DEF LookSaveDedup, LookSaveShots, InsertedEpisode, DramaOf, ContentOK, RowsOK, EpisodesOK
<1>2. PICK old : old = {b \in Shots : shot[b].state \in {"live", "deleted"} /\ shot[b].episode = e}
  OBVIOUS
<1>3. \A b \in old : InsertedShot(b)
  BY <1>2 DEF InsertedShot
<1>4. Remembered([op |-> "createScene", drama |-> DramaOf(e), episode |-> e])
  BY <1>1 DEF Remembered
<1>5. Remembered([op |-> "createCharacter", drama |-> DramaOf(e)])
  BY <1>1 DEF Remembered
<1>6. Remembered([op |-> "saveShots", episode |-> e, old |-> old])
  BY <1>1, <1>3 DEF Remembered
<1> QED
  BY <1>2, <1>4, <1>5, <1>6, BeginsOK DEF LookSaveDedup, LookSaveShots

LEMMA LookShotOK ==
  ASSUME ContentOK, NEW c \in Clients, NEW e, NEW s \in Scenes \cup {None},
         NEW cast \in SUBSET Characters, NEW n \in Nat, InsertedEpisode(e), NEW op \in {"createShot", "copyShot"},
         Begin(c, [op |-> op, episode |-> e, scene |-> s, cast |-> cast, number |-> n])
  PROVE  ContentOK'
<1>1. Remembered([op |-> op, episode |-> e, scene |-> s, cast |-> cast, number |-> n])
  BY DEF Remembered
<1> QED
  BY <1>1, BeginsOK

LEMMA LookCreateShotOK ==
  ASSUME ContentOK, NEW c \in Clients, NEW e \in Episodes, NEW s \in Scenes \cup {None},
         NEW cast \in SUBSET Characters, LookCreateShot(c, e, s, cast)
  PROVE  ContentOK'
<1>1. PICK n : n = Cardinality(ShotsOf(e)) + 1
  OBVIOUS
<1>2. n \in Nat
  <2>1. IsFiniteSet(ShotsOf(e))
    BY ContentAssumption, FS_Subset DEF ShotsOf
  <2>2. Cardinality(ShotsOf(e)) \in Nat
    BY <2>1, FS_CardinalityType
  <2> QED
    BY <1>1, <2>2
<1>3. InsertedEpisode(e)
  BY DEF LookCreateShot, InsertedEpisode, Live
<1>4. Begin(c, [op |-> "createShot", episode |-> e, scene |-> s, cast |-> cast, number |-> n])
  BY <1>1 DEF LookCreateShot
<1> QED
  BY <1>2, <1>3, <1>4, LookShotOK

LEMMA LookCopyShotOK ==
  ASSUME ContentOK, NEW c \in Clients, NEW b \in Shots, LookCopyShot(c, b)
  PROVE  ContentOK'
<1>1. PICK e, s, cast, n : /\ e = shot[b].episode /\ s = shot[b].scene /\ cast = shot[b].cast
                           /\ n = Above({shot[x].number : x \in ShotsOf(e)})
  OBVIOUS
<1>2. n \in Nat
  <2>1. ShotsOf(e) \in SUBSET Shots
    BY DEF ShotsOf
  <2>2. Max({shot[x].number : x \in ShotsOf(e)} \cup {0}) \in Nat
    BY <2>1, HighestShot DEF ContentOK, RowsOK
  <2> QED
    BY <1>1, <2>2 DEF Above
<1>3. InsertedEpisode(e) /\ s \in Scenes \cup {None} /\ cast \in SUBSET Characters
  BY <1>1 DEF LookCopyShot, Live, ContentOK, RowsOK, ShotsOK, ShotRows
<1>4. Begin(c, [op |-> "copyShot", episode |-> e, scene |-> s, cast |-> cast, number |-> n])
  BY <1>1 DEF LookCopyShot
<1> QED
  BY <1>2, <1>3, <1>4, LookShotOK

LEMMA OneFrameIsChosen ==
  ASSUME NEW S \in SUBSET Pictures, NEW pictures \in OneFrame(S)
  PROVE  Chosen(pictures)
BY DEF OneFrame, Chosen

LEMMA LookUpdateShotOK ==
  ASSUME ContentOK, NEW c \in Clients, NEW b \in Shots,
         NEW scenes \in AtMostOne(Scenes \cup {None}), NEW casts \in AtMostOne(SUBSET Characters),
         NEW pictures, Chosen(pictures), LookUpdateShot(c, b, scenes, casts, pictures)
  PROVE  ContentOK'
<1>1. scenes \subseteq Scenes \cup {None} /\ UNION casts \subseteq Characters
  BY DEF AtMostOne
<1>2. InsertedShot(b)
  BY DEF LookUpdateShot, InsertedShot, Live
<1>3. Remembered([op |-> "updateShot", shot |-> b, scenes |-> scenes, casts |-> casts,
                 pictures |-> pictures])
  BY <1>1, <1>2 DEF Remembered
<1> QED
  BY <1>3, BeginsOK DEF LookUpdateShot

LEMMA LooksOK ==
  ASSUME ContentOK, NEW c \in Clients, Looks(c)
  PROVE  ContentOK'
<1>1. ASSUME NEW d \in Dramas, LookDeleteDrama(c, d) PROVE ContentOK'
  <2>1. EpisodesOf(d) \subseteq Episodes
    BY DEF EpisodesOf
  <2>2. Remembered([op |-> "deleteDrama", drama |-> d, episodes |-> EpisodesOf(d)])
    BY <2>1 DEF Remembered
  <2> QED
    BY <1>1, <2>2, BeginsOK DEF LookDeleteDrama
<1>2. ASSUME NEW s \in Scenes, NEW e \in Episodes, LookCopyScene(c, s, e) PROVE ContentOK'
  <2>1. InsertedEpisode(e)
    BY <1>2 DEF LookCopyScene, MayGo, InsertedEpisode, Live
  <2>2. Remembered([op |-> "copyScene", scene |-> s, episode |-> e])
    BY <2>1 DEF Remembered
  <2> QED
    BY <1>2, <2>2, BeginsOK DEF LookCopyScene
<1>3. {} \in AtMostOne(Scenes \cup {None}) /\ {} \in AtMostOne(SUBSET Characters)
  BY DEF AtMostOne
<1>4. Chosen(<<>>) /\ \A pictures \in OneFrame({Blank, ByHand}) : Chosen(pictures)
  BY OneFrameIsChosen, ContentAssumption DEF Chosen
<1> QED
  BY <1>1, <1>2, <1>3, <1>4, LookCreateEpisodeOK, LookCopyEpisodeOK, LookMoveEpisodeOK, LookSaveOK, LookCreateSceneOK,
     LookMoveSceneOK, LookCreateShotOK, LookCopyShotOK, LookMoveShotOK, LookUpdateShotOK DEF Looks

-----------------------------------------------------------------------------
(***************************************************************************)
(* What requests write.  ShotsMove is what they do to shots, for the       *)
(* grids: a shot that leaves its episode is remembered in carried, and     *)
(* nobody but a grid puts a picture into a frame without it being edited.  *)
(***************************************************************************)
ShotsMove ==
  /\ carried \subseteq carried'
  /\ \A b \in Shots : shot[b].state # "none" =>
       /\ shot'[b].state = "live" => shot[b].state = "live"
       /\ b \in carried' \/ shot'[b].episode = shot[b].episode
       /\ shot[b].edited \subseteq shot'[b].edited
       /\ \A k \in Slots : k \in shot'[b].edited \/ shot'[b].frames[k] = shot[b].frames[k]
  /\ \A b \in Shots : shot[b].state = "none" /\ shot'[b].state # "none" =>
       \A k \in Slots : shot'[b].frames[k] = Blank

\* What a write keeps
Wrote == RowsOK' /\ Lasting /\ ShotsMove

LEMMA ShotsUnmoved ==
  ASSUME UNCHANGED <<shot, carried>>
  PROVE  ShotsMove
BY DEF ShotsMove

LEMMA NewShotTyped ==
  ASSUME NEW e \in Episodes, NEW n \in Nat, NEW s \in Scenes \cup {None}, NEW cast \in SUBSET Characters
  PROVE  [NoShot EXCEPT !.state = "live", !.episode = e, !.number = n, !.scene = s, !.cast = cast] \in ShotRows
BY ContentAssumption DEF NoShot, ShotRows, States

\* Rows that a deletion marks
LEMMA EpisodesDeleted ==
  ASSUME EpisodesOK, NEW ids, \A e \in ids : Live(episode, e), episode' = Deleted(episode, ids)
  PROVE  /\ EpisodesOK'
         /\ \A e \in Episodes : episode[e].state # "none" =>
              episode'[e].state # "none" /\ episode'[e].drama = episode[e].drama
<1>1. \A e \in Episodes : /\ episode[e].state # "none" <=> episode'[e].state # "none"
                          /\ episode'[e].drama = episode[e].drama /\ episode'[e] \in EpisodeRows
  BY DEF EpisodesOK, EpisodeRows, Deleted, Live, States
<1>2. episode' \in [Episodes -> EpisodeRows]
  BY <1>1 DEF EpisodesOK, Deleted
<1> QED
  BY <1>1, <1>2 DEF EpisodesOK

LEMMA ScenesDeleted ==
  ASSUME scene \in [Scenes -> SceneRows], NEW ids, \A s \in ids : Live(scene, s), scene' = Deleted(scene, ids)
  PROVE  /\ scene' \in [Scenes -> SceneRows]
         /\ \A s \in Scenes : /\ scene[s].state # "none" <=> scene'[s].state # "none"
                              /\ scene'[s].drama = scene[s].drama /\ scene'[s].episode = scene[s].episode
<1>1. \A s \in Scenes : /\ scene[s].state # "none" <=> scene'[s].state # "none"
                        /\ scene'[s].drama = scene[s].drama /\ scene'[s].episode = scene[s].episode
                        /\ scene'[s] \in SceneRows
  BY DEF SceneRows, Deleted, Live, States
<1> QED
  BY <1>1 DEF Deleted

LEMMA CharactersDeleted ==
  ASSUME CharactersOK, NEW ids, \A p \in ids : Live(character, p), character' = Deleted(character, ids)
  PROVE  CharactersOK'
<1>1. \A p \in Characters : /\ character[p].state # "none" <=> character'[p].state # "none"
                            /\ character'[p].drama = character[p].drama /\ character'[p] \in CharacterRows
  BY DEF CharactersOK, CharacterRows, Deleted, Live, States
<1>2. character' \in [Characters -> CharacterRows]
  BY <1>1 DEF CharactersOK, Deleted
<1> QED
  BY <1>1, <1>2 DEF CharactersOK

LEMMA ShotsDeleted ==
  ASSUME shot \in [Shots -> ShotRows], NEW ids, \A b \in ids : Live(shot, b), shot' = Deleted(shot, ids),
         UNCHANGED carried
  PROVE  /\ shot' \in [Shots -> ShotRows] /\ ShotsMove
         /\ \A b \in Shots : /\ shot[b].state # "none" <=> shot'[b].state # "none"
                             /\ shot'[b].episode = shot[b].episode
<1>1. \A b \in Shots : /\ shot[b].state # "none" <=> shot'[b].state # "none"
                       /\ shot'[b].state = "live" => shot[b].state = "live"
                       /\ shot'[b].episode = shot[b].episode
                       /\ shot'[b].frames = shot[b].frames /\ shot'[b].edited = shot[b].edited
                       /\ shot'[b] \in ShotRows
  BY DEF ShotRows, Deleted, Live, States
<1> QED
  BY <1>1 DEF Deleted, ShotsMove

LEMMA CreateDramaOK ==
  ASSUME ContentOK, NEW d \in Dramas, NEW es \in SUBSET Episodes, CreateDrama(d, es)
  PROVE  Wrote
<1>1. /\ UNCHANGED <<scene, character, shot, carried>> /\ es \subseteq Free(episode)
      /\ drama' = [drama EXCEPT ![d] = "live"]
  BY DEF CreateDrama
<1>2. PICK number \in Orders(es) :
        episode' = [e \in Episodes |-> IF e \in es
                     THEN [state |-> "live", drama |-> d, number |-> number[e]] ELSE episode[e]]
  BY DEF CreateDrama
<1>3. \A e \in es : number[e] \in Nat
  <2>1. IsFiniteSet(es)
    BY ContentAssumption, FS_Subset
  <2> QED
    BY <2>1, OrdersAreNumbers
<1>4. EpisodesOK'
  <2>1. \A e \in es : episode'[e] \in EpisodeRows /\ episode'[e].drama \in Dramas
    BY <1>2, <1>3 DEF EpisodeRows, States
  <2>2. \A e \in Episodes \ es : episode'[e] = episode[e]
    BY <1>2
  <2>3. episode' \in [Episodes -> EpisodeRows]
    BY <1>2, <2>1, <2>2 DEF ContentOK, RowsOK, EpisodesOK
  <2> QED
    BY <2>1, <2>2, <2>3 DEF ContentOK, RowsOK, EpisodesOK
<1>5. \A e \in Episodes : episode[e].state # "none" => episode'[e] = episode[e]
  BY <1>1, <1>2 DEF Free
<1>6. Lasting
  BY <1>1, <1>5 DEF Lasting
<1>7. DramasOK'
  BY <1>1 DEF ContentOK, RowsOK, DramasOK, States
<1>8. ScenesOK' /\ ShotsOK' /\ CharactersOK' /\ ShotsMove
  BY <1>1, <1>6, ScenesStayOK, ShotsStayOK, ShotsUnmoved DEF ContentOK, RowsOK, CharactersOK
<1> QED
  BY <1>4, <1>6, <1>7, <1>8 DEF Wrote, RowsOK

LEMMA CreateEpisodeOK ==
  ASSUME ContentOK, NEW c \in Clients, CreateEpisode(c)
  PROVE  Wrote
<1> PICK d, n : d = req[c].drama /\ n = req[c].number
  OBVIOUS
<1>1. UNCHANGED <<drama, scene, character, shot, carried>> /\ req[c].op = "createEpisode"
  BY DEF CreateEpisode
<1>2. PICK e \in Free(episode) : episode' = [episode EXCEPT ![e] = [state |-> "live", drama |-> d, number |-> n]]
  BY DEF CreateEpisode
<1>3. d \in Dramas /\ n \in Nat
  BY <1>1 DEF ContentOK, RequestsOK, Remembered
<1>4. EpisodesOK' /\ \A x \in Episodes : episode[x].state # "none" => episode'[x] = episode[x]
  BY <1>2, <1>3 DEF ContentOK, RowsOK, EpisodesOK, EpisodeRows, States, Free
<1>5. Lasting
  BY <1>1, <1>4 DEF Lasting
<1>6. ScenesOK' /\ ShotsOK' /\ CharactersOK' /\ DramasOK' /\ ShotsMove
  BY <1>1, <1>5, ScenesStayOK, ShotsStayOK, ShotsUnmoved DEF ContentOK, RowsOK, CharactersOK, DramasOK
<1> QED
  BY <1>4, <1>5, <1>6 DEF Wrote, RowsOK

LEMMA MoveEpisodeOK ==
  ASSUME ContentOK, NEW c \in Clients, MoveEpisode(c)
  PROVE  Wrote
<1> PICK x, y, n, m : x = req[c].row /\ y = req[c].other /\ n = req[c].number /\ m = req[c].otherNumber
  OBVIOUS
<1>1. /\ UNCHANGED <<drama, scene, character, shot, carried>> /\ req[c].op = "moveEpisode"
      /\ episode' = [episode EXCEPT ![y].number = n, ![x].number = m]
  BY DEF MoveEpisode, Exchange
<1>2. n \in Nat /\ m \in Nat
  BY <1>1 DEF ContentOK, RequestsOK, Remembered
<1>3. EpisodesOK' /\ \A e \in Episodes : episode'[e].state = episode[e].state /\ episode'[e].drama = episode[e].drama
  <2>1. episode \in [Episodes -> EpisodeRows] /\ x \in Episodes /\ y \in Episodes
    BY <1>1 DEF ContentOK, RowsOK, EpisodesOK, RequestsOK, Remembered, InsertedEpisode
  <2>2. episode' \in [Episodes -> EpisodeRows]
    BY <1>1, <1>2, <2>1 DEF EpisodeRows
  <2>3. \A e \in Episodes : episode'[e].state = episode[e].state /\ episode'[e].drama = episode[e].drama
    BY <1>1, <2>1 DEF EpisodeRows
  <2> QED
    BY <2>2, <2>3 DEF ContentOK, RowsOK, EpisodesOK
<1>4. Lasting
  BY <1>1, <1>3 DEF Lasting
<1>5. ScenesOK' /\ ShotsOK' /\ CharactersOK' /\ DramasOK' /\ ShotsMove
  BY <1>1, <1>4, ScenesStayOK, ShotsStayOK, ShotsUnmoved DEF ContentOK, RowsOK, CharactersOK, DramasOK
<1> QED
  BY <1>3, <1>4, <1>5 DEF Wrote, RowsOK

LEMMA DeleteEpisodeOK ==
  ASSUME ContentOK, NEW e \in Episodes, DeleteEpisode(e)
  PROVE  Wrote
<1>1. /\ UNCHANGED <<drama, character, carried>>
      /\ episode' = Deleted(episode, {e}) /\ shot' = Deleted(shot, ShotsOf(e))
      /\ scene' = Deleted(scene, ScenesOf(e)) /\ Live(episode, e)
  BY DEF DeleteEpisode
<1>2. /\ EpisodesOK'
      /\ \A x \in Episodes : episode[x].state # "none" =>
           episode'[x].state # "none" /\ episode'[x].drama = episode[x].drama
  <2> PICK ids : ids = {e}
    OBVIOUS
  <2>1. \A x \in ids : Live(episode, x)
    BY <1>1
  <2> QED
    BY <1>1, <2>1, EpisodesDeleted DEF ContentOK, RowsOK
<1>3. \A s \in ScenesOf(e) : Live(scene, s)
  BY DEF ScenesOf
<1>4. \A b \in ShotsOf(e) : Live(shot, b)
  BY DEF ShotsOf
<1>5. /\ scene' \in [Scenes -> SceneRows]
      /\ \A s \in Scenes : /\ scene[s].state # "none" <=> scene'[s].state # "none"
                           /\ scene'[s].drama = scene[s].drama /\ scene'[s].episode = scene[s].episode
  BY <1>1, <1>3, ScenesDeleted DEF ContentOK, RowsOK, ScenesOK
<1>6. /\ shot' \in [Shots -> ShotRows] /\ ShotsMove
      /\ \A b \in Shots : /\ shot[b].state # "none" <=> shot'[b].state # "none"
                          /\ shot'[b].episode = shot[b].episode
  BY <1>1, <1>4, ShotsDeleted DEF ContentOK, RowsOK, ShotsOK
<1>7. Lasting
  BY <1>2, <1>5, <1>6 DEF Lasting
<1>8. ScenesOK'
  BY <1>2, <1>5 DEF ContentOK, RowsOK, ScenesOK, InsertedEpisode, DramaOf
<1>9. ShotsOK'
  BY <1>2, <1>6 DEF ContentOK, RowsOK, ShotsOK, InsertedEpisode
<1> QED
  BY <1>1, <1>2, <1>6, <1>7, <1>8, <1>9 DEF Wrote, RowsOK, ContentOK, DramasOK, CharactersOK

LEMMA DeleteDramaOK ==
  ASSUME ContentOK, NEW c \in Clients, DeleteDrama(c)
  PROVE  Wrote
<1> PICK d : d = req[c].drama
  OBVIOUS
<1> PICK shots, scenes, characters :
      /\ shots = UNION {ShotsOf(e) : e \in req[c].episodes}
      /\ scenes = {s \in Scenes : Live(scene, s) /\ scene[s].drama = d}
      /\ characters = {p \in Characters : Live(character, p) /\ character[p].drama = d}
  OBVIOUS
<1>1. /\ UNCHANGED carried /\ drama' = [drama EXCEPT ![d] = "deleted"]
      /\ episode' = Deleted(episode, EpisodesOf(d)) /\ shot' = Deleted(shot, shots)
      /\ scene' = Deleted(scene, scenes) /\ character' = Deleted(character, characters)
  BY DEF DeleteDrama
<1>2. /\ \A e \in EpisodesOf(d) : Live(episode, e)
      /\ \A s \in scenes : Live(scene, s)
      /\ \A p \in characters : Live(character, p)
  BY DEF EpisodesOf
<1>3. \A b \in shots : Live(shot, b)
  BY DEF ShotsOf
<1>4. /\ EpisodesOK'
      /\ \A x \in Episodes : episode[x].state # "none" =>
           episode'[x].state # "none" /\ episode'[x].drama = episode[x].drama
  BY <1>1, <1>2, EpisodesDeleted DEF ContentOK, RowsOK
<1>5. /\ scene' \in [Scenes -> SceneRows]
      /\ \A s \in Scenes : /\ scene[s].state # "none" <=> scene'[s].state # "none"
                           /\ scene'[s].drama = scene[s].drama /\ scene'[s].episode = scene[s].episode
  BY <1>1, <1>2, ScenesDeleted DEF ContentOK, RowsOK, ScenesOK
<1>6. /\ shot' \in [Shots -> ShotRows] /\ ShotsMove
      /\ \A b \in Shots : /\ shot[b].state # "none" <=> shot'[b].state # "none"
                          /\ shot'[b].episode = shot[b].episode
  BY <1>1, <1>3, ShotsDeleted DEF ContentOK, RowsOK, ShotsOK
<1>7. Lasting
  BY <1>4, <1>5, <1>6 DEF Lasting
<1>8. ScenesOK'
  BY <1>4, <1>5 DEF ContentOK, RowsOK, ScenesOK, InsertedEpisode, DramaOf
<1>9. ShotsOK'
  BY <1>4, <1>6 DEF ContentOK, RowsOK, ShotsOK, InsertedEpisode
<1>10. CharactersOK'
  BY <1>1, <1>2, CharactersDeleted DEF ContentOK, RowsOK
<1>11. DramasOK'
  BY <1>1 DEF ContentOK, RowsOK, DramasOK, States
<1> QED
  BY <1>4, <1>6, <1>7, <1>8, <1>9, <1>10, <1>11 DEF Wrote, RowsOK

\* A scene that is inserted into an episode of its drama
LEMMA InsertSceneOK ==
  ASSUME ContentOK, NEW c \in Clients, CreateScene(c) \/ CopyScene(c)
  PROVE  Wrote
<1>1. UNCHANGED <<drama, episode, character, shot, carried>>
  BY DEF CreateScene, CopyScene
<1>2. PICK s \in Free(scene) : \E d, e :
        /\ scene' = [scene EXCEPT ![s] = [state |-> "live", drama |-> d, episode |-> e]]
        /\ d \in Dramas /\ (e # None => InsertedEpisode(e) /\ DramaOf(e) = d)
  <2>1. ASSUME CreateScene(c)
        PROVE  /\ req[c].drama \in Dramas
               /\ req[c].episode # None => InsertedEpisode(req[c].episode) /\ DramaOf(req[c].episode) = req[c].drama
    BY <2>1 DEF CreateScene, ContentOK, RequestsOK, Remembered
  <2>2. ASSUME CopyScene(c) PROVE InsertedEpisode(req[c].episode) /\ DramaOf(req[c].episode) \in Dramas
    BY <2>2 DEF CopyScene, ContentOK, RequestsOK, Remembered, RowsOK, EpisodesOK, InsertedEpisode, DramaOf
  <2> QED
    BY <2>1, <2>2 DEF CreateScene, CopyScene
<1> PICK d, e : /\ scene' = [scene EXCEPT ![s] = [state |-> "live", drama |-> d, episode |-> e]]
                /\ d \in Dramas /\ (e # None => InsertedEpisode(e) /\ DramaOf(e) = d)
  BY <1>2
<1>3. s \in Scenes /\ scene[s].state = "none" /\ e \in Episodes \cup {None}
  BY <1>2 DEF Free, ContentOK, RowsOK, ScenesOK, InsertedEpisode
<1>4. /\ scene' \in [Scenes -> SceneRows]
      /\ scene'[s] = [state |-> "live", drama |-> d, episode |-> e]
      /\ \A x \in Scenes \ {s} : scene'[x] = scene[x]
  BY <1>2, <1>3 DEF ContentOK, RowsOK, ScenesOK, SceneRows, States
<1>5. Lasting
  BY <1>1, <1>3, <1>4 DEF Lasting
<1>6. ScenesOK'
  BY <1>1, <1>2, <1>4 DEF ContentOK, RowsOK, ScenesOK, InsertedEpisode, DramaOf
<1>7. ShotsOK' /\ EpisodesOK' /\ CharactersOK' /\ DramasOK' /\ ShotsMove
  BY <1>1, <1>5, ShotsStayOK, ShotsUnmoved DEF ContentOK, RowsOK, EpisodesOK, CharactersOK, DramasOK
<1> QED
  BY <1>5, <1>6, <1>7 DEF Wrote, RowsOK

LEMMA DeleteSceneOK ==
  ASSUME ContentOK, NEW s \in Scenes, DeleteScene(s)
  PROVE  Wrote
<1>1. UNCHANGED <<drama, episode, character, shot, carried>> /\ scene' = Deleted(scene, {s}) /\ Live(scene, s)
  BY DEF DeleteScene
<1>2. /\ scene' \in [Scenes -> SceneRows]
      /\ \A x \in Scenes : /\ scene[x].state # "none" <=> scene'[x].state # "none"
                           /\ scene'[x].drama = scene[x].drama /\ scene'[x].episode = scene[x].episode
  <2> PICK ids : ids = {s}
    OBVIOUS
  <2>1. \A x \in ids : Live(scene, x)
    BY <1>1
  <2> QED
    BY <1>1, <2>1, ScenesDeleted DEF ContentOK, RowsOK, ScenesOK
<1>3. Lasting
  BY <1>1, <1>2 DEF Lasting
<1>4. ScenesOK'
  BY <1>1, <1>2 DEF ContentOK, RowsOK, ScenesOK, InsertedEpisode, DramaOf
<1>5. ShotsOK' /\ EpisodesOK' /\ CharactersOK' /\ DramasOK' /\ ShotsMove
  BY <1>1, <1>3, ShotsStayOK, ShotsUnmoved DEF ContentOK, RowsOK, EpisodesOK, CharactersOK, DramasOK
<1> QED
  BY <1>3, <1>4, <1>5 DEF Wrote, RowsOK

LEMMA CreateCharacterOK ==
  ASSUME ContentOK, NEW c \in Clients, CreateCharacter(c)
  PROVE  Wrote
<1> PICK d : d = req[c].drama
  OBVIOUS
<1>1. UNCHANGED <<drama, episode, scene, shot, carried>> /\ d \in Dramas
  BY DEF CreateCharacter, ContentOK, RequestsOK, Remembered
<1>2. PICK p \in Free(character) : character' = [character EXCEPT ![p] = [state |-> "live", drama |-> d]]
  BY DEF CreateCharacter
<1>3. CharactersOK'
  BY <1>1, <1>2 DEF ContentOK, RowsOK, CharactersOK, CharacterRows, States, Free
<1>4. Lasting
  BY <1>1 DEF Lasting
<1>5. ScenesOK' /\ ShotsOK' /\ EpisodesOK' /\ DramasOK' /\ ShotsMove
  BY <1>1, <1>4, ScenesStayOK, ShotsStayOK, ShotsUnmoved DEF ContentOK, RowsOK, EpisodesOK, DramasOK
<1> QED
  BY <1>3, <1>4, <1>5 DEF Wrote, RowsOK

LEMMA DeleteCharacterOK ==
  ASSUME ContentOK, NEW p \in Characters, DeleteCharacter(p)
  PROVE  Wrote
<1>1. UNCHANGED <<drama, episode, scene, shot, carried>>
      /\ character' = Deleted(character, {p}) /\ Live(character, p)
  BY DEF DeleteCharacter
<1>2. CharactersOK'
  BY <1>1, CharactersDeleted DEF ContentOK, RowsOK
<1>3. Lasting
  BY <1>1 DEF Lasting
<1>4. ScenesOK' /\ ShotsOK' /\ EpisodesOK' /\ DramasOK' /\ ShotsMove
  BY <1>1, <1>3, ScenesStayOK, ShotsStayOK, ShotsUnmoved DEF ContentOK, RowsOK, EpisodesOK, DramasOK
<1> QED
  BY <1>2, <1>3, <1>4 DEF Wrote, RowsOK

\* A write that changes the shots only
LEMMA ShotsWritten ==
  ASSUME ContentOK, UNCHANGED <<drama, episode, scene, character>>, shot' \in [Shots -> ShotRows], ShotsMove,
         \A b \in Shots : shot[b].state # "none" => shot'[b].state # "none",
         \A b \in Shots : shot'[b].state # "none" =>
           \/ shot[b].state # "none" /\ shot'[b].episode = shot[b].episode
           \/ InsertedEpisode(shot'[b].episode)
  PROVE  Wrote
<1>1. Lasting
  BY DEF Lasting
<1>2. ShotsOK'
  BY DEF ContentOK, RowsOK, ShotsOK, InsertedEpisode
<1>3. ScenesOK' /\ EpisodesOK' /\ CharactersOK' /\ DramasOK'
  BY <1>1, ScenesStayOK DEF ContentOK, RowsOK, EpisodesOK, CharactersOK, DramasOK
<1> QED
  BY <1>1, <1>2, <1>3 DEF Wrote, RowsOK

LEMMA DeleteShotOK ==
  ASSUME ContentOK, NEW b \in Shots, DeleteShot(b)
  PROVE  Wrote
<1>1. UNCHANGED <<drama, episode, scene, character, carried>> /\ shot' = Deleted(shot, {b}) /\ Live(shot, b)
  BY DEF DeleteShot
<1>2. /\ shot' \in [Shots -> ShotRows] /\ ShotsMove
      /\ \A x \in Shots : /\ shot[x].state # "none" <=> shot'[x].state # "none"
                          /\ shot'[x].episode = shot[x].episode
  <2> PICK ids : ids = {b}
    OBVIOUS
  <2>1. \A x \in ids : Live(shot, x)
    BY <1>1
  <2> QED
    BY <1>1, <2>1, ShotsDeleted DEF ContentOK, RowsOK, ShotsOK
<1> QED
  BY <1>1, <1>2, ShotsWritten

LEMMA MoveShotOK ==
  ASSUME ContentOK, NEW c \in Clients, MoveShot(c)
  PROVE  Wrote
<1> PICK x, y, n, m : x = req[c].row /\ y = req[c].other /\ n = req[c].number /\ m = req[c].otherNumber
  OBVIOUS
<1>1. /\ UNCHANGED <<drama, episode, scene, character, carried>> /\ req[c].op = "moveShot"
      /\ shot' = [shot EXCEPT ![y].number = n, ![x].number = m]
  BY DEF MoveShot, Exchange
<1>2. n \in Nat /\ m \in Nat /\ x \in Shots /\ y \in Shots
  BY <1>1 DEF ContentOK, RequestsOK, Remembered, InsertedShot
<1>3. shot \in [Shots -> ShotRows]
  BY DEF ContentOK, RowsOK, ShotsOK
<1>4. shot' \in [Shots -> ShotRows]
  BY <1>1, <1>2, <1>3 DEF ShotRows
<1>5. \A b \in Shots : /\ shot'[b].state = shot[b].state /\ shot'[b].episode = shot[b].episode
                       /\ shot'[b].frames = shot[b].frames /\ shot'[b].edited = shot[b].edited
  BY <1>1, <1>2, <1>3 DEF ShotRows
<1>6. ShotsMove
  BY <1>1, <1>5 DEF ShotsMove
<1> QED
  BY <1>1, <1>4, <1>5, <1>6, ShotsWritten

LEMMA InsertShotOK ==
  ASSUME ContentOK, NEW c \in Clients, InsertShot(c)
  PROVE  Wrote
<1> PICK e, n, s, cast : e = req[c].episode /\ n = req[c].number /\ s = req[c].scene /\ cast = req[c].cast
  OBVIOUS
<1> PICK row : row = [NoShot EXCEPT !.state = "live", !.episode = e, !.number = n, !.scene = s, !.cast = cast]
  OBVIOUS
<1>1. UNCHANGED <<drama, episode, scene, character, carried>> /\ req[c].op \in {"createShot", "copyShot"}
  BY DEF InsertShot
<1>2. PICK b \in Free(shot) : shot' = [shot EXCEPT ![b] = row]
  BY DEF InsertShot
<1>3. InsertedEpisode(e) /\ n \in Nat /\ s \in Scenes \cup {None} /\ cast \in SUBSET Characters
  BY <1>1 DEF ContentOK, RequestsOK, Remembered
<1>4. row \in ShotRows
  BY <1>3, NewShotTyped DEF InsertedEpisode
<1>5. row.state = "live" /\ row.episode = e /\ row.frames = [k \in Slots |-> Blank]
  BY DEF NoShot
<1>6. shot \in [Shots -> ShotRows] /\ b \in Shots /\ shot[b].state = "none"
  BY <1>2 DEF ContentOK, RowsOK, ShotsOK, Free
<1>7. shot' \in [Shots -> ShotRows] /\ shot'[b] = row /\ \A x \in Shots \ {b} : shot'[x] = shot[x]
  BY <1>2, <1>4, <1>6
<1>8. ShotsMove
  <2>1. \A k \in Slots : shot'[b].frames[k] = Blank
    BY <1>5, <1>7
  <2>2. \A x \in Shots : shot[x].state # "none" => shot'[x] = shot[x]
    BY <1>6, <1>7
  <2>3. \A x \in Shots : shot[x].state = "none" /\ shot'[x].state # "none" => x = b
    BY <1>7
  <2> QED
    BY <1>1, <2>1, <2>2, <2>3 DEF ShotsMove
<1>9. ASSUME NEW x \in Shots, shot'[x].state # "none"
      PROVE  \/ shot[x].state # "none" /\ shot'[x].episode = shot[x].episode
             \/ InsertedEpisode(shot'[x].episode)
  BY <1>3, <1>5, <1>7, <1>9
<1>10. \A x \in Shots : shot[x].state # "none" => shot'[x].state # "none"
  BY <1>6, <1>7
<1> QED
  BY <1>1, <1>7, <1>8, <1>9, <1>10, ShotsWritten

LEMMA UpdateShotOK ==
  ASSUME ContentOK, NEW c \in Clients, UpdateShot(c)
  PROVE  Wrote
<1> PICK b, s, cast, F, E :
      /\ b = req[c].shot
      /\ s = IF req[c].scenes = {} THEN shot[b].scene ELSE CHOOSE x \in req[c].scenes : TRUE
      /\ cast = IF req[c].casts = {} THEN shot[b].cast ELSE UNION req[c].casts
      /\ F = [k \in Slots |-> IF k \in DOMAIN req[c].pictures THEN req[c].pictures[k] ELSE shot[b].frames[k]]
      /\ E = shot[b].edited \cup DOMAIN req[c].pictures
  OBVIOUS
<1>1. /\ UNCHANGED <<drama, episode, scene, character, carried>> /\ req[c].op = "updateShot"
      /\ shot' = [shot EXCEPT
            ![b].scene = IF req[c].scenes = {} THEN @ ELSE CHOOSE x \in req[c].scenes : TRUE,
            ![b].cast = IF req[c].casts = {} THEN @ ELSE UNION req[c].casts,
            ![b].frames = [k \in Slots |-> IF k \in DOMAIN req[c].pictures THEN req[c].pictures[k] ELSE @[k]],
            ![b].edited = @ \cup DOMAIN req[c].pictures]
  BY DEF UpdateShot
<1>2. b \in Shots /\ req[c].scenes \subseteq Scenes \cup {None} /\ UNION req[c].casts \subseteq Characters
      /\ Chosen(req[c].pictures)
  BY <1>1 DEF ContentOK, RequestsOK, Remembered, InsertedShot
<1>3. shot \in [Shots -> ShotRows]
  BY DEF ContentOK, RowsOK, ShotsOK
<1>4. s \in Scenes \cup {None} /\ cast \in SUBSET Characters /\ F \in [Slots -> Pictures] /\ E \in SUBSET Slots
  BY <1>2, <1>3 DEF ShotRows, Chosen
<1>5. shot' = [shot EXCEPT ![b].scene = s, ![b].cast = cast, ![b].frames = F, ![b].edited = E]
  BY <1>1, <1>2, <1>3 DEF ShotRows
<1> DEFINE row == [shot[b] EXCEPT !.scene = s, !.cast = cast, !.frames = F, !.edited = E]
<1>6. /\ row \in ShotRows /\ row.state = shot[b].state /\ row.episode = shot[b].episode
      /\ row.frames = F /\ row.edited = E
      /\ shot' = [shot EXCEPT ![b] = row]
  <2>1. shot[b] \in ShotRows
    BY <1>2, <1>3
  <2>2. row \in ShotRows
    BY <1>4, <2>1 DEF ShotRows
  <2>3. row.state = shot[b].state /\ row.episode = shot[b].episode /\ row.frames = F /\ row.edited = E
    BY <2>1 DEF ShotRows
  <2>4. shot' = [shot EXCEPT ![b] = row]
    BY <1>2, <1>3, <1>5 DEF ShotRows
  <2> QED
    BY <2>2, <2>3, <2>4
<1> HIDE DEF row
<1>7. shot' \in [Shots -> ShotRows] /\ shot'[b] = row /\ \A x \in Shots \ {b} : shot'[x] = shot[x]
  BY <1>2, <1>3, <1>6
<1>8. shot[b].edited \subseteq E /\ \A k \in Slots : k \in E \/ F[k] = shot[b].frames[k]
  OBVIOUS
<1>9. ShotsMove
  <2>1. /\ shot'[b].state = shot[b].state /\ shot'[b].episode = shot[b].episode
        /\ shot'[b].frames = F /\ shot'[b].edited = E
    BY <1>6, <1>7
  <2>2. shot[b].edited \subseteq shot'[b].edited
    BY <1>8, <2>1
  <2>3. \A k \in Slots : k \in shot'[b].edited \/ shot'[b].frames[k] = shot[b].frames[k]
    BY <1>8, <2>1
  <2>4. \A x \in Shots : /\ shot'[x].state = shot[x].state /\ shot'[x].episode = shot[x].episode
                         /\ shot[x].edited \subseteq shot'[x].edited
                         /\ \A k \in Slots : k \in shot'[x].edited \/ shot'[x].frames[k] = shot[x].frames[k]
    BY <1>7, <2>1, <2>2, <2>3
  <2> QED
    BY <1>1, <2>4 DEF ShotsMove
<1>10. \A x \in Shots : shot'[x].state = shot[x].state /\ shot'[x].episode = shot[x].episode
  BY <1>6, <1>7
<1> QED
  BY <1>1, <1>7, <1>9, <1>10, ShotsWritten

LEMMA MoveSceneOK ==
  ASSUME ContentOK, NEW c \in Clients, MoveScene(c)
  PROVE  Wrote
<1> PICK e, s, number, going : /\ e = req[c].episode /\ s = req[c].scene /\ number = req[c].number
                               /\ going = DOMAIN number
  OBVIOUS
<1>1. /\ UNCHANGED <<drama, episode, character>> /\ req[c].op = "moveScene"
      /\ shot' = [b \in Shots |-> IF b \in going
                    THEN [shot[b] EXCEPT !.episode = e, !.number = number[b]] ELSE shot[b]]
      /\ scene' = [scene EXCEPT ![s].drama = DramaOf(e), ![s].episode = e]
      /\ carried' = carried \cup {b \in going : shot[b].episode # e}
  BY DEF MoveScene
<1>2. /\ InsertedScene(s) /\ InsertedEpisode(e)
      /\ \A b \in going : InsertedShot(b) /\ number[b] \in Nat
  BY <1>1 DEF ContentOK, RequestsOK, Remembered
<1>3. /\ scene \in [Scenes -> SceneRows] /\ shot \in [Shots -> ShotRows]
      /\ s \in Scenes /\ e \in Episodes /\ DramaOf(e) \in Dramas
  BY <1>2 DEF ContentOK, RowsOK, ScenesOK, ShotsOK, EpisodesOK, InsertedScene, InsertedEpisode, DramaOf
<1>4. /\ scene' \in [Scenes -> SceneRows] /\ scene'[s].state = scene[s].state
      /\ scene'[s].drama = DramaOf(e) /\ scene'[s].episode = e
      /\ \A x \in Scenes \ {s} : scene'[x] = scene[x]
  <2> DEFINE row == [scene[s] EXCEPT !.drama = DramaOf(e), !.episode = e]
  <2>1. row \in SceneRows /\ row.state = scene[s].state /\ row.drama = DramaOf(e) /\ row.episode = e
    BY <1>3 DEF SceneRows
  <2>2. scene' = [scene EXCEPT ![s] = row]
    BY <1>1, <1>3 DEF SceneRows
  <2> HIDE DEF row
  <2> QED
    BY <1>3, <2>1, <2>2
<1>5. ASSUME NEW b \in Shots
      PROVE  /\ shot'[b] \in ShotRows /\ shot'[b].state = shot[b].state
             /\ shot'[b].frames = shot[b].frames /\ shot'[b].edited = shot[b].edited
             /\ shot'[b].episode = (IF b \in going THEN e ELSE shot[b].episode)
  <2>1. CASE b \in going
    <3> PICK n : n = number[b]
      OBVIOUS
    <3>1. shot'[b] = [shot[b] EXCEPT !.episode = e, !.number = n] /\ n \in Nat
      BY <1>1, <1>2, <2>1
    <3>2. shot[b] \in ShotRows /\ e \in Episodes
      BY <1>3
    <3>3. shot'[b] \in ShotRows
      BY <3>1, <3>2 DEF ShotRows
    <3>4. /\ shot'[b].state = shot[b].state /\ shot'[b].episode = e
          /\ shot'[b].frames = shot[b].frames /\ shot'[b].edited = shot[b].edited
      BY <3>1, <3>2 DEF ShotRows
    <3> QED
      BY <2>1, <3>3, <3>4
  <2>2. CASE b \notin going
    <3>1. shot'[b] = shot[b]
      BY <1>1, <2>2
    <3> QED
      BY <1>3, <2>2, <3>1
  <2> QED
    BY <2>1, <2>2
<1>6. shot' \in [Shots -> ShotRows]
  BY <1>1, <1>5
<1>7. ShotsMove
  <2>1. \A b \in Shots : b \in carried' \/ shot'[b].episode = shot[b].episode
    BY <1>1, <1>5
  <2> QED
    BY <1>1, <1>5, <2>1 DEF ShotsMove
<1>8. Lasting
  BY <1>1, <1>4, <1>5 DEF Lasting
<1>9. ScenesOK'
  <2>1. ASSUME NEW x \in Scenes, scene'[x].state # "none"
        PROVE  /\ scene'[x].drama \in Dramas
               /\ scene'[x].episode # None =>
                    InsertedEpisode(scene[x].episode)' /\ DramaOf(scene[x].episode)' = scene'[x].drama
    <3>1. CASE x = s
      BY <1>1, <1>2, <1>3, <1>4, <3>1 DEF InsertedEpisode, DramaOf
    <3>2. CASE x # s
      BY <1>1, <1>4, <2>1, <3>2 DEF ContentOK, RowsOK, ScenesOK, InsertedEpisode, DramaOf
    <3> QED
      BY <3>1, <3>2
  <2> QED
    BY <1>4, <2>1 DEF ScenesOK
<1>10. ShotsOK'
  BY <1>1, <1>2, <1>5, <1>6 DEF ContentOK, RowsOK, ShotsOK, InsertedEpisode
<1>11. EpisodesOK' /\ CharactersOK' /\ DramasOK'
  BY <1>1 DEF ContentOK, RowsOK, EpisodesOK, CharactersOK, DramasOK
<1> QED
  BY <1>7, <1>8, <1>9, <1>10, <1>11 DEF Wrote, RowsOK

LEMMA SaveShotsOK ==
  ASSUME ContentOK, NEW c \in Clients, SaveShots(c)
  PROVE  Wrote
<1> PICK e, old : e = req[c].episode /\ old = req[c].old
  OBVIOUS
<1>1. UNCHANGED <<drama, episode, scene, character, carried>> /\ req[c].op = "saveShots"
  BY DEF SaveShots
<1>2. PICK bs \in (SUBSET Free(shot)) \ {{}} :
        \E number \in Orders(bs), s \in [bs -> Scenes \cup {None}], cast \in [bs -> SUBSET Characters] :
          /\ \A b \in bs : Fits(DramaOf(req[c].episode), s[b], cast[b])
          /\ shot' = [b \in Shots |->
               CASE b \in req[c].old -> [shot[b] EXCEPT !.state = "gone"]
                 [] b \in bs -> [NoShot EXCEPT !.state = "live", !.episode = req[c].episode,
                                   !.number = number[b], !.scene = s[b], !.cast = cast[b]]
                 [] OTHER -> shot[b]]
  BY Zenon DEF SaveShots
<1>3. PICK number \in Orders(bs), s \in [bs -> Scenes \cup {None}], cast \in [bs -> SUBSET Characters] :
        shot' = [b \in Shots |->
             CASE b \in req[c].old -> [shot[b] EXCEPT !.state = "gone"]
               [] b \in bs -> [NoShot EXCEPT !.state = "live", !.episode = req[c].episode,
                                 !.number = number[b], !.scene = s[b], !.cast = cast[b]]
               [] OTHER -> shot[b]]
  BY <1>2, Zenon
<1>4. InsertedEpisode(e) /\ \A b \in old : InsertedShot(b)
  BY <1>1 DEF ContentOK, RequestsOK, Remembered
<1>5. shot \in [Shots -> ShotRows] /\ bs \in SUBSET Shots /\ \A b \in bs : shot[b].state = "none" /\ b \notin old
  BY <1>2, <1>4 DEF ContentOK, RowsOK, ShotsOK, Free, InsertedShot
<1>6. \A b \in bs : number[b] \in Nat
  <2>1. IsFiniteSet(bs)
    BY <1>5, ContentAssumption, FS_Subset
  <2> QED
    BY <2>1, OrdersAreNumbers
<1>7. ASSUME NEW b \in bs
      PROVE  /\ shot'[b] \in ShotRows /\ shot'[b].state = "live" /\ shot'[b].episode = e
             /\ shot'[b].frames = [k \in Slots |-> Blank]
  <2> PICK n, x, p : n = number[b] /\ x = s[b] /\ p = cast[b]
    OBVIOUS
  <2>1. n \in Nat /\ x \in Scenes \cup {None} /\ p \in SUBSET Characters /\ e \in Episodes
    BY <1>4, <1>6 DEF InsertedEpisode
  <2>2. shot'[b] = [NoShot EXCEPT !.state = "live", !.episode = e, !.number = n, !.scene = x, !.cast = p]
    BY <1>3, <1>5
  <2>3. [NoShot EXCEPT !.state = "live", !.episode = e, !.number = n, !.scene = x, !.cast = p] \in ShotRows
    BY <2>1, NewShotTyped
  <2>4. shot'[b].state = "live" /\ shot'[b].episode = e /\ shot'[b].frames = [k \in Slots |-> Blank]
    BY <2>2 DEF NoShot
  <2> QED
    BY <2>2, <2>3, <2>4
<1>8. ASSUME NEW b \in Shots \ bs
      PROVE  /\ shot'[b] \in ShotRows /\ shot'[b].episode = shot[b].episode
             /\ shot'[b].frames = shot[b].frames /\ shot'[b].edited = shot[b].edited
             /\ shot'[b].state = "live" => shot[b].state = "live"
             /\ shot[b].state # "none" <=> shot'[b].state # "none"
  <2>1. shot'[b] = IF b \in old THEN [shot[b] EXCEPT !.state = "gone"] ELSE shot[b]
    BY <1>3
  <2> QED
    BY <1>4, <1>5, <2>1 DEF ShotRows, States, InsertedShot
<1>9. shot' \in [Shots -> ShotRows]
  <2>1. \A b \in Shots : shot'[b] \in ShotRows
    BY <1>7, <1>8
  <2> QED
    BY <1>3, <2>1
<1>10. ShotsMove
  BY <1>1, <1>5, <1>7, <1>8 DEF ShotsMove
<1>11. \A b \in Shots : shot[b].state # "none" => shot'[b].state # "none"
  BY <1>5, <1>8
<1>12. ASSUME NEW b \in Shots, shot'[b].state # "none"
       PROVE  \/ shot[b].state # "none" /\ shot'[b].episode = shot[b].episode
              \/ InsertedEpisode(shot'[b].episode)
  BY <1>4, <1>7, <1>8, <1>12
<1> QED
  BY <1>1, <1>9, <1>10, <1>11, <1>12, ShotsWritten

LEMMA CopyEpisodeOK ==
  ASSUME ContentOK, NEW c \in Clients, CopyEpisode(c)
  PROVE  Wrote
<1> DEFINE d == DramaOf(req[c].episode)
           n == req[c].number
           owned == ScenesOf(req[c].episode)
           old == ShotsOf(req[c].episode)
           SceneFor(s, into) == CASE s \in owned -> CHOOSE t \in DOMAIN into : into[t] = s
                                  [] s # None /\ s \notin owned /\ Live(scene, s) -> s
                                  [] OTHER -> None
           Copy(b, from, into, e) ==
             [NoShot EXCEPT !.state = "live", !.episode = e,
                            !.number = shot[from[b]].number,
                            !.scene = SceneFor(shot[from[b]].scene, into),
                            !.cast = {p \in shot[from[b]].cast : Live(character, p)}]
<1>1. UNCHANGED <<drama, character, carried>> /\ req[c].op = "copyEpisode"
  BY DEF CopyEpisode
<1>2. PICK e \in Free(episode), ts \in SUBSET Free(scene), bs \in SUBSET Free(shot) :
        /\ \E into \in Bijection(ts, owned), from \in Bijection(bs, old) :
             /\ scene' = [s \in Scenes |-> IF s \in ts
                   THEN [state |-> "live", drama |-> d, episode |-> e] ELSE scene[s]]
             /\ shot' = [b \in Shots |-> IF b \in bs THEN Copy(b, from, into, e) ELSE shot[b]]
        /\ episode' = [episode EXCEPT ![e] = [state |-> "live", drama |-> d, number |-> n]]
  BY Zenon DEF CopyEpisode
<1>3. PICK into \in Bijection(ts, owned), from \in Bijection(bs, old) :
        /\ scene' = [s \in Scenes |-> IF s \in ts
              THEN [state |-> "live", drama |-> d, episode |-> e] ELSE scene[s]]
        /\ shot' = [b \in Shots |-> IF b \in bs THEN Copy(b, from, into, e) ELSE shot[b]]
  BY <1>2
<1>4. InsertedEpisode(req[c].episode) /\ n \in Nat /\ d \in Dramas
  BY <1>1 DEF ContentOK, RequestsOK, Remembered, RowsOK, EpisodesOK, InsertedEpisode, DramaOf
<1> HIDE DEF d, n, owned
<1>5. /\ episode \in [Episodes -> EpisodeRows] /\ scene \in [Scenes -> SceneRows] /\ shot \in [Shots -> ShotRows]
      /\ e \in Episodes /\ e # None /\ episode[e].state = "none"
      /\ ts \in SUBSET Scenes /\ \A s \in ts : scene[s].state = "none"
      /\ bs \in SUBSET Shots /\ \A b \in bs : shot[b].state = "none"
  BY <1>2, ContentAssumption DEF ContentOK, RowsOK, EpisodesOK, ScenesOK, ShotsOK, Free
<1>6. /\ episode' \in [Episodes -> EpisodeRows]
      /\ episode'[e] = [state |-> "live", drama |-> d, number |-> n]
      /\ \A x \in Episodes \ {e} : episode'[x] = episode[x]
  BY <1>2, <1>4, <1>5 DEF EpisodeRows, States
<1>7. /\ \A s \in ts : scene'[s] = [state |-> "live", drama |-> d, episode |-> e] /\ scene'[s] \in SceneRows
      /\ \A s \in Scenes \ ts : scene'[s] = scene[s]
  BY <1>3, <1>4, <1>5 DEF SceneRows, States
<1>8. scene' \in [Scenes -> SceneRows]
  <2>1. \A s \in Scenes : scene'[s] \in SceneRows
    BY <1>5, <1>7
  <2> QED
    BY <1>3, <2>1
<1>9. ASSUME NEW b \in bs
      PROVE  /\ shot'[b] \in ShotRows /\ shot'[b].state = "live" /\ shot'[b].episode = e
             /\ shot'[b].frames = [k \in Slots |-> Blank]
  <2> PICK was, s, cast, m : /\ was = from[b] /\ s = SceneFor(shot[was].scene, into) /\ m = shot[was].number
                             /\ cast = {p \in shot[was].cast : Live(character, p)}
    OBVIOUS
  <2>1. was \in old /\ old \subseteq Shots
    BY DEF Bijection, Surjection, Injection, ShotsOf
  <2>2. m \in Nat /\ cast \in SUBSET Characters /\ shot[was].scene \in Scenes \cup {None}
    BY <1>5, <2>1 DEF ShotRows
  <2>3. s \in Scenes \cup {None}
    <3>1. CASE shot[was].scene \in owned
      <4>1. \E t \in ts : into[t] = shot[was].scene
        BY <3>1 DEF Bijection, Surjection
      <4>2. DOMAIN into = ts
        BY DEF Bijection, Injection
      <4>3. (CHOOSE t \in DOMAIN into : into[t] = shot[was].scene) \in ts
        BY <4>1, <4>2
      <4> QED
        BY <1>5, <3>1, <4>3
    <3>2. CASE shot[was].scene \notin owned
      BY <2>2, <3>2
    <3> QED
      BY <3>1, <3>2
  <2>4. shot'[b] = [NoShot EXCEPT !.state = "live", !.episode = e, !.number = m, !.scene = s, !.cast = cast]
    BY <1>3, <1>5
  <2>5. [NoShot EXCEPT !.state = "live", !.episode = e, !.number = m, !.scene = s, !.cast = cast] \in ShotRows
    BY <1>5, <2>2, <2>3, NewShotTyped
  <2>6. shot'[b].state = "live" /\ shot'[b].episode = e /\ shot'[b].frames = [k \in Slots |-> Blank]
    BY <2>4 DEF NoShot
  <2> QED
    BY <2>4, <2>5, <2>6
<1>10. DOMAIN shot' = Shots /\ \A b \in Shots \ bs : shot'[b] = shot[b]
  BY <1>3
<1> HIDE DEF SceneFor, Copy
<1>11. shot' \in [Shots -> ShotRows]
  <2>1. \A b \in Shots : shot'[b] \in ShotRows
    BY <1>5, <1>9, <1>10
  <2>2. shot' = [b \in Shots |-> shot'[b]]
    BY <1>3
  <2> QED
    BY <2>1, <2>2
<1>12. ShotsMove
  BY <1>1, <1>5, <1>9, <1>10 DEF ShotsMove
<1>13. Lasting
  BY <1>5, <1>6, <1>7, <1>10 DEF Lasting
<1>14. EpisodesOK'
  BY <1>4, <1>6 DEF ContentOK, RowsOK, EpisodesOK
<1>15. ScenesOK'
  <2>1. ASSUME NEW s \in Scenes, scene'[s].state # "none"
        PROVE  /\ scene'[s].drama \in Dramas
               /\ scene'[s].episode # None =>
                    InsertedEpisode(scene[s].episode)' /\ DramaOf(scene[s].episode)' = scene'[s].drama
    <3>1. CASE s \in ts
      BY <1>4, <1>5, <1>6, <1>7, <3>1 DEF InsertedEpisode, DramaOf
    <3>2. CASE s \notin ts
      BY <1>5, <1>6, <1>7, <2>1, <3>2 DEF ContentOK, RowsOK, ScenesOK, InsertedEpisode, DramaOf
    <3> QED
      BY <3>1, <3>2
  <2> QED
    BY <1>8, <2>1 DEF ScenesOK
<1>16. ShotsOK'
  <2>1. ASSUME NEW b \in Shots, shot'[b].state # "none" PROVE InsertedEpisode(shot[b].episode)'
    <3>1. CASE b \in bs
      BY <1>5, <1>6, <1>9, <3>1 DEF InsertedEpisode
    <3>2. CASE b \notin bs
      BY <1>5, <1>6, <1>10, <2>1, <3>2 DEF ContentOK, RowsOK, ShotsOK, InsertedEpisode
    <3> QED
      BY <3>1, <3>2
  <2> QED
    BY <1>11, <2>1 DEF ShotsOK
<1>17. CharactersOK' /\ DramasOK'
  BY <1>1 DEF ContentOK, RowsOK, CharactersOK, DramasOK
<1> QED
  BY <1>12, <1>13, <1>14, <1>15, <1>16, <1>17 DEF Wrote, RowsOK

LEMMA LooksMoveNothing ==
  ASSUME NEW c \in Clients, Looks(c)
  PROVE  UNCHANGED <<drama, episode, scene, character, shot, late, carried>>
<1>1. ASSUME NEW r, Begin(c, r) PROVE UNCHANGED <<drama, episode, scene, character, shot, late, carried>>
  BY <1>1 DEF Begin
<1>2. ASSUME NEW d \in Dramas, LookCreateEpisode(c, d) \/ LookDeleteDrama(c, d) PROVE \E r : Begin(c, r)
  BY <1>2 DEF LookCreateEpisode, LookDeleteDrama
<1>3. ASSUME NEW e \in Episodes,
             LookCopyEpisode(c, e) \/ LookMoveEpisode(c, e) \/ LookSaveDedup(c, e) \/ LookSaveShots(c, e)
      PROVE  \E r : Begin(c, r)
  BY <1>3 DEF LookCopyEpisode, LookMoveEpisode, LookSaveDedup, LookSaveShots
<1>4. ASSUME NEW d \in Dramas, NEW e, LookCreateScene(c, d, e) \/ LookCreateCharacter(c, d, e)
      PROVE  \E r : Begin(c, r)
  BY <1>4 DEF LookCreateScene, LookCreateCharacter
<1>5. ASSUME NEW s \in Scenes, NEW e \in Episodes, LookCopyScene(c, s, e) PROVE \E r : Begin(c, r)
  BY <1>5 DEF LookCopyScene
<1>6. ASSUME NEW s \in Scenes, NEW e \in Episodes, NEW carry, LookMoveScene(c, s, e, carry)
      PROVE  \E r : Begin(c, r)
  BY <1>6 DEF LookMoveScene
<1>7. ASSUME NEW e \in Episodes, NEW s, NEW cast, LookCreateShot(c, e, s, cast) PROVE \E r : Begin(c, r)
  BY <1>7 DEF LookCreateShot
<1>8. ASSUME NEW b \in Shots, LookCopyShot(c, b) \/ LookMoveShot(c, b) PROVE \E r : Begin(c, r)
  BY <1>8 DEF LookCopyShot, LookMoveShot
<1>9. ASSUME NEW b \in Shots, NEW scenes, NEW casts, NEW pictures, LookUpdateShot(c, b, scenes, casts, pictures)
      PROVE  \E r : Begin(c, r)
  BY <1>9 DEF LookUpdateShot
<1> QED
  BY <1>1, <1>2, <1>3, <1>4, <1>5, <1>6, <1>7, <1>8, <1>9 DEF Looks

\* A step of the content, whatever it is
LEMMA ContentStepOK ==
  ASSUME ContentOK, ContentNext
  PROVE  ContentOK' /\ Lasting /\ ShotsMove
<1>1. CASE Statements
  <2>1. Wrote
    BY <1>1, CreateDramaOK, DeleteEpisodeOK, DeleteSceneOK, DeleteCharacterOK, DeleteShotOK DEF Statements
  <2>2. UNCHANGED req
    BY <1>1 DEF Statements, CreateDrama, DeleteEpisode, DeleteScene, DeleteCharacter, DeleteShot, Once
  <2> QED
    BY <2>1, <2>2, GoesOnOK DEF Wrote, ContentOK
<1>2. ASSUME NEW c \in Clients, Looks(c) PROVE ContentOK' /\ Lasting /\ ShotsMove
  <2>1. UNCHANGED <<drama, episode, scene, character, shot, late, carried>>
    BY <1>2, LooksMoveNothing
  <2> QED
    BY <1>2, <2>1, LooksOK, ShotsUnmoved DEF Lasting
<1>3. ASSUME NEW c \in Clients, Writes(c) PROVE ContentOK' /\ Lasting /\ ShotsMove
  <2>1. ASSUME RollBack(c) PROVE Wrote
    <3>1. UNCHANGED <<drama, episode, scene, character, shot, carried>>
      BY <2>1 DEF RollBack
    <3>2. Lasting
      BY <3>1 DEF Lasting
    <3> QED
      BY <3>1, <3>2, ShotsUnmoved, ScenesStayOK, ShotsStayOK
         DEF Wrote, ContentOK, RowsOK, DramasOK, EpisodesOK, CharactersOK
  <2>2. Wrote
    BY <1>3, <2>1, CreateEpisodeOK, CopyEpisodeOK, MoveEpisodeOK, DeleteDramaOK, InsertSceneOK, MoveSceneOK,
       CreateCharacterOK, InsertShotOK, UpdateShotOK, MoveShotOK, SaveShotsOK DEF Writes
  <2>3. End(c)
    BY <1>3 DEF Writes, CreateEpisode, CopyEpisode, MoveEpisode, DeleteDrama, CreateScene, CopyScene,
                MoveScene, CreateCharacter, InsertShot, UpdateShot, MoveShot, SaveShots, RollBack
  <2> QED
    BY <2>2, <2>3, EndsOK DEF Wrote, ContentOK
<1> QED
  BY <1>1, <1>2, <1>3 DEF ContentNext
-----------------------------------------------------------------------------
(***************************************************************************)
(* Types of the grid: what is assigned names a cell, a shot and a slot.    *)
(***************************************************************************)
AssignedOK(assigned) ==
  /\ DOMAIN assigned \subseteq 1..MaxCells
  /\ \A i \in DOMAIN assigned : assigned[i] \in Shots \X Slots

HistoriesOK ==
  \A h \in Histories :
    /\ history[h].state \in {"none", "processing", "split"} \cup Outcomes
    /\ history[h].mode \in Modes /\ history[h].episode \in Episodes \cup {None}
    /\ AssignedOK(history[h].assigned) /\ history[h].undone \in BOOLEAN
ImagesOK ==
  /\ image \in [Histories -> {"none", "running"} \cup Outcomes]
  /\ poller \in [history : Histories \cup {None}, tells : {"nothing"} \cup Outcomes]
SplitsOK == \A c \in Clients : req[c].op = "gridSplit" => AssignedOK(req[c].assigned)

GridTypes == ContentOK /\ GridInv /\ PollerTellsEnds /\ HistoriesOK /\ ImagesOK /\ SplitsOK

LEMMA RemainderInRange ==
  ASSUME NEW n \in Nat, NEW m \in Nat, m > 0
  PROVE  n % m \in 0..(m - 1)
OBVIOUS

\* The shots that a split names for the cells, and what it assigns to them
LEMMA IdsTyped ==
  ASSUME NEW mode \in Modes, NEW ids \in IdsFor(mode)
  PROVE  \E n \in 0..MaxCells : DOMAIN ids = 1..n /\ \A i \in 1..n : ids[i] \in Shots
<1>1. CASE mode = "first_last"
  <2> PICK half : half = MaxCells \div 2
    OBVIOUS
  <2>1. PICK base \in Injection(1..half, Shots) :
          MaxCells % 2 = 0 /\ ids = [i \in 1..MaxCells |-> base[((i - 1) % half) + 1]]
    BY <1>1 DEF IdsFor
  <2>2. half \in Nat /\ half > 0 /\ MaxCells \in Nat
    BY <2>1, GridAssumption
  <2>3. \A i \in 1..MaxCells : ((i - 1) % half) + 1 \in 1..half
    <3> TAKE i \in 1..MaxCells
    <3>1. i - 1 \in Nat
      BY <2>2
    <3>2. (i - 1) % half \in 0..(half - 1)
      BY <2>2, <3>1, RemainderInRange
    <3> QED
      BY <2>2, <3>2
  <2>4. base \in [1..half -> Shots]
    BY DEF Injection
  <2>5. ASSUME NEW i \in 1..MaxCells PROVE ids[i] \in Shots
    <3> PICK j : j = ((i - 1) % half) + 1
      OBVIOUS
    <3>1. j \in 1..half /\ ids[i] = base[j]
      BY <2>1, <2>3
    <3> QED
      BY <2>4, <3>1
  <2>6. DOMAIN ids = 1..MaxCells
    BY <2>1
  <2>7. MaxCells \in 0..MaxCells
    BY <2>2
  <2> QED
    BY <2>5, <2>6, <2>7
<1>2. CASE mode # "first_last"
  BY <1>2 DEF IdsFor, Injection
<1> QED
  BY <1>1, <1>2

LEMMA DerivedTyped ==
  ASSUME NEW mode \in Modes, NEW ids \in IdsFor(mode), NEW slot \in Slots
  PROVE  /\ AssignedOK(Derived(mode, ids, slot))
         /\ DOMAIN Derived(mode, ids, slot) = DOMAIN ids
         /\ \A i \in DOMAIN ids : Derived(mode, ids, slot)[i] =
              <<ids[i], IF mode = "first_last" THEN IF i > MaxCells \div 2 THEN Last ELSE First ELSE slot>>
<1>1. PICK n \in 0..MaxCells : DOMAIN ids = 1..n /\ \A i \in 1..n : ids[i] \in Shots
  BY IdsTyped
<1>2. Cardinality(1..n) = n
  <2>1. n \in Nat
    BY <1>1, GridAssumption
  <2> QED
    BY <2>1, FS_Interval
<1>3. DOMAIN Derived(mode, ids, slot) = 1..n
  BY <1>1, <1>2 DEF Derived
<1>4. \A i \in 1..n : Derived(mode, ids, slot)[i] =
        <<ids[i], IF mode = "first_last" THEN IF i > MaxCells \div 2 THEN Last ELSE First ELSE slot>>
  BY <1>1, <1>2 DEF Derived
<1>5. 1..n \subseteq 1..MaxCells
  BY GridAssumption
<1>6. AssignedOK(Derived(mode, ids, slot))
  <2>1. ASSUME NEW i \in 1..n PROVE Derived(mode, ids, slot)[i] \in Shots \X Slots
    <3> PICK k : k = IF mode = "first_last" THEN IF i > MaxCells \div 2 THEN Last ELSE First ELSE slot
      OBVIOUS
    <3>1. k \in Slots
      BY GridAssumption
    <3>2. Derived(mode, ids, slot)[i] = <<ids[i], k>>
      BY <1>4
    <3>3. ids[i] \in Shots
      BY <1>1
    <3> QED
      BY <3>1, <3>2, <3>3
  <2> QED
    BY <1>3, <1>5, <2>1 DEF AssignedOK
<1> QED
  BY <1>1, <1>3, <1>4, <1>6

\* A step of the grid that leaves the tables alone
LEMMA GridLeavesContent ==
  ASSUME ContentOK, UNCHANGED <<drama, episode, scene, character, shot>>, ReqShape',
         \A c \in Clients : req'[c] = req[c] \/ req'[c].op \in {"idle", "gridGenerate", "gridSplit"}
  PROVE  ContentOK'
<1>1. Lasting
  BY DEF Lasting
<1>2. \A c \in Clients : req'[c].op \in {"idle", "gridGenerate", "gridSplit"} => Remembered(req[c])'
  BY DEF Remembered
<1>3. RequestsOK'
  BY <1>1, <1>2, RequestsStayOK DEF ContentOK
<1>4. RowsOK'
  BY <1>1, ScenesStayOK, ShotsStayOK DEF ContentOK, RowsOK, DramasOK, EpisodesOK, CharactersOK
<1> QED
  BY <1>3, <1>4 DEF ContentOK

\* A grid writes frames.
LEMMA GridWritesFrames ==
  ASSUME ContentOK, UNCHANGED <<drama, episode, scene, character>>,
         NEW frames \in [Shots -> [Slots -> Pictures]], NEW edited \in [Shots -> SUBSET Slots],
         shot' = [b \in Shots |-> [shot[b] EXCEPT !.edited = edited[b], !.frames = frames[b]]]
  PROVE  /\ RowsOK' /\ Lasting
         /\ \A b \in Shots : /\ shot'[b].state = shot[b].state /\ shot'[b].episode = shot[b].episode
                             /\ shot'[b].frames = frames[b] /\ shot'[b].edited = edited[b]
<1>1. shot \in [Shots -> ShotRows]
  BY DEF ContentOK, RowsOK, ShotsOK
<1>2. ASSUME NEW b \in Shots
      PROVE  /\ shot'[b] \in ShotRows
             /\ shot'[b].state = shot[b].state /\ shot'[b].episode = shot[b].episode
             /\ shot'[b].frames = frames[b] /\ shot'[b].edited = edited[b]
  <2> PICK f, E : f = frames[b] /\ E = edited[b]
    OBVIOUS
  <2>1. /\ shot'[b] = [shot[b] EXCEPT !.edited = E, !.frames = f]
        /\ f \in [Slots -> Pictures] /\ E \in SUBSET Slots /\ shot[b] \in ShotRows
    BY <1>1
  <2>2. shot'[b] \in ShotRows
    BY <2>1 DEF ShotRows
  <2> QED
    BY <2>1, <2>2 DEF ShotRows
<1>3. shot' \in [Shots -> ShotRows]
  BY <1>2
<1>4. Lasting
  BY <1>2 DEF Lasting
<1>5. ShotsOK'
  BY <1>2, <1>3 DEF ContentOK, RowsOK, ShotsOK, InsertedEpisode
<1>6. ScenesOK' /\ EpisodesOK' /\ CharactersOK' /\ DramasOK'
  BY <1>4, ScenesStayOK DEF ContentOK, RowsOK, EpisodesOK, CharactersOK, DramasOK
<1> QED
  BY <1>2, <1>4, <1>5, <1>6 DEF RowsOK

\* The pictures of cells are pictures.
LEMMA CellsArePictures ==
  ASSUME HistoriesOK, NEW h \in Histories, NEW i \in 1..MaxCells
  PROVE  Cell(h, i) \in Cells /\ Cell(h, i) \in Pictures
<1> PICK cut \in BOOLEAN : cut = history[h].undone
  BY DEF HistoriesOK
<1>1. <<h, i, cut>> \in Cells /\ Cell(h, i) = <<h, i, cut>>
  BY DEF Cells, Cell
<1> QED
  BY <1>1, GridAssumption

LEMMA ReqsOfGridShape ==
  ASSUME ReqsOfGridKept
  PROVE  ReqShape' /\ \A c \in Clients : req'[c].op = "gridSplit" => req'[c] = req[c]
BY DEF ReqsOfGridKept, GridOps

\* What a split writes to the frames: the cells, and nothing else.
ShownAt(assigned, b) == {k \in Slots : \E i \in DOMAIN assigned : assigned[i] = <<b, k>>}
ShownFrames(h, assigned) ==
  [b \in Shots |-> [k \in Slots |->
     IF k \in ShownAt(assigned, b)
     THEN Cell(h, CHOOSE i \in DOMAIN assigned : assigned[i] = <<b, k>>) ELSE shot[b].frames[k]]]

LEMMA SplitWrites ==
  ASSUME GridTypes, NEW c \in Clients, Split(c)
  PROVE  /\ ShownFrames(req[c].history, req[c].assigned) \in [Shots -> [Slots -> Pictures]]
         /\ ContentOK' /\ Lasting
         /\ \A b \in Shots : /\ shot'[b].state = shot[b].state /\ shot'[b].episode = shot[b].episode
                             /\ shot'[b].frames = ShownFrames(req[c].history, req[c].assigned)[b]
                             /\ shot'[b].edited = shot[b].edited \ ShownAt(req[c].assigned, b)
<1> PICK h, assigned : h = req[c].history /\ assigned = req[c].assigned
  OBVIOUS
<1> DEFINE F == ShownFrames(h, assigned)
           E == [b \in Shots |-> shot[b].edited \ ShownAt(assigned, b)]
<1>1. /\ UNCHANGED <<drama, episode, scene, character>> /\ End(c) /\ req[c].op = "gridSplit"
      /\ shot' = Show(h, assigned)
  BY DEF Split
<1>2. h \in Histories /\ AssignedOK(assigned)
  BY <1>1 DEF GridTypes, GridInv, OfHistories, GridOps, SplitsOK
<1>3. shot \in [Shots -> ShotRows]
  BY DEF GridTypes, ContentOK, RowsOK, ShotsOK
<1>4. ASSUME NEW b \in Shots, NEW k \in Slots PROVE F[b][k] \in Pictures
  <2>1. CASE k \in ShownAt(assigned, b)
    <3> PICK j : j = CHOOSE i \in DOMAIN assigned : assigned[i] = <<b, k>>
      OBVIOUS
    <3>1. j \in 1..MaxCells
      BY <1>2, <2>1 DEF AssignedOK, ShownAt
    <3>2. F[b][k] = Cell(h, j)
      BY <2>1 DEF ShownFrames
    <3> QED
      BY <1>2, <3>1, <3>2, CellsArePictures DEF GridTypes
  <2>2. CASE k \notin ShownAt(assigned, b)
    <3>1. F[b][k] = shot[b].frames[k]
      BY <2>2 DEF ShownFrames
    <3> QED
      BY <1>3, <3>1 DEF ShotRows
  <2> QED
    BY <2>1, <2>2
<1>5. F = [b \in Shots |-> [k \in Slots |-> F[b][k]]]
  BY DEF ShownFrames
<1>6. shot' = [b \in Shots |-> [shot[b] EXCEPT !.edited = E[b], !.frames = F[b]]]
  <2>1. \A b \in Shots : F[b] = [k \in Slots |->
               IF k \in ShownAt(assigned, b)
               THEN Cell(h, CHOOSE i \in DOMAIN assigned : assigned[i] = <<b, k>>) ELSE shot[b].frames[k]]
    BY DEF ShownFrames
  <2>2. Show(h, assigned) = [b \in Shots |-> [shot[b] EXCEPT
               !.edited = @ \ ShownAt(assigned, b),
               !.frames = [k \in Slots |->
                 IF k \in ShownAt(assigned, b)
                 THEN Cell(h, CHOOSE i \in DOMAIN assigned : assigned[i] = <<b, k>>) ELSE @[k]]]]
    BY Zenon DEF Show, ShownAt
  <2>3. Show(h, assigned) = [b \in Shots |-> [shot[b] EXCEPT
               !.edited = shot[b].edited \ ShownAt(assigned, b),
               !.frames = [k \in Slots |->
                 IF k \in ShownAt(assigned, b)
                 THEN Cell(h, CHOOSE i \in DOMAIN assigned : assigned[i] = <<b, k>>) ELSE shot[b].frames[k]]]]
    BY <1>3, <2>2 DEF ShotRows
  <2> HIDE DEF F
  <2> QED
    BY <1>1, <2>1, <2>3
<1>7. E \in [Shots -> SUBSET Slots]
  BY <1>3 DEF ShotRows
<1> HIDE DEF F
<1>8. F \in [Shots -> [Slots -> Pictures]]
  BY <1>4, <1>5
<1> HIDE DEF E
<1>9. /\ RowsOK' /\ Lasting
      /\ \A b \in Shots : /\ shot'[b].state = shot[b].state /\ shot'[b].episode = shot[b].episode
                          /\ shot'[b].frames = F[b] /\ shot'[b].edited = E[b]
  BY <1>1, <1>6, <1>7, <1>8, GridWritesFrames DEF GridTypes
<1>10. ContentOK'
  BY <1>1, <1>9, EndsOK DEF GridTypes, ContentOK
<1> QED
  BY <1>8, <1>9, <1>10 DEF F, E

\* What the assignment of cell i of h to slot k of shot b writes to the frames
AssignedFrames(h, i, b, k) ==
  [x \in Shots |-> [s \in Slots |->
     IF <<x, s>> = <<b, k>> THEN Cell(h, i)
     ELSE IF <<x, s>> \in Cleared(h, i, <<b, k>>) THEN Blank ELSE shot[x].frames[s]]]

LEMMA AssignCellWrites ==
  ASSUME GridTypes, NEW h \in Histories, NEW i \in 1..MaxCells, NEW b \in Shots, NEW k \in Slots,
         AssignCell(h, i, b, k)
  PROVE  /\ ContentOK' /\ Lasting
         /\ \A x \in Shots : /\ shot'[x].state = shot[x].state /\ shot'[x].episode = shot[x].episode
                             /\ shot'[x].frames = AssignedFrames(h, i, b, k)[x]
                             /\ shot'[x].edited = shot[x].edited \ (IF x = b THEN {k} ELSE {})
<1> DEFINE F == AssignedFrames(h, i, b, k)
           E == [x \in Shots |-> shot[x].edited \ (IF x = b THEN {k} ELSE {})]
<1>1. UNCHANGED <<drama, episode, scene, character, req>>
  BY DEF AssignCell, Once
<1>3. shot \in [Shots -> ShotRows]
  BY DEF GridTypes, ContentOK, RowsOK, ShotsOK
<1> PICK cell : cell = Cell(h, i)
  OBVIOUS
<1>2. shot' = [x \in Shots |-> [shot[x] EXCEPT
         !.edited = shot[x].edited \ (IF x = b THEN {k} ELSE {}),
         !.frames = [s \in Slots |->
           IF <<x, s>> = <<b, k>> THEN cell
           ELSE IF <<x, s>> \in Cleared(h, i, <<b, k>>) THEN Blank ELSE shot[x].frames[s]]]]
  <2>1. shot' = [x \in Shots |-> [shot[x] EXCEPT
         !.edited = IF x = b THEN @ \ {k} ELSE @,
         !.frames = [s \in Slots |->
           IF <<x, s>> = <<b, k>> THEN Cell(h, i)
           ELSE IF <<x, s>> \in Cleared(h, i, <<b, k>>) THEN Blank ELSE @[s]]]]
    BY Zenon DEF AssignCell
  <2>2. \A x \in Shots : (IF x = b THEN shot[x].edited \ {k} ELSE shot[x].edited)
                         = shot[x].edited \ (IF x = b THEN {k} ELSE {})
    OBVIOUS
  <2> QED
    BY <1>3, <2>1, <2>2 DEF ShotRows
<1>4. cell \in Pictures /\ Blank \in Pictures
  BY ContentAssumption, CellsArePictures DEF GridTypes
<1>5. \A x \in Shots : F[x] = [s \in Slots |->
         IF <<x, s>> = <<b, k>> THEN cell
         ELSE IF <<x, s>> \in Cleared(h, i, <<b, k>>) THEN Blank ELSE shot[x].frames[s]]
  BY DEF AssignedFrames
<1>6. F \in [Shots -> [Slots -> Pictures]]
  <2>1. ASSUME NEW x \in Shots PROVE F[x] \in [Slots -> Pictures]
    <3>1. shot[x].frames \in [Slots -> Pictures]
      BY <1>3 DEF ShotRows
    <3> PICK f : f = F[x]
      OBVIOUS
    <3>2. f = [s \in Slots |->
            IF <<x, s>> = <<b, k>> THEN cell
            ELSE IF <<x, s>> \in Cleared(h, i, <<b, k>>) THEN Blank ELSE shot[x].frames[s]]
      BY <1>5
    <3>3. \A s \in Slots : f[s] \in Pictures
      BY <1>4, <3>1, <3>2
    <3>4. f \in [Slots -> Pictures]
      BY <3>2, <3>3
    <3> QED
      BY <3>4
  <2>2. F = [x \in Shots |-> F[x]]
    BY DEF AssignedFrames
  <2> HIDE DEF F
  <2> QED
    BY <2>1, <2>2
<1>7. E \in [Shots -> SUBSET Slots]
  BY <1>3 DEF ShotRows
<1> HIDE DEF F
<1>8. shot' = [x \in Shots |-> [shot[x] EXCEPT !.edited = E[x], !.frames = F[x]]]
  BY <1>2, <1>5
<1> HIDE DEF E
<1>9. /\ RowsOK' /\ Lasting
      /\ \A x \in Shots : /\ shot'[x].state = shot[x].state /\ shot'[x].episode = shot[x].episode
                          /\ shot'[x].frames = F[x] /\ shot'[x].edited = E[x]
  BY <1>1, <1>6, <1>7, <1>8, GridWritesFrames DEF GridTypes
<1>10. ContentOK'
  BY <1>1, <1>9, GoesOnOK DEF GridTypes, ContentOK
<1> QED
  BY <1>9, <1>10 DEF F, E

\* The steps that keep the types
LEMMA GridTypesKept ==
  ASSUME GridTypes, ContentOK', GridInv', PollerTellsEnds', ReqsOfGridKept, HistoriesOK', ImagesOK'
  PROVE  GridTypes'
<1>1. SplitsOK'
  BY ReqsOfGridShape DEF GridTypes, SplitsOK
<1> QED
  BY <1>1 DEF GridTypes

LEMMA SplitTypes ==
  ASSUME GridTypes, GridInv', PollerTellsEnds', NEW c \in Clients, Split(c)
  PROVE  GridTypes'
<1> PICK h, assigned : h = req[c].history /\ assigned = req[c].assigned
  OBVIOUS
<1>1. /\ End(c) /\ req[c].op = "gridSplit" /\ UNCHANGED <<image, poller>>
      /\ history' = [history EXCEPT ![h].state = "split", ![h].assigned = assigned]
  BY DEF Split
<1>2. h \in Histories /\ AssignedOK(assigned)
  BY <1>1 DEF GridTypes, GridInv, OfHistories, GridOps, SplitsOK
<1>3. HistoriesOK'
  <2>1. \A x \in Histories \ {h} : history'[x] = history[x]
    BY <1>1, <1>2 DEF GridTypes, GridInv, HistoryShape
  <2>2. /\ history'[h].state = "split" /\ history'[h].assigned = assigned
        /\ history'[h].mode = history[h].mode /\ history'[h].episode = history[h].episode
        /\ history'[h].undone = history[h].undone
    BY <1>1, <1>2 DEF GridTypes, GridInv, HistoryShape
  <2> QED
    BY <1>2, <2>1, <2>2 DEF GridTypes, HistoriesOK, AssignedOK
<1>4. ImagesOK' /\ ReqsOfGridKept
  BY <1>1, EndKeepsGrid DEF GridTypes, ImagesOK, GridInv
<1> QED
  BY <1>3, <1>4, SplitWrites, GridTypesKept

LEMMA AssignCellTypes ==
  ASSUME GridTypes, GridInv', PollerTellsEnds',
         NEW h \in Histories, NEW i \in 1..MaxCells, NEW b \in Shots, NEW k \in Slots, AssignCell(h, i, b, k)
  PROVE  GridTypes'
<1> PICK old, new : old = history[h].assigned /\ new = Replaced(old, i, <<b, k>>)
  OBVIOUS
<1>1. /\ UNCHANGED <<req, image, poller>> /\ history' = [history EXCEPT ![h].assigned = new]
  BY DEF AssignCell, Once
<1>2. AssignedOK(old)
  BY DEF GridTypes, HistoriesOK
<1>3. AssignedOK(new)
  BY <1>2 DEF AssignedOK, Replaced
<1>4. HistoriesOK'
  <2>1. \A x \in Histories \ {h} : history'[x] = history[x]
    BY <1>1 DEF GridTypes, GridInv, HistoryShape
  <2>2. /\ history'[h].state = history[h].state /\ history'[h].assigned = new
        /\ history'[h].mode = history[h].mode /\ history'[h].episode = history[h].episode
        /\ history'[h].undone = history[h].undone
    BY <1>1 DEF GridTypes, GridInv, HistoryShape
  <2> QED
    BY <1>3, <2>1, <2>2 DEF GridTypes, HistoriesOK, AssignedOK
<1>5. ImagesOK' /\ ReqsOfGridKept
  BY <1>1 DEF GridTypes, ImagesOK, GridInv, ReqShape, ReqsOfGridKept
<1> QED
  BY <1>4, <1>5, AssignCellWrites, GridTypesKept

LEMMA CreateGridTypes ==
  ASSUME GridTypes, GridInv', PollerTellsEnds', NEW c \in Clients, NEW h \in Histories,
         NEW e \in Episodes \cup {None}, NEW mode \in Modes, CreateGrid(c, h, e, mode)
  PROVE  GridTypes'
<1> DEFINE row == [NoHistory EXCEPT !.state = "processing", !.mode = mode, !.episode = e]
           r == [op |-> "gridGenerate", history |-> h, seen |-> "none"]
<1>1. /\ history' = [history EXCEPT ![h] = row] /\ req' = [req EXCEPT ![c] = r]
      /\ UNCHANGED <<drama, episode, scene, character, shot, image, poller>>
  BY DEF CreateGrid
<1>2. /\ row.state = "processing" /\ row.mode = mode /\ row.episode = e /\ row.assigned = <<>>
      /\ row.undone = FALSE /\ AssignedOK(<<>>)
  BY DEF NoHistory, AssignedOK
<1>3. history'[h] = row /\ \A x \in Histories \ {h} : history'[x] = history[x]
  BY <1>1 DEF GridTypes, GridInv, HistoryShape
<1> HIDE DEF row
<1>4. HistoriesOK'
  BY <1>2, <1>3 DEF GridTypes, HistoriesOK, AssignedOK
<1>5. ReqShape' /\ req'[c] = r /\ \A x \in Clients \ {c} : req'[x] = req[x]
  BY <1>1 DEF GridTypes, GridInv, ReqShape
<1>6. SplitsOK'
  BY <1>5 DEF GridTypes, SplitsOK, AssignedOK
<1>7. \A x \in Clients : req'[x] = req[x] \/ req'[x].op \in {"idle", "gridGenerate", "gridSplit"}
  BY <1>5
<1>8. ContentOK'
  BY <1>1, <1>5, <1>7, GridLeavesContent DEF GridTypes
<1>9. ImagesOK'
  BY <1>1 DEF GridTypes, ImagesOK
<1> QED
  BY <1>4, <1>6, <1>8, <1>9 DEF GridTypes

LEMMA LookSplitTypes ==
  ASSUME GridTypes, GridInv', PollerTellsEnds', NEW c \in Clients, NEW h \in Histories, NEW slot \in Slots,
         LookSplit(c, h, slot)
  PROVE  GridTypes'
<1> PICK mode : mode = history[h].mode
  OBVIOUS
<1>1. PICK ids \in IdsFor(mode) :
        Begin(c, [op |-> "gridSplit", history |-> h, assigned |-> Derived(mode, ids, slot)])
  BY DEF LookSplit
<1> PICK r : r = [op |-> "gridSplit", history |-> h, assigned |-> Derived(mode, ids, slot)]
  OBVIOUS
<1>2. /\ UNCHANGED <<drama, episode, scene, character, shot, history, image, poller>>
      /\ req' = [req EXCEPT ![c] = r]
  BY <1>1 DEF LookSplit, Begin, gridVars
<1>3. mode \in Modes
  BY DEF GridTypes, HistoriesOK
<1>4. AssignedOK(r.assigned) /\ r.op = "gridSplit"
  BY <1>3, DerivedTyped
<1>5. ReqShape' /\ req'[c] = r /\ \A x \in Clients \ {c} : req'[x] = req[x]
  BY <1>2, <1>4 DEF GridTypes, GridInv, ReqShape
<1>6. SplitsOK'
  BY <1>4, <1>5 DEF GridTypes, SplitsOK, AssignedOK
<1>7. \A x \in Clients : req'[x] = req[x] \/ req'[x].op \in {"idle", "gridGenerate", "gridSplit"}
  BY <1>4, <1>5
<1>8. ContentOK'
  BY <1>2, <1>5, <1>7, GridLeavesContent DEF GridTypes
<1>9. ImagesOK' /\ HistoriesOK'
  BY <1>2 DEF GridTypes, ImagesOK, HistoriesOK, AssignedOK
<1> QED
  BY <1>6, <1>8, <1>9 DEF GridTypes

LEMMA StartImageTypes ==
  ASSUME GridTypes, GridInv', PollerTellsEnds', NEW c \in Clients, NEW status \in {"running", "completed"},
         StartImage(c, status)
  PROVE  GridTypes'
<1> PICK h : h = req[c].history
  OBVIOUS
<1>1. /\ req[c].op = "gridGenerate" /\ image' = [image EXCEPT ![h] = status]
      /\ req' = [req EXCEPT ![c].seen = status]
      /\ UNCHANGED <<drama, episode, scene, character, shot, history, poller>>
  BY DEF StartImage
<1>2. /\ req'[c].op = "gridGenerate" /\ \A x \in Clients \ {c} : req'[x] = req[x]
      /\ ReqShape'
  BY <1>1 DEF GridTypes, GridInv, ReqShape
<1>3. \A x \in Clients : req'[x] = req[x] \/ req'[x].op \in {"idle", "gridGenerate", "gridSplit"}
  BY <1>2
<1>4. ContentOK'
  BY <1>1, <1>2, <1>3, GridLeavesContent DEF GridTypes
<1>5. SplitsOK'
  BY <1>2 DEF GridTypes, SplitsOK, AssignedOK
<1>6. ImagesOK' /\ HistoriesOK'
  BY <1>1 DEF GridTypes, ImagesOK, HistoriesOK, AssignedOK, Outcomes
<1> QED
  BY <1>4, <1>5, <1>6 DEF GridTypes

LEMMA SaveGridTypes ==
  ASSUME GridTypes, GridInv', PollerTellsEnds', NEW c \in Clients, SaveGrid(c)
  PROVE  GridTypes'
<1> PICK h, seen : h = req[c].history /\ seen = req[c].seen
  OBVIOUS
<1> DEFINE mine == [history[h] EXCEPT !.assigned = <<>>, !.undone = (history[h].state = "split")]
           row == CASE seen = "none" -> [mine EXCEPT !.state = "failed"]
                    [] seen = "completed" -> [mine EXCEPT !.state = "completed", !.linked = TRUE]
                    [] OTHER -> [mine EXCEPT !.state = "processing", !.linked = TRUE]
<1>1. /\ req[c].op = "gridGenerate" /\ End(c) /\ history' = [history EXCEPT ![h] = row]
      /\ UNCHANGED <<drama, episode, scene, character, shot, image, poller>>
  BY DEF SaveGrid
<1>2. h \in Histories
  BY <1>1 DEF GridTypes, GridInv, OfHistories, GridOps
<1>3. /\ row.state \in {"failed", "completed", "processing"} /\ row.mode = history[h].mode
      /\ row.episode = history[h].episode /\ row.assigned = <<>> /\ AssignedOK(<<>>)
      /\ row.undone \in BOOLEAN
  BY <1>2 DEF GridTypes, GridInv, HistoryShape, AssignedOK
<1>4. history'[h] = row /\ \A x \in Histories \ {h} : history'[x] = history[x]
  BY <1>1, <1>2 DEF GridTypes, GridInv, HistoryShape
<1> HIDE DEF row
<1>5. HistoriesOK'
  BY <1>3, <1>4 DEF GridTypes, HistoriesOK, AssignedOK, Outcomes
<1>6. ImagesOK' /\ ReqsOfGridKept
  BY <1>1, EndKeepsGrid DEF GridTypes, ImagesOK, GridInv
<1>7. \A x \in Clients : req'[x] = req[x] \/ req'[x].op \in {"idle", "gridGenerate", "gridSplit"}
  BY <1>1 DEF End, Idle, GridTypes, GridInv, ReqShape
<1>8. ContentOK'
  BY <1>1, <1>6, <1>7, ReqsOfGridShape, GridLeavesContent DEF GridTypes
<1> QED
  BY <1>5, <1>6, <1>8, GridTypesKept

\* A step of the poller, of a webhook or of a retry
LEMMA ImageTypes ==
  ASSUME GridTypes, GridInv', PollerTellsEnds', UNCHANGED contentVars, HistoriesOK', ImagesOK'
  PROVE  GridTypes'
<1>1. /\ UNCHANGED <<drama, episode, scene, character, shot>> /\ ReqsOfGridKept
      /\ \A x \in Clients : req'[x] = req[x]
  BY DEF contentVars, GridTypes, GridInv, ReqShape, ReqsOfGridKept
<1>2. ContentOK'
  BY <1>1, ReqsOfGridShape, GridLeavesContent DEF GridTypes
<1> QED
  BY <1>1, <1>2, GridTypesKept

LEMMA TellGridTypes ==
  ASSUME GridTypes, GridInv', PollerTellsEnds', TellGrid
  PROVE  GridTypes'
<1> PICK h, outcome : h = poller.history /\ outcome = poller.tells
  OBVIOUS
<1>1. /\ outcome \in Outcomes /\ h \in Histories /\ UNCHANGED <<contentVars, image>> /\ poller' = Away
      /\ history' = IF history[h].linked /\ history[h].state \notin {"split", "failed"}
                    THEN [history EXCEPT ![h].state = outcome] ELSE history
  BY DEF TellGrid, GridTypes, PollerTellsEnds
<1>2. \A x \in Histories : /\ history'[x].state = history[x].state \/ history'[x].state = outcome
                           /\ history'[x].mode = history[x].mode /\ history'[x].episode = history[x].episode
                           /\ history'[x].assigned = history[x].assigned /\ history'[x].undone = history[x].undone
  BY <1>1 DEF GridTypes, GridInv, HistoryShape
<1>3. HistoriesOK'
  BY <1>1, <1>2 DEF GridTypes, HistoriesOK, AssignedOK
<1>4. ImagesOK'
  BY <1>1 DEF GridTypes, ImagesOK, Away
<1> QED
  BY <1>1, <1>3, <1>4, ImageTypes

LEMMA GridNextTypes ==
  ASSUME GridTypes, GridInv', PollerTellsEnds', GridNext
  PROVE  GridTypes'
<1>1. ASSUME NEW c \in Clients, GridRollBack(c) PROVE GridTypes'
  <2>1. UNCHANGED <<drama, episode, scene, character, shot, history, image, poller>> /\ End(c)
    BY <1>1 DEF GridRollBack
  <2>2. ReqsOfGridKept /\ \A x \in Clients : req'[x] = req[x] \/ req'[x].op \in {"idle", "gridGenerate", "gridSplit"}
    BY <2>1, EndKeepsGrid DEF End, Idle, GridTypes, GridInv, ReqShape
  <2>3. ContentOK'
    BY <2>1, <2>2, ReqsOfGridShape, GridLeavesContent DEF GridTypes
  <2>4. HistoriesOK' /\ ImagesOK'
    BY <2>1 DEF GridTypes, HistoriesOK, ImagesOK, AssignedOK
  <2> QED
    BY <2>2, <2>3, <2>4, GridTypesKept
<1>2. ASSUME NEW h \in Histories, NEW result \in Outcomes \cup {"running"}, NEW tells \in Outcomes,
             PollImage(h, result, tells)
      PROVE  GridTypes'
  <2>1. UNCHANGED <<contentVars, history>> /\ ImagesOK'
    BY <1>2 DEF PollImage, GridTypes, ImagesOK, Outcomes
  <2> QED
    BY <2>1, ImageTypes DEF GridTypes, HistoriesOK, AssignedOK
<1>3. ASSUME NEW h \in Histories, NEW outcome \in Outcomes,
             EndImageElsewhere(h, outcome) \/ RetryImage(h) \/ PollerDies
      PROVE  GridTypes'
  <2>1. UNCHANGED <<contentVars, history>> /\ ImagesOK'
    BY <1>3 DEF EndImageElsewhere, RetryImage, PollerDies, GridTypes, ImagesOK, Outcomes, Away
  <2> QED
    BY <2>1, ImageTypes DEF GridTypes, HistoriesOK, AssignedOK
<1>4. ASSUME PollerDies PROVE GridTypes'
  <2>1. UNCHANGED <<contentVars, history>> /\ ImagesOK'
    BY <1>4 DEF PollerDies, GridTypes, ImagesOK, Away
  <2> QED
    BY <2>1, ImageTypes DEF GridTypes, HistoriesOK, AssignedOK
<1>5. ASSUME NEW c \in Clients, NEW b \in Shots, LookShowCell(c, b) PROVE GridTypes'
  <2>1. PICK pictures \in OneFrame(CellsCut) : LookUpdateShot(c, b, {}, {}, pictures)
    BY <1>5 DEF LookShowCell
  <2>2. CellsCut \in SUBSET Pictures
    BY GridAssumption DEF CellsCut
  <2>3. {} \in AtMostOne(Scenes \cup {None}) /\ {} \in AtMostOne(SUBSET Characters) /\ Chosen(pictures)
    BY <2>2, OneFrameIsChosen DEF AtMostOne
  <2>4. ContentOK'
    BY <2>1, <2>3, LookUpdateShotOK DEF GridTypes
  <2>5. ReqsOfGridKept /\ UNCHANGED <<history, image, poller>>
    BY <1>5, LookShowCellKeepsGrid DEF LookShowCell, gridVars, GridTypes, GridInv
  <2>6. HistoriesOK' /\ ImagesOK'
    BY <2>5 DEF GridTypes, HistoriesOK, ImagesOK, AssignedOK
  <2> QED
    BY <2>4, <2>5, <2>6, GridTypesKept
<1> QED
  BY <1>1, <1>2, <1>3, <1>4, <1>5, CreateGridTypes, LookSplitTypes, StartImageTypes, SaveGridTypes, TellGridTypes,
     SplitTypes, AssignCellTypes DEF GridNext, Outcomes

LEMMA InitTypes ==
  ASSUME Init
  PROVE  GridTypes
<1>1. RowsOK
  BY ContentAssumption DEF Init, ContentInit, NoShot, RowsOK, DramasOK, EpisodesOK, EpisodeRows, ScenesOK, SceneRows,
     CharactersOK, CharacterRows, ShotsOK, ShotRows, States
<1>2. RequestsOK
  BY DEF Init, ContentInit, RequestsOK, ReqShape, Remembered, Idle
<1>3. GridInv /\ PollerTellsEnds
  BY DEF Init, PollerTellsEnds, ContentInit, Idle, NoHistory, GridInv, HistoryShape, ReqShape, OfHistories, MadeOnce, GridOps
<1>4. HistoriesOK /\ ImagesOK
  <2>1. /\ NoHistory.state = "none" /\ NoHistory.mode \in Modes /\ NoHistory.episode = None
        /\ NoHistory.assigned = <<>> /\ NoHistory.undone = FALSE
    BY DEF NoHistory, Modes
  <2>2. AssignedOK(<<>>) /\ FALSE \in BOOLEAN
    BY DEF AssignedOK
  <2>3. HistoriesOK
    BY <2>1, <2>2 DEF Init, HistoriesOK
  <2> QED
    BY <2>3 DEF Init, ImagesOK, Away
<1>5. SplitsOK
  BY DEF Init, ContentInit, SplitsOK, Idle
<1> QED
  BY <1>1, <1>2, <1>3, <1>4, <1>5 DEF GridTypes, ContentOK

LEMMA NextTypes ==
  ASSUME GridTypes, [Next]_vars
  PROVE  GridTypes'
<1>1. PollerTellsEnds'
  BY PollerKeepsTelling DEF GridTypes
<1>2. CASE ContentNext /\ UNCHANGED gridVars
  <2>1. UNCHANGED <<history, image, poller>> /\ ReqsOfGridKept
    BY <1>2, ContentKeepsGrid DEF gridVars, GridTypes, GridInv
  <2>2. GridInv'
    BY <2>1, SameHistory DEF GridTypes
  <2>3. ContentOK' /\ HistoriesOK' /\ ImagesOK'
    BY <1>2, <2>1, ContentStepOK DEF GridTypes, HistoriesOK, ImagesOK, AssignedOK
  <2> QED
    BY <1>1, <2>1, <2>2, <2>3, GridTypesKept
<1>3. CASE GridNext
  BY <1>1, <1>3, GridNextSplits, GridNextTypes DEF GridTypes
<1>4. CASE UNCHANGED vars
  <2>1. UNCHANGED <<contentVars, history, image, poller>> /\ ReqsOfGridKept
    BY <1>4 DEF vars, contentVars, gridVars, GridTypes, GridInv, ReqShape, ReqsOfGridKept
  <2>2. GridInv'
    BY <2>1, SameHistory DEF GridTypes
  <2>3. HistoriesOK' /\ ImagesOK'
    BY <2>1 DEF GridTypes, HistoriesOK, ImagesOK, AssignedOK
  <2> QED
    BY <1>1, <2>1, <2>2, <2>3, ImageTypes
<1> QED
  BY <1>2, <1>3, <1>4 DEF Next

LEMMA TypesImply ==
  ASSUME GridTypes
  PROVE  GridTypeOK
<1>1. ContentTypeOK
  BY ContentAssumption DEF GridTypes, ContentOK, RowsOK, DramasOK, EpisodesOK, EpisodeRows, ScenesOK, SceneRows,
     CharactersOK, CharacterRows, ShotsOK, ShotRows, InsertedEpisode, ContentTypeOK
<1> QED
  BY <1>1 DEF GridTypes, HistoriesOK, ImagesOK, AssignedOK, GridTypeOK

\* The tables, the histories and the images are well formed: every row that was ever
\* inserted has a parent, every cell that is assigned names a shot and a slot, and
\* every number is one, whatever is deleted, moved and copied meanwhile.
THEOREM GridTypeCorrect == Spec => []GridTypeOK
<1>1. Init => GridTypes
  BY InitTypes
<1>2. GridTypes /\ [Next]_vars => GridTypes'
  BY NextTypes
<1>3. GridTypes => GridTypeOK
  BY TypesImply
<1> QED
  BY <1>1, <1>2, <1>3, PTL DEF Spec

-----------------------------------------------------------------------------
(***************************************************************************)
(* Cells and frames.  The two halves of CellsAndFramesAgree need each      *)
(* other and this: only a split grid has cells assigned, a split assigns   *)
(* each cell to another slot, and the shot of a cell was inserted and is   *)
(* in the episode of the grid unless a scene carried it away, so that the  *)
(* frame of a cell that moves is always found and cleared; and no slot     *)
(* shows a cell of the second cut of a grid whose first was not undone, so *)
(* that the cells of a new cut are new.                                    *)
(***************************************************************************)
Placed(h, b) ==
  /\ InsertedShot(b)
  /\ \/ b \in carried
     \/ history[h].episode = None
     \/ shot[b].episode = history[h].episode

OnlySplitAssigns == \A h \in Histories : history[h].state # "split" => DOMAIN history[h].assigned = {}
AssignedArePlaced ==
  \A h \in Histories : \A i \in DOMAIN history[h].assigned : Placed(h, history[h].assigned[i][1])
Distinct(assigned) == \A i, j \in DOMAIN assigned : assigned[i] = assigned[j] => i = j
SplitsFit ==
  \A c \in Clients : req[c].op = "gridSplit" =>
    /\ Distinct(req[c].assigned)
    /\ \A i \in DOMAIN req[c].assigned : Placed(req[c].history, req[c].assigned[i][1])

FreshCut ==
  \A h \in Histories : ~history[h].undone =>
    \A b \in Shots : InsertedShot(b) =>
      \A k \in Slots \ shot[b].edited, i \in 1..MaxCells : shot[b].frames[k] # <<h, i, TRUE>>

FramesInv ==
  ShownCellsAreAssigned /\ AssignedCellsAreShown /\ OnlySplitAssigns /\ AssignedArePlaced /\ SplitsFit /\ FreshCut

LEMMA RemainderOfHalf ==
  ASSUME NEW half \in Nat, half > 0, NEW n \in 0..(2 * half - 1)
  PROVE  n % half = IF n < half THEN n ELSE n - half
OBVIOUS

\* A split assigns different cells to different slots.
LEMMA DerivedDistinct ==
  ASSUME NEW mode \in Modes, NEW ids \in IdsFor(mode), NEW slot \in Slots
  PROVE  Distinct(Derived(mode, ids, slot))
<1> PICK assigned : assigned = Derived(mode, ids, slot)
  OBVIOUS
<1>1. /\ DOMAIN assigned = DOMAIN ids
      /\ \A i \in DOMAIN ids : assigned[i] =
           <<ids[i], IF mode = "first_last" THEN IF i > MaxCells \div 2 THEN Last ELSE First ELSE slot>>
  BY DerivedTyped
<1>2. CASE mode # "first_last"
  <2>1. \A i, j \in DOMAIN ids : ids[i] = ids[j] => i = j
    BY <1>2 DEF IdsFor, Injection, IsInjective
  <2> QED
    BY <1>1, <1>2, <2>1 DEF Distinct
<1>3. CASE mode = "first_last"
  <2> PICK half : half = MaxCells \div 2
    OBVIOUS
  <2>1. PICK base \in Injection(1..half, Shots) :
          MaxCells % 2 = 0 /\ ids = [i \in 1..MaxCells |-> base[((i - 1) % half) + 1]]
    BY <1>3 DEF IdsFor
  <2>2. half \in Nat /\ half > 0 /\ MaxCells = 2 * half
    BY <2>1, GridAssumption
  <2>3. \A i, j \in 1..half : base[i] = base[j] => i = j
    BY DEF Injection, IsInjective
  <2> SUFFICES ASSUME NEW i \in 1..MaxCells, NEW j \in 1..MaxCells, assigned[i] = assigned[j]
               PROVE  i = j
    BY <1>1, <2>1 DEF Distinct
  <2> PICK u, v : /\ u = IF i > half THEN Last ELSE First
                  /\ v = IF j > half THEN Last ELSE First
    OBVIOUS
  <2>10. DOMAIN ids = 1..MaxCells
    BY <2>1
  <2>11. assigned[i] = <<ids[i], u>> /\ assigned[j] = <<ids[j], v>>
    BY <1>1, <1>3, <2>10
  <2>12. ids[i] = ids[j] /\ u = v
    <3> PICK x, y, p, q : x = assigned[i] /\ y = assigned[j] /\ p = ids[i] /\ q = ids[j]
      OBVIOUS
    <3>1. x = <<p, u>> /\ y = <<q, v>> /\ x = y
      BY <2>11
    <3>2. p = q /\ u = v
      BY <3>1
    <3> QED
      BY <3>2
  <2>4. i > half <=> j > half
    BY <2>2, <2>12, GridAssumption
  <2>5. ids[i] = ids[j]
    BY <2>12
  <2> PICK m, n : m = (i - 1) % half /\ n = (j - 1) % half
    OBVIOUS
  <2>6. /\ m = IF i - 1 < half THEN i - 1 ELSE i - 1 - half
        /\ n = IF j - 1 < half THEN j - 1 ELSE j - 1 - half
    <3>1. i - 1 \in 0..(2 * half - 1) /\ j - 1 \in 0..(2 * half - 1)
      BY <2>2
    <3> QED
      BY <2>2, <3>1, RemainderOfHalf
  <2>7. m + 1 \in 1..half /\ n + 1 \in 1..half
    BY <2>2, <2>6
  <2>8. base[m + 1] = base[n + 1]
    BY <2>1, <2>5
  <2>9. m + 1 = n + 1
    BY <2>3, <2>7, <2>8
  <2> QED
    BY <2>2, <2>4, <2>6, <2>9
<1> QED
  BY <1>2, <1>3

\* Where a shot is placed it stays placed,
PlacedStay == \A h \in Histories, b \in Shots : history[h].state # "none" /\ Placed(h, b) => Placed(h, b)'

\* so the splits under way still fit,
LEMMA SplitsStayFit ==
  ASSUME GridTypes, FramesInv, PlacedStay,
         \A c \in Clients : req'[c].op = "gridSplit" => req'[c] = req[c]
  PROVE  SplitsFit'
<1> SUFFICES ASSUME NEW c \in Clients, req'[c].op = "gridSplit"
             PROVE  /\ Distinct(req[c].assigned)'
                    /\ \A i \in DOMAIN req'[c].assigned : Placed(req[c].history, req[c].assigned[i][1])'
  BY DEF SplitsFit
<1>1. req'[c] = req[c] /\ req[c].op = "gridSplit"
  OBVIOUS
<1> PICK h : h = req[c].history
  OBVIOUS
<1>2. h \in Histories /\ history[h].state # "none"
  BY <1>1 DEF GridTypes, GridInv, OfHistories, MadeOnce, GridOps
<1>3. Distinct(req[c].assigned)'
  BY <1>1 DEF FramesInv, SplitsFit, Distinct
<1>4. ASSUME NEW i \in DOMAIN req[c].assigned PROVE Placed(req[c].history, req[c].assigned[i][1])'
  <2> PICK b : b = req[c].assigned[i][1]
    OBVIOUS
  <2>1. Placed(h, b)
    BY <1>1 DEF FramesInv, SplitsFit
  <2>2. Placed(h, b)'
    BY <1>2, <2>1 DEF PlacedStay, Placed, InsertedShot
  <2> QED
    BY <1>1, <2>2 DEF Placed, InsertedShot
<1> QED
  BY <1>1, <1>3, <1>4

\* and so do the cells that are assigned.
LEMMA AssignedStayPlaced ==
  ASSUME FramesInv, PlacedStay, NEW h \in Histories, NEW i \in DOMAIN history[h].assigned
  PROVE  Placed(h, history[h].assigned[i][1])'
         \/ history'[h].assigned[i] # history[h].assigned[i]
<1> PICK b : b = history[h].assigned[i][1]
  OBVIOUS
<1>1. Placed(h, b) /\ history[h].state # "none"
  BY DEF FramesInv, AssignedArePlaced, OnlySplitAssigns
<1>2. Placed(h, b)'
  BY <1>1 DEF PlacedStay, Placed, InsertedShot
<1> QED
  BY <1>2 DEF Placed, InsertedShot

\* A step that moves shots as the content does, and assigns nothing
AssignsNothing ==
  \A h \in Histories :
    /\ DOMAIN history'[h].assigned = DOMAIN history[h].assigned
    /\ \A i \in DOMAIN history[h].assigned : history'[h].assigned[i] = history[h].assigned[i]
    /\ history[h].state # "none" => history'[h].episode = history[h].episode
    /\ history'[h].state # "split" => history[h].state # "split"
    /\ history'[h].undone = history[h].undone

LEMMA FreshFrame ==
  ASSUME FramesInv, NEW h \in Histories, ~history[h].undone, NEW b \in Shots, shot[b].state # "none",
         NEW k \in Slots, k \notin shot[b].edited, NEW i \in 1..MaxCells
  PROVE  shot[b].frames[k] # <<h, i, TRUE>>
BY DEF FramesInv, FreshCut, InsertedShot

LEMMA FramesStay ==
  ASSUME GridTypes, FramesInv, Lasting, ShotsMove, AssignsNothing
  PROVE  /\ ShownCellsAreAssigned' /\ AssignedCellsAreShown' /\ FreshCut'
         /\ OnlySplitAssigns' /\ AssignedArePlaced' /\ PlacedStay
<1>0. ASSUME NEW b \in Shots, shot[b].state # "none", NEW k \in Slots, k \notin shot'[b].edited
      PROVE  k \notin shot[b].edited /\ shot'[b].frames[k] = shot[b].frames[k]
  BY <1>0 DEF ShotsMove
<1>1. ShownCellsAreAssigned'
  <2> SUFFICES ASSUME NEW b \in Shots \ carried', NEW k \in Slots \ shot'[b].edited, shot'[b].state = "live",
                      NEW h \in Histories, NEW i \in 1..MaxCells,
                      shot'[b].frames[k] = <<h, i, history'[h].undone>>
               PROVE  i \in DOMAIN history'[h].assigned /\ history'[h].assigned[i] = <<b, k>>
    BY DEF ShownCellsAreAssigned, Live, Cell
  <2>1. shot'[b].frames[k] = Cell(h, i) /\ Cell(h, i) # Blank
    <3>1. shot'[b].frames[k] = Cell(h, i)
      BY DEF AssignsNothing, Cell
    <3>2. Cell(h, i) \in Cells
      BY CellsArePictures DEF GridTypes
    <3> QED
      BY <3>1, <3>2, GridAssumption
  <2>2. shot[b].state # "none"
    BY <2>1 DEF ShotsMove
  <2>3. Live(shot, b) /\ b \notin carried /\ k \notin shot[b].edited /\ shot[b].frames[k] = Cell(h, i)
    BY <1>0, <2>1, <2>2 DEF ShotsMove, Live
  <2>4. i \in DOMAIN history[h].assigned /\ history[h].assigned[i] = <<b, k>>
    BY <2>3 DEF FramesInv, ShownCellsAreAssigned
  <2> QED
    BY <2>4 DEF AssignsNothing
<1>2. AssignedCellsAreShown'
  <2> SUFFICES ASSUME NEW h \in Histories, \A g \in Histories \ {h} : NeverAssigned(g)',
                      NEW i \in DOMAIN history'[h].assigned,
                      history'[h].assigned[i][2] \notin shot'[history'[h].assigned[i][1]].edited
               PROVE  LET t == history'[h].assigned[i]
                          picture == shot'[t[1]].frames[t[2]]
                      IN picture # Blank /\ (picture \in Cells => picture = Cell(h, i)')
    BY Zenon DEF AssignedCellsAreShown
  <2> PICK b, k : b = history[h].assigned[i][1] /\ k = history[h].assigned[i][2]
    OBVIOUS
  <2>1. /\ i \in DOMAIN history[h].assigned /\ \A g \in Histories \ {h} : NeverAssigned(g)
        /\ history'[h].assigned[i] = history[h].assigned[i] /\ Cell(h, i)' = Cell(h, i)
    BY DEF AssignsNothing, NeverAssigned, Cell
  <2>2. b \in Shots /\ k \in Slots /\ shot[b].state # "none"
    BY <2>1 DEF GridTypes, HistoriesOK, AssignedOK, FramesInv, AssignedArePlaced, Placed, InsertedShot
  <2>3. k \notin shot[b].edited /\ shot'[b].frames[k] = shot[b].frames[k]
    BY <1>0, <2>1, <2>2
  <2>4. shot[b].frames[k] # Blank /\ (shot[b].frames[k] \in Cells => shot[b].frames[k] = Cell(h, i))
    BY <2>1, <2>3 DEF FramesInv, AssignedCellsAreShown
  <2> QED
    BY <2>1, <2>3, <2>4
<1>6. FreshCut'
  <2> SUFFICES ASSUME NEW h \in Histories, ~history'[h].undone, NEW b \in Shots, shot'[b].state # "none",
                      NEW k \in Slots \ shot'[b].edited, NEW i \in 1..MaxCells
               PROVE  shot'[b].frames[k] # <<h, i, TRUE>>
    BY DEF FreshCut, InsertedShot
  <2>1. CASE shot[b].state = "none"
    <3>1. shot'[b].frames[k] = Blank
      BY <2>1 DEF ShotsMove
    <3>2. <<h, i, TRUE>> \in Cells
      BY DEF Cells
    <3> QED
      BY <3>1, <3>2, GridAssumption
  <2>2. CASE shot[b].state # "none"
    <3>1. ~history[h].undone
      BY DEF AssignsNothing
    <3>2. k \notin shot[b].edited /\ shot'[b].frames[k] = shot[b].frames[k]
      BY <1>0, <2>2
    <3> QED
      BY <2>2, <3>1, <3>2, FreshFrame
  <2> QED
    BY <2>1, <2>2
<1>3. OnlySplitAssigns'
  BY DEF FramesInv, OnlySplitAssigns, AssignsNothing
<1>4. PlacedStay
  BY DEF PlacedStay, Placed, InsertedShot, Lasting, ShotsMove, AssignsNothing
<1>5. AssignedArePlaced'
  <2> SUFFICES ASSUME NEW h \in Histories, NEW i \in DOMAIN history'[h].assigned
               PROVE  Placed(h, history[h].assigned[i][1])'
    BY DEF AssignedArePlaced
  <2>1. i \in DOMAIN history[h].assigned /\ history'[h].assigned[i] = history[h].assigned[i]
    BY DEF AssignsNothing
  <2> QED
    BY <1>4, <2>1, AssignedStayPlaced
<1> QED
  BY <1>1, <1>2, <1>3, <1>4, <1>5, <1>6

\* ... and begins no split
LEMMA FramesInvStays ==
  ASSUME GridTypes, FramesInv, Lasting, ShotsMove, AssignsNothing,
         \A c \in Clients : req'[c].op = "gridSplit" => req'[c] = req[c]
  PROVE  FramesInv'
BY FramesStay, SplitsStayFit DEF FramesInv

\* The target that a split assigns to a cell
LEMMA AssignedPair ==
  ASSUME NEW assigned, AssignedOK(assigned), NEW i \in DOMAIN assigned
  PROVE  /\ assigned[i] = <<assigned[i][1], assigned[i][2]>>
         /\ assigned[i][1] \in Shots /\ assigned[i][2] \in Slots /\ i \in 1..MaxCells
BY DEF AssignedOK

LEMMA SplitFrames ==
  ASSUME GridTypes, GridTypes', FramesInv, NEW c \in Clients, Split(c)
  PROVE  FramesInv'
<1> PICK h, assigned : h = req[c].history /\ assigned = req[c].assigned
  OBVIOUS
<1>1. /\ End(c) /\ req[c].op = "gridSplit" /\ UNCHANGED carried /\ history[h].state # "split"
      /\ history' = [history EXCEPT ![h].state = "split", ![h].assigned = assigned]
  BY DEF Split
<1>2. h \in Histories /\ AssignedOK(assigned) /\ Distinct(assigned)
      /\ \A i \in DOMAIN assigned : Placed(h, assigned[i][1])
  BY <1>1 DEF GridTypes, GridInv, OfHistories, GridOps, SplitsOK, FramesInv, SplitsFit
<1>3. DOMAIN history[h].assigned = {}
  BY <1>1, <1>2 DEF FramesInv, OnlySplitAssigns
<1>4. /\ history'[h].state = "split" /\ history'[h].assigned = assigned
      /\ history'[h].episode = history[h].episode /\ history'[h].undone = history[h].undone
      /\ \A x \in Histories \ {h} : history'[x] = history[x]
  BY <1>1, <1>2 DEF GridTypes, GridInv, HistoryShape
<1>14. \A g \in Histories : history'[g].undone = history[g].undone
  BY <1>4
<1>5. /\ Lasting
      /\ \A b \in Shots : shot'[b].state = shot[b].state /\ shot'[b].episode = shot[b].episode
      /\ \A b \in Shots : shot'[b].frames = ShownFrames(h, assigned)[b]
      /\ \A b \in Shots : shot'[b].edited = shot[b].edited \ ShownAt(assigned, b)
  BY SplitWrites
<1>6. ASSUME NEW b \in Shots, NEW k \in Slots, NEW i \in DOMAIN assigned, assigned[i] = <<b, k>>
      PROVE  shot'[b].frames[k] = Cell(h, i)
  <2> PICK j : j = CHOOSE x \in DOMAIN assigned : assigned[x] = <<b, k>>
    OBVIOUS
  <2>1. j \in DOMAIN assigned /\ assigned[j] = <<b, k>>
    BY <1>6
  <2>2. j = i
    BY <1>2, <1>6, <2>1 DEF Distinct
  <2>3. ShownFrames(h, assigned)[b][k] = Cell(h, j)
    BY <1>6 DEF ShownFrames, ShownAt
  <2> QED
    BY <1>5, <2>2, <2>3
<1>7. ASSUME NEW b \in Shots, NEW k \in Slots, k \notin ShownAt(assigned, b)
      PROVE  shot'[b].frames[k] = shot[b].frames[k] /\ (k \notin shot'[b].edited => k \notin shot[b].edited)
  <2>1. ShownFrames(h, assigned)[b][k] = shot[b].frames[k]
    BY <1>7 DEF ShownFrames
  <2> QED
    BY <1>5, <1>7, <2>1
<1>8. ShownCellsAreAssigned'
  <2> SUFFICES ASSUME NEW b \in Shots \ carried', NEW k \in Slots \ shot'[b].edited, shot'[b].state = "live",
                      NEW g \in Histories, NEW i \in 1..MaxCells,
                      shot'[b].frames[k] = <<g, i, history'[g].undone>>
               PROVE  i \in DOMAIN history'[g].assigned /\ history'[g].assigned[i] = <<b, k>>
    BY DEF ShownCellsAreAssigned, Live, Cell
  <2>1. CASE k \in ShownAt(assigned, b)
    <3>1. PICK j \in DOMAIN assigned : assigned[j] = <<b, k>>
      BY <2>1 DEF ShownAt
    <3>2. shot'[b].frames[k] = <<h, j, history[h].undone>>
      BY <1>6, <3>1 DEF Cell
    <3>3. g = h /\ i = j
      BY <3>2
    <3> QED
      BY <1>4, <3>1, <3>3
  <2>2. CASE k \notin ShownAt(assigned, b)
    <3>1. shot[b].frames[k] = Cell(g, i) /\ k \notin shot[b].edited
      BY <1>7, <1>14, <2>2 DEF Cell
    <3>2. i \in DOMAIN history[g].assigned /\ history[g].assigned[i] = <<b, k>>
      BY <1>1, <1>5, <3>1 DEF FramesInv, ShownCellsAreAssigned, Live
    <3>3. g # h
      BY <1>3, <3>2
    <3> QED
      BY <1>4, <3>2, <3>3
  <2> QED
    BY <2>1, <2>2
<1>9. AssignedCellsAreShown'
  <2> SUFFICES ASSUME NEW g \in Histories, \A x \in Histories \ {g} : NeverAssigned(x)',
                      NEW i \in DOMAIN history'[g].assigned,
                      history'[g].assigned[i][2] \notin shot'[history'[g].assigned[i][1]].edited
               PROVE  LET t == history'[g].assigned[i]
                          picture == shot'[t[1]].frames[t[2]]
                      IN picture # Blank /\ (picture \in Cells => picture = Cell(g, i)')
    BY Zenon DEF AssignedCellsAreShown
  <2> PICK b, k : b = history'[g].assigned[i][1] /\ k = history'[g].assigned[i][2]
    OBVIOUS
  <2>3. Cell(g, i)' = Cell(g, i)
    BY <1>14 DEF Cell
  <2>1. CASE g = h
    <3>1. i \in DOMAIN assigned /\ b = assigned[i][1] /\ k = assigned[i][2]
      BY <1>4, <2>1
    <3>2. assigned[i] = <<b, k>> /\ b \in Shots /\ k \in Slots /\ i \in 1..MaxCells
      BY <1>2, <3>1, AssignedPair
    <3>3. shot'[b].frames[k] = Cell(h, i)
      BY <1>6, <3>1, <3>2
    <3>4. Cell(h, i) \in Cells
      BY <1>2, <3>2, CellsArePictures DEF GridTypes
    <3> QED
      BY <2>1, <2>3, <3>3, <3>4, GridAssumption
  <2>2. CASE g # h
    <3>1. DOMAIN assigned = {} /\ ~history[h].undone
      BY <1>2, <1>4, <2>2 DEF NeverAssigned
    <3>2. history'[g] = history[g] /\ \A x \in Histories \ {g} : NeverAssigned(x)
      BY <1>3, <1>4, <2>2, <3>1 DEF NeverAssigned
    <3>3. b \in Shots /\ k \in Slots
      <4>1. AssignedOK(history[g].assigned)
        BY DEF GridTypes, HistoriesOK
      <4> QED
        BY <3>2, <4>1, AssignedPair
    <3>4. shot'[b].frames[k] = shot[b].frames[k] /\ k \notin shot[b].edited
      BY <1>7, <3>1, <3>3 DEF ShownAt
    <3>5. shot[b].frames[k] # Blank /\ (shot[b].frames[k] \in Cells => shot[b].frames[k] = Cell(g, i))
      BY <3>2, <3>4 DEF FramesInv, AssignedCellsAreShown
    <3> QED
      BY <2>3, <3>4, <3>5
  <2> QED
    BY <2>1, <2>2
<1>15. FreshCut'
  <2> SUFFICES ASSUME NEW g \in Histories, ~history'[g].undone, NEW b \in Shots, shot'[b].state # "none",
                      NEW k \in Slots \ shot'[b].edited, NEW i \in 1..MaxCells,
                      shot'[b].frames[k] = <<g, i, TRUE>>
               PROVE  FALSE
    BY DEF FreshCut, InsertedShot
  <2>1. CASE k \in ShownAt(assigned, b)
    <3>1. PICK j \in DOMAIN assigned : assigned[j] = <<b, k>>
      BY <2>1 DEF ShownAt
    <3>2. <<h, j, history[h].undone>> = <<g, i, TRUE>>
      BY <1>6, <3>1 DEF Cell
    <3>3. g = h /\ history[h].undone = TRUE
      BY <3>2
    <3> QED
      BY <1>14, <3>3
  <2>2. CASE k \notin ShownAt(assigned, b)
    <3>1. shot[b].frames[k] = <<g, i, TRUE>> /\ k \notin shot[b].edited /\ shot[b].state # "none"
      BY <1>5, <1>7, <2>2
    <3>2. ~history[g].undone
      BY <1>14
    <3> QED
      BY <3>1, <3>2, FreshFrame
  <2> QED
    BY <2>1, <2>2
<1>10. OnlySplitAssigns'
  BY <1>4 DEF FramesInv, OnlySplitAssigns
<1>11. PlacedStay
  BY <1>1, <1>4, <1>5 DEF PlacedStay, Placed, InsertedShot
<1>12. AssignedArePlaced'
  <2> SUFFICES ASSUME NEW g \in Histories, NEW i \in DOMAIN history'[g].assigned
               PROVE  Placed(g, history[g].assigned[i][1])'
    BY DEF AssignedArePlaced
  <2>1. CASE g = h
    <3> PICK b : b = assigned[i][1]
      OBVIOUS
    <3>1. Placed(h, b)'
      BY <1>1, <1>2, <1>4, <1>5, <2>1 DEF Placed, InsertedShot
    <3> QED
      BY <1>4, <2>1, <3>1 DEF Placed, InsertedShot
  <2>2. CASE g # h
    BY <1>4, <1>11, <2>2, AssignedStayPlaced
  <2> QED
    BY <2>1, <2>2
<1>13. SplitsFit'
  <2>1. \A x \in Clients : req'[x].op = "gridSplit" => req'[x] = req[x]
    BY <1>1 DEF End, Idle, GridTypes, GridInv, ReqShape
  <2> QED
    BY <1>11, <2>1, SplitsStayFit
<1> QED
  BY <1>8, <1>9, <1>10, <1>12, <1>13, <1>15 DEF FramesInv

LEMMA AssignCellFrames ==
  ASSUME GridTypes, GridTypes', FramesInv,
         NEW h \in Histories, NEW i \in 1..MaxCells, NEW b \in Shots, NEW k \in Slots, AssignCell(h, i, b, k)
  PROVE  FramesInv'
<1> PICK old, target, new : old = history[h].assigned /\ target = <<b, k>> /\ new = Replaced(old, i, target)
  OBVIOUS
<1>1. /\ UNCHANGED <<req, carried>> /\ history' = [history EXCEPT ![h].assigned = new]
      /\ history[h].state = "split" /\ Here(h, b)
  BY DEF AssignCell, Once
<1>2. AssignedOK(old)
  BY DEF GridTypes, HistoriesOK
<1>3. /\ history'[h].state = "split" /\ history'[h].assigned = new
      /\ history'[h].episode = history[h].episode /\ history'[h].undone = history[h].undone
      /\ \A x \in Histories \ {h} : history'[x] = history[x]
  BY <1>1 DEF GridTypes, GridInv, HistoryShape
<1>15. \A g \in Histories : history'[g].undone = history[g].undone
  BY <1>3
<1>4. /\ i \in DOMAIN new /\ new[i] = target
      /\ \A j \in DOMAIN old : j # i /\ old[j] # target => j \in DOMAIN new /\ new[j] = old[j]
      /\ \A j \in DOMAIN new : j # i => j \in DOMAIN old /\ new[j] = old[j] /\ old[j] # target
  BY DEF Replaced
<1>5. /\ Lasting
      /\ \A x \in Shots : shot'[x].state = shot[x].state /\ shot'[x].episode = shot[x].episode
      /\ \A x \in Shots : shot'[x].frames = AssignedFrames(h, i, b, k)[x]
      /\ \A x \in Shots : shot'[x].edited = shot[x].edited \ (IF x = b THEN {k} ELSE {})
  <2>1. Lasting
    BY AssignCellWrites
  <2>2. \A x \in Shots : shot'[x].state = shot[x].state /\ shot'[x].episode = shot[x].episode
    BY AssignCellWrites
  <2>3. \A x \in Shots : shot'[x].frames = AssignedFrames(h, i, b, k)[x]
    BY AssignCellWrites
  <2>4. \A x \in Shots : shot'[x].edited = shot[x].edited \ (IF x = b THEN {k} ELSE {})
    BY AssignCellWrites
  <2> QED
    BY <2>1, <2>2, <2>3, <2>4
<1>6. shot'[b].frames[k] = Cell(h, i)
  BY <1>5 DEF AssignedFrames
<1>7. ASSUME NEW x \in Shots, NEW s \in Slots, <<x, s>> # target
      PROVE  shot'[x].frames[s] = IF <<x, s>> \in Cleared(h, i, target) THEN Blank ELSE shot[x].frames[s]
  BY <1>5, <1>7 DEF AssignedFrames
<1>8. \A x \in Shots, s \in Slots : <<x, s>> \in Cleared(h, i, target) =>
        i \in DOMAIN old /\ old[i] = <<x, s>> /\ shot[x].frames[s] = Cell(h, i)
  BY DEF Cleared
<1>16. \A x \in Shots, s \in Slots : <<x, s>> # target /\ s \notin shot'[x].edited => s \notin shot[x].edited
  BY <1>5
<1>9. ShownCellsAreAssigned'
  <2> SUFFICES ASSUME NEW x \in Shots \ carried', NEW s \in Slots \ shot'[x].edited, shot'[x].state = "live",
                      NEW g \in Histories, NEW j \in 1..MaxCells,
                      shot'[x].frames[s] = <<g, j, history'[g].undone>>
               PROVE  j \in DOMAIN history'[g].assigned /\ history'[g].assigned[j] = <<x, s>>
    BY DEF ShownCellsAreAssigned, Live, Cell
  <2>3. shot'[x].frames[s] = Cell(g, j) /\ Cell(g, j) \in Cells
    <3>1. shot'[x].frames[s] = Cell(g, j)
      BY <1>15 DEF Cell
    <3> QED
      BY <3>1, CellsArePictures DEF GridTypes
  <2>1. CASE <<x, s>> = target
    <3>1. x = b /\ s = k
      BY <2>1
    <3>2. g = h /\ j = i
      BY <1>6, <2>3, <3>1 DEF Cell
    <3> QED
      BY <1>3, <1>4, <2>1, <3>2
  <2>2. CASE <<x, s>> # target
    <3>1. /\ <<x, s>> \notin Cleared(h, i, target) /\ shot[x].frames[s] = Cell(g, j)
          /\ s \notin shot[x].edited
      <4>1. Blank # Cell(g, j)
        BY <2>3, GridAssumption
      <4> QED
        BY <1>7, <1>16, <2>2, <2>3, <4>1
    <3>2. j \in DOMAIN history[g].assigned /\ history[g].assigned[j] = <<x, s>> /\ Live(shot, x)
      <4>1. Live(shot, x) /\ x \in Shots \ carried
        BY <1>1, <1>5 DEF Live
      <4> QED
        BY <3>1, <4>1 DEF FramesInv, ShownCellsAreAssigned
    <3>3. CASE g # h
      BY <1>3, <3>2, <3>3
    <3>4. CASE g = h
      <4>1. j # i
        <5> SUFFICES ASSUME j = i PROVE FALSE
          OBVIOUS
        <5>1. Placed(h, history[h].assigned[i][1]) /\ history[h].assigned[i] = <<x, s>>
          BY <3>2, <3>4 DEF FramesInv, AssignedArePlaced
        <5>2. Placed(h, x)
          BY <5>1
        <5>3. Here(h, x)
          BY <1>1, <3>2, <5>2 DEF Placed, Here
        <5>4. <<x, s>> \in Cleared(h, i, target)
          BY <2>2, <3>1, <3>2, <3>4, <5>3 DEF Cleared
        <5> QED
          BY <3>1, <5>4
      <4> QED
        BY <1>3, <1>4, <2>2, <3>2, <3>4, <4>1
    <3> QED
      BY <3>3, <3>4
  <2> QED
    BY <2>1, <2>2
<1>10. AssignedCellsAreShown'
  <2> SUFFICES ASSUME NEW g \in Histories, \A x \in Histories \ {g} : NeverAssigned(x)',
                      NEW j \in DOMAIN history'[g].assigned,
                      history'[g].assigned[j][2] \notin shot'[history'[g].assigned[j][1]].edited
               PROVE  LET t == history'[g].assigned[j]
                          picture == shot'[t[1]].frames[t[2]]
                      IN picture # Blank /\ (picture \in Cells => picture = Cell(g, j)')
    BY Zenon DEF AssignedCellsAreShown
  <2>5. Cell(g, j)' = Cell(g, j)
    BY <1>15 DEF Cell
  <2>1. g = h
    BY <1>3, <1>4 DEF NeverAssigned
  <2>2. j \in DOMAIN new /\ \A x \in Histories \ {h} : NeverAssigned(x)
    BY <1>3, <2>1 DEF NeverAssigned
  <2>3. CASE j = i
    <3>1. Cell(h, i) # Blank
      BY CellsArePictures, GridAssumption DEF GridTypes
    <3>2. history'[g].assigned[j] = <<b, k>>
      BY <1>3, <1>4, <2>1, <2>3
    <3> QED
      BY <1>6, <2>1, <2>3, <2>5, <3>1, <3>2
  <2>4. CASE j # i
    <3>1. j \in DOMAIN old /\ new[j] = old[j] /\ old[j] # target
      BY <1>4, <2>2, <2>4
    <3> PICK x, s : x = old[j][1] /\ s = old[j][2]
      OBVIOUS
    <3>2. old[j] = <<x, s>> /\ x \in Shots /\ s \in Slots
      BY <1>2, <3>1, AssignedPair
    <3>6. history'[g].assigned[j][1] = x /\ history'[g].assigned[j][2] = s
      BY <1>3, <2>1, <3>1, <3>2
    <3>7. s \notin shot[x].edited
      BY <1>16, <3>1, <3>2, <3>6
    <3>3. shot[x].frames[s] # Blank /\ (shot[x].frames[s] \in Cells => shot[x].frames[s] = Cell(h, j))
      BY <2>2, <3>1, <3>7 DEF FramesInv, AssignedCellsAreShown
    <3>4. <<x, s>> \notin Cleared(h, i, target)
      <4> SUFFICES ASSUME <<x, s>> \in Cleared(h, i, target) PROVE FALSE
        OBVIOUS
      <4>1. shot[x].frames[s] = Cell(h, i)
        BY <1>8, <3>2
      <4>2. Cell(h, i) \in Cells
        BY CellsArePictures DEF GridTypes
      <4>3. Cell(h, i) # Cell(h, j)
        BY <2>4 DEF Cell
      <4> QED
        BY <3>3, <4>1, <4>2, <4>3
    <3>5. shot'[x].frames[s] = shot[x].frames[s]
      BY <1>7, <3>1, <3>2, <3>4
    <3> QED
      BY <2>1, <2>5, <3>3, <3>5, <3>6
  <2> QED
    BY <2>3, <2>4
<1>17. FreshCut'
  <2> SUFFICES ASSUME NEW g \in Histories, ~history'[g].undone, NEW x \in Shots, shot'[x].state # "none",
                      NEW s \in Slots \ shot'[x].edited, NEW j \in 1..MaxCells,
                      shot'[x].frames[s] = <<g, j, TRUE>>
               PROVE  FALSE
    BY DEF FreshCut, InsertedShot
  <2>1. CASE <<x, s>> = target
    <3>1. x = b /\ s = k
      BY <2>1
    <3>2. <<h, i, history[h].undone>> = <<g, j, TRUE>>
      BY <1>6, <3>1 DEF Cell
    <3>3. g = h /\ history[h].undone = TRUE
      BY <3>2
    <3> QED
      BY <1>15, <3>3
  <2>2. CASE <<x, s>> # target
    <3>1. <<g, j, TRUE>> \in Cells
      BY DEF Cells
    <3>2. shot[x].frames[s] = <<g, j, TRUE>> /\ s \notin shot[x].edited
      BY <1>7, <1>16, <2>2, <3>1, GridAssumption
    <3>3. ~history[g].undone /\ shot[x].state # "none"
      BY <1>5, <1>15
    <3> QED
      BY <3>2, <3>3, FreshFrame
  <2> QED
    BY <2>1, <2>2
<1>11. OnlySplitAssigns'
  BY <1>3 DEF FramesInv, OnlySplitAssigns
<1>12. PlacedStay
  BY <1>1, <1>3, <1>5 DEF PlacedStay, Placed, InsertedShot
<1>13. AssignedArePlaced'
  <2> SUFFICES ASSUME NEW g \in Histories, NEW j \in DOMAIN history'[g].assigned
               PROVE  Placed(g, history[g].assigned[j][1])'
    BY DEF AssignedArePlaced
  <2>1. CASE g = h /\ j = i
    <3>1. history'[g].assigned[j][1] = b
      BY <1>3, <1>4, <2>1
    <3>2. Placed(h, b)'
      BY <1>1, <1>3, <1>5 DEF Here, Live, Placed, InsertedShot
    <3> QED
      BY <2>1, <3>1, <3>2 DEF Placed, InsertedShot
  <2>2. CASE ~(g = h /\ j = i)
    <3>1. j \in DOMAIN history[g].assigned /\ history'[g].assigned[j] = history[g].assigned[j]
      BY <1>3, <1>4, <2>2
    <3> QED
      BY <1>12, <3>1, AssignedStayPlaced
  <2> QED
    BY <2>1, <2>2
<1>14. SplitsFit'
  BY <1>1, <1>12, SplitsStayFit
<1> QED
  BY <1>9, <1>10, <1>11, <1>13, <1>14, <1>17 DEF FramesInv

\* A split that begins names shots that are there, of the episode of the grid.
LEMMA LookSplitFrames ==
  ASSUME GridTypes, FramesInv, NEW c \in Clients, NEW h \in Histories, NEW slot \in Slots, LookSplit(c, h, slot)
  PROVE  FramesInv'
<1> PICK mode, e : mode = history[h].mode /\ e = history[h].episode
  OBVIOUS
<1>1. PICK ids \in IdsFor(mode) :
        /\ Owned(e, {ids[i] : i \in DOMAIN ids})
        /\ Begin(c, [op |-> "gridSplit", history |-> h, assigned |-> Derived(mode, ids, slot)])
  BY DEF LookSplit
<1> PICK assigned : assigned = Derived(mode, ids, slot)
  OBVIOUS
<1>2. /\ UNCHANGED <<episode, scene, shot, carried, history>>
      /\ req' = [req EXCEPT ![c] = [op |-> "gridSplit", history |-> h, assigned |-> assigned]]
  BY <1>1 DEF LookSplit, Begin, gridVars
<1>3. mode \in Modes
  BY DEF GridTypes, HistoriesOK
<1>4. Distinct(assigned)
  BY <1>3, DerivedDistinct
<1>5. ASSUME NEW i \in DOMAIN assigned PROVE Placed(h, assigned[i][1])
  <2>1. DOMAIN assigned = DOMAIN ids
    BY <1>3, DerivedTyped
  <2>2. assigned[i] = <<ids[i], IF mode = "first_last" THEN IF i > MaxCells \div 2 THEN Last ELSE First ELSE slot>>
    BY <1>3, <2>1, DerivedTyped
  <2> PICK b : b = assigned[i][1]
    OBVIOUS
  <2>3. b = ids[i]
    BY <2>2
  <2>4. b \in Shots
    BY <1>3, <2>1, <2>3, IdsTyped
  <2>5. Live(shot, b) /\ (e # None => shot[b].episode = e)
    <3>1. b \in {ids[x] : x \in DOMAIN ids}
      BY <2>1, <2>3
    <3> QED
      BY <1>1, <3>1 DEF Owned
  <2> QED
    BY <2>4, <2>5 DEF Placed, InsertedShot, Live
<1>6. /\ req'[c].op = "gridSplit" /\ req'[c].history = h /\ req'[c].assigned = assigned
      /\ \A x \in Clients \ {c} : req'[x] = req[x]
  BY <1>2 DEF GridTypes, GridInv, ReqShape
<1>7. Lasting /\ ShotsMove /\ AssignsNothing
  BY <1>2, ShotsUnmoved DEF Lasting, AssignsNothing
<1>8. SplitsFit'
  <2> SUFFICES ASSUME NEW x \in Clients, req'[x].op = "gridSplit"
               PROVE  /\ Distinct(req'[x].assigned)
                      /\ \A i \in DOMAIN req'[x].assigned : Placed(req'[x].history, req'[x].assigned[i][1])
    BY <1>2 DEF SplitsFit, Distinct, Placed, InsertedShot
  <2>1. CASE x = c
    BY <1>4, <1>5, <1>6, <2>1
  <2>2. CASE x # c
    BY <1>6, <2>2 DEF FramesInv, SplitsFit
  <2> QED
    BY <2>1, <2>2
<1> QED
  BY <1>7, <1>8, FramesStay DEF FramesInv

LEMMA CreateGridFrames ==
  ASSUME GridTypes, FramesInv, NEW c \in Clients, NEW h \in Histories, NEW e, NEW mode, CreateGrid(c, h, e, mode)
  PROVE  FramesInv'
<1>1. /\ history[h] = NoHistory /\ UNCHANGED <<episode, scene, shot, carried>>
      /\ history' = [history EXCEPT ![h] = [NoHistory EXCEPT !.state = "processing", !.mode = mode, !.episode = e]]
      /\ req' = [req EXCEPT ![c] = [op |-> "gridGenerate", history |-> h, seen |-> "none"]]
  BY DEF CreateGrid
<1>2. /\ history[h].state = "none" /\ history'[h].assigned = history[h].assigned
      /\ history'[h].undone = history[h].undone
      /\ \A x \in Histories \ {h} : history'[x] = history[x]
  BY <1>1 DEF GridTypes, GridInv, HistoryShape, NoHistory
<1>3. /\ req'[c].op = "gridGenerate" /\ \A x \in Clients \ {c} : req'[x] = req[x]
  BY <1>1 DEF GridTypes, GridInv, ReqShape
<1>4. Lasting /\ ShotsMove /\ AssignsNothing
  BY <1>1, <1>2, ShotsUnmoved DEF Lasting, AssignsNothing
<1> QED
  BY <1>3, <1>4, FramesInvStays

\* Saving the history as the request remembers it undoes a split, and with it the cells
\* that were assigned: the frames show cells of a cut that was undone.
LEMMA SaveGridFrames ==
  ASSUME GridTypes, FramesInv, NEW c \in Clients, SaveGrid(c)
  PROVE  FramesInv'
<1> PICK h, seen : h = req[c].history /\ seen = req[c].seen
  OBVIOUS
<1> DEFINE mine == [history[h] EXCEPT !.assigned = <<>>, !.undone = (history[h].state = "split")]
           row == CASE seen = "none" -> [mine EXCEPT !.state = "failed"]
                    [] seen = "completed" -> [mine EXCEPT !.state = "completed", !.linked = TRUE]
                    [] OTHER -> [mine EXCEPT !.state = "processing", !.linked = TRUE]
<1>1. /\ req[c].op = "gridGenerate" /\ End(c) /\ history' = [history EXCEPT ![h] = row]
      /\ UNCHANGED <<episode, scene, shot, carried>>
  BY DEF SaveGrid
<1>2. h \in Histories /\ history[h].state # "none" /\ history[h].undone = FALSE
  BY <1>1 DEF GridTypes, GridInv, OfHistories, MadeOnce, GridOps, HistoriesOK
<1>3. /\ row.episode = history[h].episode /\ row.assigned = <<>> /\ row.state # "split"
      /\ row.undone = (history[h].state = "split")
  BY <1>2 DEF GridTypes, GridInv, HistoryShape
<1>4. history'[h] = row /\ \A x \in Histories \ {h} : history'[x] = history[x]
  BY <1>1, <1>2 DEF GridTypes, GridInv, HistoryShape
<1> HIDE DEF row
<1>5. Lasting /\ ShotsMove
  BY <1>1, ShotsUnmoved DEF Lasting
<1>6. \A x \in Clients : req'[x].op = "gridSplit" => req'[x] = req[x]
  BY <1>1 DEF End, Idle, GridTypes, GridInv, ReqShape
<1>7. CASE history[h].state # "split"
  <2>1. DOMAIN history[h].assigned = {} /\ DOMAIN history'[h].assigned = {}
    BY <1>2, <1>3, <1>4, <1>7 DEF FramesInv, OnlySplitAssigns
  <2>2. history'[h].undone = FALSE /\ history'[h].episode = history[h].episode
    BY <1>3, <1>4, <1>7
  <2>3. AssignsNothing
    BY <1>2, <1>4, <1>7, <2>1, <2>2 DEF AssignsNothing
  <2> QED
    BY <1>5, <1>6, <2>3, FramesInvStays
<1>8. CASE history[h].state = "split"
  <2>1. /\ DOMAIN history'[h].assigned = {} /\ history'[h].undone = TRUE
        /\ history'[h].episode = history[h].episode /\ history'[h].state # "split"
    <3>1. history'[h].undone = (history[h].state = "split")
      BY <1>3, <1>4
    <3>2. history'[h].undone = TRUE
      BY <1>8, <3>1
    <3> QED
      BY <1>3, <1>4, <3>2
  <2>2. ShownCellsAreAssigned'
    <3> SUFFICES ASSUME NEW b \in Shots \ carried', NEW k \in Slots \ shot'[b].edited, shot'[b].state = "live",
                        NEW g \in Histories, NEW i \in 1..MaxCells,
                        shot'[b].frames[k] = <<g, i, history'[g].undone>>
                 PROVE  i \in DOMAIN history'[g].assigned /\ history'[g].assigned[i] = <<b, k>>
      BY DEF ShownCellsAreAssigned, Live, Cell
    <3>1. /\ b \notin carried /\ k \notin shot[b].edited /\ shot[b].state = "live"
          /\ shot[b].frames[k] = <<g, i, history'[g].undone>>
      BY <1>1
    <3>2. g # h
      <4> SUFFICES ASSUME g = h PROVE FALSE
        OBVIOUS
      <4>1. shot[b].frames[k] = <<h, i, TRUE>> /\ ~history[h].undone
        BY <1>2, <2>1, <3>1
      <4> QED
        BY <1>2, <3>1, <4>1, FreshFrame
    <3>3. history'[g] = history[g] /\ shot[b].frames[k] = Cell(g, i)
      BY <1>4, <3>1, <3>2 DEF Cell
    <3>4. i \in DOMAIN history[g].assigned /\ history[g].assigned[i] = <<b, k>>
      BY <3>1, <3>3 DEF FramesInv, ShownCellsAreAssigned, Live
    <3> QED
      BY <3>3, <3>4
  <2>3. AssignedCellsAreShown'
    <3> SUFFICES ASSUME NEW g \in Histories, \A x \in Histories \ {g} : NeverAssigned(x)',
                        NEW i \in DOMAIN history'[g].assigned
                 PROVE  FALSE
      BY Zenon DEF AssignedCellsAreShown
    <3>1. g = h
      BY <1>2, <2>1 DEF NeverAssigned
    <3> QED
      BY <2>1, <3>1
  <2>4. FreshCut'
    <3>1. \A g \in Histories : ~history'[g].undone => ~history[g].undone
      BY <1>4, <2>1
    <3> QED
      BY <1>1, <3>1 DEF FramesInv, FreshCut, InsertedShot
  <2>5. OnlySplitAssigns'
    BY <1>4, <2>1 DEF FramesInv, OnlySplitAssigns
  <2>6. PlacedStay
    BY <1>1, <1>4, <2>1 DEF PlacedStay, Placed, InsertedShot
  <2>7. AssignedArePlaced'
    <3> SUFFICES ASSUME NEW g \in Histories, NEW i \in DOMAIN history'[g].assigned
                 PROVE  Placed(g, history[g].assigned[i][1])'
      BY DEF AssignedArePlaced
    <3>1. history'[g] = history[g]
      BY <1>4, <2>1
    <3> QED
      BY <2>6, <3>1, AssignedStayPlaced
  <2>8. SplitsFit'
    BY <1>6, <2>6, SplitsStayFit
  <2> QED
    BY <2>2, <2>3, <2>4, <2>5, <2>7, <2>8 DEF FramesInv
<1> QED
  BY <1>7, <1>8

LEMMA TellGridFrames ==
  ASSUME GridTypes, FramesInv, TellGrid
  PROVE  FramesInv'
<1> PICK h, outcome : h = poller.history /\ outcome = poller.tells
  OBVIOUS
<1>1. /\ UNCHANGED contentVars
      /\ history' = IF history[h].linked /\ history[h].state \notin {"split", "failed"}
                    THEN [history EXCEPT ![h].state = outcome] ELSE history
  BY DEF TellGrid
<1>2. \A x \in Histories : /\ history'[x].assigned = history[x].assigned
                           /\ history'[x].episode = history[x].episode
                           /\ history'[x].undone = history[x].undone
                           /\ history'[x].state # "split" => history[x].state # "split"
  BY <1>1 DEF GridTypes, GridInv, HistoryShape
<1>3. Lasting /\ ShotsMove /\ AssignsNothing /\ UNCHANGED req
  BY <1>1, <1>2, ShotsUnmoved DEF contentVars, Lasting, AssignsNothing
<1> QED
  BY <1>3, FramesInvStays

LEMMA NextFrames ==
  ASSUME GridTypes, GridTypes', FramesInv, [Next]_vars
  PROVE  FramesInv'
<1>1. ASSUME UNCHANGED <<episode, scene, shot, carried, history>>,
             \A c \in Clients : req'[c].op = "gridSplit" => req'[c] = req[c]
      PROVE  FramesInv'
  <2>1. Lasting /\ ShotsMove /\ AssignsNothing
    BY <1>1, ShotsUnmoved DEF Lasting, AssignsNothing
  <2> QED
    BY <1>1, <2>1, FramesInvStays
<1>2. CASE ContentNext /\ UNCHANGED gridVars
  <2>1. UNCHANGED history /\ ReqsOfGridKept
    BY <1>2, ContentKeepsGrid DEF gridVars, GridTypes, GridInv
  <2>2. AssignsNothing
    BY <2>1 DEF AssignsNothing
  <2>3. Lasting /\ ShotsMove
    BY <1>2, ContentStepOK DEF GridTypes
  <2> QED
    BY <2>1, <2>2, <2>3, ReqsOfGridShape, FramesInvStays
<1>3. ASSUME NEW c \in Clients, GridRollBack(c) PROVE FramesInv'
  BY <1>1, <1>3 DEF GridRollBack, End, Idle, GridTypes, GridInv, ReqShape
<1>4. ASSUME NEW c \in Clients, NEW status, StartImage(c, status) PROVE FramesInv'
  BY <1>1, <1>4 DEF StartImage, GridTypes, GridInv, ReqShape
<1>5. ASSUME NEW h, NEW outcome, NEW result, NEW tells,
             PollImage(h, result, tells) \/ EndImageElsewhere(h, outcome) \/ RetryImage(h)
      PROVE  FramesInv'
  BY <1>1, <1>5 DEF PollImage, EndImageElsewhere, RetryImage, contentVars
<1>6. ASSUME PollerDies PROVE FramesInv'
  BY <1>1, <1>6 DEF PollerDies, contentVars
<1>9. ASSUME NEW c \in Clients, NEW b \in Shots, LookShowCell(c, b) PROVE FramesInv'
  <2>1. UNCHANGED <<episode, scene, shot, carried, history>>
    BY <1>9 DEF LookShowCell, LookUpdateShot, Begin, gridVars
  <2>2. ReqsOfGridKept
    BY <1>9, LookShowCellKeepsGrid DEF GridTypes, GridInv
  <2> QED
    BY <1>1, <2>1, <2>2, ReqsOfGridShape
<1>7. CASE GridNext
  BY <1>3, <1>4, <1>5, <1>6, <1>7, <1>9, CreateGridFrames, LookSplitFrames, SaveGridFrames, SplitFrames,
     TellGridFrames, AssignCellFrames DEF GridNext
<1>8. CASE UNCHANGED vars
  BY <1>1, <1>8 DEF vars, contentVars, gridVars
<1> QED
  BY <1>2, <1>7, <1>8 DEF Next

\* P-07, "slot conflicts are handled atomically": the frames of the shots and what the
\* histories of the grids say of their cells agree, whoever cuts, assigns, undoes, moves
\* and deletes meanwhile, but for the slots that a request has set since.
THEOREM FramesAgreeAlways == Spec => []CellsAndFramesAgree
<1>1. Init => GridTypes /\ FramesInv
  <2> SUFFICES ASSUME Init PROVE GridTypes /\ FramesInv
    OBVIOUS
  <2>1. GridTypes
    BY InitTypes
  <2>2. \A h \in Histories : DOMAIN history[h].assigned = {}
    BY DEF Init, NoHistory
  <2>3. \A b \in Shots : ~Live(shot, b)
    BY DEF Init, ContentInit, NoShot, Live
  <2>4. \A c \in Clients : req[c].op = "idle"
    BY DEF Init, ContentInit, Idle
  <2>5. \A b \in Shots : ~InsertedShot(b)
    BY DEF Init, ContentInit, NoShot, InsertedShot
  <2> QED
    BY <2>1, <2>2, <2>3, <2>4, <2>5 DEF FramesInv, ShownCellsAreAssigned, AssignedCellsAreShown, OnlySplitAssigns,
       AssignedArePlaced, SplitsFit, FreshCut
<1>2. GridTypes /\ FramesInv /\ [Next]_vars => GridTypes' /\ FramesInv'
  BY NextTypes, NextFrames
<1>3. FramesInv => CellsAndFramesAgree
  BY DEF FramesInv, CellsAndFramesAgree
<1> QED
  BY <1>1, <1>2, <1>3, PTL DEF Spec

-----------------------------------------------------------------------------
(***************************************************************************)
(* Deletion.  What makes DeletionReachesEverything inductive is what       *)
(* deleteDrama will not reach: the episodes that it did not read when it   *)
(* began.  A shot in one of those is in late already, for the episode was  *)
(* not there when the deletion began, and whatever is put under a drama    *)
(* that is being deleted is noted.                                         *)
(***************************************************************************)
LeftBehind(c) ==
  {b \in Shots : /\ req[c].op = "deleteDrama" /\ Live(shot, b)
                 /\ DramaOf(shot[b].episode) = req[c].drama /\ shot[b].episode \notin req[c].episodes}

OrphansKnown == Orphans \subseteq late /\ \A c \in Clients : LeftBehind(c) \subseteq late

\* No parent dies and no deletion begins.
ParentsStay ==
  /\ late \subseteq late'
  /\ \A d \in Dramas : drama[d] = "live" => drama'[d] = "live"
  /\ \A e \in Episodes : Live(episode, e) => Live(episode', e)
  /\ \A c \in Clients : req'[c].op = "deleteDrama" => req'[c] = req[c]

\* A live row was where it is, or it is noted, or its parents are alive.
EpisodesPlaced ==
  \A e \in Episodes : Live(episode', e) =>
    \/ Live(episode, e)
    \/ e \in late'
    \/ drama'[episode'[e].drama] = "live"
CharactersPlaced ==
  \A p \in Characters : Live(character', p) =>
    \/ Live(character, p) /\ character'[p].drama = character[p].drama
    \/ p \in late'
    \/ drama'[character'[p].drama] = "live"
ScenesPlaced ==
  \A s \in Scenes : Live(scene', s) =>
    \/ Live(scene, s) /\ scene'[s].drama = scene[s].drama /\ scene'[s].episode = scene[s].episode
    \/ s \in late'
    \/ /\ drama'[scene'[s].drama] = "live"
       /\ scene'[s].episode # None => Live(episode', scene'[s].episode)
ShotsPlaced ==
  \A b \in Shots : Live(shot', b) =>
    \/ Live(shot, b) /\ shot'[b].episode = shot[b].episode
    \/ b \in late'
    \/ /\ Live(episode', shot'[b].episode)
       /\ \A c \in Clients : req[c].op = "deleteDrama" => req[c].drama # episode'[shot'[b].episode].drama

LEMMA PlacedIsKnown ==
  ASSUME ContentOK, OrphansKnown, Lasting, ParentsStay,
         EpisodesPlaced, CharactersPlaced, ScenesPlaced, ShotsPlaced
  PROVE  OrphansKnown'
<1>1. ASSUME NEW e \in Episodes, Live(episode', e), drama'[episode'[e].drama] # "live" PROVE e \in late'
  <2>1. CASE Live(episode, e)
    <3>1. episode'[e].drama = episode[e].drama /\ episode[e].drama \in Dramas
      BY <2>1 DEF Lasting, Live, ContentOK, RowsOK, EpisodesOK
    <3>2. e \in late
      BY <1>1, <2>1, <3>1 DEF ParentsStay, OrphansKnown, Orphans, DramaOf
    <3> QED
      BY <3>2 DEF ParentsStay
  <2> QED
    BY <1>1, <2>1 DEF EpisodesPlaced
<1>2. ASSUME NEW p \in Characters, Live(character', p), drama'[character'[p].drama] # "live" PROVE p \in late'
  <2>1. CASE Live(character, p) /\ character'[p].drama = character[p].drama
    <3>1. character[p].drama \in Dramas
      BY <2>1 DEF Live, ContentOK, RowsOK, CharactersOK
    <3>2. p \in late
      BY <1>2, <2>1, <3>1 DEF ParentsStay, OrphansKnown, Orphans
    <3> QED
      BY <3>2 DEF ParentsStay
  <2> QED
    BY <1>2, <2>1 DEF CharactersPlaced
<1>3. ASSUME NEW s \in Scenes, Live(scene', s),
             drama'[scene'[s].drama] # "live" \/ (scene'[s].episode # None /\ ~Live(episode', scene'[s].episode))
      PROVE  s \in late'
  <2>1. CASE Live(scene, s) /\ scene'[s].drama = scene[s].drama /\ scene'[s].episode = scene[s].episode
    <3>1. scene[s].drama \in Dramas /\ scene[s].episode \in Episodes \cup {None}
      BY <2>1 DEF Live, ContentOK, RowsOK, ScenesOK, SceneRows
    <3>2. s \in late
      BY <1>3, <2>1, <3>1 DEF ParentsStay, OrphansKnown, Orphans
    <3> QED
      BY <3>2 DEF ParentsStay
  <2> QED
    BY <1>3, <2>1 DEF ScenesPlaced
<1>4. ASSUME NEW b \in Shots, Live(shot', b), ~Live(episode', shot'[b].episode) PROVE b \in late'
  <2>1. CASE Live(shot, b) /\ shot'[b].episode = shot[b].episode
    <3>1. shot[b].episode \in Episodes
      BY <2>1 DEF Live, ContentOK, RowsOK, ShotsOK, InsertedEpisode
    <3>2. b \in late
      BY <1>4, <2>1, <3>1 DEF ParentsStay, OrphansKnown, Orphans
    <3> QED
      BY <3>2 DEF ParentsStay
  <2> QED
    BY <1>4, <2>1 DEF ShotsPlaced
<1>5. Orphans' \subseteq late'
  BY <1>1, <1>2, <1>3, <1>4 DEF Orphans, DramaOf, Live
<1>6. ASSUME NEW c \in Clients, NEW b \in LeftBehind(c)' PROVE b \in late'
  <2>1. /\ b \in Shots /\ Live(shot', b) /\ req'[c].op = "deleteDrama"
        /\ episode'[shot'[b].episode].drama = req'[c].drama /\ shot'[b].episode \notin req'[c].episodes
    BY <1>6 DEF LeftBehind, Live, DramaOf
  <2>2. req'[c] = req[c]
    BY <2>1 DEF ParentsStay
  <2>3. CASE Live(shot, b) /\ shot'[b].episode = shot[b].episode
    <3>1. InsertedEpisode(shot[b].episode)
      BY <2>1, <2>3 DEF Live, ContentOK, RowsOK, ShotsOK
    <3>2. DramaOf(shot[b].episode) = req[c].drama
      BY <2>1, <2>2, <2>3, <3>1 DEF Lasting, InsertedEpisode, DramaOf
    <3>3. b \in LeftBehind(c)
      BY <2>1, <2>2, <2>3, <3>2 DEF LeftBehind
    <3> QED
      BY <3>3 DEF ParentsStay, OrphansKnown
  <2> QED
    BY <2>1, <2>2, <2>3 DEF ShotsPlaced
<1> QED
  BY <1>5, <1>6 DEF OrphansKnown

\* What is not doomed
LEMMA NotDoomed ==
  ASSUME NEW d, ~DramaDoomed(d)
  PROVE  drama[d] = "live" /\ \A c \in Clients : req[c].op = "deleteDrama" => req[c].drama # d
BY DEF DramaDoomed

LEMMA EpisodeNotDoomed ==
  ASSUME NEW e \in Episodes, ~EpisodeDoomed(e)
  PROVE  Live(episode, e) /\ ~DramaDoomed(DramaOf(e))
BY ContentAssumption DEF EpisodeDoomed

\* What is noted is never forgotten.
LEMMA EndStaysParents ==
  ASSUME ContentOK, NEW c \in Clients, End(c), UNCHANGED <<drama, episode>>, late \subseteq late'
  PROVE  ParentsStay
BY DEF ContentOK, RequestsOK, ReqShape, End, ParentsStay, Idle, Live

LEMMA OncesStayParents ==
  ASSUME UNCHANGED <<drama, episode, req, late>>
  PROVE  ParentsStay
BY DEF ParentsStay, Live

-----------------------------------------------------------------------------
LEMMA CreateDramaKnown ==
  ASSUME ContentOK, OrphansKnown, Lasting, NEW d \in Dramas, NEW es \in SUBSET Episodes, CreateDrama(d, es)
  PROVE  OrphansKnown'
<1>1. /\ UNCHANGED <<scene, character, shot, late, req>>
      /\ drama[d] = "none" /\ drama' = [drama EXCEPT ![d] = "live"]
      /\ es \subseteq Free(episode)
      /\ \E number \in Orders(es) : episode' = [e \in Episodes |-> IF e \in es
           THEN [state |-> "live", drama |-> d, number |-> number[e]] ELSE episode[e]]
  BY DEF CreateDrama, Once
<1>2. \A e \in Episodes : /\ e \in es => episode[e].state = "none" /\ episode'[e].state = "live" /\ episode'[e].drama = d
                          /\ e \notin es => episode'[e] = episode[e]
  BY <1>1 DEF Free, ContentOK, RowsOK, EpisodesOK
<1>3. drama'[d] = "live" /\ \A x \in Dramas : drama[x] = "live" => drama'[x] = "live"
  BY <1>1 DEF ContentOK, RowsOK, DramasOK
<1>4. ParentsStay
  BY <1>1, <1>2, <1>3 DEF ParentsStay, Live
<1>5. EpisodesPlaced
  BY <1>2, <1>3 DEF EpisodesPlaced, Live
<1>6. CharactersPlaced /\ ScenesPlaced /\ ShotsPlaced
  BY <1>1 DEF CharactersPlaced, ScenesPlaced, ShotsPlaced, Live
<1> QED
  BY <1>4, <1>5, <1>6, PlacedIsKnown

LEMMA CreateEpisodeKnown ==
  ASSUME ContentOK, OrphansKnown, Lasting, NEW c \in Clients, CreateEpisode(c)
  PROVE  OrphansKnown'
<1>1. UNCHANGED <<drama, scene, character, shot>> /\ End(c) /\ req[c].op = "createEpisode"
  BY DEF CreateEpisode
<1> PICK d, n : d = req[c].drama /\ n = req[c].number
  OBVIOUS
<1>2. PICK e \in Free(episode) : /\ episode' = [episode EXCEPT ![e] = [state |-> "live", drama |-> d, number |-> n]]
                                 /\ Note({e}, DramaDoomed(d))
  BY Zenon DEF CreateEpisode
<1>3. e \in Episodes /\ episode[e].state = "none" /\ episode'[e].state = "live" /\ episode'[e].drama = d
      /\ \A x \in Episodes : x # e => episode'[x] = episode[x]
  BY <1>2 DEF Free, ContentOK, RowsOK, EpisodesOK
<1>4. late \subseteq late' /\ (DramaDoomed(d) => e \in late')
  BY <1>2 DEF Note
<1>5. ParentsStay
  BY <1>1, <1>3, <1>4 DEF ContentOK, RequestsOK, ReqShape, End, ParentsStay, Idle, Live
<1>6. EpisodesPlaced
  BY <1>1, <1>3, <1>4, NotDoomed DEF EpisodesPlaced, Live
<1>7. CharactersPlaced /\ ScenesPlaced /\ ShotsPlaced
  BY <1>1 DEF CharactersPlaced, ScenesPlaced, ShotsPlaced, Live
<1> QED
  BY <1>5, <1>6, <1>7, PlacedIsKnown

LEMMA InsertSceneKnown ==
  ASSUME ContentOK, OrphansKnown, Lasting, NEW c \in Clients, CreateScene(c) \/ CopyScene(c)
  PROVE  OrphansKnown'
<1>1. UNCHANGED <<drama, episode, character, shot>> /\ End(c) /\ req[c].op \in {"createScene", "copyScene"}
  BY DEF CreateScene, CopyScene
<1>2. \E s \in Free(scene), d \in Dramas, e \in Episodes \cup {None} :
        /\ scene' = [scene EXCEPT ![s] = [state |-> "live", drama |-> d, episode |-> e]]
        /\ late \subseteq late'
        /\ (DramaDoomed(d) \/ EpisodeDoomed(e)) => s \in late'
  <2>1. CASE CreateScene(c)
    <3> PICK d, e : d = req[c].drama /\ e = req[c].episode
      OBVIOUS
    <3>1. req[c].op = "createScene" /\ d \in Dramas /\ e \in Episodes \cup {None}
      BY <2>1 DEF CreateScene, ContentOK, RequestsOK, Remembered, InsertedEpisode
    <3>2. PICK s \in Free(scene) :
            /\ scene' = [scene EXCEPT ![s] = [state |-> "live", drama |-> d, episode |-> e]]
            /\ Note({s}, DramaDoomed(d) \/ EpisodeDoomed(e))
      BY <2>1, Zenon DEF CreateScene
    <3> QED
      BY <3>1, <3>2 DEF Note
  <2>2. CASE CopyScene(c)
    <3> PICK e : e = req[c].episode
      OBVIOUS
    <3> PICK d : d = DramaOf(e)
      OBVIOUS
    <3>1. req[c].op = "copyScene" /\ InsertedEpisode(e) /\ d \in Dramas
      BY <2>2 DEF CopyScene, ContentOK, RequestsOK, Remembered, InsertedEpisode, RowsOK, EpisodesOK, DramaOf
    <3>2. PICK s \in Free(scene) :
            /\ scene' = [scene EXCEPT ![s] = [state |-> "live", drama |-> d, episode |-> e]]
            /\ Note({s}, EpisodeDoomed(e))
      BY <2>2, Zenon DEF CopyScene
    <3>3. DramaDoomed(d) => EpisodeDoomed(e)
      BY <3>1, ContentAssumption DEF EpisodeDoomed, InsertedEpisode
    <3> QED
      BY <3>1, <3>2, <3>3 DEF Note, InsertedEpisode
  <2> QED
    BY <2>1, <2>2
<1>3. PICK s \in Free(scene), d \in Dramas, e \in Episodes \cup {None} :
        /\ scene' = [scene EXCEPT ![s] = [state |-> "live", drama |-> d, episode |-> e]]
        /\ late \subseteq late'
        /\ (DramaDoomed(d) \/ EpisodeDoomed(e)) => s \in late'
  BY <1>2
<1>4. s \in Scenes /\ scene'[s].drama = d /\ scene'[s].episode = e
      /\ \A x \in Scenes : x # s => scene'[x] = scene[x]
  BY <1>3 DEF Free, ContentOK, RowsOK, ScenesOK
<1>5. ParentsStay
  BY <1>1, <1>3, EndStaysParents
<1>6. ScenesPlaced
  <2> SUFFICES ASSUME s \notin late'
               PROVE  drama[d] = "live" /\ (e # None => Live(episode, e))
    BY <1>1, <1>4 DEF ScenesPlaced, Live
  <2> QED
    BY <1>3, NotDoomed, EpisodeNotDoomed
<1>7. CharactersPlaced /\ EpisodesPlaced /\ ShotsPlaced
  BY <1>1 DEF CharactersPlaced, EpisodesPlaced, ShotsPlaced, Live
<1> QED
  BY <1>5, <1>6, <1>7, PlacedIsKnown

LEMMA CreateCharacterKnown ==
  ASSUME ContentOK, OrphansKnown, Lasting, NEW c \in Clients, CreateCharacter(c)
  PROVE  OrphansKnown'
<1>1. UNCHANGED <<drama, episode, scene, shot>> /\ End(c) /\ req[c].op = "createCharacter"
  BY DEF CreateCharacter
<1> PICK d : d = req[c].drama
  OBVIOUS
<1>2. PICK p \in Free(character) : /\ character' = [character EXCEPT ![p] = [state |-> "live", drama |-> d]]
                                   /\ Note({p}, DramaDoomed(d))
  BY Zenon DEF CreateCharacter
<1>3. p \in Characters /\ character'[p].drama = d /\ \A x \in Characters : x # p => character'[x] = character[x]
  BY <1>2 DEF Free, ContentOK, RowsOK, CharactersOK
<1>4. late \subseteq late' /\ (DramaDoomed(d) => p \in late')
  BY <1>2 DEF Note
<1>5. ParentsStay
  BY <1>1, <1>4, EndStaysParents
<1>6. CharactersPlaced
  BY <1>1, <1>3, <1>4, NotDoomed DEF CharactersPlaced, Live
<1>7. EpisodesPlaced /\ ScenesPlaced /\ ShotsPlaced
  BY <1>1 DEF EpisodesPlaced, ScenesPlaced, ShotsPlaced, Live
<1> QED
  BY <1>5, <1>6, <1>7, PlacedIsKnown

\* New shots of an episode e
LEMMA ShotsOfEpisodePlaced ==
  ASSUME NEW e \in Episodes, UNCHANGED episode, NEW bs, EpisodeDoomed(e) => bs \subseteq late',
         \A b \in Shots : Live(shot', b) =>
           \/ Live(shot, b) /\ shot'[b].episode = shot[b].episode
           \/ b \in bs /\ shot'[b].episode = e
  PROVE  ShotsPlaced
<1>1. CASE EpisodeDoomed(e)
  BY <1>1 DEF ShotsPlaced
<1>2. CASE ~EpisodeDoomed(e)
  <2>1. Live(episode, e) /\ \A c \in Clients : req[c].op = "deleteDrama" => req[c].drama # episode[e].drama
    BY <1>2, EpisodeNotDoomed, NotDoomed DEF DramaOf
  <2> QED
    BY <2>1 DEF ShotsPlaced
<1> QED
  BY <1>1, <1>2

LEMMA InsertShotKnown ==
  ASSUME ContentOK, OrphansKnown, Lasting, NEW c \in Clients, InsertShot(c)
  PROVE  OrphansKnown'
<1>1. UNCHANGED <<drama, episode, scene, character>> /\ End(c) /\ req[c].op \in {"createShot", "copyShot"}
  BY DEF InsertShot
<1> PICK e, n, s, cast : e = req[c].episode /\ n = req[c].number /\ s = req[c].scene /\ cast = req[c].cast
  OBVIOUS
<1>2. e \in Episodes
  BY <1>1 DEF ContentOK, RequestsOK, Remembered, InsertedEpisode
<1>3. PICK b \in Free(shot) :
        /\ shot' = [shot EXCEPT ![b] = [NoShot EXCEPT !.state = "live", !.episode = e,
                                          !.number = n, !.scene = s, !.cast = cast]]
        /\ Note({b}, EpisodeDoomed(e))
  BY Zenon DEF InsertShot
<1>4. b \in Shots /\ shot'[b].episode = e /\ \A x \in Shots : x # b => shot'[x] = shot[x]
  BY <1>3 DEF Free, ContentOK, RowsOK, ShotsOK, NoShot
<1>5. late \subseteq late' /\ (EpisodeDoomed(e) => {b} \subseteq late')
  BY <1>3 DEF Note
<1>6. ParentsStay
  BY <1>1, <1>5, EndStaysParents
<1>7. \A x \in Shots : Live(shot', x) =>
           \/ Live(shot, x) /\ shot'[x].episode = shot[x].episode
           \/ x \in {b} /\ shot'[x].episode = e
  BY <1>4 DEF Live
<1>8. ShotsPlaced
  BY <1>1, <1>2, <1>5, <1>7, ShotsOfEpisodePlaced
<1>9. EpisodesPlaced /\ ScenesPlaced /\ CharactersPlaced
  BY <1>1 DEF EpisodesPlaced, ScenesPlaced, CharactersPlaced, Live
<1> QED
  BY <1>6, <1>8, <1>9, PlacedIsKnown

LEMMA SaveShotsKnown ==
  ASSUME ContentOK, OrphansKnown, Lasting, NEW c \in Clients, SaveShots(c)
  PROVE  OrphansKnown'
<1>1. UNCHANGED <<drama, episode, scene, character>> /\ End(c) /\ req[c].op = "saveShots"
  BY DEF SaveShots
<1> PICK e, old : e = req[c].episode /\ old = req[c].old
  OBVIOUS
<1>2. e \in Episodes
  BY <1>1 DEF ContentOK, RequestsOK, Remembered, InsertedEpisode
<1>3. PICK bs \in (SUBSET Free(shot)) \ {{}} :
        /\ \E number \in Orders(bs), s \in [bs -> Scenes \cup {None}], cast \in [bs -> SUBSET Characters] :
             /\ \A b \in bs : Fits(DramaOf(req[c].episode), s[b], cast[b])
             /\ shot' = [b \in Shots |->
                  CASE b \in req[c].old -> [shot[b] EXCEPT !.state = "gone"]
                    [] b \in bs -> [NoShot EXCEPT !.state = "live", !.episode = req[c].episode,
                                      !.number = number[b], !.scene = s[b], !.cast = cast[b]]
                    [] OTHER -> shot[b]]
        /\ Note(bs, EpisodeDoomed(req[c].episode))
  BY Zenon DEF SaveShots
<1>4. PICK number \in Orders(bs), s \in [bs -> Scenes \cup {None}], cast \in [bs -> SUBSET Characters] :
        shot' = [b \in Shots |->
             CASE b \in req[c].old -> [shot[b] EXCEPT !.state = "gone"]
               [] b \in bs -> [NoShot EXCEPT !.state = "live", !.episode = req[c].episode,
                                 !.number = number[b], !.scene = s[b], !.cast = cast[b]]
               [] OTHER -> shot[b]]
  BY <1>3, Zenon
<1>5. \A b \in old : b \notin bs
  <2>1. \A b \in old : shot[b].state # "none"
    BY <1>1 DEF ContentOK, RequestsOK, Remembered, InsertedShot
  <2> QED
    BY <1>3, <2>1 DEF Free
<1>6. late \subseteq late' /\ (EpisodeDoomed(e) => bs \subseteq late')
  BY <1>3 DEF Note
<1>7. ParentsStay
  BY <1>1, <1>6, EndStaysParents
<1>8. ASSUME NEW b \in Shots, Live(shot', b)
      PROVE  \/ Live(shot, b) /\ shot'[b].episode = shot[b].episode
             \/ b \in bs /\ shot'[b].episode = e
  <2>1. CASE b \in old
    <3>1. shot'[b] = [shot[b] EXCEPT !.state = "gone"]
      BY <1>4, <1>5, <2>1
    <3>2. shot[b] \in ShotRows
      BY DEF ContentOK, RowsOK, ShotsOK
    <3>3. shot'[b].state = "gone"
      BY <3>1, <3>2 DEF ShotRows
    <3> QED
      BY <1>8, <3>3 DEF Live
  <2>2. CASE b \notin old /\ b \in bs
    <3> PICK n, x, p : n = number[b] /\ x = s[b] /\ p = cast[b]
      OBVIOUS
    <3>1. shot'[b] = [NoShot EXCEPT !.state = "live", !.episode = e, !.number = n, !.scene = x, !.cast = p]
      BY <1>4, <2>2
    <3> QED
      BY <2>2, <3>1 DEF NoShot
  <2>3. CASE b \notin old /\ b \notin bs
    <3>1. shot'[b] = shot[b]
      BY <1>4, <2>3
    <3> QED
      BY <1>8, <3>1 DEF Live
  <2> QED
    BY <2>1, <2>2, <2>3
<1>9. ShotsPlaced
  BY <1>1, <1>2, <1>6, <1>8, ShotsOfEpisodePlaced
<1>10. EpisodesPlaced /\ ScenesPlaced /\ CharactersPlaced
  BY <1>1 DEF EpisodesPlaced, ScenesPlaced, CharactersPlaced, Live
<1> QED
  BY <1>7, <1>9, <1>10, PlacedIsKnown

-----------------------------------------------------------------------------
LEMMA MoveEpisodeKnown ==
  ASSUME ContentOK, OrphansKnown, Lasting, NEW c \in Clients, MoveEpisode(c)
  PROVE  OrphansKnown'
<1> PICK x, y, n, m : x = req[c].row /\ y = req[c].other /\ n = req[c].number /\ m = req[c].otherNumber
  OBVIOUS
<1>1. /\ UNCHANGED <<drama, scene, character, shot, late>> /\ req[c].op = "moveEpisode" /\ End(c)
      /\ episode' = [episode EXCEPT ![y].number = n, ![x].number = m]
  BY DEF MoveEpisode, Exchange
<1>2. \A e \in Episodes : episode'[e].state = episode[e].state /\ episode'[e].drama = episode[e].drama
  BY <1>1 DEF ContentOK, RowsOK, EpisodesOK, EpisodeRows
<1>3. ParentsStay
  BY <1>1, <1>2 DEF ContentOK, RequestsOK, ReqShape, End, ParentsStay, Idle, Live
<1>4. EpisodesPlaced /\ CharactersPlaced /\ ScenesPlaced /\ ShotsPlaced
  BY <1>1, <1>2 DEF EpisodesPlaced, CharactersPlaced, ScenesPlaced, ShotsPlaced, Live
<1> QED
  BY <1>3, <1>4, PlacedIsKnown

\* Steps that put no row anywhere
LEMMA NothingPlacedKnown ==
  ASSUME ContentOK, OrphansKnown, Lasting, UNCHANGED <<drama, episode>>, late \subseteq late',
         \A c \in Clients : req'[c] = req[c] \/ req'[c].op # "deleteDrama",
         \A s \in Scenes : Live(scene', s) =>
           Live(scene, s) /\ scene'[s].drama = scene[s].drama /\ scene'[s].episode = scene[s].episode,
         \A p \in Characters : Live(character', p) =>
           Live(character, p) /\ character'[p].drama = character[p].drama,
         \A b \in Shots : Live(shot', b) => Live(shot, b) /\ shot'[b].episode = shot[b].episode
  PROVE  OrphansKnown'
<1>1. ParentsStay
  BY DEF ParentsStay, Live
<1>2. EpisodesPlaced /\ CharactersPlaced /\ ScenesPlaced /\ ShotsPlaced
  BY DEF EpisodesPlaced, CharactersPlaced, ScenesPlaced, ShotsPlaced, Live
<1> QED
  BY <1>1, <1>2, PlacedIsKnown

LEMMA EditsKnown ==
  ASSUME ContentOK, OrphansKnown, Lasting, NEW c \in Clients, UpdateShot(c) \/ MoveShot(c) \/ RollBack(c)
  PROVE  OrphansKnown'
<1>1. UNCHANGED <<drama, episode, scene, character, late>> /\ End(c)
  BY DEF UpdateShot, MoveShot, RollBack
<1>2. \A x \in Clients : req'[x] = req[x] \/ req'[x].op # "deleteDrama"
  BY <1>1 DEF ContentOK, RequestsOK, ReqShape, End, Idle
<1>3. shot \in [Shots -> ShotRows]
  BY DEF ContentOK, RowsOK, ShotsOK
<1>4. \A b \in Shots : Live(shot', b) => Live(shot, b) /\ shot'[b].episode = shot[b].episode
  <2>1. CASE UpdateShot(c)
    <3> PICK x, s, cast, frames, edited :
          shot' = [shot EXCEPT ![x].scene = s, ![x].cast = cast, ![x].frames = frames, ![x].edited = edited]
      BY <2>1 DEF UpdateShot
    <3> QED
      BY <1>3 DEF ShotRows, Live
  <2>2. CASE MoveShot(c)
    <3> PICK x, y, n, m : shot' = [shot EXCEPT ![y].number = n, ![x].number = m]
      BY <2>2 DEF MoveShot, Exchange
    <3> QED
      BY <1>3 DEF ShotRows, Live
  <2>3. CASE RollBack(c)
    BY <2>3 DEF RollBack, Live
  <2> QED
    BY <2>1, <2>2, <2>3
<1> QED
  BY <1>1, <1>2, <1>4, NothingPlacedKnown DEF Live

LEMMA RowDeletedKnown ==
  ASSUME ContentOK, OrphansKnown, Lasting,
         \/ \E s \in Scenes : DeleteScene(s)
         \/ \E p \in Characters : DeleteCharacter(p)
         \/ \E b \in Shots : DeleteShot(b)
  PROVE  OrphansKnown'
<1>1. /\ UNCHANGED <<drama, episode, late, req>>
      /\ \E ids : scene' = Deleted(scene, ids)
      /\ \E ids : character' = Deleted(character, ids)
      /\ \E ids : shot' = Deleted(shot, ids)
  <2>1. scene = Deleted(scene, {}) /\ character = Deleted(character, {}) /\ shot = Deleted(shot, {})
    BY DEF Deleted, ContentOK, RowsOK, ScenesOK, CharactersOK, ShotsOK
  <2> QED
    BY <2>1 DEF DeleteScene, DeleteCharacter, DeleteShot, Once
<1>2. \A s \in Scenes : Live(scene', s) =>
        Live(scene, s) /\ scene'[s].drama = scene[s].drama /\ scene'[s].episode = scene[s].episode
  BY <1>1 DEF Deleted, Live, ContentOK, RowsOK, ScenesOK, SceneRows
<1>3. \A p \in Characters : Live(character', p) =>
        Live(character, p) /\ character'[p].drama = character[p].drama
  BY <1>1 DEF Deleted, Live, ContentOK, RowsOK, CharactersOK, CharacterRows
<1>4. \A b \in Shots : Live(shot', b) => Live(shot, b) /\ shot'[b].episode = shot[b].episode
  BY <1>1 DEF Deleted, Live, ContentOK, RowsOK, ShotsOK, ShotRows
<1> QED
  BY <1>1, <1>2, <1>3, <1>4, NothingPlacedKnown

\* A scene that goes to an episode, with shots of it or without
LEMMA MoveSceneKnown ==
  ASSUME ContentOK, OrphansKnown, Lasting, NEW c \in Clients, MoveScene(c)
  PROVE  OrphansKnown'
<1> PICK e, s, number, going : /\ e = req[c].episode /\ s = req[c].scene /\ number = req[c].number
                               /\ going = DOMAIN number
  OBVIOUS
<1>1. /\ UNCHANGED <<drama, episode, character>> /\ req[c].op = "moveScene" /\ End(c)
      /\ shot' = [b \in Shots |-> IF b \in going
                    THEN [shot[b] EXCEPT !.episode = e, !.number = number[b]] ELSE shot[b]]
      /\ scene' = [scene EXCEPT ![s].drama = DramaOf(e), ![s].episode = e]
      /\ Note({s} \cup going, EpisodeDoomed(e))
  BY DEF MoveScene
<1>2. e \in Episodes /\ s \in Scenes
  BY <1>1 DEF ContentOK, RequestsOK, Remembered, InsertedEpisode, InsertedScene
<1>3. late \subseteq late' /\ (EpisodeDoomed(e) => s \in late' /\ going \subseteq late')
  BY <1>1 DEF Note
<1>4. ParentsStay
  BY <1>1, <1>3, EndStaysParents
<1>5. scene'[s].drama = DramaOf(e) /\ scene'[s].episode = e /\ \A x \in Scenes : x # s => scene'[x] = scene[x]
  BY <1>1, <1>2 DEF ContentOK, RowsOK, ScenesOK, SceneRows
<1>6. ScenesPlaced
  <2> SUFFICES ASSUME ~EpisodeDoomed(e) PROVE drama[DramaOf(e)] = "live" /\ Live(episode, e)
    BY <1>1, <1>3, <1>5 DEF ScenesPlaced, Live
  <2> QED
    BY <1>2, EpisodeNotDoomed, NotDoomed
<1>7. ASSUME NEW b \in Shots, Live(shot', b)
      PROVE  \/ Live(shot, b) /\ shot'[b].episode = shot[b].episode
             \/ b \in going /\ shot'[b].episode = e
  <2>1. CASE b \in going
    <3> PICK n : n = number[b]
      OBVIOUS
    <3>1. shot'[b] = [shot[b] EXCEPT !.episode = e, !.number = n] /\ shot[b] \in ShotRows
      BY <1>1, <2>1 DEF ContentOK, RowsOK, ShotsOK
    <3> QED
      BY <2>1, <3>1 DEF ShotRows
  <2>2. CASE b \notin going
    BY <1>1, <1>7, <2>2 DEF Live
  <2> QED
    BY <2>1, <2>2
<1>8. ShotsPlaced
  BY <1>1, <1>2, <1>3, <1>7, ShotsOfEpisodePlaced
<1>9. EpisodesPlaced /\ CharactersPlaced
  BY <1>1 DEF EpisodesPlaced, CharactersPlaced, Live
<1> QED
  BY <1>4, <1>6, <1>8, <1>9, PlacedIsKnown

LEMMA CopyEpisodeKnown ==
  ASSUME ContentOK, OrphansKnown, Lasting, NEW c \in Clients, CopyEpisode(c)
  PROVE  OrphansKnown'
<1> DEFINE d == DramaOf(req[c].episode)
           n == req[c].number
           owned == ScenesOf(req[c].episode)
           old == ShotsOf(req[c].episode)
           SceneFor(s, into) == CASE s \in owned -> CHOOSE t \in DOMAIN into : into[t] = s
                                  [] s # None /\ s \notin owned /\ Live(scene, s) -> s
                                  [] OTHER -> None
           Copy(b, from, into, e) ==
             [NoShot EXCEPT !.state = "live", !.episode = e,
                            !.number = shot[from[b]].number,
                            !.scene = SceneFor(shot[from[b]].scene, into),
                            !.cast = {p \in shot[from[b]].cast : Live(character, p)}]
<1>1. UNCHANGED <<drama, character>> /\ req[c].op = "copyEpisode" /\ End(c)
  BY DEF CopyEpisode
<1>2. PICK e \in Free(episode), ts \in SUBSET Free(scene), bs \in SUBSET Free(shot) :
        /\ \E into \in Bijection(ts, owned), from \in Bijection(bs, old) :
             /\ scene' = [s \in Scenes |-> IF s \in ts
                   THEN [state |-> "live", drama |-> d, episode |-> e] ELSE scene[s]]
             /\ shot' = [b \in Shots |-> IF b \in bs THEN Copy(b, from, into, e) ELSE shot[b]]
        /\ episode' = [episode EXCEPT ![e] = [state |-> "live", drama |-> d, number |-> n]]
        /\ Note({e} \cup ts \cup bs, DramaDoomed(d))
  BY Zenon DEF CopyEpisode
<1>3. PICK into \in Bijection(ts, owned), from \in Bijection(bs, old) :
        /\ scene' = [s \in Scenes |-> IF s \in ts
              THEN [state |-> "live", drama |-> d, episode |-> e] ELSE scene[s]]
        /\ shot' = [b \in Shots |-> IF b \in bs THEN Copy(b, from, into, e) ELSE shot[b]]
  BY <1>2
<1>4. \A b \in Shots : \/ b \in bs /\ shot'[b].episode = e
                       \/ shot'[b] = shot[b]
  BY <1>3 DEF NoShot
<1> HIDE DEF d, n, owned, SceneFor, Copy
<1>5. /\ e \in Episodes /\ e # None /\ ts \subseteq Scenes
      /\ episode[e].state = "none" /\ episode'[e].state = "live" /\ episode'[e].drama = d
      /\ \A x \in Episodes : x # e => episode'[x] = episode[x]
  BY <1>2, ContentAssumption DEF ContentOK, RowsOK, EpisodesOK, ScenesOK, Free
<1>6. late \subseteq late' /\ (DramaDoomed(d) => e \in late' /\ ts \subseteq late' /\ bs \subseteq late')
  BY <1>2 DEF Note
<1>7. ParentsStay
  BY <1>1, <1>5, <1>6 DEF ContentOK, RequestsOK, ReqShape, End, ParentsStay, Idle, Live
<1>8. EpisodesPlaced
  BY <1>1, <1>5, <1>6, NotDoomed DEF EpisodesPlaced, Live
<1>9. ScenesPlaced
  <2>1. \A s \in Scenes : \/ s \in ts /\ scene'[s].drama = d /\ scene'[s].episode = e
                          \/ scene'[s] = scene[s]
    BY <1>3
  <2> QED
    BY <1>1, <1>5, <1>6, <2>1, NotDoomed DEF ScenesPlaced, Live
<1>10. ShotsPlaced
  BY <1>1, <1>4, <1>5, <1>6, NotDoomed DEF ShotsPlaced, Live
<1>11. CharactersPlaced
  BY <1>1 DEF CharactersPlaced, Live
<1> QED
  BY <1>7, <1>8, <1>9, <1>10, <1>11, PlacedIsKnown

-----------------------------------------------------------------------------
LEMMA DeleteEpisodeKnown ==
  ASSUME ContentOK, OrphansKnown, NEW e \in Episodes, DeleteEpisode(e)
  PROVE  OrphansKnown'
<1>1. /\ UNCHANGED <<drama, character, late, req>>
      /\ episode' = Deleted(episode, {e}) /\ shot' = Deleted(shot, ShotsOf(e))
      /\ scene' = Deleted(scene, ScenesOf(e))
  BY DEF DeleteEpisode, Once
<1>2. \A x \in Episodes : /\ episode'[x].drama = episode[x].drama
                          /\ Live(episode', x) => Live(episode, x)
                          /\ Live(episode, x) /\ x # e => Live(episode', x)
  BY <1>1 DEF Deleted, Live, ContentOK, RowsOK, EpisodesOK, EpisodeRows
<1>3. \A s \in Scenes : /\ scene'[s].drama = scene[s].drama /\ scene'[s].episode = scene[s].episode
                        /\ Live(scene', s) => Live(scene, s) /\ scene[s].episode # e
  BY <1>1 DEF Deleted, Live, ScenesOf, ContentOK, RowsOK, ScenesOK, SceneRows
<1>4. \A b \in Shots : /\ shot'[b].episode = shot[b].episode
                       /\ Live(shot', b) => Live(shot, b) /\ shot[b].episode # e
  BY <1>1 DEF Deleted, Live, ShotsOf, ContentOK, RowsOK, ShotsOK, ShotRows
<1>5. \A s \in Scenes : Live(scene, s) => scene[s].episode \in Episodes \cup {None}
  BY DEF ContentOK, RowsOK, ScenesOK, SceneRows
<1>6. \A b \in Shots : Live(shot, b) => shot[b].episode \in Episodes
  BY DEF Live, ContentOK, RowsOK, ShotsOK, InsertedEpisode
<1>7. Orphans' \subseteq Orphans
  <2>1. ASSUME NEW x \in Episodes, Live(episode', x), drama'[episode'[x].drama] # "live" PROVE x \in Orphans
    BY <1>1, <1>2, <2>1 DEF Orphans, DramaOf
  <2>2. ASSUME NEW p \in Characters, Live(character', p), drama'[character'[p].drama] # "live"
        PROVE  p \in Orphans
    BY <1>1, <2>2 DEF Orphans
  <2>3. ASSUME NEW s \in Scenes, Live(scene', s),
               drama'[scene'[s].drama] # "live" \/ (scene'[s].episode # None /\ ~Live(episode', scene'[s].episode))
        PROVE  s \in Orphans
    BY <1>1, <1>2, <1>3, <1>5, <2>3 DEF Orphans
  <2>4. ASSUME NEW b \in Shots, Live(shot', b), ~Live(episode', shot'[b].episode) PROVE b \in Orphans
    BY <1>2, <1>4, <1>6, <2>4 DEF Orphans
  <2> QED
    BY <2>1, <2>2, <2>3, <2>4 DEF Orphans, DramaOf, Live
<1>8. ASSUME NEW c \in Clients, NEW b \in LeftBehind(c)' PROVE b \in LeftBehind(c)
  <2>1. /\ b \in Shots /\ Live(shot', b) /\ req'[c].op = "deleteDrama"
        /\ episode'[shot'[b].episode].drama = req'[c].drama /\ shot'[b].episode \notin req'[c].episodes
    BY <1>8 DEF LeftBehind, Live, DramaOf
  <2> QED
    BY <1>1, <1>2, <1>4, <1>6, <2>1 DEF LeftBehind, DramaOf
<1> QED
  BY <1>1, <1>7, <1>8 DEF OrphansKnown

\* deleteDrama: what it leaves of the drama was left behind.
LEMMA DeleteDramaKnown ==
  ASSUME ContentOK, OrphansKnown, NEW c \in Clients, DeleteDrama(c)
  PROVE  OrphansKnown'
<1> PICK d, es : d = req[c].drama /\ es = req[c].episodes
  OBVIOUS
<1>1. /\ UNCHANGED late /\ End(c) /\ req[c].op = "deleteDrama"
      /\ drama' = [drama EXCEPT ![d] = "deleted"]
      /\ episode' = Deleted(episode, EpisodesOf(d))
      /\ shot' = Deleted(shot, UNION {ShotsOf(e) : e \in es})
      /\ scene' = Deleted(scene, {s \in Scenes : Live(scene, s) /\ scene[s].drama = d})
      /\ character' = Deleted(character, {p \in Characters : Live(character, p) /\ character[p].drama = d})
  BY DEF DeleteDrama
<1>2. \A x \in Dramas : x # d => drama'[x] = drama[x]
  BY <1>1 DEF ContentOK, RowsOK, DramasOK
<1>3. \A x \in Episodes : /\ episode'[x].drama = episode[x].drama
                          /\ Live(episode', x) => Live(episode, x) /\ episode[x].drama # d
                          /\ Live(episode, x) /\ episode[x].drama # d => Live(episode', x)
  BY <1>1 DEF Deleted, Live, EpisodesOf, DramaOf, ContentOK, RowsOK, EpisodesOK, EpisodeRows
<1>4. \A s \in Scenes : /\ scene'[s].drama = scene[s].drama /\ scene'[s].episode = scene[s].episode
                        /\ Live(scene', s) => Live(scene, s) /\ scene[s].drama # d
  BY <1>1 DEF Deleted, Live, ContentOK, RowsOK, ScenesOK, SceneRows
<1>5. \A p \in Characters : /\ character'[p].drama = character[p].drama
                            /\ Live(character', p) => Live(character, p) /\ character[p].drama # d
  BY <1>1 DEF Deleted, Live, ContentOK, RowsOK, CharactersOK, CharacterRows
<1>6. \A b \in Shots : /\ shot'[b].episode = shot[b].episode
                       /\ Live(shot', b) => Live(shot, b) /\ shot[b].episode \notin es
  <2>1. \A b \in Shots : Live(shot, b) /\ shot[b].episode \in es => b \in UNION {ShotsOf(e) : e \in es}
    BY DEF ShotsOf
  <2> QED
    BY <1>1, <2>1 DEF Deleted, Live, ContentOK, RowsOK, ShotsOK, ShotRows
<1>7. \A x \in Episodes : Live(episode, x) => episode[x].drama \in Dramas
  BY DEF Live, ContentOK, RowsOK, EpisodesOK
<1>8. \A p \in Characters : Live(character, p) => character[p].drama \in Dramas
  BY DEF Live, ContentOK, RowsOK, CharactersOK
<1>9. \A s \in Scenes : Live(scene, s) =>
        /\ scene[s].drama \in Dramas
        /\ scene[s].episode # None => scene[s].episode \in Episodes /\ episode[scene[s].episode].drama = scene[s].drama
  BY DEF Live, ContentOK, RowsOK, ScenesOK, InsertedEpisode, DramaOf
<1>10. \A b \in Shots : Live(shot, b) => shot[b].episode \in Episodes
  BY DEF Live, ContentOK, RowsOK, ShotsOK, InsertedEpisode
<1>11. Orphans' \subseteq late
  <2>1. ASSUME NEW x \in Episodes, Live(episode', x), drama'[episode'[x].drama] # "live" PROVE x \in late
    BY <1>2, <1>3, <1>7, <2>1 DEF OrphansKnown, Orphans, DramaOf
  <2>2. ASSUME NEW p \in Characters, Live(character', p), drama'[character'[p].drama] # "live"
        PROVE  p \in late
    BY <1>2, <1>5, <1>8, <2>2 DEF OrphansKnown, Orphans
  <2>3. ASSUME NEW s \in Scenes, Live(scene', s),
               drama'[scene'[s].drama] # "live" \/ (scene'[s].episode # None /\ ~Live(episode', scene'[s].episode))
        PROVE  s \in late
    BY <1>2, <1>3, <1>4, <1>9, <2>3 DEF OrphansKnown, Orphans
  <2>4. ASSUME NEW b \in Shots, Live(shot', b), ~Live(episode', shot'[b].episode) PROVE b \in late
    <3>1. Live(shot, b) /\ shot[b].episode \in Episodes \ es /\ ~Live(episode', shot[b].episode)
      BY <1>6, <1>10, <2>4
    <3>2. CASE episode[shot[b].episode].drama = d
      BY <1>1, <3>1, <3>2 DEF OrphansKnown, LeftBehind, DramaOf
    <3>3. CASE episode[shot[b].episode].drama # d
      BY <1>3, <3>1, <3>3 DEF OrphansKnown, Orphans
    <3> QED
      BY <3>2, <3>3
  <2> QED
    BY <1>1, <2>1, <2>2, <2>3, <2>4 DEF Orphans, DramaOf, Live
<1>12. ASSUME NEW x \in Clients, NEW b \in LeftBehind(x)' PROVE b \in LeftBehind(x)
  <2>1. /\ b \in Shots /\ Live(shot', b) /\ req'[x].op = "deleteDrama"
        /\ episode'[shot'[b].episode].drama = req'[x].drama /\ shot'[b].episode \notin req'[x].episodes
    BY <1>12 DEF LeftBehind, Live, DramaOf
  <2>2. req'[x] = req[x]
    BY <1>1, <2>1 DEF ContentOK, RequestsOK, ReqShape, End, Idle
  <2> QED
    BY <1>3, <1>6, <1>10, <2>1, <2>2 DEF LeftBehind, DramaOf
<1> QED
  BY <1>1, <1>11, <1>12 DEF OrphansKnown

\* A deletion that begins reads the episodes that live now.
LEMMA LooksKnown ==
  ASSUME ContentOK, ContentOK', OrphansKnown, NEW c \in Clients, Looks(c)
  PROVE  OrphansKnown'
<1>1. UNCHANGED <<drama, episode, scene, character, shot, late, carried>>
  BY LooksMoveNothing
<1>2. Orphans' = Orphans
  BY <1>1 DEF Orphans, DramaOf, Live
<1>3. ASSUME NEW x \in Clients, req'[x].op = "deleteDrama", req'[x] # req[x]
      PROVE  req'[x].episodes = EpisodesOf(req'[x].drama)
  <2>1. ASSUME NEW r, Begin(c, r) PROVE x = c /\ req'[x] = r
    BY <1>3, <2>1 DEF Begin, ContentOK, RequestsOK, ReqShape
  <2>2. ASSUME NEW r, Begin(c, r), r.op # "deleteDrama" PROVE FALSE
    BY <1>3, <2>1, <2>2
  <2>3. ASSUME NEW d \in Dramas, LookCreateEpisode(c, d) PROVE FALSE
    BY <2>2, <2>3 DEF LookCreateEpisode
  <2>4. ASSUME NEW d \in Dramas, LookDeleteDrama(c, d) PROVE req'[x].episodes = EpisodesOf(req'[x].drama)
    BY <2>1, <2>4 DEF LookDeleteDrama
  <2>5. ASSUME NEW e \in Episodes,
               LookCopyEpisode(c, e) \/ LookMoveEpisode(c, e) \/ LookSaveDedup(c, e) \/ LookSaveShots(c, e)
        PROVE  FALSE
    BY <2>2, <2>5 DEF LookCopyEpisode, LookMoveEpisode, LookSaveDedup, LookSaveShots
  <2>6. ASSUME NEW d \in Dramas, NEW e, LookCreateScene(c, d, e) \/ LookCreateCharacter(c, d, e) PROVE FALSE
    BY <2>2, <2>6 DEF LookCreateScene, LookCreateCharacter
  <2>7. ASSUME NEW s \in Scenes, NEW e \in Episodes, LookCopyScene(c, s, e) PROVE FALSE
    BY <2>2, <2>7 DEF LookCopyScene
  <2>8. ASSUME NEW s \in Scenes, NEW e \in Episodes, NEW carry, LookMoveScene(c, s, e, carry) PROVE FALSE
    BY <2>2, <2>8 DEF LookMoveScene
  <2>9. ASSUME NEW e \in Episodes, NEW s, NEW cast, LookCreateShot(c, e, s, cast) PROVE FALSE
    BY <2>2, <2>9 DEF LookCreateShot
  <2>10. ASSUME NEW b \in Shots, LookCopyShot(c, b) \/ LookMoveShot(c, b) PROVE FALSE
    BY <2>2, <2>10 DEF LookCopyShot, LookMoveShot
  <2>11. ASSUME NEW b \in Shots, NEW scenes, NEW casts, NEW pictures, LookUpdateShot(c, b, scenes, casts, pictures)
         PROVE  FALSE
    BY <2>2, <2>11 DEF LookUpdateShot
  <2> QED
    BY <2>3, <2>4, <2>5, <2>6, <2>7, <2>8, <2>9, <2>10, <2>11 DEF Looks
<1>4. ASSUME NEW x \in Clients, NEW b \in LeftBehind(x)' PROVE b \in late
  <2>1. /\ b \in Shots /\ Live(shot, b) /\ req'[x].op = "deleteDrama"
        /\ episode[shot[b].episode].drama = req'[x].drama /\ shot[b].episode \notin req'[x].episodes
    BY <1>1, <1>4 DEF LeftBehind, Live, DramaOf
  <2>2. CASE req'[x] = req[x]
    BY <2>1, <2>2 DEF LeftBehind, OrphansKnown, DramaOf
  <2>3. CASE req'[x] # req[x]
    <3>1. shot[b].episode \in Episodes /\ shot[b].episode \notin EpisodesOf(req'[x].drama)
      BY <1>3, <2>1, <2>3 DEF Live, ContentOK, RowsOK, ShotsOK, InsertedEpisode
    <3>2. ~Live(episode, shot[b].episode)
      BY <2>1, <3>1 DEF EpisodesOf
    <3> QED
      BY <2>1, <3>2 DEF OrphansKnown, Orphans
  <2> QED
    BY <2>2, <2>3
<1> QED
  BY <1>1, <1>2, <1>4 DEF OrphansKnown

LEMMA ContentOrphansKnown ==
  ASSUME ContentOK, ContentOK', Lasting, OrphansKnown, ContentNext
  PROVE  OrphansKnown'
<1>1. CASE Statements
  BY <1>1, CreateDramaKnown, DeleteEpisodeKnown, RowDeletedKnown DEF Statements
<1>2. ASSUME NEW c \in Clients, Writes(c) PROVE OrphansKnown'
  BY <1>2, CreateEpisodeKnown, CopyEpisodeKnown, MoveEpisodeKnown, DeleteDramaKnown, InsertSceneKnown,
     MoveSceneKnown, CreateCharacterKnown, InsertShotKnown, EditsKnown, SaveShotsKnown DEF Writes
<1> QED
  BY <1>1, <1>2, LooksKnown DEF ContentNext

\* The grids put pictures into frames; no row comes or goes.
LEMMA GridOrphansKnown ==
  ASSUME GridTypes, OrphansKnown, GridNext
  PROVE  OrphansKnown'
<1>1. ASSUME UNCHANGED <<drama, episode, scene, character, late>>,
             \A b \in Shots : shot'[b].state = shot[b].state /\ shot'[b].episode = shot[b].episode,
             \A c \in Clients : req'[c] = req[c] \/ req'[c].op # "deleteDrama"
      PROVE  OrphansKnown'
  <2>1. Orphans' = Orphans
    BY <1>1 DEF Orphans, DramaOf, Live
  <2>2. \A c \in Clients : LeftBehind(c)' \subseteq LeftBehind(c)
    BY <1>1 DEF LeftBehind, DramaOf, Live
  <2> QED
    BY <1>1, <2>1, <2>2 DEF OrphansKnown
<1>2. ASSUME NEW c \in Clients, Split(c) PROVE OrphansKnown'
  <2>1. UNCHANGED <<drama, episode, scene, character, late>> /\ End(c)
    BY <1>2 DEF Split
  <2>2. \A x \in Clients : req'[x] = req[x] \/ req'[x].op # "deleteDrama"
    BY <2>1 DEF GridTypes, ContentOK, RequestsOK, ReqShape, End, Idle
  <2> QED
    BY <1>1, <1>2, <2>1, <2>2, SplitWrites
<1>3. ASSUME NEW h \in Histories, NEW i \in 1..MaxCells, NEW b \in Shots, NEW k \in Slots, AssignCell(h, i, b, k)
      PROVE  OrphansKnown'
  <2>1. UNCHANGED <<drama, episode, scene, character, late, req>>
    BY <1>3 DEF AssignCell, Once
  <2> QED
    BY <1>1, <1>3, <2>1, AssignCellWrites
<1>4. ASSUME UNCHANGED <<drama, episode, scene, character, shot, late>>,
             \A c \in Clients : req'[c] = req[c] \/ req'[c].op # "deleteDrama"
      PROVE  OrphansKnown'
  BY <1>1, <1>4
<1>5. ASSUME NEW c \in Clients, GridRollBack(c) \/ SaveGrid(c) PROVE OrphansKnown'
  BY <1>4, <1>5 DEF GridRollBack, SaveGrid, End, Idle, GridTypes, GridInv, ReqShape
<1>6. ASSUME NEW c \in Clients, NEW status, StartImage(c, status) PROVE OrphansKnown'
  BY <1>4, <1>6 DEF StartImage, GridTypes, GridInv, ReqShape
<1>7. ASSUME NEW c \in Clients, NEW h, NEW e, NEW mode, CreateGrid(c, h, e, mode) PROVE OrphansKnown'
  BY <1>4, <1>7 DEF CreateGrid, GridTypes, GridInv, ReqShape
<1>8. ASSUME NEW c \in Clients, NEW h, NEW slot, LookSplit(c, h, slot) PROVE OrphansKnown'
  <2>1. UNCHANGED <<drama, episode, scene, character, shot, late>>
        /\ \E r : r.op # "deleteDrama" /\ req' = [req EXCEPT ![c] = r]
    BY <1>8 DEF LookSplit, Begin
  <2> QED
    BY <1>4, <2>1 DEF GridTypes, GridInv, ReqShape
<1>9. ASSUME UNCHANGED contentVars PROVE OrphansKnown'
  BY <1>4, <1>9 DEF contentVars
<1>10. ASSUME NEW h, NEW outcome, NEW result, NEW tells,
              PollImage(h, result, tells) \/ EndImageElsewhere(h, outcome) \/ RetryImage(h)
       PROVE  UNCHANGED contentVars
  BY <1>10 DEF PollImage, EndImageElsewhere, RetryImage
<1>11. TellGrid \/ PollerDies => UNCHANGED contentVars
  BY DEF TellGrid, PollerDies
<1>12. ASSUME NEW c \in Clients, NEW b \in Shots, LookShowCell(c, b) PROVE OrphansKnown'
  <2>1. UNCHANGED <<drama, episode, scene, character, shot, late>>
        /\ \E r : r.op # "deleteDrama" /\ req' = [req EXCEPT ![c] = r]
    BY <1>12 DEF LookShowCell, LookUpdateShot, Begin
  <2> QED
    BY <1>4, <2>1 DEF GridTypes, GridInv, ReqShape
<1> QED
  BY <1>2, <1>3, <1>5, <1>6, <1>7, <1>8, <1>9, <1>10, <1>11, <1>12 DEF GridNext

LEMMA NextOrphans ==
  ASSUME GridTypes, OrphansKnown, [Next]_vars
  PROVE  OrphansKnown'
<1>1. CASE ContentNext
  BY <1>1, ContentStepOK, ContentOrphansKnown DEF GridTypes
<1>2. CASE UNCHANGED vars
  BY <1>2 DEF vars, contentVars, OrphansKnown, Orphans, LeftBehind, DramaOf, Live
<1> QED
  BY <1>1, <1>2, GridOrphansKnown DEF Next

\* deleteDrama and deleteEpisode reach everything that hangs on what they delete
\* (episodes.go), but for the rows that a request put there while the deletion was under
\* way, or an agent after it.
THEOREM DeletionsReachEverything == Spec => []DeletionReachesEverything
<1>1. Init => GridTypes /\ OrphansKnown
  <2> SUFFICES ASSUME Init PROVE GridTypes /\ OrphansKnown
    OBVIOUS
  <2>1. GridTypes
    BY InitTypes
  <2>2. Orphans = {}
    BY DEF Init, ContentInit, NoShot, Live, Orphans
  <2>3. \A c \in Clients : req[c].op = "idle"
    BY DEF Init, ContentInit, Idle
  <2> QED
    BY <2>1, <2>2, <2>3 DEF OrphansKnown, LeftBehind
<1>2. GridTypes /\ OrphansKnown /\ [Next]_vars => GridTypes' /\ OrphansKnown'
  BY NextTypes, NextOrphans
<1>3. OrphansKnown => DeletionReachesEverything
  BY DEF OrphansKnown, DeletionReachesEverything
<1> QED
  BY <1>1, <1>2, <1>3, PTL DEF Spec
=============================================================================
