------------------------------- MODULE Content -------------------------------
(***************************************************************************)
(* Content (httpapi: dramas, episodes, resources*, library_scene; agents:  *)
(* the tools that save): the rows that a production is made of, and the    *)
(* requests that insert, copy, move, edit and delete them.                 *)
(*                                                                         *)
(* Most handlers are one transaction that reads, validates and then        *)
(* writes.  Nothing is locked and the database reads committed rows, so a  *)
(* request looks in one step and writes in a later one, with everybody     *)
(* else in between; what it read it keeps in req.  A handler that is one   *)
(* statement is one step.  Rows refer to each other by id and deletion     *)
(* only marks a row, so nothing but these checks ties a row to its parent. *)
(***************************************************************************)
EXTENDS Integers, FiniteSets, FiniteSetsExt, Functions

CONSTANTS Dramas, Episodes, Scenes, Characters, Shots,  \* ids of the rows there can be
          None,             \* no parent, no scene
          Clients,          \* requests under way
          Slots,            \* the frames of a shot
          Pictures,         \* what a frame can show
          Blank, ByHand,    \* no picture; one that a user or a generation put there
          CrossDrama,       \* bound: the values of allow_cross_drama that are sent
          MaxRequests       \* bound: requests in all

ASSUME ContentAssumption ==
  /\ None \notin Dramas \cup Episodes \cup Scenes \cup Characters \cup Shots
  /\ {Blank, ByHand} \subseteq Pictures /\ Blank # ByHand
  /\ IsFiniteSet(Episodes) /\ IsFiniteSet(Shots)
  /\ CrossDrama \subseteq BOOLEAN /\ MaxRequests \in Nat

VARIABLES
  drama, episode, scene, character, shot,  \* the tables
  req,      \* what each request has in memory
  begun,    \* how many requests began
  late,     \* (history) rows put under a parent that was deleted or being deleted
  carried   \* (history) shots that a scene took to another episode

contentVars == <<drama, episode, scene, character, shot, req, begun, late, carried>>

\* A row is deleted by a mark; an agent's save removes the row itself ("gone").
States == {"none", "live", "deleted", "gone"}
Idle == [op |-> "idle"]
\* edited is a history field: the slots whose picture a request chose last.
NoShot == [state |-> "none", episode |-> None, number |-> 0, scene |-> None,
           cast |-> {}, frames |-> [k \in Slots |-> Blank], edited |-> {}]

ContentInit ==
  /\ drama = [d \in Dramas |-> "none"]
  /\ episode = [e \in Episodes |-> [state |-> "none", drama |-> None, number |-> 0]]
  /\ scene = [s \in Scenes |-> [state |-> "none", drama |-> None, episode |-> None]]
  /\ character = [p \in Characters |-> [state |-> "none", drama |-> None]]
  /\ shot = [b \in Shots |-> NoShot]
  /\ req = [c \in Clients |-> Idle]
  /\ begun = 0
  /\ late = {} /\ carried = {}
-----------------------------------------------------------------------------
(***************************************************************************)
(* Rows                                                                    *)
(***************************************************************************)
Live(table, id) == table[id].state = "live"
Free(table) == {id \in DOMAIN table : table[id].state = "none"}
EpisodesOf(d) == {e \in Episodes : Live(episode, e) /\ episode[e].drama = d}
ShotsOf(e) == {b \in Shots : Live(shot, b) /\ shot[b].episode = e}
ScenesOf(e) == {s \in Scenes : Live(scene, s) /\ scene[s].episode = e}
DramaOf(e) == episode[e].drama

\* Mutant: the drama of the characters is not compared.
Fits_AnyCharacter(d, s, cast) ==
  /\ s # None => Live(scene, s) /\ scene[s].drama = d
  /\ \A p \in cast : Live(character, p)

\* validateStoryboardResources: an existing scene and existing characters of drama d
Fits(d, s, cast) ==
  /\ s # None => Live(scene, s) /\ scene[s].drama = d
  /\ \A p \in cast : Live(character, p) /\ character[p].drama = d

\* createScene and createCharacter: an episode, if any, exists and is of drama d
Within(d, e) == e # None => Live(episode, e) /\ DramaOf(e) = d

Above(numbers) == 1 + Max(numbers \cup {0})
Orders(S) == {f \in [S -> 1..Cardinality(S)] : IsInjective(f)}

\* A deletion of the parent has committed or is under way.
DramaDoomed(d) ==
  \/ drama[d] # "live"
  \/ \E c \in Clients : req[c].op = "deleteDrama" /\ req[c].drama = d
EpisodeDoomed(e) == e # None /\ (~Live(episode, e) \/ DramaDoomed(DramaOf(e)))
Note(rows, doomed) == late' = IF doomed THEN late \cup rows ELSE late

(***************************************************************************)
(* Requests                                                                *)
(***************************************************************************)
Begin(c, r) ==
  /\ req[c] = Idle /\ begun < MaxRequests
  /\ req' = [req EXCEPT ![c] = r]
  /\ begun' = begun + 1
  /\ UNCHANGED <<drama, episode, scene, character, shot, late, carried>>
End(c) == req' = [req EXCEPT ![c] = Idle] /\ UNCHANGED begun
\* a request of one statement
Once == begun < MaxRequests /\ begun' = begun + 1 /\ UNCHANGED req

\* A query fails, or the caller goes away: the transaction is rolled back.
ContentOps == {"createEpisode", "copyEpisode", "moveEpisode", "deleteDrama", "createScene",
               "copyScene", "moveScene", "createCharacter", "createShot", "updateShot",
               "copyShot", "moveShot", "saveShots"}
RollBack(c) ==
  /\ req[c].op \in ContentOps
  /\ End(c)
  /\ UNCHANGED <<drama, episode, scene, character, shot, late, carried>>
-----------------------------------------------------------------------------
(***************************************************************************)
(* Dramas and episodes                                                     *)
(***************************************************************************)
\* createDrama: the drama comes with its first episodes.
CreateDrama(d, es) ==
  /\ Once
  /\ drama[d] = "none" /\ es # {} /\ es \subseteq Free(episode)
  /\ drama' = [drama EXCEPT ![d] = "live"]
  /\ \E number \in Orders(es) :
       episode' = [e \in Episodes |-> IF e \in es
                     THEN [state |-> "live", drama |-> d, number |-> number[e]] ELSE episode[e]]
  /\ UNCHANGED <<scene, character, shot, late, carried>>

\* createEpisode: no transaction; the next number counts deleted episodes too.
LookCreateEpisode(c, d) ==
  /\ drama[d] = "live"
  /\ Begin(c, [op |-> "createEpisode", drama |-> d,
               number |-> Above({episode[e].number : e \in {x \in Episodes :
                            episode[x].state # "none" /\ DramaOf(x) = d}})])

CreateEpisode(c) ==
  LET r == req[c] IN
  /\ r.op = "createEpisode"
  /\ \E e \in Free(episode) :
       /\ episode' = [episode EXCEPT ![e] = [state |-> "live", drama |-> r.drama, number |-> r.number]]
       /\ Note({e}, DramaDoomed(r.drama))
  /\ End(c)
  /\ UNCHANGED <<drama, scene, character, shot, carried>>

\* copyEpisode: here the next number counts active episodes only.
LookCopyEpisode(c, e) ==
  /\ Live(episode, e) /\ drama[DramaOf(e)] = "live"
  /\ Begin(c, [op |-> "copyEpisode", episode |-> e,
               number |-> Above({episode[x].number : x \in EpisodesOf(DramaOf(e))})])

\* The copy gets copies of the scenes the episode owns and of its shots; a shot
\* keeps a scene owned elsewhere, and its characters, if they still exist.
CopyEpisode(c) ==
  LET r == req[c]
      d == DramaOf(r.episode)
      owned == ScenesOf(r.episode)
      old == ShotsOf(r.episode)
      SceneFor(s, into) == CASE s \in owned -> CHOOSE t \in DOMAIN into : into[t] = s
                             [] s # None /\ s \notin owned /\ Live(scene, s) -> s
                             [] OTHER -> None
  IN
  /\ r.op = "copyEpisode"
  /\ \E e \in Free(episode), ts \in SUBSET Free(scene), bs \in SUBSET Free(shot) :
       /\ Cardinality(ts) = Cardinality(owned) /\ Cardinality(bs) = Cardinality(old)
       /\ \E into \in Bijection(ts, owned), from \in Bijection(bs, old) :
            /\ scene' = [s \in Scenes |-> IF s \in ts
                  THEN [state |-> "live", drama |-> d, episode |-> e] ELSE scene[s]]
            /\ shot' = [b \in Shots |-> IF b \in bs
                  THEN [NoShot EXCEPT !.state = "live", !.episode = e,
                                      !.number = shot[from[b]].number,
                                      !.scene = SceneFor(shot[from[b]].scene, into),
                                      !.cast = {p \in shot[from[b]].cast : Live(character, p)}]
                  ELSE shot[b]]
       /\ episode' = [episode EXCEPT ![e] = [state |-> "live", drama |-> d, number |-> r.number]]
       /\ Note({e} \cup ts \cup bs, DramaDoomed(d))
  /\ End(c)
  /\ UNCHANGED <<drama, character, carried>>

\* The row that moveEpisode and moveStoryboard exchange numbers with
Beside(table, id, siblings, x) ==
  \/ /\ table[x].number < table[id].number
     /\ \A y \in siblings : table[y].number < table[id].number => table[y].number <= table[x].number
  \/ /\ table[x].number > table[id].number
     /\ \A y \in siblings : table[y].number > table[id].number => table[y].number >= table[x].number

\* Mutant: the temporary number stays.
Exchange_Half(table, r) ==
  [table EXCEPT ![r.other].number = r.number, ![r.row].number = -1]
Exchange(table, r) ==
  [table EXCEPT ![r.other].number = r.number, ![r.row].number = r.otherNumber]

LookMoveEpisode(c, e) ==
  /\ Live(episode, e)
  /\ \E x \in EpisodesOf(DramaOf(e)) :
       /\ Beside(episode, e, EpisodesOf(DramaOf(e)), x)
       /\ Begin(c, [op |-> "moveEpisode", row |-> e, other |-> x,
                    number |-> episode[e].number, otherNumber |-> episode[x].number])

MoveEpisode(c) ==
  /\ req[c].op = "moveEpisode"
  /\ episode' = Exchange(episode, req[c])
  /\ End(c)
  /\ UNCHANGED <<drama, scene, character, shot, late, carried>>

Deleted(table, ids) ==
  [id \in DOMAIN table |-> IF id \in ids THEN [table[id] EXCEPT !.state = "deleted"] ELSE table[id]]

\* deleteEpisode: its shots and scenes go with it.
DeleteEpisode(e) ==
  /\ Once
  /\ Live(episode, e)
  /\ episode' = Deleted(episode, {e})
  /\ shot' = Deleted(shot, ShotsOf(e))
  /\ scene' = Deleted(scene, ScenesOf(e))
  /\ UNCHANGED <<drama, character, late, carried>>

\* Mutant: the episodes go, their shots stay.
DeleteDrama_KeepsShots(c) ==
  LET d == req[c].drama IN
  /\ req[c].op = "deleteDrama"
  /\ drama' = [drama EXCEPT ![d] = "deleted"]
  /\ episode' = Deleted(episode, EpisodesOf(d))
  /\ character' = Deleted(character, {p \in Characters : Live(character, p) /\ character[p].drama = d})
  /\ scene' = Deleted(scene, {s \in Scenes : Live(scene, s) /\ scene[s].drama = d})
  /\ End(c)
  /\ UNCHANGED <<shot, late, carried>>

\* deleteDrama: the shots that go are those of the episodes read at the start.
LookDeleteDrama(c, d) ==
  /\ drama[d] = "live"
  /\ Begin(c, [op |-> "deleteDrama", drama |-> d, episodes |-> EpisodesOf(d)])

DeleteDrama(c) ==
  LET d == req[c].drama IN
  /\ req[c].op = "deleteDrama"
  /\ drama' = [drama EXCEPT ![d] = "deleted"]
  /\ episode' = Deleted(episode, EpisodesOf(d))
  /\ character' = Deleted(character, {p \in Characters : Live(character, p) /\ character[p].drama = d})
  /\ scene' = Deleted(scene, {s \in Scenes : Live(scene, s) /\ scene[s].drama = d})
  /\ shot' = Deleted(shot, UNION {ShotsOf(e) : e \in req[c].episodes})
  /\ End(c)
  /\ UNCHANGED <<late, carried>>
-----------------------------------------------------------------------------
(***************************************************************************)
(* Scenes and characters                                                   *)
(***************************************************************************)
LookCreateScene(c, d, e) ==
  /\ drama[d] = "live" /\ Within(d, e)
  /\ Begin(c, [op |-> "createScene", drama |-> d, episode |-> e])

CreateScene(c) ==
  LET r == req[c] IN
  /\ r.op = "createScene"
  /\ \E s \in Free(scene) :
       /\ scene' = [scene EXCEPT ![s] = [state |-> "live", drama |-> r.drama, episode |-> r.episode]]
       /\ Note({s}, DramaDoomed(r.drama) \/ EpisodeDoomed(r.episode))
  /\ End(c)
  /\ UNCHANGED <<drama, episode, character, shot, carried>>

\* deleteScene: the shots keep their reference to it.
DeleteScene(s) ==
  /\ Once
  /\ Live(scene, s)
  /\ scene' = Deleted(scene, {s})
  /\ UNCHANGED <<drama, episode, character, shot, late, carried>>

\* moveOrCopyScene, to an episode e of the same drama or, if allowed, of another one
MayGo(s, e) ==
  /\ Live(scene, s) /\ Live(episode, e)
  /\ scene[s].drama # DramaOf(e) => TRUE \in CrossDrama

LookCopyScene(c, s, e) ==
  /\ MayGo(s, e)
  /\ Begin(c, [op |-> "copyScene", scene |-> s, episode |-> e])

CopyScene(c) ==
  LET e == req[c].episode IN
  /\ req[c].op = "copyScene"
  /\ \E s \in Free(scene) :
       /\ scene' = [scene EXCEPT ![s] = [state |-> "live", drama |-> DramaOf(e), episode |-> e]]
       /\ Note({s}, EpisodeDoomed(e))
  /\ End(c)
  /\ UNCHANGED <<drama, episode, character, shot, carried>>

\* With move_storyboards (carry) the scene's shots go too, after those of e.
LookMoveScene(c, s, e, carry) ==
  LET linked == {b \in Shots : Live(shot, b) /\ shot[b].scene = s} IN
  /\ MayGo(s, e)
  /\ linked # {} /\ ~carry => scene[s].drama = DramaOf(e)
  /\ \E order \in Orders(IF carry THEN linked ELSE {}) :
       /\ \A x, y \in DOMAIN order : shot[x].number < shot[y].number => order[x] < order[y]
       /\ Begin(c, [op |-> "moveScene", scene |-> s, episode |-> e,
                    number |-> [b \in DOMAIN order |->
                      order[b] + Max({shot[x].number : x \in ShotsOf(e)} \cup {0})]])

MoveScene(c) ==
  LET r == req[c]
      going == DOMAIN r.number
  IN
  /\ r.op = "moveScene"
  /\ shot' = [b \in Shots |-> IF b \in going
                THEN [shot[b] EXCEPT !.episode = r.episode, !.number = r.number[b]] ELSE shot[b]]
  /\ scene' = [scene EXCEPT ![r.scene].drama = DramaOf(r.episode), ![r.scene].episode = r.episode]
  /\ Note({r.scene} \cup going, EpisodeDoomed(r.episode))
  /\ carried' = carried \cup {b \in going : shot[b].episode # r.episode}
  /\ End(c)
  /\ UNCHANGED <<drama, episode, character>>

\* createCharacter and importCharacterTemplate
LookCreateCharacter(c, d, e) ==
  /\ drama[d] = "live" /\ Within(d, e)
  /\ Begin(c, [op |-> "createCharacter", drama |-> d])

CreateCharacter(c) ==
  LET r == req[c] IN
  /\ r.op = "createCharacter"
  /\ \E p \in Free(character) :
       /\ character' = [character EXCEPT ![p] = [state |-> "live", drama |-> r.drama]]
       /\ Note({p}, DramaDoomed(r.drama))
  /\ End(c)
  /\ UNCHANGED <<drama, episode, scene, shot, carried>>

\* saveDedupScenes and saveDedupCharacters, tools of an agent: a scene or character
\* that the drama has by name already is kept.  They do not ask whether the episode
\* is deleted.
LookSaveDedup(c, e) ==
  /\ episode[e].state # "none"
  /\ \/ Begin(c, [op |-> "createScene", drama |-> DramaOf(e), episode |-> e])
     \/ Begin(c, [op |-> "createCharacter", drama |-> DramaOf(e)])

DeleteCharacter(p) ==
  /\ Once
  /\ Live(character, p)
  /\ character' = Deleted(character, {p})
  /\ UNCHANGED <<drama, episode, scene, shot, late, carried>>
-----------------------------------------------------------------------------
(***************************************************************************)
(* Shots (storyboards)                                                     *)
(***************************************************************************)
\* createStoryboard numbers the shot by the count of the active ones.
LookCreateShot(c, e, s, cast) ==
  /\ Live(episode, e) /\ Fits(DramaOf(e), s, cast)
  /\ Begin(c, [op |-> "createShot", episode |-> e, scene |-> s, cast |-> cast,
               number |-> Cardinality(ShotsOf(e)) + 1])

\* copyStoryboard numbers it by the highest; the scene and the cast are not looked at.
LookCopyShot(c, b) ==
  /\ Live(shot, b) /\ Live(episode, shot[b].episode)
  /\ Begin(c, [op |-> "copyShot", episode |-> shot[b].episode, scene |-> shot[b].scene,
               cast |-> shot[b].cast,
               number |-> Above({shot[x].number : x \in ShotsOf(shot[b].episode)})])

InsertShot(c) ==
  LET r == req[c] IN
  /\ r.op \in {"createShot", "copyShot"}
  /\ \E b \in Free(shot) :
       /\ shot' = [shot EXCEPT ![b] = [NoShot EXCEPT !.state = "live", !.episode = r.episode,
                                         !.number = r.number, !.scene = r.scene, !.cast = r.cast]]
       /\ Note({b}, EpisodeDoomed(r.episode))
  /\ End(c)
  /\ UNCHANGED <<drama, episode, scene, character, carried>>

\* updateStoryboard: scenes, casts hold the new value if the body has one, pictures
\* what it sets frames to.  A kept scene is validated, a kept cast is not.
LookUpdateShot(c, b, scenes, casts, pictures) ==
  LET e == shot[b].episode IN
  /\ ~(scenes = {} /\ casts = {} /\ DOMAIN pictures = {})
  /\ Live(shot, b) /\ Live(episode, e)
  /\ \A s \in (IF scenes = {} THEN {shot[b].scene} ELSE scenes) : Fits(DramaOf(e), s, UNION casts)
  /\ Begin(c, [op |-> "updateShot", shot |-> b, scenes |-> scenes, casts |-> casts,
               pictures |-> pictures])

UpdateShot(c) ==
  LET r == req[c] IN
  /\ r.op = "updateShot"
  /\ shot' = [shot EXCEPT
        ![r.shot].scene = IF r.scenes = {} THEN @ ELSE CHOOSE s \in r.scenes : TRUE,
        ![r.shot].cast = IF r.casts = {} THEN @ ELSE UNION r.casts,
        ![r.shot].frames = [k \in Slots |-> IF k \in DOMAIN r.pictures THEN r.pictures[k] ELSE @[k]],
        ![r.shot].edited = @ \cup DOMAIN r.pictures]
  /\ End(c)
  /\ UNCHANGED <<drama, episode, scene, character, late, carried>>

DeleteShot(b) ==
  /\ Once
  /\ Live(shot, b)
  /\ shot' = Deleted(shot, {b})
  /\ UNCHANGED <<drama, episode, scene, character, late, carried>>

LookMoveShot(c, b) ==
  /\ Live(shot, b)
  /\ \E x \in ShotsOf(shot[b].episode) :
       /\ Beside(shot, b, ShotsOf(shot[b].episode), x)
       /\ Begin(c, [op |-> "moveShot", row |-> b, other |-> x,
                    number |-> shot[b].number, otherNumber |-> shot[x].number])

MoveShot(c) ==
  /\ req[c].op = "moveShot"
  /\ shot' = Exchange(shot, req[c])
  /\ End(c)
  /\ UNCHANGED <<drama, episode, scene, character, late, carried>>

\* saveStoryboards, a tool of an agent: the rows of the episode, deleted ones too,
\* are removed and replaced.  It does not ask whether the episode is deleted.
LookSaveShots(c, e) ==
  /\ episode[e].state # "none"
  /\ Begin(c, [op |-> "saveShots", episode |-> e,
               old |-> {b \in Shots : shot[b].state \in {"live", "deleted"} /\ shot[b].episode = e}])

SaveShots(c) ==
  LET r == req[c] IN
  /\ r.op = "saveShots"
  /\ \E bs \in (SUBSET Free(shot)) \ {{}} :
       /\ \E number \in Orders(bs), s \in [bs -> Scenes \cup {None}], cast \in [bs -> SUBSET Characters] :
            /\ \A b \in bs : Fits(DramaOf(r.episode), s[b], cast[b])
            /\ shot' = [b \in Shots |->
                 CASE b \in r.old -> [shot[b] EXCEPT !.state = "gone"]
                   [] b \in bs -> [NoShot EXCEPT !.state = "live", !.episode = r.episode,
                                     !.number = number[b], !.scene = s[b], !.cast = cast[b]]
                   [] OTHER -> shot[b]]
       /\ Note(bs, EpisodeDoomed(r.episode))
  /\ End(c)
  /\ UNCHANGED <<drama, episode, scene, character, carried>>
-----------------------------------------------------------------------------
AtMostOne(S) == {{}} \cup {{x} : x \in S}
\* one frame set to one of the pictures of S
OneFrame(S) == UNION {[{k} -> S] : k \in Slots}

Ready(c) == req[c] = Idle /\ begun < MaxRequests

\* what a request begins with
Looks(c) ==
  \/ \E d \in Dramas : LookCreateEpisode(c, d) \/ LookDeleteDrama(c, d)
  \/ \E e \in Episodes : LookCopyEpisode(c, e) \/ LookMoveEpisode(c, e)
                       \/ LookSaveDedup(c, e) \/ LookSaveShots(c, e)
  \/ \E d \in Dramas, e \in Episodes \cup {None} :
       LookCreateScene(c, d, e) \/ LookCreateCharacter(c, d, e)
  \/ \E s \in Scenes, e \in Episodes :
       LookCopyScene(c, s, e) \/ \E carry \in BOOLEAN : LookMoveScene(c, s, e, carry)
  \/ \E e \in Episodes, s \in Scenes \cup {None}, cast \in SUBSET Characters :
       LookCreateShot(c, e, s, cast)
  \/ \E b \in Shots :
       \/ LookCopyShot(c, b) \/ LookMoveShot(c, b)
       \/ \E scenes \in AtMostOne(Scenes \cup {None}), casts \in AtMostOne(SUBSET Characters) :
            LookUpdateShot(c, b, scenes, casts, <<>>)
       \/ \E pictures \in OneFrame({Blank, ByHand}) : LookUpdateShot(c, b, {}, {}, pictures)

\* what it ends with
Writes(c) ==
  \/ CreateEpisode(c) \/ CopyEpisode(c) \/ MoveEpisode(c) \/ DeleteDrama(c)
  \/ CreateScene(c) \/ CopyScene(c) \/ MoveScene(c) \/ CreateCharacter(c)
  \/ InsertShot(c) \/ UpdateShot(c) \/ MoveShot(c) \/ SaveShots(c)
  \/ RollBack(c)

\* requests of one statement, or whose statements cannot be told from one
Statements ==
  \/ \E d \in Dramas, es \in SUBSET Episodes : CreateDrama(d, es)
  \/ \E e \in Episodes : DeleteEpisode(e)
  \/ \E s \in Scenes : DeleteScene(s)
  \/ \E p \in Characters : DeleteCharacter(p)
  \/ \E b \in Shots : DeleteShot(b)

ContentNext == Statements \/ \E c \in Clients : (Ready(c) /\ Looks(c)) \/ (req[c] # Idle /\ Writes(c))

ContentSpec == ContentInit /\ [][ContentNext]_contentVars
-----------------------------------------------------------------------------
(***************************************************************************)
(* Properties                                                              *)
(***************************************************************************)
\* The tables hold well-formed rows: a row that was ever inserted has a parent.
ContentTypeOK ==
  /\ drama \in [Dramas -> States]
  /\ episode \in [Episodes -> [state : States, drama : Dramas \cup {None}, number : Nat]]
  /\ scene \in [Scenes -> [state : States, drama : Dramas \cup {None}, episode : Episodes \cup {None}]]
  /\ character \in [Characters -> [state : States, drama : Dramas \cup {None}]]
  /\ shot \in [Shots -> [state : States, episode : Episodes \cup {None}, number : Nat,
                         scene : Scenes \cup {None}, cast : SUBSET Characters,
                         frames : [Slots -> Pictures], edited : SUBSET Slots]]
  /\ \A e \in Episodes : episode[e].state # "none" => episode[e].drama # None
  /\ \A s \in Scenes : scene[s].state # "none" => scene[s].drama # None
  /\ \A b \in Shots : shot[b].state # "none" => shot[b].episode # None

\* errOwnershipMismatch "scene or character does not belong to episode drama"
\* (resources_storyboard.go:121): if nobody allows moves between dramas, then
\* whatever requests overlap, and wherever scenes, shots and episodes are moved
\* and copied to within a drama, the scene and the characters of a shot are of
\* the drama of its episode.
ShotsStayInTheirDrama ==
  \A b \in Shots : shot[b].state # "none" =>
    /\ shot[b].scene # None => scene[shot[b].scene].drama = DramaOf(shot[b].episode)
    /\ \A p \in shot[b].cast : character[p].drama = DramaOf(shot[b].episode)

Orphans ==
  {e \in Episodes : Live(episode, e) /\ drama[DramaOf(e)] # "live"}
  \cup {p \in Characters : Live(character, p) /\ drama[character[p].drama] # "live"}
  \cup {s \in Scenes : Live(scene, s) /\ \/ drama[scene[s].drama] # "live"
                                         \/ scene[s].episode # None /\ ~Live(episode, scene[s].episode)}
  \cup {b \in Shots : Live(shot, b) /\ ~Live(episode, shot[b].episode)}

\* deleteEpisode and deleteDrama delete what hangs on them "so they cannot keep
\* mutating" (episodes.go:174): what hangs on the row when the deletion begins is
\* deleted with it, whatever is moved, copied and inserted meanwhile.  A live row
\* with a deleted parent was put there while the deletion went on or after it.
DeletionReachesEverything == Orphans \subseteq late

\* ... and without that exception
NoOrphans == Orphans = {}

\* P-06 "ordered shots" (FUNCTIONAL_PARITY.md:48): no two active shots of an
\* episode have the same number.
ShotsAreOrdered ==
  \A a, b \in Shots : Live(shot, a) /\ Live(shot, b) /\ shot[a].episode = shot[b].episode
                      /\ shot[a].number = shot[b].number => a = b
=============================================================================
