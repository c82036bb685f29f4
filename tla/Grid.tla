-------------------------------- MODULE Grid --------------------------------
(***************************************************************************)
(* The grid (httpapi: media_grid, pipeline; generation: updateGridHistory) *)
(* composed with the content it writes to.  One picture is generated for   *)
(* several shots, cut into cells, and each cell becomes a frame of a shot; *)
(* the history of a grid remembers which.                                  *)
(*                                                                         *)
(* Generating takes three steps of the same request: insert the history,   *)
(* start the image, save the history as it is in memory.  The image ends   *)
(* by the poller, which then tells the history, or by others, who do not.  *)
(* Splitting reads first and decides again under a lock of the history;    *)
(* assigning a cell decides everything under that lock and is one step.    *)
(***************************************************************************)
EXTENDS Content

CONSTANTS Histories, MaxCells,  \* bounds: grids, and the cells of each
          First, Last           \* the slots of a first_last grid

\* A cut makes new files: TRUE marks those of a cut after an earlier one was undone.
Cells == Histories \X (1..MaxCells) \X BOOLEAN

ASSUME GridAssumption ==
  /\ MaxCells \in Nat \ {0}
  /\ Cells \subseteq Pictures \ {Blank, ByHand}
  /\ {First, Last} \subseteq Slots /\ First # Last

VARIABLES
  history,   \* grid_history
  image,     \* the image generation of each history
  poller     \* the image that the poller wrote, and what it is about to tell its history

gridVars == <<history, image, poller>>
vars == <<contentVars, gridVars>>

Modes == {"frames", "first_last"}
\* undone is a history field: the request that made the grid has undone its split.
NoHistory == [state |-> "none", mode |-> "frames", episode |-> None, linked |-> FALSE,
              assigned |-> <<>>, undone |-> FALSE]
Away == [history |-> None, tells |-> "nothing"]

Init ==
  /\ ContentInit
  /\ history = [h \in Histories |-> NoHistory]
  /\ image = [h \in Histories |-> "none"]
  /\ poller = Away
-----------------------------------------------------------------------------
\* validateGridOwnership: existing shots of an existing episode, e if it is given
Owned(e, ids) ==
  /\ e # None => Live(episode, e) /\ drama[DramaOf(e)] = "live"
  /\ \A b \in ids : /\ Live(shot, b) /\ Live(episode, shot[b].episode)
                    /\ e # None => shot[b].episode = e
  /\ \A a, b \in ids : shot[a].episode = shot[b].episode

Generating(c, h) == req[c].op = "gridGenerate" /\ req[c].history = h

\* the cell i of h, as h was cut last
Cell(h, i) == <<h, i, history[h].undone>>
\* the cells that exist, those of an undone split included
CellsCut == {x \in Cells : IF x[3] = history[x[1]].undone THEN history[x[1]].state = "split"
                            ELSE history[x[1]].undone}

\* gridGenerate, up to the insert of the history
CreateGrid(c, h, e, mode) ==
  /\ req[c] = Idle /\ begun < MaxRequests
  /\ history[h] = NoHistory
  /\ Owned(e, {})
  /\ history' = [history EXCEPT ![h] = [NoHistory EXCEPT !.state = "processing", !.mode = mode, !.episode = e]]
  /\ req' = [req EXCEPT ![c] = [op |-> "gridGenerate", history |-> h, seen |-> "none"]]
  /\ begun' = begun + 1
  /\ UNCHANGED <<drama, episode, scene, character, shot, late, carried, image, poller>>

\* Images.Generate: a provider answers with a task, or with the image
StartImage(c, status) ==
  LET h == req[c].history IN
  /\ req[c].op = "gridGenerate" /\ req[c].seen = "none"
  /\ image' = [image EXCEPT ![h] = status]
  /\ req' = [req EXCEPT ![c].seen = status]
  /\ UNCHANGED <<drama, episode, scene, character, shot, late, carried, begun, history, poller>>

\* Save(&hist): the whole row, as the request has it in memory, over what the row is.
\* Everybody sees the row since its insert, and may have split it.
SaveGrid(c) ==
  LET h == req[c].history
      mine == [history[h] EXCEPT !.assigned = <<>>, !.undone = (history[h].state = "split")]
  IN
  /\ req[c].op = "gridGenerate"
  /\ history' = [history EXCEPT ![h] =
       CASE req[c].seen = "none" -> [mine EXCEPT !.state = "failed"]     \* Generate returned an error
         [] req[c].seen = "completed" -> [mine EXCEPT !.state = "completed", !.linked = TRUE]
         [] OTHER -> [mine EXCEPT !.state = "processing", !.linked = TRUE]]
  /\ End(c)
  /\ UNCHANGED <<drama, episode, scene, character, shot, late, carried, image, poller>>

\* The process dies, or a transaction is rolled back.
GridRollBack(c) ==
  /\ req[c].op \in {"gridGenerate", "gridSplit"}
  /\ End(c)
  /\ UNCHANGED <<drama, episode, scene, character, shot, late, carried, history, image, poller>>

Outcomes == {"completed", "failed"}

\* pollImageJob writes the record with its job and then tells the history, each in a
\* transaction of its own.  It tells a failure also when FinalizeOwned returns an error
\* because somebody else has the job by then, or has ended it.
PollImage(h, result, tells) ==
  /\ poller = Away /\ image[h] = "running"
  /\ tells = "completed" => result = "completed"
  /\ image' = [image EXCEPT ![h] = result]
  /\ poller' = [history |-> h, tells |-> tells]
  /\ UNCHANGED <<contentVars, history>>

\* The process dies in between.
PollerDies ==
  /\ poller # Away
  /\ poller' = Away
  /\ UNCHANGED <<contentVars, history, image>>

\* Mutant: a history that is split already is told too.
TellGrid_Always ==
  LET h == poller.history IN
  /\ poller # Away
  /\ history' = IF history[h].linked THEN [history EXCEPT ![h].state = poller.tells] ELSE history
  /\ poller' = Away
  /\ UNCHANGED <<contentVars, image>>

\* updateGridHistory
TellGrid ==
  LET h == poller.history IN
  /\ poller # Away
  /\ history' = IF history[h].linked /\ history[h].state \notin {"split", "failed"}
                THEN [history EXCEPT ![h].state = poller.tells] ELSE history
  /\ poller' = Away
  /\ UNCHANGED <<contentVars, image>>

\* A webhook ends the image, or its job is canceled or fails before it is polled.
EndImageElsewhere(h, outcome) ==
  /\ image[h] = "running"
  /\ image' = [image EXCEPT ![h] = outcome]
  /\ UNCHANGED <<contentVars, history, poller>>

\* The job of a failed image is retried.
RetryImage(h) ==
  /\ image[h] = "failed"
  /\ image' = [image EXCEPT ![h] = "running"]
  /\ UNCHANGED <<contentVars, history, poller>>
-----------------------------------------------------------------------------
\* deriveGridAssignments, for the shots ids in the order of the cells: cell |-> <<shot, slot>>
Derived(mode, ids, slot) ==
  [i \in 1..Cardinality(DOMAIN ids) |->
     IF mode = "first_last"
     THEN <<ids[i], IF i > MaxCells \div 2 THEN Last ELSE First>>
     ELSE <<ids[i], slot>>]

\* validateGridStoryboardCount: distinct shots, at most one per cell; a first_last
\* grid names as many as half its cells, twice in the same order
IdsFor(mode) ==
  IF mode = "first_last"
  THEN {[i \in 1..MaxCells |-> ids[((i - 1) % (MaxCells \div 2)) + 1]] :
          ids \in IF MaxCells % 2 = 0 THEN Injection(1..(MaxCells \div 2), Shots) ELSE {}}
  ELSE UNION {Injection(1..n, Shots) : n \in 0..MaxCells}

\* gridSplit, up to the cells it cut
LookSplit(c, h, slot) ==
  /\ history[h].state \notin {"none", "split"}
  /\ \E ids \in IdsFor(history[h].mode) :
       /\ Owned(history[h].episode, {ids[i] : i \in DOMAIN ids})
       /\ Begin(c, [op |-> "gridSplit", history |-> h, assigned |-> Derived(history[h].mode, ids, slot)])
  /\ UNCHANGED gridVars

\* The picture of a cell goes to the slot it is assigned to.
Show(h, assigned) ==
  [b \in Shots |->
    LET mine == {k \in Slots : \E i \in DOMAIN assigned : assigned[i] = <<b, k>>} IN
    [shot[b] EXCEPT !.edited = @ \ mine,
                    !.frames = [k \in Slots |->
       IF k \in mine THEN Cell(h, CHOOSE i \in DOMAIN assigned : assigned[i] = <<b, k>>) ELSE @[k]]]]

\* assignGridCellsWithHistory, under a lock of the history
Split(c) ==
  LET r == req[c] IN
  /\ r.op = "gridSplit"
  /\ history[r.history].state # "split"
  /\ \A i \in DOMAIN r.assigned : Live(shot, r.assigned[i][1])
  /\ shot' = Show(r.history, r.assigned)
  /\ history' = [history EXCEPT ![r.history].state = "split", ![r.history].assigned = r.assigned]
  /\ End(c)
  /\ UNCHANGED <<drama, episode, scene, character, late, carried, image, poller>>

\* Mutant: the cell that had the target keeps it.
Replaced_KeepsOther(assigned, i, target) ==
  [j \in DOMAIN assigned \cup {i} |-> IF j = i THEN target ELSE assigned[j]]

\* replaceGridAssignment: the cell has one target and the target one cell
Replaced(assigned, i, target) ==
  [j \in {j \in DOMAIN assigned : assigned[j] # target} \cup {i} |-> IF j = i THEN target ELSE assigned[j]]

Here(h, b) == Live(shot, b) /\ (history[h].episode # None => shot[b].episode = history[h].episode)

\* The frame that showed the cell is cleared, if it still shows it and its shot is
\* still in the episode of the grid.
Cleared(h, i, target) ==
  {t \in Shots \X Slots : /\ i \in DOMAIN history[h].assigned /\ history[h].assigned[i] = t /\ t # target
                         /\ Here(h, t[1]) /\ shot[t[1]].frames[t[2]] = Cell(h, i)}

\* gridAssignCell
AssignCell(h, i, b, k) ==
  LET e == history[h].episode
      old == history[h].assigned
  IN
  /\ Once
  /\ history[h].state = "split"
  /\ Owned(e, {b}) /\ Here(h, b)
  /\ shot' = [x \in Shots |-> [shot[x] EXCEPT
       !.edited = IF x = b THEN @ \ {k} ELSE @,
       !.frames = [s \in Slots |->
         IF <<x, s>> = <<b, k>> THEN Cell(h, i)
         ELSE IF <<x, s>> \in Cleared(h, i, <<b, k>>) THEN Blank ELSE @[s]]]]
  /\ history' = [history EXCEPT ![h].assigned = Replaced(old, i, <<b, k>>)]
  /\ UNCHANGED <<drama, episode, scene, character, late, carried, image, poller>>

\* updateStoryboard with the picture of a cell: the organization owns it
LookShowCell(c, b) ==
  /\ \E pictures \in OneFrame(CellsCut) : LookUpdateShot(c, b, {}, {}, pictures)
  /\ UNCHANGED gridVars
-----------------------------------------------------------------------------
GridNext ==
  \/ \E c \in {x \in Clients : Ready(x)}, h \in Histories :
       \/ \E e \in Episodes \cup {None}, mode \in Modes : CreateGrid(c, h, e, mode)
       \/ \E slot \in Slots : LookSplit(c, h, slot)
  \/ \E c \in {x \in Clients : Ready(x)}, b \in Shots : LookShowCell(c, b)
  \/ \E c \in Clients :
       \/ \E status \in {"running", "completed"} : StartImage(c, status)
       \/ SaveGrid(c) \/ GridRollBack(c) \/ Split(c)
  \/ TellGrid \/ PollerDies
  \/ \E h \in Histories :
       \/ \E result \in Outcomes \cup {"running"}, tells \in Outcomes : PollImage(h, result, tells)
       \/ \E outcome \in Outcomes : EndImageElsewhere(h, outcome)
       \/ RetryImage(h)
       \/ \E i \in 1..MaxCells, b \in Shots, k \in Slots : AssignCell(h, i, b, k)

Next == (ContentNext /\ UNCHANGED gridVars) \/ GridNext
Spec == Init /\ [][Next]_vars
-----------------------------------------------------------------------------
(***************************************************************************)
(* Properties                                                              *)
(***************************************************************************)
\* Histories and images are well formed.
GridTypeOK ==
  /\ ContentTypeOK
  /\ image \in [Histories -> {"none", "running"} \cup Outcomes]
  /\ poller \in [history : Histories \cup {None}, tells : {"nothing"} \cup Outcomes]
  /\ \A h \in Histories :
       /\ history[h].state \in {"none", "processing", "split"} \cup Outcomes
       /\ history[h].mode \in Modes /\ history[h].episode \in Episodes \cup {None}
       /\ DOMAIN history[h].assigned \subseteq 1..MaxCells
       /\ \A i \in DOMAIN history[h].assigned : history[h].assigned[i] \in Shots \X Slots

\* "grid history is already split; reassign individual cells instead"
\* (media_grid.go:530): a grid is cut once, whoever else cuts it or ends its image
\* meanwhile, and after that only one cell at a time is assigned anew.  Only the
\* request that made the grid undoes a split, at most once, with its own last write.
StaysSplit(h) ==
  history[h].state = "split" =>
    /\ history'[h].state = "split"
    /\ \A i, j \in DOMAIN history[h].assigned \cap DOMAIN history'[h].assigned :
         i # j => \E x \in {i, j} : history'[h].assigned[x] = history[h].assigned[x]
UndoneByItsMaker(h) == ~history[h].undone /\ \E c \in Clients : Generating(c, h) /\ req'[c] = Idle
SplitOnce == [][\A h \in Histories : StaysSplit(h) \/ UndoneByItsMaker(h)]_vars

\* ... and without the exception of the request that made the grid
SplitIsFinal == [][\A h \in Histories : StaysSplit(h)]_vars

\* P-07 "slot conflicts are handled atomically" (FUNCTIONAL_PARITY.md:49), for the
\* slots that no request has set since.  A cell is shown only in the slot it is
\* assigned to, except by a shot that went to another episode with its scene.  A
\* slot that a cell is assigned to is never blank and shows no other cell, unless
\* cells of another grid were assigned too and took the slot in between.
ShownCellsAreAssigned ==
  \A b \in Shots \ carried : \A k \in Slots \ shot[b].edited : Live(shot, b) =>
    \A h \in Histories, i \in 1..MaxCells : shot[b].frames[k] = Cell(h, i) =>
      i \in DOMAIN history[h].assigned /\ history[h].assigned[i] = <<b, k>>
NeverAssigned(h) == DOMAIN history[h].assigned = {} /\ ~history[h].undone
AssignedCellsAreShown ==
  \A h \in Histories : (\A g \in Histories \ {h} : NeverAssigned(g)) =>
    \A i \in DOMAIN history[h].assigned :
      LET t == history[h].assigned[i]
          picture == shot[t[1]].frames[t[2]]
      IN t[2] \notin shot[t[1]].edited =>
           picture # Blank /\ (picture \in Cells => picture = Cell(h, i))
CellsAndFramesAgree == ShownCellsAreAssigned /\ AssignedCellsAreShown

\* ... and without the exception of shots that moved
CellsAreShownOnce ==
  \A a, b \in Shots : \A j \in Slots \ shot[a].edited, k \in Slots \ shot[b].edited :
    Live(shot, a) /\ Live(shot, b) /\ shot[a].frames[j] \in Cells
    /\ shot[a].frames[j] = shot[b].frames[k] => a = b /\ j = k

\* P-13 "grid status can be queried" (FUNCTIONAL_PARITY.md:55): the history of an
\* image that has ended is not left in processing, unless the poller is about to tell it.
GridFollowsImage ==
  \A h \in Histories : history[h].linked /\ image[h] \in Outcomes /\ poller.history # h =>
                         history[h].state # "processing"
=============================================================================
