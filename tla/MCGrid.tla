------------------------------- MODULE MCGrid -------------------------------
(***************************************************************************)
(* An instance of Grid for TLC.  It starts from a workspace that clients   *)
(* have prepared with the requests of the module: a drama with two         *)
(* episodes, a scene and a character, two shots in the first episode, and a*)
(* grid whose two cells are their first frames.                            *)
(***************************************************************************)
EXTENDS Grid, TLC

CONSTANTS d1, d2, d3, e1, e2, e3, e4, s1, s2, s3, p1, p2, p3, b1, b2, b3, h1, h2

MCPictures == {Blank, ByHand} \cup ({h1, h2} \X (1..MaxCells) \X BOOLEAN)

\* Beside them a wide workspace has a second drama, whose grid was not split yet, and
\* a row to insert into each table; the other one has a second grid to generate and a
\* shot to insert, and everything else is deleted.
Workspace(wide) ==
  LET second == IF wide THEN "live" ELSE "deleted"
      third == IF wide THEN "none" ELSE "deleted"
      parent == IF wide THEN None ELSE d2
  IN
  /\ drama = [d \in Dramas |-> CASE d = d1 -> "live" [] d = d2 -> second [] OTHER -> third]
  /\ episode = [e \in Episodes |->
       CASE e = e1 -> [state |-> "live", drama |-> d1, number |-> 1]
         [] e = e2 -> [state |-> "live", drama |-> d1, number |-> 2]
         [] e = e3 -> [state |-> second, drama |-> d2, number |-> 1]
         [] OTHER -> [state |-> third, drama |-> parent, number |-> IF wide THEN 0 ELSE 2]]
  /\ scene = [s \in Scenes |->
       CASE s = s1 -> [state |-> "live", drama |-> d1, episode |-> e1]
         [] s = s2 -> [state |-> second, drama |-> d2, episode |-> e3]
         [] OTHER -> [state |-> third, drama |-> parent, episode |-> None]]
  /\ character = [p \in Characters |->
       CASE p = p1 -> [state |-> "live", drama |-> d1]
         [] p = p2 -> [state |-> second, drama |-> d2]
         [] OTHER -> [state |-> third, drama |-> parent]]
  /\ shot = [b \in Shots |->
       CASE b = b1 -> [NoShot EXCEPT !.state = "live", !.episode = e1, !.number = 1, !.scene = s1, !.cast = {p1},
                                      !.frames[First] = <<h1, 1, FALSE>>]
         [] b = b2 -> [NoShot EXCEPT !.state = "live", !.episode = e1, !.number = 2,
                                      !.frames[First] = <<h1, 2, FALSE>>]
         [] OTHER -> NoShot]
  /\ req = [c \in Clients |-> Idle]
  /\ begun = 0 /\ late = {} /\ carried = {}
  /\ history = [h \in Histories |->
       IF h = h1
       THEN [NoHistory EXCEPT !.state = "split", !.episode = e1, !.linked = TRUE,
                              !.assigned = <<<<b1, First>>, <<b2, First>>>>]
       ELSE IF wide THEN [NoHistory EXCEPT !.state = "completed", !.episode = e3, !.linked = TRUE]
       ELSE NoHistory]
  /\ image = [h \in Histories |-> IF h = h1 \/ wide THEN "completed" ELSE "none"]
  /\ poller = Away

FromWorkspace == (\E wide \in BOOLEAN : Workspace(wide)) /\ [][Next]_vars

Symmetry == Permutations(Clients)
=============================================================================
