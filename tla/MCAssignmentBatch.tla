------------------------- MODULE MCAssignmentBatch -------------------------
(* Instances of AssignmentBatch and PointsReading for TLC. *)
EXTENDS PointsReading

CONSTANTS p1, p2, a1, a2, a3, a4

OneProcess == {p1}
TwoProcesses == {p1, p2}
ProcessSymmetry == Permutations(Processes)

\* Canvas's list is in the order of names, not of IDs.
TwoUsers == {1, 2}
ThreeUsers == 3..5
FiveUsers == TwoUsers \cup ThreeUsers
RecordOf == [u \in Users |-> u + 1]
ByName == [u \in Users |->
  CASE u = 3 -> 1 [] u = 1 -> 2 [] u = 5 -> 3 [] u = 2 -> 4 [] u = 4 -> 5]

FourAttachments == {a1, a2, a3, a4}

\* Students 1 and 2 hand in a main.py; the first another file of that filename
\* too, the second notes, which Canvas names only by its display_name.
HandedIn == [s \in Submissions |->
  CASE s = RecordOf[1] -> {a1, a2} [] s = RecordOf[2] -> {a3, a4} [] OTHER -> {}]
CanvasNames == [a \in Attachments |->
  CASE a = a1 -> <<"main.py", "main.py">>
    [] a = a2 -> <<"main.py", "main-1.py">>
    [] a = a3 -> <<"main.py", "main.py">>
    [] a = a4 -> <<None, "notes.txt">>]
Numbered == [a \in Attachments |-> "attachment-1"]
Suffixed == {"q1_points.txt"}
Texts == {"notes.txt", "comments.txt"}
Files == Suffixed \cup Texts \cup {"points.txt", "main.py", "main-1.py", "attachment-1"}
UserDir == {"downloads"}

\* Where files do not matter: nothing is handed in, and the grader writes a
\* points file or none.
NoFile == {}
Nothing == [s \in Submissions |-> {}]
NoNames == [a \in {} |-> <<>>]
ResultFiles == {"points.txt", "comments.txt"}
Comments == {"comments.txt"}
OneFile == {<<<<>>>>}

\* Either files matter: users 1 and 2 are there and stay;
Steady == assigned = TwoUsers

\* or the list does: the others come and go while one process is at work, and
\* nothing is handed in.
Changing ==
  /\ assigned' \subseteq ThreeUsers
  /\ \A p, q \in Processes : p # q => "idle" \in {pc'[p], pc'[q]}
  /\ \A p \in Processes :
       /\ todo'[p] \subseteq Of(ThreeUsers) /\ dir'[p] = p
       /\ \A n \in Names \ {PointsFile} : ws'[p][n] = None

SteadyOrChanging ==
  /\ ReadOrRun /\ (Steady \/ (assigned \subseteq ThreeUsers /\ lines = <<<<>>>>))
  /\ [][\/ /\ Steady /\ UNCHANGED assigned
           /\ RunOn
           /\ \A p \in Processes : todo'[p] \subseteq Of(TwoUsers)
        \/ ~Steady /\ RunOn /\ Changing]_<<vars, lines>>

\* All points files of at most two lines of at most four tokens.
SomeTokens == {1, 2, Word, Slash}
Lines == UNION {[1..n -> SomeTokens] : n \in 0..4}
ShortFiles == {<<line>> : line \in Lines} \cup
  {<<line, other>> : line \in Lines, other \in {<<2>>, <<>>, <<Word, 1, Slash, 2>>, <<Slash>>}}
=============================================================================
