--------------------------- MODULE MCCourseSetup ---------------------------
(* Instances of CourseListing, and with it of CourseSetup, for TLC. *)
EXTENDS CourseListing

CONSTANTS s1, s2, r1

TwoSetups == {s1, s2}
OneFlow == {r1}
TwoFiles == {"grader.py", "data.csv"}
TwoRoots == {"hw1", "hw2"}

\* The prefix of assignment 12 begins with that of assignment 1.
Numbers == {1, 12}
PrefixOf == [a \in Numbers |-> IF a = 1 THEN {1, 12} ELSE {12}]

\* Both assignments, one of them (mapped twice, and with a mapping that cannot
\* be parsed), the other.
GivenMappings == {
  <<<<1, "hw1">>, <<12, "hw2">>>>,
  <<<<1, "hw2">>, Invalid, <<1, "hw1">>>>,
  <<<<12, "hw1">>>>}

\* A work package of two assets beside one of one, an empty one beside none.
OnDisk == {
  [w \in TwoRoots |-> IF w = "hw1" THEN TwoFiles ELSE {"grader.py"}],
  [w \in TwoRoots |-> IF w = "hw1" THEN {} ELSE Missing]}

\* A page exactly full without the course's own block, two pages with it.
Blocks == <<Anonymous, "ccc-course-1", "ccc-course-2">>

SetupSymmetry == Permutations(Setups)

\* A flow run that was downloading when its course's block was deleted is not
\* followed further. Nothing is promised of it, and it changes nothing that the
\* setups or the listing read: they do the same beside a flow run that is idle.
Followed == disturbed = {}

\* Nor is anything once the listing has ended: it changes nothing, and the others
\* do the same where it has not begun.
NotListed == lpc \notin {"done", "failed"}
=============================================================================
