--------------------------- MODULE ResultCollector ---------------------------
(***************************************************************************)
(* ResultCollector.collect as operators: which of the files in a workspace *)
(* are taken for the grader's results, and what a points file is worth.    *)
(*                                                                         *)
(* Names matter by what the globs make of them, a line of a points file by *)
(* its numbers, its slashes and that there is something else on it.  A     *)
(* number is an integer here: the code adds floats and the order in which  *)
(* it does is the order of the file.                                       *)
(***************************************************************************)
EXTENDS Integers, Sequences, FiniteSets, SequencesExt

CONSTANTS
  PointsSuffixed,   \* names that match *_points.txt
  OtherText,        \* names that match *.txt, but neither that nor the two below
  Word,             \* anything on a line that is neither a number nor a slash
  Slash,
  NoScore           \* of a file with a line without a number

PointsFile == "points.txt"
CommentsFile == "comments.txt"

ASSUME NamesAssumption ==
  /\ PointsSuffixed \cap OtherText = {}
  /\ PointsFile \notin PointsSuffixed \cup OtherText
  /\ CommentsFile \in OtherText
ASSUME TokensAssumption == Word # Slash /\ {Word, Slash, NoScore} \cap Int = {}

\* _find_points_file: any match of *_points.txt, and points.txt without one.
PointsFiles(present) ==
  IF present \cap PointsSuffixed # {} THEN present \cap PointsSuffixed
                                      ELSE present \cap {PointsFile}

\* _find_comments_file, without a name for the submission directory: any
\* other text file.
CommentsFiles(present) == present \cap OtherText

------------------------------------------------------------------------------
(* _parse_points_file *)

IsNumber(token) == token \notin {Word, Slash}

\* Where the numbers of a line are, and those in line.split("/")[0].
Numbers(line) == {i \in DOMAIN line : IsNumber(line[i])}
BeforeSlash(line) == {i \in Numbers(line) : \A j \in 1..i : line[j] # Slash}

Total(numbers) == FoldLeft(+, 0, numbers)
NumbersTotal(line) == Total([i \in DOMAIN line |-> IF IsNumber(line[i]) THEN line[i] ELSE 0])

\* A line the code raises ValueError for.
Unscored(line) == line # <<>> /\ Numbers(line) = {}

\* Mutant: a fraction is not recognised.
LinePoints_NoFraction(line) == IF line = <<>> THEN 0 ELSE NumbersTotal(line)

\* _sum_numbers_from_line: nothing is 0, a fraction is its numerator, and a
\* slash without a number before it is ignored.
LinePoints(line) ==
  IF line = <<>> THEN 0
  ELSE IF Slash \in ToSet(line) /\ BeforeSlash(line) # {} THEN line[Min(BeforeSlash(line))]
  ELSE NumbersTotal(line)

\* A file of lines: ValueError on the first line without a number.
FilePoints(lines) ==
  IF \E i \in DOMAIN lines : Unscored(lines[i]) THEN NoScore
  ELSE Total([i \in DOMAIN lines |-> LinePoints(lines[i])])

------------------------------------------------------------------------------
(* What a points file is meant to be worth *)

\* The score a line states: "17", "Score: 17 points", "Total: 17/20", "5 6 6".
Scores(line) ==
  IF Slash \in ToSet(line)
  THEN {line[i] : i \in {j \in Numbers(line) : \A k \in 1..(j - 1) : line[k] = Word}}
  ELSE {NumbersTotal(line)}

\* A line whose slash, if any, has one number before it, and only text.
StatesScore(line) ==
  \/ line = <<>>
  \/ /\ Numbers(line) # {}
     /\ Slash \in ToSet(line) => \E i \in DOMAIN line : BeforeSlash(line) = {i}

\* A points file with "one numeric score per line", in any of the forms the
\* tests call supported, is worth the sum of its scores: what stands beside a
\* score, the maximum after a slash included, adds nothing.
PointsAreTheScores(files) ==
  \A lines \in files :
    (\A i \in DOMAIN lines : StatesScore(lines[i]))
      => FilePoints(lines) = Total([i \in DOMAIN lines |->
           IF lines[i] = <<>> THEN 0 ELSE CHOOSE x \in Scores(lines[i]) : TRUE])
=============================================================================
