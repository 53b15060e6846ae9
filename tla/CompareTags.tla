----------------------------- MODULE CompareTags -----------------------------
(***************************************************************************)
(* src/scripts/compare_tags.py: the check that every tag used in the      *)
(* Robot Framework suites is documented in a Markdown table.  main()      *)
(* walks the folder (collect_tags), builds each .robot file into a suite  *)
(* and collects its tags recursively (get_suite_tags), then compares them *)
(* with the first cell of every table row of the Markdown file            *)
(* (compare_tags_with_md) and exits 0 or 1.                               *)
(*                                                                         *)
(* collect_tags builds every .robot file on its own, and the suite that  *)
(* TestSuiteBuilder().build(file) returns has tests but no child suites,  *)
(* so a file is the set of its tests, a test the set of its tags.  A file *)
(* is .robot or not and may fail to build.  A line of the Markdown file   *)
(* is kept as whether it starts with "|" and the stripped text of its     *)
(* first cell.                                                            *)
(***************************************************************************)
EXTENDS Integers, FiniteSetsExt

CONSTANTS
  Files,     \* the files os.walk finds under the folder
  MaxLines,  \* bound on the distinct lines of the Markdown file
  Tags,      \* tag names
  Empty,     \* the empty first cell of a row
  MayFail,   \* whether TestSuiteBuilder().build may raise on a file
  None       \* exit code not yet set

VARIABLES
  folder,    \* the inputs: [exists, robot, broken, tests]
  md,        \* the Markdown file: [exists, lines]
  todo,      \* files os.walk has still to yield
  all_tags,  \* the set collect_tags builds
  exit       \* the argument of sys.exit

vars == <<folder, md, todo, all_tags, exit>>

Line == [pipe : BOOLEAN, cell : Tags \cup {Empty}]

Inputs ==
  [exists : BOOLEAN,
   robot  : SUBSET Files,
   broken : IF MayFail THEN SUBSET Files ELSE {{}},
   tests  : [Files -> SUBSET SUBSET Tags]]

\* get_suite_tags(suite) of a file suite: the tags of its tests; the loop
\* over its child suites has nothing to visit
SuiteTags(tests) == UNION tests

\* compare_tags_with_md: the stripped first cell of every line starting
\* with "|", when not empty
ReferenceTags(lines) == {l.cell : l \in {l \in lines : l.pipe /\ l.cell # Empty}}

Init ==
  /\ folder \in Inputs
  /\ md \in [exists : BOOLEAN, lines : UNION {kSubset(k, Line) : k \in 0..MaxLines}]
  /\ todo = Files
  /\ all_tags = {}
  /\ exit = None

\* main: the folder does not exist
NoFolder ==
  /\ exit = None /\ ~folder.exists /\ todo = Files
  /\ exit' = 1
  /\ UNCHANGED <<folder, md, todo, all_tags>>

\* one file of the walk; a failed build is printed and skipped
WalkFile(f) ==
  /\ exit = None /\ folder.exists /\ f \in todo
  /\ todo' = todo \ {f}
  /\ all_tags' =
       IF f \in folder.robot /\ f \notin folder.broken
       THEN all_tags \cup SuiteTags(folder.tests[f])
       ELSE all_tags
  /\ UNCHANGED <<folder, md, exit>>

\* Mutant: main without the check for an empty tag set.
Compare_no_empty_check ==
  /\ exit = None /\ folder.exists /\ todo = {}
  /\ exit' = CASE ~md.exists     -> 1
               [] OTHER          -> IF all_tags \ ReferenceTags(md.lines) # {}
                                    THEN 1 ELSE 0
  /\ UNCHANGED <<folder, md, todo, all_tags>>

\* main after the walk: no tags, a missing Markdown file, or the difference
Compare ==
  /\ exit = None /\ folder.exists /\ todo = {}
  /\ exit' = CASE all_tags = {}  -> 1
               [] ~md.exists     -> 1
               [] OTHER          -> IF all_tags \ ReferenceTags(md.lines) # {}
                                    THEN 1 ELSE 0
  /\ UNCHANGED <<folder, md, todo, all_tags>>

Next == NoFolder \/ Compare \/ \E f \in Files : WalkFile(f)

\* the script ends with sys.exit
Spec == Init /\ [][Next]_vars

-----------------------------------------------------------------------------
\* Reference: every tag of every test of every .robot file in the folder.
UsedTags == {t \in Tags : \E f \in folder.robot : \E test \in folder.tests[f] : t \in test}

(***************************************************************************)
(* The check passes only when every tag used by a test of a .robot file   *)
(* in the folder appears in the Markdown table, and it fails whenever one *)
(* does not: exit code 0 exactly when the folder and the Markdown file    *)
(* exist, some tag is used, and all are documented.                       *)
(***************************************************************************)
GateSound ==
  exit # None =>
    ((exit = 0) <=> /\ folder.exists /\ md.exists /\ UsedTags # {}
                    /\ UsedTags \subseteq ReferenceTags(md.lines))
=============================================================================
