------------------------------ MODULE MCSkills ------------------------------
(* Two directories, three names one of which is disabled, three runs and a  *)
(* message of each kind, a listing among them.                              *)
EXTENDS Skills, TLC

CONSTANTS r1, r2, r3

MCNames == 1..3

Scored(s1, s2, s3) == [n \in MCNames |-> CASE n = 1 -> s1 [] n = 2 -> s2 [] n = 3 -> s3]
Ask(explicit, score) == [explicit |-> explicit, score |-> score, listing |-> FALSE]

MCMessages ==
  {Ask(<<>>, Scored(1, 2, 2)), Ask(<<2, 1>>, Scored(0, 0, 0)), Ask(<<3>>, Scored(2, 0, 0)),
   [Ask(<<>>, Scored(0, 0, 0)) EXCEPT !.listing = TRUE]}

File(n) == [there |-> TRUE, name |-> n]
MCFiles == {Gone, Broken, File(1), File(2), File(3)}
MCDirName(d) == d
MCFirst(d) == File(IF d = 1 THEN 2 ELSE 1)

\* Three runs with one edit, or two with two.
Scenario == MapThenSumSet(Version, DirSet) <= Dirs + 1 \/ \E r \in Runs : pc[r] = "idle"

RunSymmetry == Permutations({r1, r2, r3})
=============================================================================
