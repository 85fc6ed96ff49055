----------------------------- MODULE MCTeacherBatch -----------------------------
(* Small instances of TeacherBatch.                                             *)
EXTENDS TeacherBatch

MCQuestions == 1..2

\* Under the smallest ceiling a generation may cost twice what the dry run measured.
MCDearest == [c \in Ceilings |-> IF c < 4 THEN 2 ELSE 1]
==============================================================================
