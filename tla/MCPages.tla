------------------------------ MODULE MCPages ------------------------------
(* Instances of ManagementPage for TLC. *)
EXTENDS PageSafety

AllKinds == SemesterPages \cup FilteredPages \cup GuardedPages
              \cup {"facilities", "semesters", "dashboard"}
TwoRows == {1, 2}
FirstRow == {1}

CONSTANTS s1, s2

\* A page for each row, and room for both rows where rows are ticked.
Sizes == [k \in AllKinds |-> IF k \in BulkPages THEN 2 ELSE 1]

\* A row of each semester, and a row that is still to come.
Starts == {<<s1, s2>>, <<s1, "unborn">>}
=============================================================================
