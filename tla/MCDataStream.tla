---------------------------- MODULE MCDataStream ----------------------------
(* A new file, and files found on the disk that reach behind the first     *)
(* array of the double indirect range.                                     *)
EXTENDS DataStream

Empty == [lengths |-> <<>>, double |-> 0, gap |-> 0, others |-> {}]
Long(n) == [lengths |-> <<1, 1, 1, 1, 1>>, double |-> n, gap |-> 0, others |-> {}]

\* The new file is on a fragmented volume.
SomeLayouts == {[Empty EXCEPT !.others = {3, 5, 7, 13, 23}], Long(5)}

=============================================================================
