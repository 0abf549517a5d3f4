--------------------------- MODULE MCHnswBuilder ---------------------------
(* Points on a line and their squared distances, for checking HnswBuilder. *)
EXTENDS HnswBuilder

Line == {0, 1, 3, 7}
SquaredDistance == [p \in Line \X Line |-> (p[1] - p[2]) * (p[1] - p[2])]

(* Four records: sorted, from both ends, two pairs of equals, all equal... *)
Records(s) == [n \in Node |-> s[n + 1]]
FourRecords ==
  {Records(s) : s \in {<<0, 1, 3, 7>>, <<7, 0, 1, 3>>, <<1, 3, 0, 3>>,
                       <<0, 0, 3, 3>>, <<3, 0, 7, 1>>, <<1, 1, 1, 1>>}}

(***************************************************************************)
(* Points of a plane, no two distances equal: the last record is nearest   *)
(* to <<0, 0>>, which has two nearer neighbours in other directions.       *)
(***************************************************************************)
Plane == {<<0, 0>>, <<1, 0>>, <<0, 2>>, <<-3, 0>>}
PlaneDistance ==
  [p \in Plane \X Plane |->
     (p[1][1] - p[2][1]) * (p[1][1] - p[2][1]) + (p[1][2] - p[2][2]) * (p[1][2] - p[2][2])]
Outlier == {Records(<< <<0, 0>>, <<1, 0>>, <<0, 2>>, <<-3, 0>> >>)}

TwoRecords == {Records(<<0, 1>>)}
=============================================================================
