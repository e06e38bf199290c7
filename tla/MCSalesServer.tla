--------------------------- MODULE MCSalesServer ---------------------------
(* Instances of SalesServer for TLC. *)
EXTENDS SalesServer

Sale(number, id, sold, revenue) ==
  [number |-> number, id |-> id, sold |-> sold, revenue |-> revenue]

\* With UintLimit = 4, sums of the first product fit or not, for either field.
SomeSales == {Sale(1, 1, 1, 1), Sale(2, 1, 3, 2), Sale(3, 1, 1, 3), Sale(4, 2, 2, 0)}
=============================================================================
