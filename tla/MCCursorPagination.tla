------------------------- MODULE MCCursorPagination -------------------------
(* Instances of CursorPagination: movies ordered by id and likeCount. *)
EXTENDS CursorPagination

By(c, d) == [column |-> c, direction |-> d]

\* The default order, and orders by likeCount with and without the id.
SomeOrders == {<<By("id", "DESC")>>,
               <<By("id", "ASC"), By("likeCount", "DESC")>>,
               <<By("likeCount", "DESC"), By("id", "ASC")>>,
               <<By("likeCount", "ASC")>>}
=============================================================================
