---------------------------- MODULE MCPagination ----------------------------
(* Page sizes: the default, a small one, and one above the maximum. *)
EXTENDS Pagination

MCSize == {0, 1, 9}
=============================================================================
