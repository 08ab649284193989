---------------------------- MODULE MCPaginator ----------------------------
(* A small instance of Paginator for TLC. *)
EXTENDS Paginator

\* A client may start before or after the first page, or name no page.
SomePages == {-1, 0, 1, 2}

\* Nothing keeps it from asking for a negative number of rows.
SomeSizes == {-2, 0, 1, 2}

=============================================================================
