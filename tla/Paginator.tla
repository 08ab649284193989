------------------------------ MODULE Paginator ------------------------------
(***************************************************************************)
(* GET /upload and GET /upload/receipt: a client that walks through the    *)
(* pages by following meta.next (src/src/common/utils/paginator.ts and     *)
(* UploadService.getUploadRequests, getReceipts) while rows are inserted.  *)
(* The count and the page are two queries that run concurrently.           *)
(*                                                                         *)
(* A row is the number of its insertion; the newest comes first, and no    *)
(* two rows are created in the same millisecond. Rows are never deleted.   *)
(* Neither page nor limit is validated: a client may name any integer (one *)
(* that is no whole number is refused by the database and left out).       *)
(***************************************************************************)
EXTENDS Integers

CONSTANTS
    MaxRows,     \* bound on the rows
    FirstPages,  \* page numbers a client may start with: 0 stands for none
    PerPages,    \* page sizes a client may ask for: 0 stands for none
    NoPage       \* null

ASSUME PaginatorAssumption == /\ MaxRows \in Nat
                              /\ FirstPages \subseteq Int
                              /\ PerPages \subseteq Int
                              /\ NoPage \notin Int

VARIABLES
    size,     \* rows in the table
    older,    \* rows that were there when the walk began
    first,    \* the page it began with
    page,     \* the page the client asks for next
    perPage,  \* the page size it asks for
    total,    \* what the count returned, or -1 before that
    found,    \* rows the page query returned
    read,     \* did it return yet
    seen,     \* rows the client has seen
    grown,    \* a row was inserted between the count and the page of this request
    pc        \* "query", or how the walk ended: "done", or "refused" by the database

vars == <<size, older, first, page, perPage, total, found, read, seen, grown, pc>>

DefaultPerPage == 3

\* Mutant: the page of the query string, which is no number, is not used.
Page_Default(p) == 1

\* Number(options.page || default) || 1: zero and what is no number give 1.
Page(p) == IF p = 0 THEN 1 ELSE p

PerPage(n) == IF n = 0 THEN DefaultPerPage ELSE n

\* Rows to leave out; a page before the first is the first.
Skip(p, n) == IF p > 0 THEN n * (p - 1) ELSE 0

\* The rows findMany returns: skip newest ones, then take n. A negative n takes them
\* from the other end, where the oldest row is.
Taken(s, skip, n) == IF n > 0 THEN {r \in 1 .. s : r <= s - skip /\ r > s - skip - n}
                     ELSE {r \in 1 .. s : r > skip /\ r <= skip - n}

\* Mutant: Math.floor.
LastPage_Floor(t, n) == IF n > 0 THEN t \div n ELSE -((t - n - 1) \div (-n))

\* Math.ceil(t / n)
LastPage(t, n) == IF n > 0 THEN (t + n - 1) \div n ELSE -(t \div (-n))

\* meta.next
NextPage(p, last) == IF p < last THEN p + 1 ELSE NoPage

PageTypeOK ==
    /\ size \in 0 .. MaxRows
    /\ older \in 0 .. size
    /\ first \in FirstPages
    /\ page \in Int
    /\ perPage \in PerPages
    /\ total \in -1 .. size
    /\ found \subseteq 1 .. size
    /\ seen \subseteq 1 .. size
    /\ {read, grown} \subseteq BOOLEAN
    /\ pc \in {"query", "done", "refused"}

Init ==
    /\ size \in 0 .. MaxRows
    /\ older = size
    /\ first \in FirstPages
    /\ page = first
    /\ perPage \in PerPages
    /\ total = -1
    /\ found = {}
    /\ read = FALSE
    /\ seen = {}
    /\ grown = FALSE
    /\ pc = "query"

-----------------------------------------------------------------------------

\* model.count
CountRows ==
    /\ pc = "query" /\ total = -1
    /\ total' = size
    /\ UNCHANGED <<size, older, first, page, perPage, found, read, seen, grown, pc>>

\* model.findMany, which refuses to leave out less than nothing: then the request
\* fails, whatever the count returns.
FindRows ==
    LET n == PerPage(perPage)
        skip == Skip(Page(page), n)
    IN  /\ pc = "query" /\ ~read
        /\ IF skip >= 0 THEN found' = Taken(size, skip, n) /\ read' = TRUE /\ UNCHANGED pc
                        ELSE pc' = "refused" /\ UNCHANGED <<found, read>>
        /\ UNCHANGED <<size, older, first, page, perPage, total, seen, grown>>

\* Both queries are back; the client asks for meta.next until it is null.
Answer ==
    LET next == NextPage(Page(page), LastPage(total, PerPage(perPage)))
    IN  /\ pc = "query" /\ total # -1 /\ read
        /\ seen' = seen \union found
        /\ IF next = NoPage
             THEN pc' = "done" /\ UNCHANGED <<page, total, found, read, grown>>
             ELSE /\ page' = next
                  /\ total' = -1 /\ found' = {} /\ read' = FALSE /\ grown' = FALSE
                  /\ UNCHANGED pc
        /\ UNCHANGED <<size, older, first, perPage>>

\* Somebody creates an upload or a receipt.
InsertRow ==
    /\ pc = "query" /\ size < MaxRows
    /\ size' = size + 1
    /\ grown' = (grown \/ (total # -1 /\ ~read))
    /\ UNCHANGED <<older, first, page, perPage, total, found, read, seen, pc>>

Next == CountRows \/ FindRows \/ Answer \/ InsertRow

Spec == Init /\ [][Next]_vars

\* The database answers.
FairSpec == Spec /\ WF_vars(CountRows \/ FindRows \/ Answer)

-----------------------------------------------------------------------------
(* Properties.                                                             *)

\* A walk through pages of a positive size that begins no later than the first.
Ordinary == first <= 1 /\ perPage >= 0

\* Such a walk sees every row that was there when it began, whatever is inserted on
\* the way, unless a row was inserted between the count and the page of its last
\* request: then meta.next is null too early (paginator.ts:18-41).
WalkSeesOlderRows == (pc = "done" /\ Ordinary /\ ~grown) => 1 .. older \subseteq seen

\* A walk ends once rows are no longer inserted faster than it reads, also one with a
\* page size the database refuses or reads from the end (paginator.ts:18-41).
WalkEnds == <>(pc # "query")

=============================================================================
