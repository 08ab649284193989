-------------------------- MODULE PaginatorProofs --------------------------
(***************************************************************************)
(* Theorems about Paginator, for any number of rows, any pages and page    *)
(* sizes a client may name and any interleaving of the count, the page and *)
(* the inserts.                                                            *)
(***************************************************************************)
EXTENDS Paginator, TLAPS

-----------------------------------------------------------------------------
(* The arithmetic of pages.                                                *)

\* The quotient that meta.lastPage is: enough pages for the rows, and not one more.
LEMMA LastPageBounds ==
    ASSUME NEW t \in Nat, NEW n \in Nat \ {0}
    PROVE  /\ LastPage(t, n) \in Nat
           /\ n * LastPage(t, n) >= t
           /\ n * (LastPage(t, n) - 1) < t
<1> DEFINE last == LastPage(t, n)
<1>1. last \in Int /\ last * n <= t + n - 1 /\ t + n - 1 < last * n + n
  BY DEF LastPage
<1>2. n * last = last * n /\ n * (last - 1) = last * n - n
  BY <1>1
<1>3. last >= 0
  <2>1. CASE last < 0
    <3>1. last * n <= -1 * n
      BY <1>1, <2>1
    <3>2. QED BY <1>1, <3>1
  <2>2. QED BY <1>1, <2>1
<1>4. QED BY <1>1, <1>2, <1>3

\* The page after p leaves out at most what p leaves out and returns.
LEMMA SkipGrows ==
    ASSUME NEW p \in Int, p # 0, NEW n \in Nat \ {0}
    PROVE  /\ Skip(p, n) \in Nat /\ Skip(Page(p + 1), n) \in Nat
           /\ Skip(Page(p + 1), n) <= Skip(p, n) + n
<1>1. CASE p > 0
  <2>1. n * (p - 1) \in Nat /\ n * p \in Nat /\ n * p = n * (p - 1) + n
    BY <1>1
  <2>2. Skip(p, n) = n * (p - 1) /\ Skip(Page(p + 1), n) = n * p
    BY <1>1 DEF Skip, Page
  <2>3. QED BY <2>1, <2>2
<1>2. CASE p < 0
  BY <1>2 DEF Skip, Page
<1>3. QED BY <1>1, <1>2

\* The last page leaves nothing behind it.
LEMMA LastPageReaches ==
    ASSUME NEW t \in Nat, NEW n \in Nat \ {0}, NEW p \in Int, p # 0, p >= LastPage(t, n)
    PROVE  Skip(p, n) + n >= t
<1> DEFINE last == LastPage(t, n)
<1>1. last \in Nat /\ n * last >= t
  BY LastPageBounds
<1>2. p > 0 /\ n * p >= n * last
  BY <1>1
<1>3. n * (p - 1) + n = n * p /\ n * last \in Int /\ n * p \in Int
  BY <1>1
<1>4. QED BY <1>1, <1>2, <1>3 DEF Skip

\* A page that is not the last is followed by one that is not empty.
LEMMA NextPageExists ==
    ASSUME NEW t \in Nat, NEW n \in Nat \ {0}, NEW p \in Int, p # 0, p < LastPage(t, n),
           Page(p + 1) > 1
    PROVE  Skip(Page(p + 1), n) < t
<1> DEFINE last == LastPage(t, n)
<1>1. last \in Nat /\ n * (last - 1) < t
  BY LastPageBounds
<1>2. p > 0 /\ Page(p + 1) = p + 1
  BY DEF Page
<1>3. n * p <= n * (last - 1) /\ n * p \in Int /\ n * (last - 1) \in Int
  BY <1>1, <1>2
<1>4. QED BY <1>1, <1>2, <1>3 DEF Skip

-----------------------------------------------------------------------------
(* The inductive invariant.                                                *)

\* The page the server reads, and how many rows it takes for it.
Here == Page(page)
Take == PerPage(perPage)

\* The rows there were when the walk began that are newer than row k.
Newer(k) == {r \in 1 .. older : r > k}

\* What the client has seen by the time it asks for a page is everything the page
\* leaves out: an insert only moves those rows to later pages. What the two queries
\* find is judged by the size the table has now, and by the count if nothing was
\* inserted between the two.
WalkKnows ==
    pc = "query" /\ Ordinary =>
        /\ Newer(size - Skip(Here, Take)) \subseteq seen
        /\ read => Newer(size - Skip(Here, Take) - Take) \subseteq seen \union found
        /\ read /\ total # -1 /\ ~grown
             => Newer(total - Skip(Here, Take) - Take) \subseteq seen \union found
        /\ ~read /\ total # -1 /\ ~grown => total = size

\* A page after the first is asked for because there are rows for it.
PageExists ==
    pc = "query" /\ Ordinary /\ Here > 1
        => /\ Skip(Here, Take) < size
           /\ read => found # {}

WalkInv == PageTypeOK /\ WalkKnows /\ PageExists /\ WalkSeesOlderRows

LEMMA PageShape ==
    ASSUME PageTypeOK
    PROVE  /\ size \in Nat /\ older \in Nat /\ older <= size
           /\ Take \in Int /\ Here \in Int /\ Here # 0
           /\ Ordinary => Take \in Nat \ {0} /\ Skip(Here, Take) \in Nat
<1>1. size \in Nat /\ older \in Nat /\ older <= size
  BY PaginatorAssumption DEF PageTypeOK
<1>2. /\ Take \in Int /\ Here \in Int /\ Here # 0
      /\ Ordinary => Take \in Nat \ {0}
  BY PaginatorAssumption DEF PageTypeOK, Take, Here, PerPage, Page, DefaultPerPage, Ordinary
<1>3. QED BY <1>1, <1>2, SkipGrows

LEMMA WalkInit == Init => WalkInv
<1> SUFFICES ASSUME Init PROVE WalkInv
  OBVIOUS
<1>1. PageTypeOK
  <2>1. /\ size \in 0 .. MaxRows /\ older \in 0 .. size /\ total \in -1 .. size
        /\ page \in Int /\ first \in FirstPages /\ perPage \in PerPages
    BY PaginatorAssumption DEF Init
  <2>2. {read, grown} \subseteq BOOLEAN
    BY DEF Init
  <2>3. QED BY <2>1, <2>2 DEF Init, PageTypeOK
<1>2. Ordinary => Skip(Here, Take) = 0 /\ Here <= 1
  <2> SUFFICES ASSUME Ordinary PROVE Skip(Here, Take) = 0 /\ Here <= 1
    OBVIOUS
  <2>1. page \in Int /\ page <= 1
    BY PaginatorAssumption DEF Init, Ordinary
  <2>2. Here <= 1 /\ Here \in Int
    BY <2>1 DEF Here, Page
  <2>3. Here > 0 => Take * (Here - 1) = 0
    BY <1>1, <2>2, PageShape
  <2>4. QED BY <2>2, <2>3 DEF Skip
<1>3. Ordinary => Newer(size - Skip(Here, Take)) = {}
  BY <1>1, <1>2, PageShape DEF Init, Newer
<1>4. WalkKnows
  BY <1>3 DEF Init, WalkKnows
<1>5. PageExists /\ WalkSeesOlderRows
  BY <1>1, <1>2, PageShape DEF Init, PageExists, WalkSeesOlderRows
<1>6. QED BY <1>1, <1>4, <1>5 DEF WalkInv

\* Every step keeps the types, whatever page and page size the client asks for.
LEMMA PageTypeStep ==
    ASSUME PageTypeOK, Next
    PROVE  PageTypeOK'
<1>1. size \in Nat /\ MaxRows \in Nat /\ Here \in Int
  BY PageShape, PaginatorAssumption
<1>2. CASE CountRows
  BY <1>1, <1>2 DEF CountRows, PageTypeOK
<1>3. CASE FindRows
  <2>1. found' \subseteq 1 .. size
    BY <1>3 DEF FindRows, Taken, PageTypeOK
  <2>2. QED BY <1>3, <2>1 DEF FindRows, PageTypeOK
<1>4. CASE Answer
  <2>1. UNCHANGED <<size, older, first, perPage>> /\ seen' = seen \union found
    BY <1>4 DEF Answer
  <2>2. \/ pc' = "done" /\ UNCHANGED <<page, total, found, read, grown>>
        \/ /\ page' = Here + 1 /\ total' = -1 /\ found' = {} /\ read' = FALSE /\ grown' = FALSE
           /\ pc' = pc
    BY <1>4 DEF Answer, NextPage, Here
  <2>3. page' \in Int /\ total' \in -1 .. size'
    BY <1>1, <2>1, <2>2 DEF PageTypeOK
  <2>4. {read', grown'} \subseteq BOOLEAN
    BY <2>2 DEF PageTypeOK
  <2>5. found' \subseteq 1 .. size' /\ seen' \subseteq 1 .. size' /\ pc' \in {"query", "done", "refused"}
    BY <2>1, <2>2 DEF PageTypeOK
  <2>6. QED BY <2>1, <2>3, <2>4, <2>5 DEF PageTypeOK
<1>5. CASE InsertRow
  <2>1. {read', grown'} \subseteq BOOLEAN
    BY <1>5 DEF InsertRow, PageTypeOK
  <2>2. QED BY <1>1, <1>5, <2>1 DEF InsertRow, PageTypeOK
<1>6. QED BY <1>2, <1>3, <1>4, <1>5 DEF Next

\* What the steps of an ordinary walk keep.
LEMMA CountStep == ASSUME WalkInv, Ordinary, CountRows PROVE WalkKnows' /\ PageExists' /\ WalkSeesOlderRows'
<1>1. /\ UNCHANGED <<size, older, found, read, seen, grown, pc, Here, Take>>
      /\ Ordinary' /\ total' = size /\ size \in Nat /\ pc = "query"
  BY PageShape DEF CountRows, Here, Take, Ordinary, WalkInv
<1>2. WalkKnows'
  BY <1>1 DEF WalkInv, WalkKnows, Newer
<1>3. PageExists' /\ WalkSeesOlderRows'
  BY <1>1 DEF WalkInv, PageExists, WalkSeesOlderRows
<1>4. QED BY <1>2, <1>3

LEMMA FindStep == ASSUME WalkInv, Ordinary, FindRows PROVE WalkKnows' /\ PageExists' /\ WalkSeesOlderRows'
<1> DEFINE left == size - Skip(Here, Take)
<1>1. /\ size \in Nat /\ older \in Nat /\ older <= size
      /\ Skip(Here, Take) \in Nat /\ Take \in Nat \ {0} /\ left \in Int
  BY PageShape DEF WalkInv
<1>2. /\ UNCHANGED <<size, older, total, seen, grown, pc, Here, Take>>
      /\ Ordinary' /\ pc = "query" /\ ~read /\ read' = TRUE
      /\ found' = {r \in 1 .. size : r <= left /\ r > left - Take}
  BY <1>1 DEF FindRows, Taken, Here, Take, Ordinary
<1>3. Newer(left) \subseteq seen
  BY <1>2 DEF WalkInv, WalkKnows
<1>4. Newer(left - Take) \subseteq seen' \union found'
  <2> SUFFICES ASSUME NEW r \in 1 .. older, r > left - Take, r \notin seen
               PROVE  r \in found'
    BY <1>2 DEF Newer
  <2>1. r <= left
    BY <1>1, <1>3 DEF Newer
  <2>2. QED BY <1>1, <1>2, <2>1
<1>5. WalkKnows'
  BY <1>2, <1>3, <1>4 DEF WalkInv, WalkKnows, Newer
<1>6. PageExists'
  <2>1. Here > 1 => left \in found'
    BY <1>1, <1>2 DEF WalkInv, PageExists
  <2>2. QED BY <1>2, <2>1 DEF WalkInv, PageExists
<1>7. QED
  BY <1>2, <1>5, <1>6 DEF WalkInv, WalkSeesOlderRows

\* The walk is over when the page it is at reaches behind the rows that were counted.
LEMMA AnswerStep == ASSUME WalkInv, Ordinary, Answer PROVE WalkKnows' /\ PageExists' /\ WalkSeesOlderRows'
<1> DEFINE last == LastPage(total, Take)
           next == NextPage(Here, last)
           skip == Skip(Here, Take)
<1>1. /\ UNCHANGED <<size, older, first, perPage, Take>>
      /\ Ordinary' /\ pc = "query" /\ total # -1 /\ read
      /\ seen' = seen \union found
  BY DEF Answer, Take, Ordinary
<1>2. /\ size \in Nat /\ older \in Nat /\ older <= size
      /\ Here \in Int /\ Here # 0 /\ skip \in Nat /\ Take \in Nat \ {0}
      /\ total \in Nat /\ total <= size /\ last \in Nat
  BY <1>1, PageShape, LastPageBounds DEF WalkInv, PageTypeOK
<1>3. Newer(size - skip - Take) \subseteq seen'
  BY <1>1 DEF WalkInv, WalkKnows
<1>4. CASE Here < last
  <2>1. next = Here + 1 /\ next # NoPage
    BY <1>2, <1>4, PaginatorAssumption DEF NextPage
  <2>2. /\ page' = Here + 1 /\ read' = FALSE /\ total' = -1 /\ found' = {} /\ grown' = FALSE
        /\ pc' = pc
    BY <2>1 DEF Answer, Here, Take
  <2>3. Here' = Page(Here + 1)
    BY <2>2 DEF Here
  <2>4. Skip(Page(Here + 1), Take) \in Nat /\ Skip(Page(Here + 1), Take) <= skip + Take
    BY <1>2, SkipGrows
  <2>5. Newer(size - Skip(Page(Here + 1), Take)) \subseteq seen'
    BY <1>2, <1>3, <2>4 DEF Newer
  <2>6. WalkKnows'
    BY <1>1, <2>2, <2>3, <2>5 DEF WalkKnows, Newer
  <2>7. PageExists'
    <3>1. Page(Here + 1) > 1 => Skip(Page(Here + 1), Take) < total
      BY <1>2, <1>4, NextPageExists
    <3>2. QED BY <1>1, <1>2, <2>2, <2>3, <2>4, <3>1 DEF PageExists
  <2>8. QED BY <1>1, <2>2, <2>6, <2>7 DEF WalkSeesOlderRows
<1>5. CASE ~(Here < last)
  <2>1. pc' = "done" /\ UNCHANGED <<page, total, found, read, grown>>
    BY <1>5 DEF Answer, NextPage, Here, Take
  <2>2. skip + Take >= total
    BY <1>2, <1>5, LastPageReaches
  <2>3. WalkSeesOlderRows'
    <3> SUFFICES ASSUME ~grown, NEW r \in 1 .. older PROVE r \in seen'
      BY <1>1, <2>1 DEF WalkSeesOlderRows
    <3>1. r > total - skip - Take
      BY <1>2, <2>2
    <3>2. QED BY <1>1, <3>1 DEF WalkInv, WalkKnows, Newer
  <2>4. QED BY <2>1, <2>3 DEF WalkKnows, PageExists
<1>6. QED BY <1>4, <1>5

LEMMA InsertStep == ASSUME WalkInv, Ordinary, InsertRow PROVE WalkKnows' /\ PageExists' /\ WalkSeesOlderRows'
<1>1. /\ UNCHANGED <<older, first, perPage, total, found, read, seen, pc, page, Here, Take>>
      /\ Ordinary' /\ pc = "query" /\ size' = size + 1
      /\ grown' = (grown \/ (total # -1 /\ ~read))
  BY DEF InsertRow, Here, Take, Ordinary
<1>2. /\ size \in Nat /\ older \in Nat /\ older <= size
      /\ Skip(Here, Take) \in Nat /\ Take \in Nat \ {0}
  BY PageShape DEF WalkInv
<1>3. WalkKnows'
  <2>1. /\ Newer(size' - Skip(Here, Take)) \subseteq Newer(size - Skip(Here, Take))
        /\ Newer(size' - Skip(Here, Take) - Take) \subseteq Newer(size - Skip(Here, Take) - Take)
    BY <1>1, <1>2 DEF Newer
  <2>2. ~read /\ total # -1 => grown'
    BY <1>1
  <2>3. ~grown' => ~grown
    BY <1>1
  <2>4. QED BY <1>1, <2>1, <2>2, <2>3 DEF WalkInv, WalkKnows, Newer
<1>4. PageExists'
  BY <1>1, <1>2 DEF WalkInv, PageExists
<1>5. QED
  BY <1>1, <1>3, <1>4 DEF WalkInv, WalkSeesOlderRows

LEMMA WalkInvHolds == Spec => []WalkInv
<1>1. WalkInv /\ UNCHANGED vars => WalkInv'
  BY DEF WalkInv, PageTypeOK, WalkKnows, PageExists, WalkSeesOlderRows, Ordinary, Here, Take, Newer, vars
<1>2. WalkInv /\ Next => WalkInv'
  <2> SUFFICES ASSUME WalkInv, Next PROVE WalkInv'
    OBVIOUS
  <2>1. PageTypeOK'
    BY PageTypeStep DEF WalkInv
  <2>2. Ordinary' <=> Ordinary
    BY DEF Next, CountRows, FindRows, Answer, InsertRow, Ordinary
  <2>3. WalkKnows' /\ PageExists' /\ WalkSeesOlderRows'
    <3>1. CASE Ordinary
      BY <3>1, CountStep, FindStep, AnswerStep, InsertStep DEF Next
    <3>2. CASE ~Ordinary
      BY <2>2, <3>2 DEF WalkKnows, PageExists, WalkSeesOlderRows
    <3>3. QED BY <3>1, <3>2
  <2>4. QED BY <2>1, <2>3 DEF WalkInv
<1>3. QED BY WalkInit, <1>1, <1>2, PTL DEF Spec

-----------------------------------------------------------------------------

\* A client that asks for pages of a positive size, or names none, and follows
\* meta.next from the first page, or from before it, has seen
\* every row there was when it began, although rows are inserted all the while: only
\* one inserted between the count and the page of the last request may cost it some.
THEOREM WalkSeesOlderRowsHolds == Spec => []WalkSeesOlderRows
<1>1. WalkInv => WalkSeesOlderRows
  BY DEF WalkInv
<1>2. QED BY <1>1, WalkInvHolds, PTL

\* On such a walk meta.next never leads to a page without rows.
THEOREM PagesExist == Spec => []PageExists
<1>1. WalkInv => PageExists
  BY DEF WalkInv
<1>2. QED BY <1>1, WalkInvHolds, PTL

=============================================================================
