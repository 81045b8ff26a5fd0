------------------------------ MODULE UserList ------------------------------
(***************************************************************************)
(* GET /users, page by page, while users register.  The handler reads the  *)
(* rows of a page and the number of users in two queries of one            *)
(* Promise.all, which the database answers in either order.  A client asks *)
(* for page after page until it has had totalPages of them.                *)
(***************************************************************************)
EXTENDS Integers, Sequences, SequencesExt

CONSTANTS MaxUsers,    \* bound on users
          PageSizes    \* the sizes a client asks for

ASSUME UserListAssumption == MaxUsers \in Nat /\ PageSizes \subseteq Nat

VARIABLES list,   \* the users that match the query, in the order of the query
          walk    \* what the client has asked for and seen

listVars == <<list, walk>>

PaginationDefaults == [page |-> 1, pageSize |-> 25, minPageSize |-> 1, maxPageSize |-> 100]

Smaller(a, b) == IF a < b THEN a ELSE b

Larger(a, b) == IF a < b THEN b ELSE a

NormalizePagination(page, pageSize) ==
  LET p == Larger(1, page)
      size == Smaller(PaginationDefaults.maxPageSize, Larger(PaginationDefaults.minPageSize, pageSize))
  IN [page |-> p, pageSize |-> size, skip |-> (p - 1) * size, take |-> size]

NormalizeCursor(limit) ==
  Smaller(PaginationDefaults.maxPageSize, Larger(PaginationDefaults.minPageSize, limit))

TotalPagesFloor(total, pageSize) == total \div pageSize   \* mutant

TotalPages(total, pageSize) == (total + pageSize - 1) \div pageSize

(* findMany with skip and take. *)
Rows(all, p) == ToSet(SubSeq(all, p.skip + 1, Smaller(p.skip + p.take, Len(all))))

(* By createdAt, newest or oldest first, or by a column without a tie.     *)
Orders == {"createdAt_desc", "createdAt_asc", "email_asc"}

Unread == [rows |-> {}, total |-> 0, read |-> {}]

UserListInit ==
  /\ \E n \in 0 .. MaxUsers, order \in Orders, size \in PageSizes :
       /\ list = [i \in 1 .. n |-> IF order = "createdAt_desc" THEN n + 1 - i ELSE i]
       /\ walk = [order |-> order, size |-> size, page |-> 1, had |-> 1 .. n, seen |-> {},
                  done |-> FALSE, atRows |-> 0, answer |-> Unread]

Register ==
  /\ Len(list) < MaxUsers
  /\ \E i \in CASE walk.order = "createdAt_desc" -> {1}
                [] walk.order = "createdAt_asc" -> {Len(list) + 1}
                [] walk.order = "email_asc" -> 1 .. Len(list) + 1 :
       list' = InsertAt(list, i, Len(list) + 1)
  /\ UNCHANGED walk

ReadRows ==
  /\ ~walk.done /\ "rows" \notin walk.answer.read
  /\ walk' = [walk EXCEPT !.answer.rows = Rows(list, NormalizePagination(walk.page, walk.size)),
                          !.answer.read = @ \union {"rows"}, !.atRows = Len(list)]
  /\ UNCHANGED list

ReadTotal ==
  /\ ~walk.done /\ "total" \notin walk.answer.read
  /\ walk' = [walk EXCEPT !.answer.total = Len(list), !.answer.read = @ \union {"total"}]
  /\ UNCHANGED list

(* The page is answered; the client goes on, or stops at the last page.    *)
Answer ==
  /\ ~walk.done /\ walk.answer.read = {"rows", "total"}
  /\ LET p == NormalizePagination(walk.page, walk.size)
         last == p.page >= TotalPages(walk.answer.total, p.pageSize)
     IN walk' = [walk EXCEPT !.seen = @ \union walk.answer.rows, !.done = last,
                             !.page = IF last THEN @ ELSE @ + 1,
                             !.answer = IF last THEN @ ELSE Unread]
  /\ UNCHANGED list

UserListNext == Register \/ ReadRows \/ ReadTotal \/ Answer

UserListSpec == UserListInit /\ [][UserListNext]_listVars

(* The size of a page is in its limits, consecutive pages adjoin, and      *)
(* totalPages pages hold every row and the last of them at least one.      *)
Adjoins(page, size, total) ==
  LET p == NormalizePagination(page, size)
      next == NormalizePagination(p.page + 1, size)
      pages == TotalPages(total, p.pageSize)
  IN /\ p.pageSize \in 1 .. 100 /\ p.pageSize = NormalizeCursor(size)
     /\ p.skip >= 0 /\ next.skip = p.skip + p.take
     /\ pages * p.pageSize >= total
     /\ total > 0 => (pages - 1) * p.pageSize < total

(* So it is whatever page and size a client asks for.                      *)
PagesAdjoin ==
  \A page \in -1 .. 3, size \in {-5, 0, 1, 2, 7, 100, 101, 1000}, total \in {0, 1, 2, 99, 100, 101, 201} :
    Adjoins(page, size, total)

(* However many users register between two pages and between the two       *)
(* queries of a page, a walk misses nobody who was there when it began,    *)
(* unless the last page's total is older than its rows and the order puts  *)
(* a new user before old ones: the walk then stops a page too early.       *)
WalkMissesNobody ==
  walk.done /\ (walk.order = "createdAt_asc" \/ walk.answer.total >= walk.atRows)
    => walk.had \subseteq walk.seen
=============================================================================
