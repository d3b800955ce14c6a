------------------------------ MODULE ListPages ------------------------------
(***************************************************************************)
(* A client reads a list page by page, the orders of a customer or the     *)
(* products of the catalog, while the rows of that list come and go.  A    *)
(* response takes two statements of READ COMMITTED, the page and then the  *)
(* count that total_pages is computed from, so that other transactions     *)
(* commit between the pages of a client and within each response as well.  *)
(***************************************************************************)
EXTENDS Naturals, FiniteSets

CONSTANTS
  Ids,        \* primary keys
  SortKeys,   \* values of the column sorted by: created_at or name
  PageSize    \* page_size of the client's requests

ASSUME PagesAssumption ==
  /\ Ids \subseteq Nat
  /\ SortKeys \subseteq Nat
  /\ PageSize \in Nat \ {0}

VARIABLES
  list,       \* which of the two lists it is
  visible,    \* rows the list's filter selects
  page,       \* page asked for
  shown,      \* rows of the page last fetched
  request,    \* what the request is about to do
  seen,       \* rows of all pages fetched
  started,    \* rows that were there when the client began
  left        \* has a row left the list since

vars == <<list, visible, page, shown, request, seen, started, left>>

Lists == {"orders", "products"}

Row == [id : Ids, key : SortKeys]

Steps == {"fetch", "count", "done"}

KeepsPrimaryKeys(rows) == \A a, b \in rows : a.id = b.id => a = b

(***************************************************************************)
(* Types, the primary key, and what the query's limit promises: no page    *)
(* is longer than the client asked for.                                    *)
(***************************************************************************)
PagesTypeOK ==
  /\ list \in Lists
  /\ visible \subseteq Row
  /\ KeepsPrimaryKeys(visible)
  /\ page \in Nat \ {0}
  /\ shown \subseteq Row
  /\ Cardinality(shown) <= PageSize
  /\ request \in Steps
  /\ seen \subseteq Row
  /\ started \subseteq Row
  /\ left \in BOOLEAN

-------------------------------------------------------------------------------
(* The queries                                                             *)

(* Mutant: rows with equal keys are in no order.                           *)
SortedBeforeByKey(a, b) == IF list = "orders" THEN a.key > b.key ELSE a.key < b.key

(* created_at DESC, id DESC of an order; name ASC, id ASC of a product.    *)
SortedBefore(a, b) ==
  IF list = "orders"
  THEN a.key > b.key \/ (a.key = b.key /\ a.id > b.id)
  ELSE a.key < b.key \/ (a.key = b.key /\ a.id < b.id)

Predecessors(r) == {x \in visible : SortedBefore(x, r)}

Position(r) == Cardinality(Predecessors(r))

Offset(p) == (p - 1) * PageSize

(* get_orders_page_for_customer, get_active_products_page: offset, limit   *)
PageRows(p) == {r \in visible : Position(r) \in Offset(p)..(Offset(p) + PageSize - 1)}

(* Mutant: the last, incomplete page is not counted.                       *)
FullPages(total) == total \div PageSize

TotalPages(total) == IF total = 0 THEN 0 ELSE (total + PageSize - 1) \div PageSize

-------------------------------------------------------------------------------
(* Actions                                                                 *)

Init ==
  /\ list \in Lists
  /\ visible \in SUBSET Row
  /\ IsFiniteSet(visible)
  /\ KeepsPrimaryKeys(visible)
  /\ page = 1
  /\ shown = {}
  /\ request = "fetch"
  /\ seen = {}
  /\ started = visible
  /\ left = FALSE

(* The first statement of list_customer_orders and list_products_page.     *)
FetchPage ==
  /\ request = "fetch"
  /\ shown' = PageRows(page)
  /\ seen' = seen \cup PageRows(page)
  /\ request' = "count"
  /\ UNCHANGED <<list, visible, page, started, left>>

(* The second one, and the response; the client goes on until it has read  *)
(* the page with the number that total_pages told it.                      *)
CountRows ==
  /\ request = "count"
  /\ IF page < TotalPages(Cardinality(visible))
     THEN page' = page + 1 /\ request' = "fetch"
     ELSE request' = "done" /\ UNCHANGED page
  /\ UNCHANGED <<list, visible, shown, seen, started, left>>

(***************************************************************************)
(* An order is committed, or a product is added or activated.  created_at  *)
(* is the time its transaction began, and ids are given out in another     *)
(* order still: the new row can be anywhere in the list.                   *)
(***************************************************************************)
RowAppears ==
  /\ request # "done"
  /\ \E r \in Row :
       /\ r \notin visible
       /\ KeepsPrimaryKeys(visible \cup {r})
       /\ visible' = visible \cup {r}
  /\ UNCHANGED <<list, page, shown, request, seen, started, left>>

(* A product is deactivated or leaves its category; no order is deleted.   *)
ProductLeaves ==
  /\ request # "done"
  /\ list = "products"
  /\ \E r \in visible : visible' = visible \ {r}
  /\ left' = TRUE
  /\ UNCHANGED <<list, page, shown, request, seen, started>>

Next == FetchPage \/ CountRows \/ RowAppears \/ ProductLeaves

Spec == Init /\ [][Next]_vars

-------------------------------------------------------------------------------
(* Properties                                                              *)

(***************************************************************************)
(* A client that reads to the end has seen every row that was there when   *)
(* it began, however many are inserted meanwhile and wherever: all orders  *)
(* of a customer, and all products unless one has left the list, which     *)
(* moves those behind it to a page already read.  It holds because a       *)
(* response counts after it has fetched.                                   *)
(***************************************************************************)
NothingIsMissed == request = "done" /\ ~left => started \subseteq seen
===============================================================================
