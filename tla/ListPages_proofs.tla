--------------------------- MODULE ListPages_proofs ---------------------------
(***************************************************************************)
(* The properties of ListPages, for lists of any length, pages of any size *)
(* and any number of rows that come and go.                                *)
(*                                                                         *)
(* NothingIsMissed is not inductive: it says nothing before the client is  *)
(* done.  PagesInv says where the rows not seen yet are, behind what has   *)
(* been fetched: rows that appear move them back only.                     *)
(***************************************************************************)
EXTENDS ListPages, FiniteSetTheorems, TLAPS

(* Where in the list the rows are that the client has still to read.       *)
UnreadFrom == IF request = "fetch" THEN Offset(page) ELSE Offset(page) + PageSize

UnreadRowsAreBehind ==
  ~left =>
    /\ started \subseteq visible
    /\ \A r \in started \ seen : request # "done" /\ Position(r) >= UnreadFrom

PagesInv ==
  /\ PagesTypeOK
  /\ IsFiniteSet(visible)
  /\ UnreadRowsAreBehind

-------------------------------------------------------------------------------
(* The order of the list                                                   *)

LEMMA PositionIsNatural ==
  ASSUME IsFiniteSet(visible), NEW r
  PROVE  /\ IsFiniteSet(Predecessors(r))
         /\ Position(r) \in Nat
BY FS_Subset, FS_CardinalityType DEF Predecessors, Position

(* Sorted by the primary key in the end, no two rows are equal.            *)
LEMMA OrderIsTotal ==
  ASSUME PagesTypeOK, NEW a \in visible, NEW b \in visible, a # b
  PROVE  /\ SortedBefore(a, b) \/ SortedBefore(b, a)
         /\ ~SortedBefore(a, a)
         /\ \A x \in visible :
              /\ SortedBefore(x, a) /\ SortedBefore(a, b) => SortedBefore(x, b)
              /\ SortedBefore(x, b) /\ SortedBefore(b, a) => SortedBefore(x, a)
<1>1. /\ a.id \in Nat /\ a.key \in Nat
      /\ b.id \in Nat /\ b.key \in Nat
      /\ a.id # b.id
      /\ \A x \in visible : x.id \in Nat /\ x.key \in Nat
  BY PagesAssumption DEF PagesTypeOK, Row, KeepsPrimaryKeys
<1>. QED  BY <1>1 DEF SortedBefore

(* Nor do two rows have one position.                                      *)
LEMMA EarlierRowsComeFirst ==
  ASSUME PagesTypeOK, IsFiniteSet(visible),
         NEW a \in visible, NEW b \in visible, a # b, SortedBefore(a, b)
  PROVE  Position(a) # Position(b)
<1>1. Predecessors(a) \subseteq Predecessors(b)
  BY OrderIsTotal DEF Predecessors
<1>2. a \in Predecessors(b) /\ a \notin Predecessors(a)
  BY OrderIsTotal DEF Predecessors
<1>. QED  BY <1>1, <1>2, FS_Subset, PositionIsNatural DEF Position

LEMMA PositionsDiffer ==
  ASSUME PagesTypeOK, IsFiniteSet(visible),
         NEW a \in visible, NEW b \in visible, a # b
  PROVE  Position(a) # Position(b)
BY OrderIsTotal, EarlierRowsComeFirst

(* A page holds at most PageSize rows.                                     *)
LEMMA PagesAreLimited ==
  ASSUME PagesTypeOK, IsFiniteSet(visible), NEW p \in Nat \ {0}
  PROVE  Cardinality(PageRows(p)) <= PageSize
<1>. DEFINE places == Offset(p)..(Offset(p) + PageSize - 1)
            place == [r \in PageRows(p) |-> Position(r)]
<1>1. Offset(p) \in Nat
  BY PagesAssumption DEF Offset
<1>2. IsFiniteSet(places) /\ Cardinality(places) = PageSize
  <2>. DEFINE last == Offset(p) + PageSize - 1
  <2>1. /\ Offset(p) \in Int /\ last \in Int
        /\ last - Offset(p) + 1 = PageSize /\ ~(Offset(p) > last)
    BY <1>1, PagesAssumption
  <2>. HIDE DEF last
  <2>2. IsFiniteSet(Offset(p)..last) /\ Cardinality(Offset(p)..last) = PageSize
    BY <2>1, FS_Interval, Zenon
  <2>. QED  BY <2>2 DEF last
<1>3. place \in Injection(PageRows(p), places)
  BY PositionsDiffer DEF PageRows, Injection, IsInjective
<1>. HIDE DEF places, place
<1>. QED  BY <1>2, <1>3, FS_Injection, FS_CardinalityType

(* The row at position n is one of more than n.                            *)
LEMMA PositionsAreCounted ==
  ASSUME PagesTypeOK, IsFiniteSet(visible), NEW r \in visible
  PROVE  Cardinality(visible) > Position(r)
<1>1. r \notin Predecessors(r)
  <2>1. r.id \in Nat /\ r.key \in Nat
    BY PagesAssumption DEF PagesTypeOK, Row
  <2>. QED  BY <2>1 DEF Predecessors, SortedBefore
<1>2. Predecessors(r) \subseteq visible
  BY DEF Predecessors
<1>. QED  BY <1>1, <1>2, FS_Subset, FS_CardinalityType, PositionIsNatural DEF Position

(* Pages are announced for a row behind page p.                            *)
LEMMA PagesAreRoundedUp ==
  ASSUME NEW total \in Nat, NEW p \in Nat \ {0}, total > Offset(p) + PageSize
  PROVE  p < TotalPages(total)
<1>. DEFINE q == (total + PageSize - 1) \div PageSize
<1>1. PageSize \in Nat /\ PageSize > 0
  BY PagesAssumption
<1>2. Offset(p) + PageSize = p * PageSize /\ p * PageSize \in Nat
  BY <1>1 DEF Offset
<1>3. /\ q \in Int
      /\ total + PageSize - 1 < PageSize * q + PageSize
  BY <1>1
<1>. HIDE DEF q
<1>4. ASSUME q <= p  PROVE FALSE
  <2>1. PageSize * q <= p * PageSize
    BY <1>1, <1>3, <1>4
  <2>. QED  BY <2>1, <1>1, <1>2, <1>3
<1>. QED  BY <1>1, <1>2, <1>3, <1>4 DEF TotalPages, q

-------------------------------------------------------------------------------
(* The steps                                                               *)

LEMMA InitialPages == Init => PagesInv
<1>. SUFFICES ASSUME Init  PROVE PagesInv
  OBVIOUS
<1>1. PagesTypeOK
  <2>1. Cardinality({}) <= PageSize
    BY FS_EmptySet, PagesAssumption
  <2>2. Cardinality(shown) <= PageSize
    <3>1. shown = {}
      BY DEF Init
    <3>. QED  BY <2>1, <3>1, Zenon
  <2>3. page \in Nat \ {0} /\ shown \subseteq Row /\ seen \subseteq Row
    BY DEF Init
  <2>. QED  BY <2>2, <2>3 DEF Init, PagesTypeOK, Lists, Steps
<1>2. UnreadRowsAreBehind
  <2>1. Offset(1) = 0
    BY PagesAssumption DEF Offset
  <2>. QED  BY <2>1, PositionIsNatural DEF Init, UnreadRowsAreBehind, UnreadFrom
<1>. QED  BY <1>1, <1>2 DEF Init, PagesInv

LEMMA FetchPageKeeps ==
  ASSUME PagesInv, FetchPage
  PROVE  PagesInv'
<1>. USE DEF PagesInv, FetchPage
<1>1. PageRows(page) \subseteq visible /\ Cardinality(PageRows(page)) <= PageSize
  BY PagesAreLimited DEF PageRows, PagesTypeOK
<1>2. PagesTypeOK'
  BY <1>1 DEF PagesTypeOK, Steps, KeepsPrimaryKeys
<1>3. UnreadRowsAreBehind'
  <2>1. Offset(page) \in Nat /\ PageSize \in Nat
    BY PagesAssumption DEF Offset, PagesTypeOK
  <2>2. ASSUME ~left, NEW r \in started \ seen'
        PROVE  Position(r) >= Offset(page) + PageSize
    <3>1. r \in visible /\ Position(r) >= Offset(page) /\ Position(r) \in Nat
      BY <2>2, PositionIsNatural DEF UnreadRowsAreBehind, UnreadFrom
    <3>2. r \notin PageRows(page)
      BY <2>2
    <3>. QED  BY <2>1, <3>1, <3>2 DEF PageRows
  <2>. QED  BY <2>2 DEF UnreadRowsAreBehind, UnreadFrom, Position, Predecessors,
                        SortedBefore, Offset
<1>. QED  BY <1>2, <1>3

LEMMA CountRowsKeeps ==
  ASSUME PagesInv, CountRows
  PROVE  PagesInv'
<1>. USE DEF PagesInv, CountRows
<1>1. PagesTypeOK'
  BY DEF PagesTypeOK, Steps, KeepsPrimaryKeys
<1>2. UnreadRowsAreBehind'
  <2>1. Offset(page) \in Nat /\ PageSize \in Nat
    BY PagesAssumption DEF Offset, PagesTypeOK
  <2>2. Offset(page + 1) = Offset(page) + PageSize
    BY PagesAssumption DEF Offset, PagesTypeOK
  <2>3. ASSUME ~left, NEW r \in started \ seen
        PROVE  request' = "fetch" /\ page' = page + 1
               /\ Position(r) >= Offset(page) + PageSize
    <3>1. r \in visible /\ Position(r) >= Offset(page) + PageSize
      BY <2>3 DEF UnreadRowsAreBehind, UnreadFrom
    <3>2. Cardinality(visible) \in Nat /\ Cardinality(visible) > Position(r)
          /\ Position(r) \in Nat
      BY <3>1, PositionsAreCounted, PositionIsNatural, FS_CardinalityType
    <3>3. page < TotalPages(Cardinality(visible))
      BY <2>1, <3>1, <3>2, PagesAreRoundedUp DEF PagesTypeOK
    <3>. QED  BY <3>1, <3>3
  <2>. QED  BY <2>2, <2>3 DEF UnreadRowsAreBehind, UnreadFrom, Position, Predecessors,
                              SortedBefore
<1>. QED  BY <1>1, <1>2

LEMMA RowAppearsKeeps ==
  ASSUME PagesInv, RowAppears
  PROVE  PagesInv'
<1>. USE DEF PagesInv
<1>1. PICK n \in Row : /\ KeepsPrimaryKeys(visible \cup {n})
                       /\ visible' = visible \cup {n}
  BY DEF RowAppears
<1>2. PagesTypeOK'
  BY <1>1 DEF RowAppears, PagesTypeOK, KeepsPrimaryKeys
<1>3. IsFiniteSet(visible)'
  BY <1>1, FS_AddElement
<1>4. ASSUME NEW r  PROVE Position(r)' >= Position(r)
  <2>1. Predecessors(r) \subseteq Predecessors(r)'
    BY <1>1 DEF Predecessors, SortedBefore, RowAppears
  <2>2. IsFiniteSet(Predecessors(r)')
    BY <1>3, FS_Subset DEF Predecessors
  <2>. QED  BY <2>1, <2>2, FS_Subset DEF Position
<1>5. UnreadRowsAreBehind'
  <2>1. \A r : Position(r) \in Nat /\ Position(r)' \in Nat
    <3>1. \A r : Position(r) \in Nat
      BY PositionIsNatural
    <3>2. ASSUME NEW r  PROVE Position(r)' \in Nat
      BY <1>3, FS_Subset, FS_CardinalityType DEF Position, Predecessors
    <3>. QED  BY <3>1, <3>2
  <2>2. UnreadFrom \in Nat /\ UnreadFrom' = UnreadFrom
    BY PagesAssumption DEF RowAppears, UnreadFrom, Offset, PagesTypeOK
  <2>. QED  BY <1>1, <1>4, <2>1, <2>2 DEF UnreadRowsAreBehind, RowAppears
<1>. QED  BY <1>2, <1>3, <1>5

LEMMA ProductLeavesKeeps ==
  ASSUME PagesInv, ProductLeaves
  PROVE  PagesInv'
BY FS_RemoveElement
   DEF PagesInv, ProductLeaves, PagesTypeOK, KeepsPrimaryKeys, UnreadRowsAreBehind

(***************************************************************************)
(* The inductive invariant, for lists of any length: what the client has   *)
(* still to read is behind what it has fetched.                            *)
(***************************************************************************)
THEOREM PagesInvCorrect == Spec => []PagesInv
<1>1. PagesInv /\ [Next]_vars => PagesInv'
  <2>. SUFFICES ASSUME PagesInv, [Next]_vars  PROVE PagesInv'
    OBVIOUS
  <2>1. CASE UNCHANGED vars
    BY <2>1 DEF vars, PagesInv, PagesTypeOK, KeepsPrimaryKeys, UnreadRowsAreBehind,
                UnreadFrom, Position, Predecessors, SortedBefore, Offset
  <2>. QED  BY <2>1, FetchPageKeeps, CountRowsKeeps, RowAppearsKeeps, ProductLeavesKeeps
            DEF Next
<1>. QED  BY <1>1, InitialPages, PTL DEF Spec

(***************************************************************************)
(* Rows keep their types and primary keys, and no page is longer than the  *)
(* client asked for.                                                       *)
(***************************************************************************)
THEOREM PagesTypeCorrect == Spec => []PagesTypeOK
BY PagesInvCorrect, PTL DEF PagesInv

(***************************************************************************)
(* Whatever is inserted while a client reads, and wherever, it has seen at *)
(* the end all rows there were at the beginning, unless a product left.    *)
(***************************************************************************)
THEOREM NoRowIsMissed == Spec => []NothingIsMissed
<1>1. PagesInv => NothingIsMissed
  BY DEF PagesInv, UnreadRowsAreBehind, NothingIsMissed
<1>. QED  BY <1>1, PagesInvCorrect, PTL
===============================================================================
