-------------------------- MODULE PaginationProofs --------------------------
(***************************************************************************)
(* The safety properties of Pagination, for any rows, filters, page sizes  *)
(* and default and maximal sizes.                                          *)
(*                                                                         *)
(* The invariant says what a token means: it carries the time and the id   *)
(* of the lowest row shown so far, every stable row not shown yet lies     *)
(* below it, and when it was issued some row did.                          *)
(***************************************************************************)
EXTENDS Pagination, FiniteSetTheorems, TLAPS

(* Rows that exist have a time, and shown rows were stored. *)
RowInv ==
    /\ clock # 0
    /\ \A r \in Row : row[r] # "none" => at[r] # 0
    /\ \A r \in seen \cup page : row[r] \in {"stored", "deleted"}
    /\ \A r \in stable : row[r] = "stored"

(* A token is the position of the lowest row of the last page. *)
TokenInv ==
    /\ token # Nil =>
           /\ reading = "listing"
           /\ token.id \in page
           /\ token.createdAt = at[token.id]
           /\ \A q \in page \ {token.id} : Above(q, token.id)
    /\ token = Nil /\ reading # "done" => seen = {} /\ page = {}

(* What was not shown yet and stayed stored lies below the token. *)
Remaining ==
    token # Nil =>
        \A r \in stable : Matches(r) => r \in seen \cup page \/ Older(r, token)

(* Unless rows were deleted, some row lies below the token. *)
Promise ==
    token # Nil /\ ~removed => Selected(token) # {}

IndInv ==
    /\ TypeOK /\ RowInv /\ TokenInv /\ Remaining /\ Promise
    /\ PagesDescend /\ WalkComplete /\ TokenPromisesRow

-----------------------------------------------------------------------------

(* Limit yields a positive page size. *)
LEMMA LimitPositive ==
    ASSUME NEW size \in Size
    PROVE  Limit(size) \in Nat /\ 0 < Limit(size)
BY SizeAssumption DEF Limit

(* What List does, without its counting: the page is all that is selected  *)
(* and there is no token, or the page is the upper part of it and the      *)
(* token is the position of its lowest row.                                *)
LEMMA ListFacts ==
    ASSUME TypeOK, NEW size \in Size, List(size)
    PROVE  \/ page' = Selected(token) /\ token' = Nil
           \/ /\ page' \subseteq Selected(token)
              /\ page' # Selected(token)
              /\ \E last \in page' :
                     /\ token' = encodeCursor(last)
                     /\ \A q \in page' \ {last} : Above(q, last)
                     /\ \A r \in Selected(token) \ page' : Above(last, r)
<1> DEFINE S == Selected(token)
           L == Limit(size)
<1>1. L \in Nat /\ 0 < L
  BY LimitPositive
<1>2. PICK users \in SUBSET S :
          /\ IsFirst(users, S, L + 1)
          /\ \/ Cardinality(users) <= L /\ page' = users /\ token' = Nil
             \/ /\ Cardinality(users) > L
                /\ page' \in SUBSET users
                /\ IsFirst(page', users, L)
                /\ \E last \in page' :
                       /\ \A q \in page' \ {last} : Above(q, last)
                       /\ token' = encodeCursor(last)
  BY DEF List
<1>5. users \in SUBSET Row /\ Cardinality(users) \in Nat
  BY <1>2, RowAssumption, FS_Subset, FS_CardinalityType DEF Selected, Stored
<1> HIDE DEF S, L
<1>3. CASE Cardinality(users) <= L /\ page' = users /\ token' = Nil
  <2>1. users = S
    BY <1>1, <1>2, <1>3, <1>5 DEF IsFirst
  <2> QED
    BY <1>3, <2>1 DEF S
<1>4. CASE /\ Cardinality(users) > L
           /\ page' \in SUBSET users
           /\ IsFirst(page', users, L)
           /\ \E last \in page' :
                  /\ \A q \in page' \ {last} : Above(q, last)
                  /\ token' = encodeCursor(last)
  <2>1. PICK last \in page' :
            /\ \A q \in page' \ {last} : Above(q, last)
            /\ token' = encodeCursor(last)
    BY <1>4
  <2>2. page' # users
    BY <1>1, <1>4, <1>5 DEF IsFirst
  <2>3. \A r \in S \ page' : Above(last, r)
    BY <1>2, <1>4, <2>1 DEF IsFirst
  <2>4. page' \subseteq S /\ page' # S
    BY <1>2, <1>4, <2>2
  <2> QED
    BY <2>1, <2>3, <2>4 DEF S
<1> QED
  BY <1>2, <1>3, <1>4

(* The order of the SELECT is the order of the cursor. *)
LEMMA CursorOrder ==
    ASSUME TypeOK, NEW r \in Row, NEW last \in Row, Above(last, r)
    PROVE  Older(r, encodeCursor(last))
BY RowAssumption DEF TypeOK, Above, Older, encodeCursor

(* The keyset condition of the query selects rows below the token. *)
LEMMA OlderOrder ==
    ASSUME TypeOK, NEW r \in Row, token # Nil, token.id \in Row,
           token.createdAt = at[token.id], Older(r, token)
    PROVE  Above(token.id, r)
BY RowAssumption DEF TypeOK, Above, Older

(* The order of the listing is transitive. *)
LEMMA AboveTransitive ==
    ASSUME TypeOK, NEW p \in Row, NEW q \in Row, NEW r \in Row,
           Above(p, q), Above(q, r)
    PROVE  Above(p, r)
BY RowAssumption DEF TypeOK, Above

-----------------------------------------------------------------------------
(* Steps *)

(* The invariant holds at the start. *)
LEMMA InitInv == Init => IndInv
<1> SUFFICES ASSUME Init
             PROVE  IndInv
  OBVIOUS
<1>1. TypeOK
  BY DEF Init, TypeOK
<1>2. RowInv
  BY DEF Init, RowInv
<1>3. TokenInv /\ Remaining /\ Promise
  BY DEF Init, TokenInv, Remaining, Promise
<1>4. PagesDescend /\ WalkComplete /\ TokenPromisesRow
  BY DEF Init, PagesDescend, WalkComplete, TokenPromisesRow
<1> QED
  BY <1>1, <1>2, <1>3, <1>4 DEF IndInv

(* Drawing a timestamp keeps it, *)
LEMMA StampInv ==
    ASSUME IndInv, NEW r \in Row, Stamp(r)
    PROVE  IndInv'
<1> USE RowAssumption DEF IndInv, Stamp
<1>1. TypeOK' /\ RowInv'
  BY DEF TypeOK, RowInv
<1>2. /\ r \notin seen \cup page \cup stable
      /\ \A x \in Row \ {r} : row'[x] = row[x] /\ at'[x] = at[x] /\ tag'[x] = tag[x]
      /\ row[r] # "stored" /\ row'[r] # "stored"
  BY DEF TypeOK, RowInv
<1>3. TokenInv'
  BY <1>2 DEF TypeOK, TokenInv, Above
<1>4. Remaining'
  BY <1>2 DEF TypeOK, Remaining, Matches, Older
<1>5. Promise'
  <2>1. token' = token /\ removed' = removed
    OBVIOUS
  <2>2. Selected(token) \subseteq Selected(token)'
    BY <1>2 DEF TypeOK, Selected, Stored, Matches, Older
  <2> QED
    BY <2>1, <2>2 DEF Promise
<1>6. PagesDescend'
  BY <1>2 DEF TypeOK, PagesDescend, Above
<1>7. WalkComplete' /\ TokenPromisesRow'
  BY <1>2 DEF TypeOK, WalkComplete, TokenPromisesRow, Matches
<1> QED
  BY <1>1, <1>3, <1>4, <1>5, <1>6, <1>7

(* so does an insertion, *)
LEMMA InsertInv ==
    ASSUME IndInv, NEW r \in Row, Insert(r)
    PROVE  IndInv'
<1> USE RowAssumption DEF IndInv, Insert
<1>1. TypeOK' /\ RowInv'
  BY DEF TypeOK, RowInv
<1>2. TokenInv' /\ Remaining'
  BY DEF TypeOK, TokenInv, Remaining, Above, Matches, Older
<1>3. Promise'
  <2>1. token' = token /\ removed' = removed
    OBVIOUS
  <2>2. Selected(token) \subseteq Selected(token)'
    BY DEF TypeOK, Selected, Stored, Matches, Older
  <2> QED
    BY <2>1, <2>2 DEF Promise
<1>4. PagesDescend' /\ WalkComplete' /\ TokenPromisesRow'
  BY DEF TypeOK, PagesDescend, WalkComplete, TokenPromisesRow, Above, Matches
<1> QED
  BY <1>1, <1>2, <1>3, <1>4

(* a deletion, *)
LEMMA DeleteInv ==
    ASSUME IndInv, NEW r \in Row, Delete(r)
    PROVE  IndInv'
<1> USE RowAssumption DEF IndInv, Delete
<1>1. TypeOK'
  BY DEF TypeOK
<1>2. RowInv'
  BY DEF TypeOK, RowInv
<1>3. TokenInv' /\ Remaining'
  BY DEF TypeOK, TokenInv, Remaining, Above, Matches, Older
<1>4. Promise'
  BY DEF Promise, TokenInv
<1>5. PagesDescend' /\ WalkComplete' /\ TokenPromisesRow'
  BY DEF TypeOK, PagesDescend, WalkComplete, TokenPromisesRow, Above, Matches
<1> QED
  BY <1>1, <1>2, <1>3, <1>4, <1>5

(* the start of a listing, *)
LEMMA StartListingInv ==
    ASSUME IndInv, StartListing
    PROVE  IndInv'
BY RowAssumption
   DEF IndInv, StartListing, TypeOK, RowInv, TokenInv, Remaining, Promise,
       PagesDescend, WalkComplete, TokenPromisesRow, Stored

(* a step that changes neither the rows nor the listing, *)
LEMMA QuietInv ==
    ASSUME IndInv, Tick \/ ListRefused \/ ListFails \/ UNCHANGED vars
    PROVE  IndInv'
<1>1. /\ UNCHANGED <<row, at, tag, reading, filter, token, seen, page,
                      stable, removed>>
      /\ clock' \in {clock, clock + 1}
      /\ answer' \in {answer, "invalid", "internal"}
  BY DEF Tick, ListRefused, ListFails, vars
<1>2. TypeOK' /\ RowInv'
  BY <1>1 DEF IndInv, TypeOK, RowInv
<1>3. TokenInv' /\ Remaining' /\ Promise'
  BY <1>1 DEF IndInv, TokenInv, Remaining, Promise, Above, Matches, Older,
              Selected, Stored
<1>4. PagesDescend' /\ WalkComplete' /\ TokenPromisesRow'
  BY <1>1 DEF IndInv, PagesDescend, WalkComplete, TokenPromisesRow, Above,
              Matches
<1> QED
  BY <1>2, <1>3, <1>4 DEF IndInv

(* and a page. *)
LEMMA ListPageInv ==
    ASSUME IndInv, NEW size \in Size, ListPage(size)
    PROVE  IndInv'
<1> DEFINE S == Selected(token)
<1>1. /\ reading = "listing"
      /\ List(size)
      /\ seen' = seen \cup page
      /\ reading' = IF token' = Nil THEN "done" ELSE "listing"
      /\ answer' = "page"
      /\ UNCHANGED <<clock, row, at, tag, filter, stable, removed>>
  BY DEF ListPage
<1>2. TypeOK /\ RowInv /\ TokenInv /\ Remaining /\ Promise
      /\ PagesDescend /\ WalkComplete /\ TokenPromisesRow
  BY DEF IndInv
<1>3. /\ S \subseteq Row
      /\ \A r \in S : row[r] = "stored" /\ at[r] # 0
  BY <1>2 DEF Selected, Stored, RowInv
<1>4. S' = {r \in Stored : Matches(r) /\ (token' = Nil \/ Older(r, token'))}
  BY <1>1 DEF Selected, Stored, Matches, Older
<1>5. \A r \in stable : Matches(r) => r \in seen \cup page \cup S
  BY <1>1, <1>2, RowAssumption
     DEF TypeOK, RowInv, TokenInv, Remaining, Selected, Stored
<1>6. \A p \in seen \cup page, q \in S : Above(p, q)
  <2> SUFFICES ASSUME NEW p \in seen \cup page, NEW q \in S
               PROVE  Above(p, q)
    OBVIOUS
  <2>1. p \in Row /\ q \in Row
    BY <1>2, <1>3 DEF TypeOK
  <2>2. token # Nil /\ token.id \in page /\ token.createdAt = at[token.id]
    BY <1>1, <1>2 DEF TokenInv
  <2>3. token.id \in Row
    BY <1>2, <2>2 DEF TypeOK
  <2>4. Above(token.id, q)
    <3>1. Older(q, token)
      BY <2>2 DEF Selected
    <3> QED
      BY <1>2, <2>1, <2>2, <2>3, <3>1, OlderOrder
  <2>5. CASE p = token.id
    BY <2>4, <2>5
  <2>6. CASE p # token.id
    <3>1. Above(p, token.id)
      BY <1>2, <2>2, <2>6 DEF TokenInv, PagesDescend
    <3> QED
      BY <1>2, <2>1, <2>3, <2>4, <3>1, AboveTransitive
  <2> QED
    BY <2>5, <2>6
<1>7. page' \subseteq S
  BY <1>1, <1>2, ListFacts
<1>8. PagesDescend'
  BY <1>1, <1>6, <1>7 DEF PagesDescend, Above
<1>9. TokenPromisesRow'
  <2>1. ASSUME seen' # {}, ~removed
        PROVE  page' # {}
    <3>1. token # Nil
      BY <1>1, <1>2, <2>1 DEF TokenInv
    <3>2. S # {}
      BY <1>2, <2>1, <3>1 DEF Promise
    <3> QED
      BY <1>1, <1>2, <3>2, ListFacts
  <2> QED
    BY <1>1, <2>1 DEF TokenPromisesRow
<1>10. RowInv'
  BY <1>1, <1>2, <1>3, <1>7 DEF RowInv
<1> HIDE DEF S
<1>11. CASE page' = S /\ token' = Nil
  <2>1. TypeOK'
    BY <1>1, <1>2, <1>3, <1>11 DEF TypeOK
  <2>2. TokenInv' /\ Remaining' /\ Promise'
    BY <1>1, <1>11 DEF TokenInv, Remaining, Promise
  <2>3. WalkComplete'
    BY <1>1, <1>5, <1>11 DEF WalkComplete, Matches
  <2> QED
    BY <1>8, <1>9, <1>10, <2>1, <2>2, <2>3 DEF IndInv
<1>12. CASE /\ page' # S
            /\ \E last \in page' :
                   /\ token' = encodeCursor(last)
                   /\ \A q \in page' \ {last} : Above(q, last)
                   /\ \A r \in S \ page' : Above(last, r)
  <2>1. PICK last \in page' :
            /\ token' = encodeCursor(last)
            /\ \A q \in page' \ {last} : Above(q, last)
            /\ \A r \in S \ page' : Above(last, r)
    BY <1>12
  <2>2. last \in Row /\ at[last] \in Nat \ {0}
    BY <1>2, <1>3, <1>7, <2>1 DEF TypeOK
  <2>3. /\ token' \in Cursor
        /\ token' # Nil
        /\ token'.id = last
        /\ token'.createdAt = at'[last]
    BY <1>1, <2>1, <2>2, AbsenceAssumption DEF encodeCursor, Cursor
  <2>4. TypeOK'
    BY <1>1, <1>2, <1>3, <1>7, <2>3 DEF TypeOK
  <2>5. TokenInv'
    BY <1>1, <2>1, <2>3 DEF TokenInv, Above
  <2>6. \A r \in S \ page' : Older(r, token')
    BY <1>2, <1>3, <2>1, <2>2, CursorOrder
  <2>7. Remaining'
    BY <1>1, <1>5, <2>6 DEF Remaining, Matches, Older
  <2>8. Promise'
    <3>1. PICK r \in S : r \notin page'
      BY <1>7, <1>12
    <3>2. r \in Stored /\ Matches(r)
      BY <3>1 DEF S, Selected
    <3>3. r \in S'
      BY <1>4, <2>6, <3>1, <3>2 DEF S
    <3> QED
      BY <3>3 DEF Promise, S
  <2>9. WalkComplete'
    BY <1>1, <2>3 DEF WalkComplete
  <2> QED
    BY <1>8, <1>9, <1>10, <2>4, <2>5, <2>7, <2>8, <2>9 DEF IndInv
<1> QED
  BY <1>1, <1>2, <1>11, <1>12, ListFacts DEF S

(* Every step keeps the invariant. *)
LEMMA NextInv == IndInv /\ [Next]_vars => IndInv'
<1> SUFFICES ASSUME IndInv, [Next]_vars
             PROVE  IndInv'
  OBVIOUS
<1>1. ASSUME NEW r \in Row, Write(r)
      PROVE  IndInv'
  BY <1>1, StampInv, InsertInv, DeleteInv DEF Write
<1> QED
  BY <1>1, QuietInv, StartListingInv, ListPageInv DEF Next

-----------------------------------------------------------------------------
(* Theorems *)

(* The invariant holds in every reachable state. *)
THEOREM Invariance == Spec => []IndInv
BY InitInv, NextInv, PTL DEF Spec

(* List of both services: the variables keep their types, and every token  *)
(* that is issued can be decoded.                                          *)
THEOREM TypeCorrect == Spec => []TypeOK
<1>1. IndInv => TypeOK
  BY DEF IndInv
<1> QED
  BY <1>1, Invariance, PTL

(* List of both services: pages descend strictly, so no row is shown twice. *)
THEOREM NoRowTwice == Spec => []PagesDescend
<1>1. IndInv => PagesDescend
  BY DEF IndInv
<1> QED
  BY <1>1, Invariance, PTL

(* List of both services: a walk to the end shows every matching row that  *)
(* was stored throughout.                                                  *)
THEOREM NoRowMissed == Spec => []WalkComplete
<1>1. IndInv => WalkComplete
  BY DEF IndInv
<1> QED
  BY <1>1, Invariance, PTL

(* List of both services: the page behind a token is empty only if rows    *)
(* were deleted.                                                           *)
THEOREM TokenKept == Spec => []TokenPromisesRow
<1>1. IndInv => TokenPromisesRow
  BY DEF IndInv
<1> QED
  BY <1>1, Invariance, PTL

=============================================================================
