----------------------------- MODULE Pagination -----------------------------
(***************************************************************************)
(* Cursor pagination of users and audit events (List of the two services   *)
(* over the List of their PostgreSQL repositories) while rows are created  *)
(* and deleted.                                                            *)
(*                                                                         *)
(* The two services differ in the default page size and in the time column *)
(* (created_at, occurred_at).  A page is one SELECT, hence one snapshot.   *)
(* A row gets its time from the application's clock before its INSERT, so  *)
(* rows become visible out of order.  Row ids are UUIDs, compared as       *)
(* numbers.                                                                *)
(***************************************************************************)
EXTENDS Integers, FiniteSets

CONSTANTS
    Row,          \* ids of the rows that may be created
    Tag,          \* what a filter can tell apart about a row
    Size,         \* page sizes clients request
    DefaultSize,  \* 20 for users, 50 for audit events
    MaxSize,      \* 100
    MaxClock,     \* bound on time
    Nil           \* no filter, no token, no id

ASSUME RowAssumption == Row \subseteq Nat /\ IsFiniteSet(Row) /\ Nil \notin Nat

ASSUME SizeAssumption ==
    /\ Size \subseteq Int
    /\ DefaultSize \in Nat /\ 0 < DefaultSize
    /\ MaxSize \in Nat /\ DefaultSize <= MaxSize
    /\ MaxClock \in Nat

VARIABLES
    clock,    \* wall clock
    row,      \* the life of each row
    at,       \* created_at or occurred_at
    tag,      \* its filtered columns
    reading,  \* whether a client is walking through the pages
    filter,   \* what it asks for
    token,    \* next_page_token of its last page
    seen,     \* the rows of its earlier pages
    page,     \* its last page
    answer,   \* the outcome of its last request
    stable,   \* history: rows stored ever since the walk began
    removed   \* history: whether a row was deleted during the walk

vars == <<clock, row, at, tag, reading, filter, token, seen, page, answer, stable,
          removed>>

Cursor == [createdAt : Nat \ {0}, id : Row]

ASSUME AbsenceAssumption == Nil \notin Cursor

TypeOK ==
    /\ clock \in Nat
    /\ row \in [Row -> {"none", "stamped", "stored", "deleted"}]
    /\ at \in [Row -> Nat]
    /\ tag \in [Row -> Tag \cup {Nil}]
    /\ reading \in {"idle", "listing", "done"}
    /\ filter \in Tag \cup {Nil}
    /\ token \in Cursor \cup {Nil}
    /\ seen \in SUBSET Row
    /\ page \in SUBSET Row
    /\ answer \in {"none", "page", "invalid", "internal"}
    /\ stable \in SUBSET Row
    /\ removed \in BOOLEAN

Init ==
    /\ clock = 1
    /\ row = [r \in Row |-> "none"]
    /\ at = [r \in Row |-> 0]
    /\ tag = [r \in Row |-> Nil]
    /\ reading = "idle"
    /\ filter = Nil
    /\ token = Nil
    /\ seen = {}
    /\ page = {}
    /\ answer = "none"
    /\ stable = {}
    /\ removed = FALSE

-----------------------------------------------------------------------------
(* The SELECT *)

Stored == {r \in Row : row[r] = "stored"}

(* ORDER BY created_at DESC, id DESC *)
Above(r, s) == at[s] < at[r] \/ (at[s] = at[r] /\ s < r)

Matches(r) == filter = Nil \/ tag[r] = filter

(* Mutant: the id does not break ties. *)
OlderByTime(r, c) == at[r] < c.createdAt

(* Mutant: the cursor's own row is included. *)
OlderOrEqual(r, c) ==
    at[r] < c.createdAt \/ (at[r] = c.createdAt /\ r <= c.id)

(* (created_at, id) < ($2, $3) *)
Older(r, c) == at[r] < c.createdAt \/ (at[r] = c.createdAt /\ r < c.id)

Selected(t) == {r \in Stored : Matches(r) /\ (t = Nil \/ Older(r, t))}

(* P is the first n rows of S: its LIMIT, or a slice of the result. *)
IsFirst(P, S, n) ==
    /\ IF Cardinality(S) <= n THEN P = S ELSE Cardinality(P) = n
    /\ \A p \in P, q \in S \ P : Above(p, q)

Limit(size) ==
    LET wanted == IF size <= 0 THEN DefaultSize ELSE size
    IN  IF wanted > MaxSize THEN MaxSize ELSE wanted

encodeCursor(r) == [createdAt |-> at[r], id |-> r]

(* A token that is not a cursor with an id and a time is refused. *)
decodes(t) == t.id # Nil /\ t.createdAt # 0

-----------------------------------------------------------------------------
(* Writers *)

Tick ==
    /\ clock < MaxClock
    /\ clock' = clock + 1
    /\ UNCHANGED <<row, at, tag, reading, filter, token, seen, page, answer,
                   stable, removed>>

(* The new row takes its time; a user's password is hashed after that. *)
Stamp(r) ==
    /\ row[r] = "none"
    /\ row' = [row EXCEPT ![r] = "stamped"]
    /\ at' = [at EXCEPT ![r] = clock]
    /\ \E t \in Tag : tag' = [tag EXCEPT ![r] = t]
    /\ UNCHANGED <<clock, reading, filter, token, seen, page, answer, stable,
                   removed>>

Insert(r) ==
    /\ row[r] = "stamped"
    /\ row' = [row EXCEPT ![r] = "stored"]
    /\ UNCHANGED <<clock, at, tag, reading, filter, token, seen, page, answer,
                   stable, removed>>

(* An operator deletes a row. *)
Delete(r) ==
    /\ row[r] = "stored"
    /\ row' = [row EXCEPT ![r] = "deleted"]
    /\ stable' = stable \ {r}
    /\ removed' = (reading = "listing" \/ removed)
    /\ UNCHANGED <<clock, at, tag, reading, filter, token, seen, page, answer>>

-----------------------------------------------------------------------------
(* The reader *)

(* A client asks for the first page of a filter. *)
StartListing ==
    /\ reading # "listing"
    /\ reading' = "listing"
    /\ filter' \in Tag \cup {Nil}
    /\ token' = Nil
    /\ seen' = {}
    /\ page' = {}
    /\ answer' = "none"
    /\ stable' = Stored
    /\ removed' = FALSE
    /\ UNCHANGED <<clock, row, at, tag>>

(* Mutant: a full last page gets a token as well. *)
ListTokenOnFullPage(size) ==
    \E users \in SUBSET Selected(token) :
        /\ IsFirst(users, Selected(token), Limit(size) + 1)
        /\ \/ /\ Cardinality(users) < Limit(size)
              /\ page' = users
              /\ token' = Nil
           \/ /\ Cardinality(users) >= Limit(size)
              /\ page' \in SUBSET users
              /\ IsFirst(page', users, Limit(size))
              /\ \E last \in page' :
                     /\ \A q \in page' \ {last} : Above(q, last)
                     /\ token' = encodeCursor(last)

(* One row more than the page is fetched; if it exists, the page ends      *)
(* before it and the token points at the last row of the page.             *)
List(size) ==
    \E users \in SUBSET Selected(token) :
        /\ IsFirst(users, Selected(token), Limit(size) + 1)
        /\ \/ /\ Cardinality(users) <= Limit(size)
              /\ page' = users
              /\ token' = Nil
           \/ /\ Cardinality(users) > Limit(size)
              /\ page' \in SUBSET users
              /\ IsFirst(page', users, Limit(size))
              /\ \E last \in page' :
                     /\ \A q \in page' \ {last} : Above(q, last)
                     /\ token' = encodeCursor(last)

(* ListUsers or ListAuditEvents with the token of the page before. *)
ListPage(size) ==
    /\ reading = "listing"
    /\ token # Nil => decodes(token)
    /\ List(size)
    /\ seen' = seen \cup page
    /\ reading' = IF token' = Nil THEN "done" ELSE "listing"
    /\ answer' = "page"
    /\ UNCHANGED <<clock, row, at, tag, filter, stable, removed>>

(* A token that was not issued is refused; the client keeps its own. *)
ListRefused ==
    /\ reading = "listing"
    /\ \E c \in {Nil} \cup Row, t \in {0, clock} :
           ~decodes([createdAt |-> t, id |-> c])
    /\ answer' = "invalid"
    /\ UNCHANGED <<clock, row, at, tag, reading, filter, token, seen, page,
                   stable, removed>>

(* The query fails; the client may ask again. *)
ListFails ==
    /\ reading = "listing"
    /\ answer' = "internal"
    /\ UNCHANGED <<clock, row, at, tag, reading, filter, token, seen, page,
                   stable, removed>>

-----------------------------------------------------------------------------

Write(r) == Stamp(r) \/ Insert(r) \/ Delete(r)

Next ==
    \/ Tick
    \/ \E r \in Row : Write(r)
    \/ StartListing
    \/ \E size \in Size : ListPage(size)
    \/ ListRefused
    \/ ListFails

Spec == Init /\ [][Next]_vars

(* A client that keeps asking is answered again and again. *)
FairSpec == Spec /\ WF_vars(\E size \in Size : ListPage(size))

-----------------------------------------------------------------------------
(* Properties *)

(* Walking through the pages shows the rows in strictly descending order,  *)
(* across page boundaries and whatever page sizes are asked for: no row is *)
(* shown twice.                                                            *)
PagesDescend == \A p \in seen, q \in page : Above(p, q)

(* A complete walk shows every matching row that was stored throughout,    *)
(* although others were created, with older times too, or deleted.         *)
WalkComplete ==
    reading = "done" =>
        \A r \in stable : Matches(r) => r \in seen \cup page

(* A token promises a row: no walk ends with an empty page unless rows     *)
(* were deleted under it.                                                  *)
TokenPromisesRow ==
    seen # {} /\ ~removed => page # {}

(* A client that follows the tokens gets to the last page, although every  *)
(* request may fail and rows keep appearing behind the cursor.             *)
WalkEnds == reading = "listing" ~> reading = "done"

=============================================================================
