----------------------------- MODULE CatalogPages -----------------------------
(***************************************************************************)
(* CatalogPages: a visitor reads the public catalogue page by page while   *)
(* admins deactivate and reactivate certificates.  An answer is the set of *)
(* items of a page, each with the active flag it was read with.            *)
(***************************************************************************)
EXTENDS Naturals, FiniteSets, SequencesExt

CONSTANTS
    Certs,          \* ids, numbers, so that they are ordered
    CreatedAt,      \* of each, in microseconds
    EnMatches,      \* whose translations.en.title contains the search text
    TitleMatches,   \* whose title does
    Limit,
    MaxEdits,       \* bound on the admins' edits
    None

VARIABLES
    active,     \* the active flag of each certificate
    query,      \* the query being paged through
    cursor,     \* where its next page begins, None for the first
    answer,     \* the last page
    edits

vars == <<active, query, cursor, answer, edits>>

\* CatalogQueryDto; None is a parameter left out.
Queries == [search : BOOLEAN, active : BOOLEAN \cup {None}, sort : {"DESC", "ASC"}]

Init ==
    /\ active = [i \in Certs |-> TRUE]
    /\ query \in Queries
    /\ cursor = None
    /\ answer = {}
    /\ edits = 0

-----------------------------------------------------------------------------

\* The cursor goes through a JavaScript date, which has no microseconds.
EncodeCursor(i) == [ts |-> CreatedAt[i] - (CreatedAt[i] % 1000), id |-> i]

Older(t, i, u, j) == t < u \/ (t = u /\ i < j)

Precedes(i, j) ==
    IF query.sort = "DESC" THEN Older(CreatedAt[j], j, CreatedAt[i], i)
                           ELSE Older(CreatedAt[i], i, CreatedAt[j], j)

PastCursor(i) ==
    \/ cursor = None
    \/ query.sort = "DESC" /\ Older(CreatedAt[i], i, cursor.ts, cursor.id)
    \/ query.sort = "ASC" /\ Older(cursor.ts, cursor.id, CreatedAt[i], i)

ActiveFilter(i) == active[i] = IF query.active = None THEN TRUE ELSE query.active

\* andWhere joins its arguments with AND as they are, and one is an OR without
\* parentheses.
Selected(i) ==
    IF query.search
    THEN \/ ActiveFilter(i) /\ i \in EnMatches
         \/ i \in TitleMatches /\ PastCursor(i)
    ELSE ActiveFilter(i) /\ PastCursor(i)

Item(i) == [id |-> i, active |-> active[i]]

List ==
    LET rows == SetToSortSeq({i \in Certs : Selected(i)}, Precedes)
        page == SubSeq(rows, 1, IF Len(rows) < Limit THEN Len(rows) ELSE Limit)
        hasMore == Len(rows) > Limit
    IN  /\ answer' = {Item(page[k]) : k \in DOMAIN page}
        /\ cursor' = IF hasMore THEN EncodeCursor(page[Len(page)]) ELSE None
        /\ UNCHANGED <<active, query, edits>>

\* GET /catalog/:id; a 404 shows nothing.
GetById(i) ==
    /\ answer' = IF active[i] THEN {Item(i)} ELSE {}
    /\ UNCHANGED <<active, query, cursor, edits>>

SoftDelete(i) ==
    /\ edits < MaxEdits
    /\ active' = [active EXCEPT ![i] = FALSE]
    /\ edits' = edits + 1
    /\ UNCHANGED <<query, cursor, answer>>

\* PATCH { active: true }
Reactivate(i) ==
    /\ edits < MaxEdits
    /\ active' = [active EXCEPT ![i] = TRUE]
    /\ edits' = edits + 1
    /\ UNCHANGED <<query, cursor, answer>>

Next == List \/ \E i \in Certs : GetById(i) \/ SoftDelete(i) \/ Reactivate(i)

Spec == Init /\ [][Next]_vars

-----------------------------------------------------------------------------
(* Properties.                                                             *)

\* "Returns ONLY active certificates": nothing in an answer was inactive when it
\* was read, unless the query asked for inactive ones.
OnlyActive == query.active # FALSE => \A item \in answer : item.active
===============================================================================
