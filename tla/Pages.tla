------------------------------- MODULE Pages --------------------------------
(***************************************************************************)
(* Cursor pagination of the read API.                                      *)
(*                                                                         *)
(* Every list endpoint walks one table in descending order of a timestamp  *)
(* and the row's id.  A page is one SELECT of page_size + 1 rows before    *)
(* the cursor; the extra row tells that there is a next page, and the      *)
(* token is the key of the last row that was returned.  Between two pages  *)
(* of a client's scan anything may be written.                             *)
(*                                                                         *)
(* The timestamps are stamped by the service before the transaction waits  *)
(* for its locks, by replicas whose clocks differ, and occurred_at of a    *)
(* transaction comes from the client: a row may appear at any place of the *)
(* order, and a rewritten updated_at may also go back.                     *)
(***************************************************************************)
EXTENDS Naturals, FiniteSets

CONSTANTS
  Id,           \* ids of rows, in their order
  Time,         \* timestamps
  DefaultSize,  \* page size when the client gives none (25)
  MaxSize,      \* largest page size (100)
  Asked         \* the values of page_size that clients send, 0 for none

ASSUME PagesAssumption ==
  /\ Id \subseteq Nat
  /\ IsFiniteSet(Id)
  /\ Time \subseteq Nat \ {0}
  /\ MaxSize \in Nat
  /\ DefaultSize \in 1..MaxSize
  /\ Asked \subseteq Nat

VARIABLES
  list,     \* which kind of list is scanned
  at,       \* the timestamp each row is listed by; 0 while there is no row
  status,   \* the status column
  scan,     \* is a scan under way
  filter,   \* its status filter
  cursor,   \* the token of its next page
  listed,   \* how often it has returned each row, counted to 2
  present,  \* history: rows that satisfied the filter when it began
  changed   \* history: rows that were written since

tableVars == <<list, at, status>>
scanVars == <<scan, filter, cursor, listed, present>>
vars == <<tableVars, scanVars, changed>>

(* "fixed": transactions, audit events and customer activity; rows never   *)
(* change.  "reviewed": customers and alerts; the status changes and       *)
(* created_at does not.  "worked": cases, listed by updated_at.            *)
Lists == {"fixed", "reviewed", "worked"}
Status == {"open", "in_progress", "resolved"}
Filters == {"any"} \union Status

Key == Time \X Id
NoCursor == <<0, 0>>

TypeOK ==
  /\ list \in Lists
  /\ at \in [Id -> Time \union {0}]
  /\ status \in [Id -> Status]
  /\ scan \in {"none", "running", "ended"}
  /\ filter \in Filters
  /\ cursor \in Key \union {NoCursor}
  /\ (scan = "running") <=> (cursor # NoCursor)
  /\ listed \in [Id -> 0..2]
  /\ present \subseteq Id
  /\ changed \subseteq Id

Init ==
  /\ list \in Lists
  /\ at \in [Id -> Time \union {0}]
  /\ status = [r \in Id |-> "open"]
  /\ scan = "none"
  /\ filter = "any"
  /\ cursor = NoCursor
  /\ listed = [r \in Id |-> 0]
  /\ present = {}
  /\ changed = {}

-----------------------------------------------------------------------------
(* The writers. *)
Write(r, t, s) ==
  /\ at' = [at EXCEPT ![r] = t]
  /\ status' = [status EXCEPT ![r] = s]
  /\ changed' = changed \union {r}
  /\ UNCHANGED <<list, scanVars>>

Insert(r, t) == at[r] = 0 /\ Write(r, t, "open")

(* A customer is approved or rejected, an alert closed. *)
Review(r) ==
  /\ list = "reviewed"
  /\ at[r] # 0
  /\ status[r] = "open"
  /\ Write(r, at[r], "resolved")

(* A case is assigned, commented or resolved: updated_at is rewritten. *)
WorkOn(r, t, s) ==
  /\ list = "worked"
  /\ at[r] # 0
  /\ status[r] # "resolved"
  /\ s \in {status[r], "in_progress", "resolved"}
  /\ Write(r, t, s)

-----------------------------------------------------------------------------
(* The scan. *)
KeyOf(r) == <<at[r], r>>

Older(k, l) == k[1] < l[1] \/ (k[1] = l[1] /\ k[2] < l[2])

(* Mutants of Before: the id is left out of the comparison, and the cursor *)
(* itself is let in.                                                       *)
BeforeByTime(r, c) == c = NoCursor \/ at[r] < c[1]
BeforeOrAt(r, c) == c = NoCursor \/ Older(KeyOf(r), c) \/ KeyOf(r) = c

Before(r, c) == c = NoCursor \/ Older(KeyOf(r), c)

(* The WHERE clause. *)
Matching(f) == {r \in Id : at[r] # 0 /\ f \in {"any", status[r]}}
Rows(f, c) == {r \in Matching(f) : Before(r, c)}

(* ORDER BY time DESC, id DESC LIMIT n: S is what the SELECT returns of E. *)
Newest(E, S, n) ==
  /\ S \subseteq E
  /\ \A r \in S, q \in E \ S : Older(KeyOf(q), KeyOf(r))
  /\ IF Cardinality(E) <= n THEN S = E ELSE Cardinality(S) = n

(* The last of the rows S in the order of the list. *)
Oldest(S) == CHOOSE r \in S : \A q \in S \ {r} : Older(KeyOf(r), KeyOf(q))

ValidSize(size) == size <= MaxSize
Limit(size) == (IF size = 0 THEN DefaultSize ELSE size) + 1

page(S, limit) ==
  IF Cardinality(S) < limit
    THEN [items |-> S, next |-> NoCursor]
    ELSE LET items == S \ {Oldest(S)} IN [items |-> items, next |-> KeyOf(Oldest(items))]

(* One request of the scan: the rows before c, after those counted in n. *)
Return(f, c, size, n) ==
  \E S \in SUBSET Id :
    LET p == page(S, Limit(size)) IN
    /\ Newest(Rows(f, c), S, Limit(size))
    /\ listed' = [r \in Id |-> IF r \in p.items /\ n[r] < 2 THEN n[r] + 1 ELSE n[r]]
    /\ cursor' = p.next
    /\ scan' = IF p.next = NoCursor THEN "ended" ELSE "running"

(* A request without a token begins a scan. *)
FirstPage(f, size) ==
  /\ scan # "running"
  /\ ValidSize(size)
  /\ f # "any" => list # "fixed"
  /\ Return(f, NoCursor, size, [r \in Id |-> 0])
  /\ filter' = f
  /\ present' = Matching(f)
  /\ changed' = {}
  /\ UNCHANGED tableVars

(* Mutant of NextPage: the decoded cursor does not reach the query. *)
NextPageFromStart(size) ==
  /\ scan = "running"
  /\ ValidSize(size)
  /\ Return(filter, NoCursor, size, listed)
  /\ UNCHANGED <<tableVars, filter, present, changed>>

(* A request with the token of the page before it. *)
NextPage(size) ==
  /\ scan = "running"
  /\ ValidSize(size)
  /\ Return(filter, cursor, size, listed)
  /\ UNCHANGED <<tableVars, filter, present, changed>>

Next ==
  \/ \E r \in Id, t \in Time : Insert(r, t)
  \/ \E r \in Id : Review(r)
  \/ \E r \in Id, t \in Time, s \in Status : WorkOn(r, t, s)
  \/ \E f \in Filters, size \in Asked : FirstPage(f, size)
  \/ \E size \in Asked : NextPage(size)

Spec == Init /\ [][Next]_vars

(* The client asks for page after page until there is no token. *)
FairSpec == Spec /\ WF_vars(\E size \in Asked : NextPage(size))

-----------------------------------------------------------------------------
(* A finished scan has returned every row that was there when it began,    *)
(* satisfied the filter and was not written meanwhile, exactly once: no    *)
(* insert, review or work on other rows, and no tie of timestamps, makes   *)
(* the client miss it or see it twice.                                     *)
UntouchedListedOnce ==
  scan = "ended" => \A r \in present \ changed : listed[r] = 1

(* A row is returned twice only if its key was rewritten in between: the   *)
(* lists of customers, transactions, alerts and audit events never repeat  *)
(* a row, whatever is written during the scan.                             *)
RepeatsOnlyIfMoved ==
  \A r \in Id : listed[r] > 1 => list = "worked" /\ r \in changed

(* A scan comes to its end, however small the pages are and although rows  *)
(* keep being written.                                                     *)
ScanEnds == scan = "running" ~> scan = "ended"

(* Why it does: every page of a scan is the last one or returns a token    *)
(* that is strictly older than the one it was asked with, whatever was     *)
(* written in between, and nothing else changes the token.                 *)
TokenGoesBack ==
  scan = "running" =>
    IF \E size \in Asked : NextPage(size)
      THEN scan' = "ended" \/ Older(cursor', cursor)
      ELSE UNCHANGED <<scan, cursor>>

TokensGoBack == [][TokenGoesBack]_vars

-----------------------------------------------------------------------------
(* The inductive invariant: a row that was there and has not been written  *)
(* is either still ahead of the cursor or has been returned once; a row    *)
(* whose key is fixed has been returned only if it is behind the cursor.   *)
(* A row that was not there and has not been written is no row of the scan.*)
Ahead(r) == scan = "running" /\ Before(r, cursor)

UntouchedAheadOrListed ==
  scan # "none" => \A r \in present \ changed :
    /\ r \in Matching(filter)
    /\ listed[r] = IF Ahead(r) THEN 0 ELSE 1

FixedListedBehind ==
  list # "worked" => \A r \in Id :
    /\ listed[r] <= 1
    /\ listed[r] = 1 => at[r] # 0 /\ ~Ahead(r)

OtherRowsFilteredOut ==
  scan # "none" => \A r \in Id \ (present \union changed) : r \notin Matching(filter)

OnlyChangedRepeat == \A r \in Id : listed[r] > 1 => r \in changed

PagesInv ==
  /\ TypeOK
  /\ UntouchedAheadOrListed
  /\ OtherRowsFilteredOut
  /\ FixedListedBehind
  /\ OnlyChangedRepeat
=============================================================================
