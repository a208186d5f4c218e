------------------------------ MODULE TenantScope ------------------------------
(***************************************************************************)
(* The tenant scope of a request on its pooled database connection         *)
(* (middleware.go RLSInjector, AcquireScoped and ReleaseRLSConn,           *)
(* internal_auth.go, portal.go RequirePortal), and the books and           *)
(* assignments it is computed from (tenant.go).                            *)
(*                                                                         *)
(* The scope is a pair of settings of the database session, so it stays    *)
(* on the connection until somebody resets it. A request may fail or       *)
(* panic, and its client may leave, between any two statements.            *)
(***************************************************************************)
EXTENDS Naturals, FiniteSets

CONSTANTS
    Books,              \* books that exist or may be created
    FirmOf,             \* FirmOf[x]: the firm of a book or user x
    Staff, Admins,      \* users, by role
    Calls,              \* requests served at the same time
    Connections,        \* connections the pool may hold
    MaxCalls            \* bound on the requests

ASSUME TenantBounds == MaxCalls \in Nat /\ Staff \cap Admins = {}

VARIABLES
    book,           \* rows of client_books
    assigned,       \* rows of user_book_assignments
    connection,     \* connection[c]: its state in the pool and its settings
    call,           \* call[r]: the request r
    calls

tenantVars == <<book, assigned, connection, call, calls>>

Users == Staff \cup Admins
Firms == {FirmOf[x] : x \in Users \cup Books}
Scope == [firm: SUBSET Firms, books: SUBSET Books]
NoScope == [firm |-> {}, books |-> {}]
CallStep == {"idle", "firm", "load", "books", "handle", "release"}

TenantTypeOK ==
    /\ book \subseteq Books
    /\ assigned \subseteq Users \X Books
    /\ connection \in [Connections -> [state: {"closed", "idle", "lent"}, scope: Scope]]
    /\ call \in [Calls -> [next: CallStep, by: SUBSET (Users \cup Books),
                           on: SUBSET Connections, loaded: SUBSET Books]]
    /\ calls \in 0..MaxCalls

NoCall == [next |-> "idle", by |-> {}, on |-> {}, loaded |-> {}]

TenantInit ==
    /\ book \in SUBSET Books
    /\ assigned = {}
    /\ connection = [c \in Connections |-> [state |-> "closed", scope |-> NoScope]]
    /\ call = [r \in Calls |-> NoCall]
    /\ calls = 0

(***************************************************************************)
(* Acquiring: an idle connection as it was left, or a new one. RLSInjector *)
(* serves a user; the portal and the internal tools come with a book and   *)
(* resolve its firm outside the pool.                                      *)
(***************************************************************************)
Acquire(r, x, c) ==
    /\ call[r].next = "idle"
    /\ calls < MaxCalls
    /\ connection[c].state # "lent"
    /\ calls' = calls + 1
    /\ connection' = [connection EXCEPT ![c].state = "lent"]
    /\ call' = [call EXCEPT ![r] =
           [next |-> "firm", by |-> {x}, on |-> {c}, loaded |-> IF x \in Users THEN {} ELSE {x}]]
    /\ UNCHANGED <<book, assigned>>

RLSInjector(r, u, c) == Acquire(r, u, c)
AcquireScoped(r, b, c) == b \in book /\ Acquire(r, b, c)

Own(r) == {FirmOf[x] : x \in call[r].by}
Visible(c, b) == b \in book /\ FirmOf[b] \in connection[c].scope.firm

SetFirm(r) ==
    /\ call[r].next = "firm"
    /\ connection' = [c \in Connections |-> IF c \in call[r].on
           THEN [connection[c] EXCEPT !.scope.firm = Own(r)] ELSE connection[c]]
    /\ call' = [call EXCEPT ![r].next = IF call[r].by \subseteq Users THEN "load" ELSE "books"]
    /\ UNCHANGED <<book, assigned, calls>>

\* Both queries run on the connection itself, under the policies of its scope.
AssignedBooks(u, c) ==
    {b \in Books :
        /\ Visible(c, b)
        /\ IF u \in Admins THEN FirmOf[b] = FirmOf[u] ELSE <<u, b>> \in assigned}

GetAssignedBooks(r) ==
    /\ call[r].next = "load"
    /\ \E u \in call[r].by, c \in call[r].on :
           call' = [call EXCEPT ![r] = [next |-> "books", by |-> call[r].by, on |-> call[r].on,
                                        loaded |-> AssignedBooks(u, c)]]
    /\ UNCHANGED <<book, assigned, connection, calls>>

SetBooks(r) ==
    /\ call[r].next = "books"
    /\ connection' = [c \in Connections |-> IF c \in call[r].on
           THEN [connection[c] EXCEPT !.scope.books = call[r].loaded] ELSE connection[c]]
    /\ call' = [call EXCEPT ![r].next = "handle"]
    /\ UNCHANGED <<book, assigned, calls>>

(***************************************************************************)
(* Handlers. One that changes neither books nor assignments just ends, as  *)
(* does a request that fails, panics or is cancelled on its way.           *)
(***************************************************************************)
Handling(r, users) == call[r].next = "handle" /\ call[r].by \subseteq users
End(r) == call' = [call EXCEPT ![r].next = "release"]

AbandonCall(r) ==
    /\ call[r].next \notin {"idle", "release"}
    /\ End(r)
    /\ UNCHANGED <<book, assigned, connection, calls>>

HandleCreateBook(r, b) ==
    /\ Handling(r, Users)
    /\ b \notin book /\ FirmOf[b] \in Own(r)
    /\ book' = book \cup {b}
    /\ assigned' = assigned \cup {<<u, b>> : u \in call[r].by}
    /\ End(r)
    /\ UNCHANGED <<connection, calls>>

\* The routes stand outside /v1/admin, so anybody signed in may call them. The
\* user may be of any firm; the policy wants the book to be of this one.
HandleAssignStaff(r, u, b) ==
    /\ Handling(r, Users)
    /\ \E c \in call[r].on : Visible(c, b)
    /\ <<u, b>> \notin assigned
    /\ assigned' = assigned \cup {<<u, b>>}
    /\ End(r)
    /\ UNCHANGED <<book, connection, calls>>

HandleRemoveStaff(r, u, b) ==
    /\ Handling(r, Users)
    /\ \E c \in call[r].on : Visible(c, b)
    /\ <<u, b>> \in assigned
    /\ assigned' = assigned \ {<<u, b>>}
    /\ End(r)
    /\ UNCHANGED <<book, connection, calls>>

(***************************************************************************)
(* ReleaseRLSConn, deferred, on a context that nobody can cancel: what     *)
(* cannot be scrubbed is closed.                                           *)
(***************************************************************************)
Released(r, state, scope) ==
    [c \in Connections |-> IF c \in call[r].on THEN [state |-> state, scope |-> scope] ELSE connection[c]]

\* Mutant: the connection goes back as it is.
ReleaseUnscrubbed(r) ==
    /\ call[r].next = "release"
    /\ connection' = [c \in Connections |-> IF c \in call[r].on
           THEN [connection[c] EXCEPT !.state = "idle"] ELSE connection[c]]
    /\ call' = [call EXCEPT ![r] = NoCall]
    /\ UNCHANGED <<book, assigned, calls>>

ReleaseScrubbed(r) ==
    /\ call[r].next = "release"
    /\ connection' = Released(r, "idle", NoScope)
    /\ call' = [call EXCEPT ![r] = NoCall]
    /\ UNCHANGED <<book, assigned, calls>>

ReleaseClosed(r) ==
    /\ call[r].next = "release"
    /\ connection' = Released(r, "closed", NoScope)
    /\ call' = [call EXCEPT ![r] = NoCall]
    /\ UNCHANGED <<book, assigned, calls>>

TenantNext ==
    \E r \in Calls :
        \/ \E u \in Users, c \in Connections : RLSInjector(r, u, c)
        \/ \E b \in Books, c \in Connections : AcquireScoped(r, b, c)
        \/ SetFirm(r) \/ GetAssignedBooks(r) \/ SetBooks(r) \/ AbandonCall(r)
        \/ \E b \in Books : HandleCreateBook(r, b)
        \/ \E u \in Users, b \in Books : HandleAssignStaff(r, u, b) \/ HandleRemoveStaff(r, u, b)
        \/ ReleaseScrubbed(r) \/ ReleaseClosed(r)

TenantSpec == TenantInit /\ [][TenantNext]_tenantVars

------------------------------------------------------------------------------
(***************************************************************************)
(* A connection that carries a scope is lent to one request, and what it   *)
(* carries is that request's own firm and books of that firm: neither a    *)
(* connection that was used before, nor a request that ended half way, nor *)
(* an assignment across firms puts a handler into another tenant's scope   *)
(* (middleware.go:101-111, 204-227).                                       *)
(***************************************************************************)
Holders(c) == {r \in Calls : c \in call[r].on}

ScopedToCaller ==
    /\ \A c \in Connections : connection[c].scope # NoScope =>
           \E r \in Calls :
               /\ Holders(c) = {r}
               /\ connection[c].scope.firm = Own(r)
               /\ \A b \in connection[c].scope.books : FirmOf[b] \in Own(r)
    /\ \A r \in Calls, c \in Connections :
           (call[r].next = "handle" /\ c \in call[r].on) =>
               connection[c].scope = [firm |-> Own(r), books |-> call[r].loaded]
==============================================================================
