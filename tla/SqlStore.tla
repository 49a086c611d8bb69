------------------------------ MODULE SqlStore ------------------------------
(***************************************************************************)
(* What a write through a DbContext (src/lib/sql/db.go) promises its       *)
(* caller, whatever sessions, groups and chunks it uses inside: a call     *)
(* either takes its whole effect on the committed rows at once and returns *)
(* the number of rows its statements affected, or leaves the rows as they  *)
(* were and returns 0.  The effect of a call and its count are parameters: *)
(* the detailed module supplies them as declarative definitions.           *)
(***************************************************************************)
EXTENDS Naturals

CONSTANTS
    Calls,          \* the requests a caller may make
    NoCall,         \* no call in progress
    Effect(_, _),   \* Effect(c, rows): the committed rows after c succeeds
    Count(_, _)     \* Count(c, rows): the count c returns when it succeeds

VARIABLES
    rows,           \* the committed rows of the database
    call,           \* the request in progress, or NoCall
    ret             \* the count returned by the last call

vars == <<rows, call, ret>>

Init ==
    /\ call = NoCall
    /\ ret = 0

\* The application issues a request.
Invoke ==
    /\ call = NoCall
    /\ call' \in Calls
    /\ UNCHANGED <<rows, ret>>

\* The request takes its whole effect at once.
Succeed ==
    /\ call # NoCall
    /\ rows' = Effect(call, rows)
    /\ ret' = Count(call, rows)
    /\ call' = NoCall

\* The request fails and nothing of it remains.
Fail ==
    /\ call # NoCall
    /\ ret' = 0
    /\ call' = NoCall
    /\ UNCHANGED rows

Next == Invoke \/ Succeed \/ Fail

Spec == Init /\ [][Next]_vars
=============================================================================
