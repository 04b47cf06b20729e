------------------------------- MODULE Options -------------------------------
(***************************************************************************)
(* Rust's Option<T>: the value None next to the values of a type.  Times   *)
(* and epochs are naturals, so None must not be one of them.               *)
(***************************************************************************)
EXTENDS Naturals

CONSTANT None

ASSUME NoneAssumption == None \notin Nat

Option(T) == T \cup {None}

\* SystemTime::duration_since: an Err when `since` lies in the future of `now`
\* (the wall clock was stepped back), so no duration comparison succeeds.
ElapsedAtLeast(now, since, d) == since <= now /\ now - since >= d
ElapsedAtMost(now, since, d)  == since <= now /\ now - since <= d

=============================================================================
