-------------------------- MODULE ExclusiveSession --------------------------
(***************************************************************************)
(* What neoshd promises about the ownership of a session, without tokens,  *)
(* messages, timeouts or the PTY: the session is a lock that connections   *)
(* take one at a time until it is over for good.  `holders` are the        *)
(* connections that count themselves attached; as long as the session is   *)
(* not over, such a connection is the owner.                               *)
(***************************************************************************)
EXTENDS Options

CONSTANTS Conns, MaxEpoch

VARIABLES owner, epoch, over, holders

vars == <<owner, epoch, over, holders>>

Init == owner = None /\ epoch = 0 /\ over = FALSE /\ holders = {}

\* c becomes the owner of a free session.  It may fail before it knows.
Acquire(c) ==
    /\ ~ over /\ owner = None
    /\ owner' = c
    /\ epoch' = IF epoch < MaxEpoch THEN epoch + 1 ELSE epoch
    /\ holders' \in {holders, holders \cup {c}}
    /\ UNCHANGED over

\* The owner gives the session back and knows it.
Release(c) ==
    /\ owner = c
    /\ owner' = None
    /\ holders' = holders \ {c}
    /\ UNCHANGED <<epoch, over>>

\* The session ends; the connection that ends it may be done with it.
End ==
    /\ over' = TRUE
    /\ owner' = None
    /\ \E gone \in SUBSET holders :
         (\A c, d \in gone : c = d) /\ holders' = holders \ gone
    /\ UNCHANGED epoch

\* A connection finds out that the session is over.
Leave(c) ==
    /\ over
    /\ holders' = holders \ {c}
    /\ UNCHANGED <<owner, epoch, over>>

Next == End \/ \E c \in Conns : Acquire(c) \/ Release(c) \/ Leave(c)

Spec == Init /\ [][Next]_vars

=============================================================================
