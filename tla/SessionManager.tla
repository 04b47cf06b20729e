--------------------------- MODULE SessionManager ---------------------------
(***************************************************************************)
(* src/session/manager.rs: the record of one session and the operations on *)
(* it.  A method that returns a Result is two operators: x_error(...) says *)
(* which SessionError it returns ("Ok" when none), x(...) is the session   *)
(* afterwards when it succeeds.  The map of sessions is left out: neoshd   *)
(* creates one session per process and never removes it, so the NotFound   *)
(* returns cannot be taken.                                                *)
(***************************************************************************)
EXTENDS Options

CONSTANT MaxEpoch            \* u64::MAX, where attach_epoch saturates

ASSUME MaxEpochAssumption == MaxEpoch \in Nat \ {0}

SessionState == {"Created", "Attached", "Detached", "Expired", "Terminated"}

\* The states attach_exclusive refuses and detach leaves alone.
Terminal == {"Expired", "Terminated"}

Session(Conn) ==
    [state : SessionState, attached_conn_id : Option(Conn),
     attach_epoch : 0..MaxEpoch]

create_session ==
    [state |-> "Created", attached_conn_id |-> None, attach_epoch |-> 0]

----------------------------------------------------------------------------
(* Mutants: what a slip in the operations below would make of them. *)

saturating_inc_Overflows(e) == e + 1

attach_error_IgnoresTerminal(s) ==
    IF s.attached_conn_id # None THEN "AttachDenied" ELSE "Ok"

attach_error_IgnoresOwner(s) ==
    IF s.state \in Terminal THEN "InvalidState" ELSE "Ok"

attach_exclusive_KeepsEpoch(s, c) ==
    [s EXCEPT !.attached_conn_id = c, !.state = "Attached"]

----------------------------------------------------------------------------
saturating_inc(e) == IF e < MaxEpoch THEN e + 1 ELSE e

attach_error(s) ==
    IF s.state \in Terminal THEN "InvalidState"
    ELSE IF s.attached_conn_id # None THEN "AttachDenied"
    ELSE "Ok"

attach_exclusive(s, c) ==
    [s EXCEPT !.attach_epoch = saturating_inc(@),
              !.attached_conn_id = c,
              !.state = "Attached"]

\* The common tail of detach and conditional_stale_cleanup.
release(s) ==
    [s EXCEPT !.attached_conn_id = None,
              !.state = IF @ \in Terminal THEN @ ELSE "Detached"]

detach_error(s, c) == IF s.attached_conn_id = c THEN "Ok" ELSE "AttachDenied"

detach(s, c) == release(s)

\* The condition under which conditional_stale_cleanup acts and returns true.
owns(s, c, e) == s.attached_conn_id = c /\ s.attach_epoch = e

conditional_stale_cleanup(s, c, e) == IF owns(s, c, e) THEN release(s) ELSE s

terminate(s) == [s EXCEPT !.state = "Terminated", !.attached_conn_id = None]

expire(s) == [s EXCEPT !.state = "Expired", !.attached_conn_id = None]

=============================================================================
