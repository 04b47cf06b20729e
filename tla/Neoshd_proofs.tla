---------------------------- MODULE Neoshd_proofs ----------------------------
(***************************************************************************)
(* Proofs about Neoshd for every set of connections, every timeout and     *)
(* every bound.  Next has many actions but few ways to touch the ownership *)
(* of the session, or the tokens: SessionSteps and TokenSteps sort every   *)
(* step into them, and the invariants are proved on those.                 *)
(***************************************************************************)
EXTENDS Neoshd, TLAPS

USE NoneAssumption, MaxEpochAssumption, ConnsAssumption, DurationAssumption,
    BoundAssumption

(***************************************************************************)
(* Types                                                                   *)
(***************************************************************************)

\* The session operations return sessions.
LEMMA SessionTypes ==
    ASSUME NEW s \in Session(Conns), NEW c \in Conns, NEW e
    PROVE  /\ attach_exclusive(s, c) \in Session(Conns)
           /\ release(s) \in Session(Conns)
           /\ conditional_stale_cleanup(s, c, e) \in Session(Conns)
           /\ terminate(s) \in Session(Conns)
           /\ expire(s) \in Session(Conns)
<1> USE DEF Session, SessionState, Option
<1>1. attach_exclusive(s, c) \in Session(Conns)
  <2>1. saturating_inc(s.attach_epoch) \in 0..MaxEpoch
    BY MaxEpochAssumption DEF saturating_inc
  <2> QED BY <2>1 DEF attach_exclusive
<1>2. release(s) \in Session(Conns)
  BY DEF release
<1>3. conditional_stale_cleanup(s, c, e) \in Session(Conns)
  BY <1>2 DEF conditional_stale_cleanup
<1>4. terminate(s) \in Session(Conns)
  BY DEF terminate
<1>5. expire(s) \in Session(Conns)
  BY DEF expire
<1> QED BY <1>1, <1>2, <1>3, <1>4, <1>5

\* So do the token operations, on sets of records.
LEMMA TokenTypes ==
    ASSUME NEW R \in SUBSET TokenRecord(Nat, {sid}, {user}),
           NEW raw \in Nat, NEW type \in TokenType, NEW ttl \in Nat,
           NEW t \in Nat
    PROVE  /\ issue_token(R, raw, type, sid, user, ttl, t)
                \in SUBSET TokenRecord(Nat, {sid}, {user})
           /\ consume(R, raw, t) \in SUBSET TokenRecord(Nat, {sid}, {user})
           /\ cleanup_expired(R, t, Retention)
                \in SUBSET TokenRecord(Nat, {sid}, {user})
<1>1. issue_token(R, raw, type, sid, user, ttl, t)
        \in SUBSET TokenRecord(Nat, {sid}, {user})
  BY DEF issue_token, TokenRecord, Option
<1>2. consume(R, raw, t) \in SUBSET TokenRecord(Nat, {sid}, {user})
  BY DEF consume, TokenRecord, Option
<1>3. cleanup_expired(R, t, Retention) \in SUBSET TokenRecord(Nat, {sid}, {user})
  BY DEF cleanup_expired
<1> QED BY <1>1, <1>2, <1>3

\* The initial state is well typed.
LEMMA InitTypeOK == Init => TypeOK
<1> SUFFICES ASSUME Init PROVE TypeOK
  OBVIOUS
<1>1. session \in Session(Conns)
  BY DEF Init, create_session, Session, SessionState, Option
<1>2. records \subseteq TokenRecord(Nat, {sid}, {user})
  BY DEF Init, issue_token, TokenRecord, TokenType, Option
<1> QED
  BY <1>1, <1>2 DEF Init, TypeOK, Option, PC, ConnectionState, CleanupReason

\* A step of the handler keeps its program counter and dispatcher in range.
LEMMA HandlerTypes ==
    ASSUME TypeOK, NEW c \in Conns, NEW label \in PC
    PROVE  /\ Goto(c, label) => pc' \in [Conns -> PC]
           /\ Write(c, label) => pc' \in [Conns -> PC]
           /\ Refuse(c) => pc' \in [Conns -> PC]
           /\ \A kind : Recv(c, kind) => disp' \in [Conns -> ConnectionState]
BY DEF TypeOK, Goto, Write, Refuse, Recv, PC

\* Every step of the next-state relation preserves the types.
LEMMA NextTypeOK == TypeOK /\ [Next]_vars => TypeOK'
<1> SUFFICES ASSUME TypeOK, [Next]_vars PROVE TypeOK'
  OBVIOUS
<1> USE DEF TypeOK, sessionVars, tokenVars, clockVars, loopVars, connVars
<1>l. {"read", "auth_ok", "attach_ok", "data_plane", "accept_bi", "cleanup",
       "closed", "failed"} \subseteq PC
  BY DEF PC
<1>1. ASSUME NEW c \in Conns, AcceptBi(c) PROVE TypeOK'
  BY <1>1, <1>l, HandlerTypes DEF AcceptBi
<1>2. ASSUME NEW c \in Conns, ReadError(c) PROVE TypeOK'
  BY <1>2, <1>l, HandlerTypes DEF ReadError
<1>3. ASSUME NEW c \in Conns, BadMessage(c) PROVE TypeOK'
  BY <1>3, <1>l, HandlerTypes DEF BadMessage
<1>4. ASSUME NEW c \in Conns, WriteAuthOk(c) PROVE TypeOK'
  BY <1>4, <1>l, HandlerTypes DEF WriteAuthOk
<1>5. ASSUME NEW c \in Conns, WriteAttachOk(c) PROVE TypeOK'
  BY <1>5, <1>l, HandlerTypes DEF WriteAttachOk
<1>6. ASSUME NEW c \in Conns, StartDataPlane(c) PROVE TypeOK'
  BY <1>6, <1>l, HandlerTypes DEF StartDataPlane
<1>7. ASSUME NEW c \in Conns, BadPayload(c) PROVE TypeOK'
  BY <1>7, <1>l, HandlerTypes DEF BadPayload
<1>8. ASSUME NEW c \in Conns, Hello(c) PROVE TypeOK'
  BY <1>8, <1>l, HandlerTypes DEF Hello
<1>9. ASSUME NEW c \in Conns, Ping(c) PROVE TypeOK'
  BY <1>9, <1>l, HandlerTypes DEF Ping
<1>10. ASSUME NEW c \in Conns, Resize(c) PROVE TypeOK'
  BY <1>10, <1>l, HandlerTypes DEF Resize
<1>11. ASSUME NEW c \in Conns, DetachFails(c) PROVE TypeOK'
  BY <1>11, <1>l, HandlerTypes DEF DetachFails
<1>12. ASSUME NEW c \in Conns, NEW t \in Raw, AuthRefused(c, t) PROVE TypeOK'
  BY <1>12, <1>l, HandlerTypes DEF AuthRefused
<1>13. ASSUME NEW c \in Conns, NEW t \in Raw, Auth(c, t) PROVE TypeOK'
  <2>1. t \in Nat
    BY DEF Raw
  <2>2. records' \subseteq TokenRecord(Nat, {sid}, {user})
    <3>1. consume(records, t, now) \in SUBSET TokenRecord(Nat, {sid}, {user})
      BY <2>1, TokenTypes DEF TokenType
    <3>2. issued + 1 \in Nat
      OBVIOUS
    <3>3. issue_token(consume(records, t, now), issued + 1, "Resume", sid, user,
                      ResumeTtl, now) \in SUBSET TokenRecord(Nat, {sid}, {user})
      BY <3>1, <3>2, TokenTypes DEF TokenType
    <3> QED BY <1>13, <3>3 DEF Auth
  <2>3. issued' \in Nat
    BY <1>13 DEF Auth
  <2>4. auth_token' \in [Conns -> Option(Nat)]
    BY <1>13, <2>1 DEF Auth, Option
  <2>5. pc' \in [Conns -> PC] /\ disp' \in [Conns -> ConnectionState]
    BY <1>13, <1>l, HandlerTypes DEF Auth
  <2> QED BY <1>13, <2>2, <2>3, <2>4, <2>5 DEF Auth
<1>14. ASSUME NEW c \in Conns, NEW own, NEW t, AttachRefused(c, own, t) PROVE TypeOK'
  BY <1>14, <1>l, HandlerTypes DEF AttachRefused, RecvAttach
<1>15. ASSUME NEW c \in Conns, NEW own, NEW t, Attach(c, own, t) PROVE TypeOK'
  <2>1. session' \in Session(Conns)
    BY <1>15, SessionTypes DEF Attach, Attached
  <2>2. session'.attach_epoch \in Nat
    BY <2>1 DEF Session
  <2> QED
    BY <1>15, <1>l, <2>1, <2>2, HandlerTypes
    DEF Attach, Attached, ensure_pty_runtime, RecvAttach, Option
<1>16. ASSUME NEW c \in Conns, NEW own, NEW t, AttachSpawnFails(c, own, t) PROVE TypeOK'
  BY <1>16, <1>l, SessionTypes, HandlerTypes
  DEF AttachSpawnFails, Attached, RecvAttach, Option
<1>17. ASSUME NEW c \in Conns, Detach(c) PROVE TypeOK'
  BY <1>17, <1>l, SessionTypes, HandlerTypes DEF Detach, detach, CleanupReason, Option
<1>18. ASSUME NEW c \in Conns, Close(c) PROVE TypeOK'
  BY <1>18, <1>l, SessionTypes, HandlerTypes DEF Close
<1>19. ASSUME NEW c \in Conns, Cleanup(c) PROVE TypeOK'
  <2>1. /\ terminate(session) \in Session(Conns)
        /\ conditional_stale_cleanup(session, c, attached_epoch[c]) \in Session(Conns)
    BY SessionTypes
  <2>2. session' \in Session(Conns)
    BY <1>19, <2>1 DEF Cleanup, finalize_connection_cleanup
  <2>3. detached_at' \in Option(Nat)
    BY <1>19 DEF Cleanup, finalize_connection_cleanup, Option
  <2> QED BY <1>19, <1>l, <2>2, <2>3, HandlerTypes DEF Cleanup
<1>20. ASSUME NEW c \in Conns, Accept(c) PROVE TypeOK'
  BY <1>20, <1>l, HandlerTypes DEF Accept
<1>21. ASSUME NEW c \in Conns, ConnLost(c) PROVE TypeOK'
  BY <1>21 DEF ConnLost
<1>22. CASE CheckSession
  <2>1. session' \in Session(Conns)
    <3>1. expire(session) \in Session(Conns)
      BY DEF expire, Session, SessionState, Option
    <3> QED BY <1>22, <3>1 DEF CheckSession
  <2> QED
    BY <1>22, <2>1
    DEF CheckSession, Stop, server_stop_reason, StopReason, Option
<1>23. CASE AcceptNone
  BY <1>23 DEF AcceptNone, Stop, StopReason, Option
<1>24. CASE Exit
  BY <1>24 DEF Exit
<1>25. CASE RenewAuth
  <2>1. issued + 1 \in Nat
    OBVIOUS
  <2>2. issue_token(records, issued + 1, "Auth", sid, user, AuthTtl, now)
          \in SUBSET TokenRecord(Nat, {sid}, {user})
    BY <2>1, TokenTypes DEF TokenType
  <2> QED BY <1>25, <2>1, <2>2 DEF RenewAuth
<1>26. CASE IpcFails
  BY <1>26 DEF IpcFails
<1>27. CASE sweep_tokens
  <2>1. records' \subseteq TokenRecord(Nat, {sid}, {user})
    BY <1>27 DEF sweep_tokens, cleanup_expired
  <2> QED BY <1>27, <2>1 DEF sweep_tokens
<1>28. CASE PtyExit
  BY <1>28 DEF PtyExit
<1>29. CASE Tick
  <2>1. now' \in Nat
    BY <1>29 DEF Tick
  <2> QED BY <1>29, <2>1 DEF Tick
<1>30. CASE ClockBack
  <2>1. now' \in Nat /\ clock_steps' \in Nat
    BY <1>30 DEF ClockBack
  <2> QED BY <1>30, <2>1 DEF ClockBack
<1>31. CASE UNCHANGED vars
  BY <1>31 DEF vars
<1> QED
  BY <1>1, <1>2, <1>3, <1>4, <1>5, <1>6, <1>7, <1>8, <1>9, <1>10,
     <1>11, <1>12, <1>13, <1>14, <1>15, <1>16, <1>17, <1>18, <1>19,
     <1>20, <1>21, <1>22, <1>23, <1>24, <1>25, <1>26, <1>27, <1>28,
     <1>29, <1>30, <1>31
  DEF Next, HandlerStep, Request, Exited

\* Type correctness: every state of every behaviour is well typed.
THEOREM TypeCorrect == Spec => []TypeOK
BY InitTypeOK, NextTypeOK, PTL DEF Spec

(***************************************************************************)
(* The ways a step touches the ownership of the session                    *)
(***************************************************************************)

\* Neither the session, nor its timer, nor what a handler remembers of it.
Quiet ==
    /\ UNCHANGED <<session, detached_at, attached_epoch, reason>>
    /\ \A c \in Conns : pc'[c] = "closed" <=> pc[c] = "closed"

Attaches(c) ==
    /\ pc[c] = "read" /\ authed[c]
    /\ attach_error(session) = "Ok"
    /\ Attached(c)
    /\ UNCHANGED reason
    /\ \/ /\ attached_epoch' = [attached_epoch EXCEPT ![c] = session'.attach_epoch]
          /\ Goto(c, "attach_ok")
       \/ UNCHANGED attached_epoch /\ Goto(c, "failed")

Detaches(c) ==
    /\ pc[c] = "read"
    /\ Owner = c
    /\ session' = release(session)
    /\ detached_at' = now
    /\ reason' = [reason EXCEPT ![c] = "ExplicitDetach"]
    /\ Goto(c, "cleanup")
    /\ UNCHANGED attached_epoch

Closes(c) ==
    /\ pc[c] = "read"
    /\ session' = terminate(session)
    /\ Goto(c, "cleanup")
    /\ UNCHANGED <<detached_at, attached_epoch, reason>>

Cleans(c) ==
    /\ pc[c] = "cleanup"
    /\ IF attached_epoch[c] # None THEN finalize_connection_cleanup(c)
                                  ELSE UNCHANGED <<session, detached_at>>
    /\ Goto(c, "closed")
    /\ UNCHANGED <<attached_epoch, reason>>

Expires ==
    /\ initial_timeout_fires \/ detached_timeout_fires
    /\ session' = expire(session)
    /\ UNCHANGED <<detached_at, pc, attached_epoch, reason>>

SessionStep ==
    \/ Quiet \/ Expires
    \/ \E c \in Conns : Attaches(c) \/ Detaches(c) \/ Closes(c) \/ Cleans(c)

\* Moving a handler that is not closed to a place that is not "closed" is quiet.
LEMMA QuietMove ==
    ASSUME TypeOK, NEW c \in Conns, pc[c] # "closed", NEW label, label # "closed",
           UNCHANGED <<session, detached_at, attached_epoch, reason>>,
           Goto(c, label) \/ Write(c, label) \/ Refuse(c)
    PROVE  Quiet
BY DEF TypeOK, Quiet, Goto, Write, Refuse

\* Every step is one of these.
LEMMA SessionSteps == TypeOK /\ [Next]_vars => SessionStep
<1> SUFFICES ASSUME TypeOK, [Next]_vars PROVE SessionStep
  OBVIOUS
<1> USE DEF sessionVars, tokenVars, clockVars, loopVars, connVars
<1>1. ASSUME NEW c \in Conns, AcceptBi(c) PROVE Quiet
  BY <1>1, QuietMove DEF AcceptBi
<1>2. ASSUME NEW c \in Conns, ReadError(c) PROVE Quiet
  BY <1>2, QuietMove DEF ReadError
<1>3. ASSUME NEW c \in Conns, BadMessage(c) PROVE Quiet
  BY <1>3, QuietMove DEF BadMessage
<1>4. ASSUME NEW c \in Conns, WriteAuthOk(c) PROVE Quiet
  BY <1>4, QuietMove DEF WriteAuthOk
<1>5. ASSUME NEW c \in Conns, WriteAttachOk(c) PROVE Quiet
  BY <1>5, QuietMove DEF WriteAttachOk
<1>6. ASSUME NEW c \in Conns, StartDataPlane(c) PROVE Quiet
  BY <1>6, QuietMove DEF StartDataPlane
<1>7. ASSUME NEW c \in Conns, BadPayload(c) PROVE Quiet
  BY <1>7, QuietMove DEF BadPayload, Recv
<1>8. ASSUME NEW c \in Conns, Hello(c) PROVE Quiet
  BY <1>8, QuietMove DEF Hello, Recv
<1>9. ASSUME NEW c \in Conns, Ping(c) PROVE Quiet
  BY <1>9, QuietMove DEF Ping, Recv
<1>10. ASSUME NEW c \in Conns, DetachFails(c) PROVE Quiet
  BY <1>10, QuietMove DEF DetachFails, Recv
<1>11. ASSUME NEW c \in Conns, Resize(c) PROVE Quiet
  BY <1>11, QuietMove DEF Resize, Recv, Quiet
<1>12. ASSUME NEW c \in Conns, NEW t, AuthRefused(c, t) PROVE Quiet
  BY <1>12, QuietMove DEF AuthRefused, Recv
<1>13. ASSUME NEW c \in Conns, NEW t, Auth(c, t) PROVE Quiet
  BY <1>13, QuietMove DEF Auth, Recv
<1>14. ASSUME NEW c \in Conns, NEW own, NEW t, AttachRefused(c, own, t) PROVE Quiet
  BY <1>14, QuietMove DEF AttachRefused, RecvAttach, Recv
<1>15. ASSUME NEW c \in Conns, NEW own, NEW t, Attach(c, own, t) PROVE Attaches(c)
  BY <1>15 DEF Attach, Attaches, MayAttach, RecvAttach, Recv
<1>16. ASSUME NEW c \in Conns, NEW own, NEW t, AttachSpawnFails(c, own, t)
      PROVE Attaches(c)
  BY <1>16 DEF AttachSpawnFails, Attaches, MayAttach, RecvAttach, Recv
<1>17. ASSUME NEW c \in Conns, Detach(c) PROVE Detaches(c)
  BY <1>17 DEF Detach, Detaches, Owner, detach_error, detach, Recv
<1>18. ASSUME NEW c \in Conns, Close(c) PROVE Closes(c)
  BY <1>18 DEF Close, Closes, Recv
<1>19. ASSUME NEW c \in Conns, Cleanup(c) PROVE Cleans(c)
  BY <1>19 DEF Cleanup, Cleans
<1>20. ASSUME NEW c \in Conns, Accept(c) PROVE Quiet
  BY <1>20, QuietMove DEF Accept
<1>21. ASSUME NEW c \in Conns, ConnLost(c) PROVE Quiet
  BY <1>21 DEF ConnLost, Quiet
<1>22. CASE CheckSession
  BY <1>22 DEF CheckSession, SessionStep, Quiet, Expires
<1>23. CASE AcceptNone
  BY <1>23 DEF AcceptNone, SessionStep, Quiet
<1>24. CASE Exit
  BY <1>24 DEF Exit, SessionStep, Quiet
<1>25. CASE RenewAuth
  BY <1>25 DEF RenewAuth, SessionStep, Quiet
<1>26. CASE IpcFails
  BY <1>26 DEF IpcFails, SessionStep, Quiet
<1>27. CASE sweep_tokens
  BY <1>27 DEF sweep_tokens, SessionStep, Quiet
<1>28. CASE PtyExit
  BY <1>28 DEF PtyExit, SessionStep, Quiet
<1>29. CASE Tick
  BY <1>29 DEF Tick, SessionStep, Quiet
<1>30. CASE ClockBack
  BY <1>30 DEF ClockBack, SessionStep, Quiet
<1>31. CASE UNCHANGED vars
  BY <1>31 DEF vars, SessionStep, Quiet
<1> QED
  BY <1>1, <1>2, <1>3, <1>4, <1>5, <1>6, <1>7, <1>8, <1>9, <1>10,
     <1>11, <1>12, <1>13, <1>14, <1>15, <1>16, <1>17, <1>18, <1>19,
     <1>20, <1>21, <1>22, <1>23, <1>24, <1>25, <1>26, <1>27, <1>28,
     <1>29, <1>30, <1>31
  DEF Next, HandlerStep, Request, Exited, SessionStep

(***************************************************************************)
(* Ownership                                                               *)
(***************************************************************************)

OwnershipInv ==
    TypeOK /\ TimerMatchesOwnership /\ HoldersOwn /\ CreatedIsUnattached

\* Nobody owns a new session and its timer is not running.
LEMMA InitOwnership == Init => OwnershipInv
<1> SUFFICES ASSUME Init PROVE OwnershipInv
  OBVIOUS
<1>1. TypeOK
  BY InitTypeOK
<1>2. TimerMatchesOwnership /\ CreatedIsUnattached
  BY DEF Init, create_session, TimerMatchesOwnership, CreatedIsUnattached, Owner
<1>3. HoldersOwn
  BY DEF Init, HoldersOwn, Holders
<1> QED BY <1>1, <1>2, <1>3 DEF OwnershipInv

\* Before a session that is not over gets another owner or none, no connection
\* but its owner counts itself attached.
LEMMA OnlyOwnerHolds ==
    ASSUME OwnershipInv, ~ Over, NEW c \in Holders
    PROVE  Owner = c /\ Owner # None
BY DEF OwnershipInv, HoldersOwn, Holders

\* The timer follows the ownership through every step.
LEMMA NextTimer ==
    ASSUME OwnershipInv, SessionStep PROVE TimerMatchesOwnership'
<1> USE DEF OwnershipInv, TypeOK, TimerMatchesOwnership, Owner, Session,
            SessionState, Option
<1>1. CASE Quiet
  BY <1>1 DEF Quiet
<1>2. CASE Expires
  BY <1>2 DEF Expires, expire
<1>3. ASSUME NEW c \in Conns, Attaches(c) PROVE TimerMatchesOwnership'
  BY <1>3 DEF Attaches, Attached, attach_exclusive
<1>4. ASSUME NEW c \in Conns, Detaches(c) PROVE TimerMatchesOwnership'
  BY <1>4 DEF Detaches, release, Terminal
<1>5. ASSUME NEW c \in Conns, Closes(c) PROVE TimerMatchesOwnership'
  BY <1>5 DEF Closes, terminate
<1>6. ASSUME NEW c \in Conns, Cleans(c) PROVE TimerMatchesOwnership'
  BY <1>6 DEF Cleans, finalize_connection_cleanup, terminate, owns,
              conditional_stale_cleanup, release, Terminal
<1> QED BY <1>1, <1>2, <1>3, <1>4, <1>5, <1>6 DEF SessionStep

\* So does what the handlers believe.
LEMMA NextHolders ==
    ASSUME OwnershipInv, SessionStep PROVE HoldersOwn'
<1> USE DEF TypeOK, Session
<1>t. TypeOK /\ TimerMatchesOwnership
  BY DEF OwnershipInv
<1>1. CASE Quiet
  BY <1>1, <1>t DEF Quiet, OwnershipInv, HoldersOwn, Holders, Owner, Over
<1>2. CASE Expires
  BY <1>2, <1>t DEF Expires, expire, HoldersOwn, Over, Terminal
<1>3. ASSUME NEW c \in Conns, Attaches(c) PROVE HoldersOwn'
  <2>1. ~ Over /\ Owner = None
    BY <1>3 DEF Attaches, attach_error, Over, Owner
  <2>2. Holders = {}
    BY <2>1, OnlyOwnerHolds
  <2>3. \A d \in Holders' : d = c /\ attached_epoch'[c] = session'.attach_epoch
    BY <1>3, <1>t, <2>2 DEF Attaches, Goto, Holders
  <2>4. session'.attached_conn_id = c
    BY <1>3, <1>t DEF Attaches, Attached, attach_exclusive
  <2> QED BY <2>3, <2>4 DEF HoldersOwn, Owner
<1>4. ASSUME NEW c \in Conns, Detaches(c) PROVE HoldersOwn'
  <2>1. ~ Over
    BY <1>4, <1>t DEF Detaches, TimerMatchesOwnership, Over, Terminal, Owner
  <2>2. Holders \subseteq {c}
    BY <1>4, <2>1, OnlyOwnerHolds DEF Detaches
  <2>3. Holders' = {}
    BY <1>4, <1>t, <2>2 DEF Detaches, Goto, Holders
  <2> QED BY <2>3 DEF HoldersOwn
<1>5. ASSUME NEW c \in Conns, Closes(c) PROVE HoldersOwn'
  BY <1>5, <1>t DEF Closes, terminate, HoldersOwn, Over, Terminal
<1>6. ASSUME NEW c \in Conns, Cleans(c) PROVE HoldersOwn'
  <2>1. Holders' \subseteq Holders \ {c}
    BY <1>6, <1>t DEF Cleans, Goto, Holders
  <2>2. CASE session' = terminate(session)
    BY <1>t, <2>2 DEF terminate, HoldersOwn, Over, Terminal
  <2>3. CASE session' = release(session) /\ Owner = c
    <3>1. ~ Over
      BY <1>t, <2>3 DEF TimerMatchesOwnership, Over, Terminal, Owner
    <3>2. Holders' = {}
      BY <2>1, <2>3, <3>1, OnlyOwnerHolds
    <3> QED BY <3>2 DEF HoldersOwn
  <2>4. CASE UNCHANGED session
    BY <1>6, <2>1, <2>4 DEF Cleans, OwnershipInv, HoldersOwn, Over, Owner
  <2> QED
    BY <1>6, <2>2, <2>3, <2>4
    DEF Cleans, finalize_connection_cleanup, conditional_stale_cleanup, owns, Owner
<1> QED BY <1>1, <1>2, <1>3, <1>4, <1>5, <1>6 DEF SessionStep

\* A session leaves Created for good.
LEMMA NextCreated ==
    ASSUME OwnershipInv, SessionStep PROVE CreatedIsUnattached'
<1> USE DEF OwnershipInv, TypeOK, CreatedIsUnattached, Session
<1>1. CASE Quiet
  BY <1>1 DEF Quiet
<1>2. CASE Expires
  BY <1>2 DEF Expires, expire
<1>3. ASSUME NEW c \in Conns, Attaches(c) PROVE CreatedIsUnattached'
  BY <1>3 DEF Attaches, Attached, attach_exclusive
<1>4. ASSUME NEW c \in Conns, Detaches(c) PROVE CreatedIsUnattached'
  BY <1>4 DEF Detaches, release, Terminal
<1>5. ASSUME NEW c \in Conns, Closes(c) PROVE CreatedIsUnattached'
  BY <1>5 DEF Closes, terminate
<1>6. ASSUME NEW c \in Conns, Cleans(c) PROVE CreatedIsUnattached'
  BY <1>6 DEF Cleans, finalize_connection_cleanup, terminate, owns,
              conditional_stale_cleanup, release, Terminal
<1> QED BY <1>1, <1>2, <1>3, <1>4, <1>5, <1>6 DEF SessionStep

\* Every step keeps the ownership part of the invariant.
LEMMA NextOwnership == OwnershipInv /\ [Next]_vars => OwnershipInv'
<1> SUFFICES ASSUME OwnershipInv, [Next]_vars PROVE OwnershipInv'
  OBVIOUS
<1>1. TypeOK' /\ SessionStep
  BY NextTypeOK, SessionSteps DEF OwnershipInv
<1>2. TimerMatchesOwnership' /\ HoldersOwn' /\ CreatedIsUnattached'
  BY <1>1, NextTimer, NextHolders, NextCreated
<1> QED BY <1>1, <1>2 DEF OwnershipInv

\* So it holds in every state; the theorems below need no more.
LEMMA AlwaysOwnership == Spec => []OwnershipInv
BY InitOwnership, NextOwnership, PTL DEF Spec

\* The detached timer runs exactly while the session waits for an owner.
THEOREM TimerSafe == Spec => []TimerMatchesOwnership
<1>1. OwnershipInv => TimerMatchesOwnership
  BY DEF OwnershipInv
<1> QED BY <1>1, AlwaysOwnership, PTL

\* Whoever counts itself attached is the owner, or the session is over.
THEOREM OwnershipSafe == Spec => []HoldersOwn
<1>1. OwnershipInv => HoldersOwn
  BY DEF OwnershipInv
<1> QED BY <1>1, AlwaysOwnership, PTL

(***************************************************************************)
(* What a step may never do                                                *)
(***************************************************************************)

\* No timeout fires on a session that is attached: the initial one looks at the
\* state, the detached one at a timer that is not running.
LEMMA NoTimeoutWhileAttached ==
    ASSUME OwnershipInv, Expires PROVE session.state # "Attached"
BY DEF OwnershipInv, TimerMatchesOwnership, Owner, Expires,
       initial_timeout_fires, detached_timeout_fires

\* No step expires an attached session.
THEOREM AttachedNeverExpires == Spec => NeverExpireAttached
<1>1. OwnershipInv /\ [Next]_vars
        => [session.state = "Attached" => session'.state # "Expired"]_vars
  <2> SUFFICES ASSUME OwnershipInv, [Next]_vars, session.state = "Attached"
               PROVE  session'.state # "Expired"
    OBVIOUS
  <2>1. SessionStep /\ session \in Session(Conns)
    BY SessionSteps DEF OwnershipInv, TypeOK
  <2> USE DEF Session
  <2>2. CASE Quiet
    BY <2>2 DEF Quiet
  <2>3. CASE Expires
    BY <2>3, NoTimeoutWhileAttached
  <2>4. ASSUME NEW c \in Conns, Attaches(c) \/ Detaches(c) \/ Closes(c)
        PROVE  session'.state # "Expired"
    BY <2>1, <2>4 DEF Attaches, Attached, attach_exclusive, Detaches, release,
                      Closes, terminate, Terminal
  <2>5. ASSUME NEW c \in Conns, Cleans(c) PROVE session'.state # "Expired"
    BY <2>1, <2>5 DEF Cleans, finalize_connection_cleanup, terminate, owns,
                      conditional_stale_cleanup, release, Terminal
  <2> QED BY <2>1, <2>2, <2>3, <2>4, <2>5 DEF SessionStep
<1> QED BY <1>1, AlwaysOwnership, PTL DEF Spec, NeverExpireAttached

\* A session that is over stays over and unowned.
THEOREM OverForGood == Spec => OverIsFinal
<1>1. OwnershipInv /\ [Next]_vars => [Over => Over' /\ Owner' = None]_vars
  <2> SUFFICES ASSUME OwnershipInv, [Next]_vars, Over
               PROVE  Over' /\ Owner' = None
    OBVIOUS
  <2>1. SessionStep /\ session \in Session(Conns) /\ Owner = None
    BY SessionSteps
    DEF OwnershipInv, TypeOK, TimerMatchesOwnership, Over, Terminal
  <2> USE DEF Session, Over, Terminal, Owner
  <2>2. CASE Quiet \/ Expires
    BY <2>1, <2>2 DEF Quiet, Expires, expire
  <2>3. ASSUME NEW c \in Conns, Attaches(c) PROVE FALSE
    BY <2>3 DEF Attaches, attach_error
  <2>4. ASSUME NEW c \in Conns, Detaches(c) \/ Closes(c)
        PROVE  Over' /\ Owner' = None
    BY <2>1, <2>4 DEF Detaches, release, Closes, terminate
  <2>5. ASSUME NEW c \in Conns, Cleans(c) PROVE Over' /\ Owner' = None
    BY <2>1, <2>5 DEF Cleans, finalize_connection_cleanup, terminate, owns,
                      conditional_stale_cleanup, release
  <2> QED BY <2>1, <2>2, <2>3, <2>4, <2>5 DEF SessionStep
<1> QED BY <1>1, AlwaysOwnership, PTL DEF Spec, OverIsFinal

\* A cleanup that comes after the connection lost the session changes nothing:
\* in the pty_exit branch because then the session is over (HoldersOwn), else
\* because of the conditions of conditional_stale_cleanup.
THEOREM LateCleanup == Spec => LateCleanupIsNoOp
<1> DEFINE NoOp ==
      \A c \in Conns :
         pc[c] = "cleanup" /\ pc'[c] = "closed" /\ Owner # c /\ ~ Over
           => UNCHANGED <<session, detached_at>>
<1>1. OwnershipInv /\ [Next]_vars => [NoOp]_vars
  <2> SUFFICES ASSUME OwnershipInv, [Next]_vars, NEW c \in Conns,
                      pc[c] = "cleanup", pc'[c] = "closed", Owner # c, ~ Over
               PROVE  UNCHANGED <<session, detached_at>>
    OBVIOUS
  <2>1. TypeOK /\ SessionStep
    BY SessionSteps DEF OwnershipInv
  <2>2. Cleans(c)
    BY <2>1 DEF SessionStep, Quiet, Expires, Attaches, Detaches, Closes, Cleans,
                Goto, TypeOK
  <2>3. attached_epoch[c] = None \/ reason[c] = "ExplicitDetach"
    BY <2>1, OnlyOwnerHolds DEF Holders, TypeOK, CleanupReason
  <2> QED BY <2>2, <2>3 DEF Cleans, finalize_connection_cleanup, owns, Owner
<1> QED BY <1>1, AlwaysOwnership, PTL DEF Spec, LateCleanupIsNoOp

(***************************************************************************)
(* Refinement                                                              *)
(***************************************************************************)

\* Every step of Neoshd is a step of the exclusive lock, or leaves it alone.
THEOREM Refinement == Spec => ImplementsExclusiveSession
<1>1. Init => Lock!Init
  BY DEF Init, Lock!Init, create_session, Owner, Over, Terminal, Holders
<1>2. OwnershipInv /\ [Next]_vars => [Lock!Next]_(Lock!vars)
  <2> SUFFICES ASSUME OwnershipInv, [Next]_vars
               PROVE  Lock!Next \/ UNCHANGED Lock!vars
    OBVIOUS
  <2>1. TypeOK /\ TimerMatchesOwnership /\ SessionStep
    BY SessionSteps DEF OwnershipInv
  <2>n. Owner # None => ~ Over
    BY <2>1 DEF TimerMatchesOwnership, Over, Terminal
  <2>2. CASE Quiet
    <3>1. Holders' = Holders
      BY <2>2 DEF Quiet, Holders
    <3> QED BY <2>2, <3>1 DEF Quiet, Lock!vars, Owner, Over
  <2>3. CASE Expires
    <3>1. Holders' = Holders
      BY <2>3 DEF Expires, Holders
    <3>e. \E gone \in SUBSET Holders :
             (\A a, b \in gone : a = b) /\ Holders' = Holders \ gone
      <4> WITNESS {} \in SUBSET Holders
      <4> QED BY <3>1
    <3>2. Lock!End
      BY <2>1, <2>3, <3>e
      DEF Lock!End, Expires, expire, Owner, Over, Terminal, TypeOK, Session
    <3> QED BY <3>2 DEF Lock!Next
  <2>4. ASSUME NEW c \in Conns, Attaches(c) PROVE Lock!Next
    <3>1. ~ Over /\ Owner = None
      BY <2>4 DEF Attaches, attach_error, Over, Owner
    <3>2. Holders = {} /\ Holders' \subseteq {c}
      <4>1. Holders = {}
        BY <3>1, OnlyOwnerHolds
      <4> QED BY <2>1, <2>4, <4>1 DEF Attaches, Goto, Holders, TypeOK
    <3>3. /\ Owner' = c /\ ~ Over'
          /\ session'.attach_epoch = saturating_inc(session.attach_epoch)
      BY <2>1, <2>4
      DEF Attaches, Attached, attach_exclusive, Owner, Over, Terminal, TypeOK,
          Session
    <3>4. Lock!Acquire(c)
      <4>1. Holders' \in {Holders, Holders \cup {c}}
        BY <3>2
      <4>2. UNCHANGED Over
        BY <3>1, <3>3 DEF Over
      <4> QED BY <3>1, <3>3, <4>1, <4>2 DEF Lock!Acquire, saturating_inc
    <3> QED BY <3>4 DEF Lock!Next
  <2>5. ASSUME NEW c \in Conns, Detaches(c) PROVE Lock!Next
    <3>1. Holders' = Holders \ {c}
      BY <2>1, <2>5 DEF Detaches, Goto, Holders, TypeOK
    <3>2. ~ Over
      BY <2>5, <2>n DEF Detaches
    <3>3. Lock!Release(c)
      BY <2>1, <2>5, <3>1, <3>2
      DEF Lock!Release, Detaches, release, Owner, Over, Terminal, TypeOK, Session
    <3> QED BY <3>3 DEF Lock!Next
  <2>6. ASSUME NEW c \in Conns, Closes(c) PROVE Lock!Next
    <3>1. Holders' = Holders
      BY <2>1, <2>6 DEF Closes, Goto, Holders, TypeOK
    <3>e. \E gone \in SUBSET Holders :
             (\A a, b \in gone : a = b) /\ Holders' = Holders \ gone
      <4> WITNESS {} \in SUBSET Holders
      <4> QED BY <3>1
    <3>2. Lock!End
      BY <2>1, <2>6, <3>e
      DEF Lock!End, Closes, terminate, Owner, Over, Terminal, TypeOK, Session
    <3> QED BY <3>2 DEF Lock!Next
  <2>7. ASSUME NEW c \in Conns, Cleans(c)
        PROVE  Lock!Next \/ UNCHANGED Lock!vars
    <3>1. Holders' = Holders \ {c}
      BY <2>1, <2>7 DEF Cleans, Goto, Holders, TypeOK
    <3>2. CASE session' = terminate(session)
      <4>1. Lock!End
        <5>1. \E gone \in SUBSET Holders :
                (\A a, b \in gone : a = b) /\ Holders' = Holders \ gone
          <6> WITNESS Holders \cap {c} \in SUBSET Holders
          <6> QED BY <3>1
        <5> QED
          BY <2>1, <3>2, <5>1
          DEF Lock!End, terminate, Owner, Over, Terminal, TypeOK, Session
      <4> QED BY <4>1 DEF Lock!Next
    <3>3. CASE session' = release(session) /\ Owner = c
      <4>1. ~ Over
        BY <3>3, <2>n
      <4>2. Lock!Release(c)
        BY <2>1, <3>1, <3>3, <4>1
        DEF Lock!Release, release, Owner, Over, Terminal, TypeOK, Session
      <4> QED BY <4>2 DEF Lock!Next
    <3>4. CASE UNCHANGED session /\ Over
      <4>1. Lock!Leave(c)
        BY <3>1, <3>4 DEF Lock!Leave, Owner, Over
      <4> QED BY <4>1 DEF Lock!Next
    <3>5. CASE UNCHANGED session /\ ~ Over /\ c \notin Holders
      BY <3>1, <3>5 DEF Lock!vars, Owner, Over
    <3>6. CASE UNCHANGED session /\ ~ Over /\ c \in Holders
      <4>1. owns(session, c, attached_epoch[c]) /\ attached_epoch[c] # None
        BY <3>6 DEF OwnershipInv, HoldersOwn, Holders, owns, Owner
      <4>2. session' = terminate(session) \/ session' = release(session)
        BY <2>7, <4>1
        DEF Cleans, finalize_connection_cleanup, conditional_stale_cleanup
      <4> QED BY <3>2, <3>3, <4>1, <4>2 DEF owns, Owner
    <3> QED
      BY <2>7, <3>2, <3>3, <3>4, <3>5, <3>6
      DEF Cleans, finalize_connection_cleanup, conditional_stale_cleanup, owns,
          Owner
  <2> QED
    BY <2>1, <2>2, <2>3, <2>4, <2>5, <2>6, <2>7 DEF SessionStep
<1> QED
  BY <1>1, <1>2, AlwaysOwnership, PTL
  DEF Spec, ImplementsExclusiveSession, Lock!Spec

(***************************************************************************)
(* Tokens                                                                  *)
(***************************************************************************)

\* A token that validate_and_consume_auth accepts has a record, unconsumed.
LEMMA AcceptedIsFresh ==
    ASSUME NEW R, NEW t, NEW s, NEW u, NEW n, auth_error(R, t, s, u, n) = "Ok"
    PROVE  \E r \in R : r.raw = t /\ r.consumed_at = None
<1>1. find_record(R, t) # {}
  BY DEF auth_error
<1> DEFINE r == CHOOSE r \in find_record(R, t) : TRUE
<1>2. r \in find_record(R, t)
  BY <1>1
<1>3. r.consumed_at = None
  BY <1>1 DEF auth_error
<1> QED BY <1>2, <1>3 DEF find_record

Accepts(c, t) ==
    /\ auth_error(records, t, sid, user, now) = "Ok"
    /\ records' = issue_token(consume(records, t, now), issued + 1, "Resume",
                              sid, user, ResumeTtl, now)
    /\ issued' = issued + 1
    /\ authed' = [authed EXCEPT ![c] = TRUE]
    /\ auth_token' = [auth_token EXCEPT ![c] = t]

Renews ==
    /\ records' = issue_token(records, issued + 1, "Auth", sid, user, AuthTtl, now)
    /\ issued' = issued + 1
    /\ UNCHANGED <<authed, auth_token>>

\* Tokens only disappear: the sweeper's steps and all others.
Sweeps ==
    /\ records' \subseteq records
    /\ UNCHANGED <<issued, authed, auth_token>>

TokenStep ==
    Renews \/ Sweeps \/ \E c \in Conns, t \in Nat : Accepts(c, t)

\* Every step is one of these.
LEMMA TokenSteps == TypeOK /\ [Next]_vars => TokenStep
<1> SUFFICES ASSUME TypeOK, [Next]_vars PROVE TokenStep
  OBVIOUS
<1> USE DEF sessionVars, tokenVars, clockVars, loopVars, connVars
<1>1. ASSUME NEW c \in Conns, NEW t \in Raw, Auth(c, t) PROVE TokenStep
  <2>1. t \in Nat
    BY DEF Raw, TypeOK
  <2>2. Accepts(c, t)
    BY <1>1 DEF Auth, Accepts
  <2> QED BY <2>1, <2>2 DEF TokenStep
<1>2. CASE RenewAuth
  BY <1>2 DEF RenewAuth, TokenStep, Renews
<1>3. CASE sweep_tokens
  BY <1>3 DEF sweep_tokens, cleanup_expired, TokenStep, Sweeps
<1>4. ASSUME NEW c \in Conns, HandlerStep(c) \/ Accept(c) \/ ConnLost(c)
      PROVE  Sweeps
  BY <1>4 DEF HandlerStep, AcceptBi, WriteAuthOk, WriteAttachOk, StartDataPlane,
              Cleanup, Accept, ConnLost, Sweeps
<1>5. ASSUME NEW c \in Conns,
             \/ ReadError(c) \/ BadMessage(c) \/ BadPayload(c) \/ Hello(c)
             \/ Ping(c) \/ Resize(c) \/ Detach(c) \/ DetachFails(c) \/ Close(c)
      PROVE  Sweeps
  BY <1>5 DEF ReadError, BadMessage, BadPayload, Hello, Ping, Resize, Detach,
              DetachFails, Close, Sweeps
<1>6. ASSUME NEW c \in Conns, NEW own, NEW t,
             \/ AuthRefused(c, t) \/ AttachRefused(c, own, t)
             \/ Attach(c, own, t) \/ AttachSpawnFails(c, own, t)
      PROVE  Sweeps
  BY <1>6 DEF AuthRefused, AttachRefused, Attach, AttachSpawnFails, Sweeps
<1>7. CASE CheckSession \/ AcceptNone \/ Exit \/ IpcFails \/ PtyExit \/ Tick
           \/ ClockBack \/ UNCHANGED vars
  <2>1. Sweeps
    BY <1>7 DEF CheckSession, AcceptNone, Exit, IpcFails, PtyExit, Tick,
                ClockBack, vars, Sweeps
  <2> QED BY <2>1 DEF TokenStep
<1> QED
  BY <1>1, <1>2, <1>3, <1>4, <1>5, <1>6, <1>7
  DEF Next, Request, Exited, TokenStep

\* No two connections were accepted with one token.
DistinctTokens ==
    \A c, d \in Conns :
        auth_token[c] # None /\ auth_token[c] = auth_token[d] => c = d

TokenInv ==
    /\ TypeOK
    /\ TokensNumbered /\ AcceptedAreConsumed /\ AuthedHaveToken
    /\ DistinctTokens

\* One unconsumed auth token, numbered 1, and no connection.
LEMMA InitTokens == Init => TokenInv
<1> SUFFICES ASSUME Init PROVE TokenInv
  OBVIOUS
<1>1. TokensNumbered
  BY DEF Init, issue_token, TokensNumbered
<1> QED
  BY <1>1, InitTypeOK
  DEF Init, TokenInv, AcceptedAreConsumed, AuthedHaveToken, DistinctTokens

\* Every step keeps the token part of the invariant.
LEMMA NextTokens == TokenInv /\ [Next]_vars => TokenInv'
<1> SUFFICES ASSUME TokenInv, [Next]_vars PROVE TokenInv'
  OBVIOUS
<1>1. TypeOK /\ TypeOK' /\ TokenStep
  BY NextTypeOK, TokenSteps DEF TokenInv
<1> USE DEF TokenInv, TypeOK
<1>2. CASE Sweeps
  BY <1>1, <1>2 DEF Sweeps, TokensNumbered, AcceptedAreConsumed, AuthedHaveToken,
                    DistinctTokens
<1>3. CASE Renews
  <2>1. TokensNumbered'
    BY <1>1, <1>3 DEF Renews, issue_token, TokensNumbered, TokenRecord
  <2>2. AcceptedAreConsumed'
    <3> SUFFICES ASSUME NEW c \in Conns, auth_token[c] # None
                 PROVE  /\ auth_token[c] \in 1..issued'
                        /\ \A r \in records' :
                             r.raw = auth_token[c] => r.consumed_at # None
      BY <1>3 DEF Renews, AcceptedAreConsumed
    <3>1. auth_token[c] \in 1..issued /\ auth_token[c] # issued + 1
      BY DEF AcceptedAreConsumed
    <3>2. auth_token[c] \in 1..issued'
      BY <1>3, <3>1 DEF Renews
    <3>3. ASSUME NEW r \in records', r.raw = auth_token[c]
          PROVE  r.consumed_at # None
      BY <1>3, <3>1, <3>3 DEF Renews, issue_token, AcceptedAreConsumed
    <3> QED BY <3>2, <3>3
  <2> QED BY <1>1, <1>3, <2>1, <2>2 DEF Renews, AuthedHaveToken, DistinctTokens
<1>4. ASSUME NEW c \in Conns, NEW t \in Nat, Accepts(c, t) PROVE TokenInv'
  <2>1. PICK f \in records : f.raw = t /\ f.consumed_at = None
    BY <1>4, AcceptedIsFresh DEF Accepts
  <2>2. t \in 1..issued /\ t # issued + 1
    BY <2>1 DEF TokensNumbered
  <2>3. \A d \in Conns : auth_token[d] # t
    BY <2>1, <2>2 DEF AcceptedAreConsumed
  <2>4. \A r \in records' :
          \/ r.raw = issued + 1
          \/ r.raw = t /\ r.consumed_at = now
          \/ r \in records /\ r.raw # t
    BY <1>4 DEF Accepts, issue_token, consume, TokenRecord
  <2>5. TokensNumbered'
    BY <1>1, <1>4, <2>2, <2>4 DEF Accepts, TokensNumbered, TokenRecord
  <2>6. AcceptedAreConsumed'
    <3> SUFFICES ASSUME NEW d \in Conns, auth_token'[d] # None
                 PROVE  /\ auth_token'[d] \in 1..issued'
                        /\ \A r \in records' :
                             r.raw = auth_token'[d] => r.consumed_at # None
      BY DEF AcceptedAreConsumed
    <3>1. auth_token'[d] = t \/ (auth_token'[d] = auth_token[d] /\ auth_token[d] # t)
      BY <1>4, <2>3 DEF Accepts
    <3>2. auth_token'[d] \in 1..issued
      BY <2>2, <3>1 DEF AcceptedAreConsumed
    <3>3. auth_token'[d] \in 1..issued' /\ auth_token'[d] # issued + 1
      BY <1>4, <3>2 DEF Accepts
    <3>4. ASSUME NEW r \in records', r.raw = auth_token'[d]
          PROVE  r.consumed_at # None
      BY <2>4, <3>1, <3>3, <3>4 DEF AcceptedAreConsumed
    <3> QED BY <3>3, <3>4
  <2>7. AuthedHaveToken'
    BY <1>4 DEF Accepts, AuthedHaveToken
  <2>8. DistinctTokens'
    BY <1>4, <2>3 DEF Accepts, DistinctTokens
  <2> QED BY <1>1, <2>5, <2>6, <2>7, <2>8
<1> QED BY <1>1, <1>2, <1>3, <1>4 DEF TokenStep

(***************************************************************************)
(* Owners are authenticated; the process stops for a reason                *)
(***************************************************************************)

\* The owner of a session that has one changes only by an attachment.
LEMMA OwnerChanges ==
    ASSUME TypeOK, SessionStep
    PROVE  \/ Owner' \in {Owner, None} /\ session'.attach_epoch = session.attach_epoch
           \/ \E c \in Conns : Attaches(c) /\ Owner' = c
<1> USE DEF TypeOK, Session, Owner
<1>1. CASE Quiet \/ Expires
  BY <1>1 DEF Quiet, Expires, expire
<1>2. ASSUME NEW c \in Conns, Attaches(c) PROVE Owner' = c
  BY <1>2 DEF Attaches, Attached, attach_exclusive
<1>3. ASSUME NEW c \in Conns, Detaches(c) \/ Closes(c)
      PROVE  Owner' = None /\ session'.attach_epoch = session.attach_epoch
  BY <1>3 DEF Detaches, release, Closes, terminate
<1>4. ASSUME NEW c \in Conns, Cleans(c)
      PROVE  /\ Owner' \in {Owner, None}
             /\ session'.attach_epoch = session.attach_epoch
  BY <1>4 DEF Cleans, finalize_connection_cleanup, terminate, owns,
              conditional_stale_cleanup, release
<1> QED BY <1>1, <1>2, <1>3, <1>4 DEF SessionStep

\* A session that is over stays over (the step of OverForGood).
LEMMA OverStep == ASSUME TypeOK, SessionStep, Over PROVE Over'
<1> USE DEF TypeOK, Session, Over, Terminal
<1>1. CASE Quiet \/ Expires
  BY <1>1 DEF Quiet, Expires, expire
<1>2. ASSUME NEW c \in Conns, Attaches(c) PROVE FALSE
  BY <1>2 DEF Attaches, attach_error
<1>3. ASSUME NEW c \in Conns, Detaches(c) \/ Closes(c) \/ Cleans(c) PROVE Over'
  BY <1>3 DEF Detaches, Closes, Cleans, finalize_connection_cleanup, terminate,
              owns, conditional_stale_cleanup, release
<1> QED BY <1>1, <1>2, <1>3 DEF SessionStep

\* A step gives a reason only when the session is over, or the endpoint closed;
\* and the initial timeout only expires a session that is Created.
LEMMA StopSteps ==
    ASSUME TypeOK, [Next]_vars
    PROVE  \/ UNCHANGED stop_reason
           \/ stop_reason' = "endpoint_closed"
           \/ /\ Over'
              /\ stop_reason' = "initial_attach_timeout" =>
                    /\ session.state = "Created"
                    /\ session'.attach_epoch = session.attach_epoch
<1> USE DEF sessionVars, tokenVars, clockVars, loopVars, connVars
<1>1. CASE CheckSession
  BY <1>1 DEF CheckSession, Stop, initial_timeout_fires, server_stop_reason,
              expire, Over, Terminal, TypeOK, Session
<1>2. CASE AcceptNone
  BY <1>2 DEF AcceptNone, Stop
<1>3. ASSUME NEW c \in Conns, HandlerStep(c) \/ Accept(c) \/ ConnLost(c)
      PROVE  UNCHANGED stop_reason
  BY <1>3 DEF HandlerStep, AcceptBi, WriteAuthOk, WriteAttachOk, StartDataPlane,
              Cleanup, Accept, ConnLost
<1>4. ASSUME NEW c \in Conns, Request(c) PROVE UNCHANGED stop_reason
  BY <1>4 DEF Request, ReadError, BadMessage, BadPayload, Hello, Ping,
              AuthRefused, Auth, AttachRefused, Attach, AttachSpawnFails,
              Resize, Detach, DetachFails, Close
<1>5. CASE Exit \/ RenewAuth \/ IpcFails \/ sweep_tokens \/ PtyExit \/ Tick
           \/ ClockBack \/ UNCHANGED vars
  BY <1>5 DEF Exit, RenewAuth, IpcFails, sweep_tokens, PtyExit, Tick, ClockBack,
              vars
<1> QED BY <1>1, <1>2, <1>3, <1>4, <1>5 DEF Next, Exited

\* The inductive invariant is made of the parts above.
LEMMA IInvParts ==
    IInv <=> OwnershipInv /\ TokenInv /\ OwnersAuthenticated /\ StopsForAReason
BY DEF IInv, OwnershipInv, TokenInv, OwnersAuthenticated, DistinctTokens

\* The whole invariant holds initially.
LEMMA InitInductive == Init => IInv
<1> SUFFICES ASSUME Init PROVE IInv
  OBVIOUS
<1>1. OwnersAuthenticated /\ StopsForAReason
  BY DEF Init, create_session, OwnersAuthenticated, StopsForAReason, Owner
<1> QED BY <1>1, InitOwnership, InitTokens, IInvParts

\* Every step keeps it: who owns the session, by which token, and why it stops.
LEMMA NextInductive == IInv /\ [Next]_vars => IInv'
<1> SUFFICES ASSUME IInv, [Next]_vars PROVE IInv'
  OBVIOUS
<1>1. /\ OwnershipInv /\ TokenInv
      /\ OwnersAuthenticated /\ StopsForAReason
  BY IInvParts
<1>2. OwnershipInv' /\ TokenInv'
  BY <1>1, NextOwnership, NextTokens
<1>3. TypeOK /\ SessionStep /\ TokenStep
  BY <1>1, SessionSteps, TokenSteps DEF OwnershipInv
<1>4. OwnersAuthenticated'
  <2>1. \A c \in Conns : auth_token[c] # None => auth_token'[c] # None
    BY <1>3 DEF TokenStep, Sweeps, Renews, Accepts, TypeOK
  <2>2. Owner' # None => auth_token'[Owner'] # None
    <3>1. CASE Owner' \in {Owner, None}
      <4>1. Owner \in Conns \cup {None}
        BY <1>3 DEF TypeOK, Session, Option, Owner
      <4>2. Owner # None => auth_token[Owner] # None
        BY <1>1 DEF OwnersAuthenticated
      <4> SUFFICES ASSUME Owner' # None PROVE auth_token'[Owner'] # None
        OBVIOUS
      <4>3. Owner' = Owner /\ Owner \in Conns
        BY <3>1, <4>1
      <4> QED BY <2>1, <4>2, <4>3
    <3>2. ASSUME NEW c \in Conns, Attaches(c), Owner' = c
          PROVE  auth_token'[Owner'] # None
      BY <1>1, <2>1, <3>2 DEF Attaches, TokenInv, AuthedHaveToken
    <3> QED BY <1>3, <3>1, <3>2, OwnerChanges
  <2>3. DistinctTokens'
    BY <1>2 DEF TokenInv
  <2> QED BY <2>2, <2>3 DEF OwnersAuthenticated, DistinctTokens
<1>5. StopsForAReason'
  <2>1. CASE UNCHANGED stop_reason
    <3>1. CASE stop_reason \in {None, "endpoint_closed"}
      <4>1. "initial_attach_timeout" # None
        BY DEF StopReason
      <4> QED BY <2>1, <3>1, <4>1 DEF StopsForAReason
    <3>2. CASE stop_reason \notin {None, "endpoint_closed"}
      <4>1. Over /\ Over'
        BY <1>1, <1>3, <3>2, OverStep DEF StopsForAReason
      <4>2. session'.attach_epoch = session.attach_epoch
        BY <1>3, <4>1, OwnerChanges DEF Attaches, attach_error, Over
      <4> QED BY <1>1, <2>1, <4>1, <4>2 DEF StopsForAReason
    <3> QED BY <3>1, <3>2
  <2>2. CASE stop_reason' = "endpoint_closed"
    BY <2>2 DEF StopsForAReason
  <2>3. CASE /\ Over'
             /\ stop_reason' = "initial_attach_timeout" =>
                   /\ session.state = "Created"
                   /\ session'.attach_epoch = session.attach_epoch
    BY <1>1, <2>3 DEF StopsForAReason, OwnershipInv, CreatedIsUnattached
  <2> QED BY <1>3, <2>1, <2>2, <2>3, StopSteps
<1> QED BY <1>2, <1>4, <1>5 DEF IInv, OwnershipInv, TokenInv

\* The invariants that tie session, timer, handlers, tokens and the end of the
\* process together hold in every state of every behaviour.
THEOREM InductiveInvariant == Spec => []IInv
BY InitInductive, NextInductive, PTL DEF Spec

\* Every owner was let in by an auth token nobody else was accepted with.
THEOREM OwnersSafe == Spec => []OwnersAuthenticated
<1>1. IInv => OwnersAuthenticated
  BY DEF IInv
<1> QED BY <1>1, InductiveInvariant, PTL

\* The process stops on its own only for a session that is over.
THEOREM StopsSafe == Spec => []StopsForAReason
<1>1. IInv => StopsForAReason
  BY DEF IInv
<1> QED BY <1>1, InductiveInvariant, PTL

=============================================================================
