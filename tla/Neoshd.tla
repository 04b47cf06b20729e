------------------------------- MODULE Neoshd -------------------------------
(***************************************************************************)
(* The control plane of one `neoshd new` process (src/bin/neoshd.rs): the  *)
(* accept loop with its two timeouts, one handle_connection task per QUIC  *)
(* connection, the renew-auth IPC server, the token sweeper, the PTY's     *)
(* exit flag, the wall clock and the network.                              *)
(*                                                                         *)
(* Tasks interleave at every await.  One critical section of the Mutex     *)
(* around ServerState is one action: an error frame written while the lock *)
(* is held belongs to it.  A `?` on a write or on a fallible call returns  *)
(* from handle_connection at once and skips the cleanup behind its loop:   *)
(* pc = "failed".  A `break` leads to that cleanup: pc = "cleanup".        *)
(***************************************************************************)
EXTENDS SessionManager, TokenService, Dispatcher, FiniteSets

CONSTANTS
    Conns,                 \* connections the network may deliver
    InitialAttachTimeout,  \* --initial-attach-timeout, 0 disables
    SessionTimeout,        \* --session-timeout, 0 disables
    AuthTtl, ResumeTtl,    \* --auth-token-ttl, --resume-token-ttl
    Retention,             \* how long the sweeper keeps spent tokens
    MaxTokens,             \* bound: no renewal once so many tokens were issued
    MaxTime,               \* bound: time passes freely until then
    MaxClockSteps          \* bound: backward steps of the wall clock

StopReason ==
    {"initial_attach_timeout", "detached_session_timeout", "session_expired",
     "session_terminated", "endpoint_closed"}

ASSUME ConnsAssumption == None \notin Conns \cup StopReason

ASSUME DurationAssumption ==
    /\ InitialAttachTimeout \in Nat /\ SessionTimeout \in Nat
    /\ AuthTtl \in Nat /\ ResumeTtl \in Nat /\ Retention \in Nat

ASSUME BoundAssumption ==
    MaxTokens \in Nat /\ MaxTime \in Nat /\ MaxClockSteps \in Nat

VARIABLES
    session,        \* the only Session of sessions: SessionManager
    detached_at,    \* when the session lost its owner
    pty,            \* "none": not spawned; "exited": the pty_exited flag is set
    records,        \* tokens: TokenService
    issued,         \* raw tokens are numbered 1..issued as they are drawn
    now,            \* SystemTime::now()
    clock_steps,    \* backward steps taken so far (for the bound)
    ipc,            \* "down" once run_ipc_server has returned
    loop,           \* where run_quic_accept_loop and run_new are
    stop_reason,    \* AcceptLoopStopReason
    up,             \* up[c]: the transport of c works, as the server sees it
    pc,             \* pc[c]: where handle_connection is
    disp,           \* disp[c]: its dispatcher
    authed,         \* authed[c]
    attached_epoch, \* attached_epoch[c]
    reason,         \* reason[c]: cleanup_reason
    auth_token      \* auth_token[c]: history, the auth token c was accepted with

tokenVars   == <<records, issued>>
clockVars   == <<now, clock_steps>>
sessionVars == <<session, detached_at, pty>>
loopVars    == <<loop, stop_reason>>
connVars    == <<up, pc, disp, authed, attached_epoch, reason, auth_token>>
vars == <<sessionVars, tokenVars, clockVars, ipc, loopVars, connVars>>

sid  == "sid"     \* the session and the user this process serves
user == "user"

PC == {"idle", "accept_bi", "read", "auth_ok", "attach_ok", "data_plane",
       "cleanup", "closed", "failed"}

CleanupReason == {"ConnectionEnd", "ExplicitDetach"}

TypeOK ==
    /\ session \in Session(Conns)
    /\ detached_at \in Option(Nat)
    /\ pty \in {"none", "running", "exited"}
    /\ records \subseteq TokenRecord(Nat, {sid}, {user})
    /\ issued \in Nat
    /\ now \in Nat /\ clock_steps \in Nat
    /\ ipc \in {"up", "down"}
    /\ loop \in {"check", "accept", "stopping", "exited"}
    /\ stop_reason \in Option(StopReason)
    /\ up \in [Conns -> BOOLEAN]
    /\ pc \in [Conns -> PC]
    /\ disp \in [Conns -> ConnectionState]
    /\ authed \in [Conns -> BOOLEAN]
    /\ attached_epoch \in [Conns -> Option(Nat)]
    /\ reason \in [Conns -> CleanupReason]
    /\ auth_token \in [Conns -> Option(Nat)]

\* ServerState::new and bootstrap_output: the session exists and its first
\* auth token has been printed; the IPC task and the sweeper are spawned.
Init ==
    /\ session = create_session
    /\ detached_at = None
    /\ pty = "none"
    /\ records = issue_token({}, 1, "Auth", sid, user, AuthTtl, 0)
    /\ issued = 1
    /\ now = 0 /\ clock_steps = 0
    /\ ipc = "up"
    /\ loop = "check"
    /\ stop_reason = None
    /\ up = [c \in Conns |-> FALSE]
    /\ pc = [c \in Conns |-> "idle"]
    /\ disp = [c \in Conns |-> "AwaitHello"]
    /\ authed = [c \in Conns |-> FALSE]
    /\ attached_epoch = [c \in Conns |-> None]
    /\ reason = [c \in Conns |-> "ConnectionEnd"]
    /\ auth_token = [c \in Conns |-> None]

\* When main returns the runtime drops every task.
Running == loop # "exited"

----------------------------------------------------------------------------
(* Mutants of the definitions below. *)

detached_timeout_fires_Exactly ==
    /\ SessionTimeout # 0
    /\ detached_at # None
    /\ now = detached_at + SessionTimeout

initial_timeout_fires_AnyState ==
    /\ InitialAttachTimeout # 0
    /\ session.state \notin Terminal
    /\ session.attached_conn_id = None
    /\ ElapsedAtLeast(now, 0, InitialAttachTimeout)

server_stop_reason_ExpiredOnly ==
    IF session.state = "Expired" THEN "session_expired" ELSE None

Attached_KeepsDetachedAt(c) ==
    /\ session' = attach_exclusive(session, c)
    /\ UNCHANGED detached_at

finalize_IgnoresReason(c) ==
    IF pty = "exited"
    THEN session' = terminate(session) /\ detached_at' = None
    ELSE IF owns(session, c, attached_epoch[c])
    THEN /\ session' = conditional_stale_cleanup(session, c, attached_epoch[c])
         /\ detached_at' = now
    ELSE UNCHANGED <<session, detached_at>>

finalize_ForgetsClock(c) ==
    /\ session' = IF reason[c] = "ConnectionEnd" /\ pty = "exited"
                  THEN terminate(session)
                  ELSE conditional_stale_cleanup(session, c, attached_epoch[c])
    /\ UNCHANGED detached_at

----------------------------------------------------------------------------
(* handle_connection.  Recv is a frame read and accepted by the dispatcher; *)
(* frames that arrived before the transport was lost can still be read.     *)

Goto(c, label) == pc' = [pc EXCEPT ![c] = label]

\* Mutant: a write to a lost connection waits instead of failing.
Write_Waits(c, label) == up[c] /\ Goto(c, label)

\* A frame written to c: the handler goes on at `label`, or returns early.
Write(c, label) == Goto(c, IF up[c] THEN label ELSE "failed")

\* An ERROR frame followed by break.
Refuse(c) == Write(c, "cleanup")

Recv(c, kind) ==
    /\ Running
    /\ pc[c] = "read"
    /\ \E to \in ConnectionState :
         on_message(disp[c], kind, to) /\ disp' = [disp EXCEPT ![c] = to]

AcceptBi(c) ==
    /\ Running
    /\ pc[c] = "accept_bi"
    /\ Write(c, "read")
    /\ UNCHANGED <<sessionVars, tokenVars, clockVars, ipc, loopVars, up, disp,
                   authed, attached_epoch, reason, auth_token>>

\* End of stream, a lost connection, an oversized or truncated frame.
ReadError(c) ==
    /\ Running
    /\ pc[c] = "read"
    /\ Goto(c, "cleanup")
    /\ UNCHANGED <<sessionVars, tokenVars, clockVars, ipc, loopVars, up, disp,
                   authed, attached_epoch, reason, auth_token>>

\* An unknown "type", or a known one the dispatcher refuses.
BadMessage(c) ==
    /\ Running
    /\ pc[c] = "read"
    /\ \E kind \in MessageKind \cup {"unknown"} : ProtocolOrder(disp[c], kind)
    /\ Refuse(c)
    /\ UNCHANGED <<sessionVars, tokenVars, clockVars, ipc, loopVars, up, disp,
                   authed, attached_epoch, reason, auth_token>>

\* A message in order whose JSON does not have the fields it needs.
BadPayload(c) ==
    /\ \E kind \in {"Auth", "Attach", "Resume", "Resize"} : Recv(c, kind)
    /\ Refuse(c)
    /\ UNCHANGED <<sessionVars, tokenVars, clockVars, ipc, loopVars, up,
                   authed, attached_epoch, reason, auth_token>>

Hello(c) ==
    /\ Recv(c, "Hello")
    /\ Write(c, "read")
    /\ UNCHANGED <<sessionVars, tokenVars, clockVars, ipc, loopVars, up,
                   authed, attached_epoch, reason, auth_token>>

Ping(c) ==
    /\ Recv(c, "Ping")
    /\ Write(c, "read")
    /\ UNCHANGED <<sessionVars, tokenVars, clockVars, ipc, loopVars, up,
                   authed, attached_epoch, reason, auth_token>>

\* AUTH with the raw token t (0 is a token nobody issued).
AuthRefused(c, t) ==
    /\ Recv(c, "Auth")
    /\ auth_error(records, t, sid, user, now) # "Ok"
    /\ Refuse(c)
    /\ UNCHANGED <<sessionVars, tokenVars, clockVars, ipc, loopVars, up,
                   authed, attached_epoch, reason, auth_token>>

Auth(c, t) ==
    /\ Recv(c, "Auth")
    /\ auth_error(records, t, sid, user, now) = "Ok"
    /\ records' = issue_token(consume(records, t, now), issued + 1, "Resume",
                              sid, user, ResumeTtl, now)
    /\ issued' = issued + 1
    /\ authed' = [authed EXCEPT ![c] = TRUE]
    /\ auth_token' = [auth_token EXCEPT ![c] = t]
    /\ Goto(c, "auth_ok")
    /\ UNCHANGED <<sessionVars, clockVars, ipc, loopVars, up,
                   attached_epoch, reason>>

WriteAuthOk(c) ==
    /\ Running
    /\ pc[c] = "auth_ok"
    /\ Write(c, "read")
    /\ UNCHANGED <<sessionVars, tokenVars, clockVars, ipc, loopVars, up, disp,
                   authed, attached_epoch, reason, auth_token>>

\* What ATTACH (t = None) and RESUME (with resume token t) check first; `own`
\* says whether the request names this process's session.
MayAttach(c, own, t) ==
    /\ authed[c]
    /\ own
    /\ t # None => resume_error(records, t, sid, user, now) = "Ok"
    /\ attach_error(session) = "Ok"

RecvAttach(c, t) == Recv(c, IF t = None THEN "Attach" ELSE "Resume")

AttachRefused(c, own, t) ==
    /\ RecvAttach(c, t)
    /\ ~ MayAttach(c, own, t)
    /\ Refuse(c)
    /\ UNCHANGED <<sessionVars, tokenVars, clockVars, ipc, loopVars, up,
                   authed, attached_epoch, reason, auth_token>>

\* attach_exclusive and the reset of detached_at.
Attached(c) ==
    /\ session' = attach_exclusive(session, c)
    /\ detached_at' = None

\* It finds a PTY, whatever became of it, or spawns one.
ensure_pty_runtime == pty' = IF pty = "none" THEN "running" ELSE pty

\* ATTACH or RESUME succeeds.
Attach(c, own, t) ==
    /\ RecvAttach(c, t)
    /\ MayAttach(c, own, t)
    /\ Attached(c)
    /\ ensure_pty_runtime
    /\ attached_epoch' = [attached_epoch EXCEPT ![c] = session'.attach_epoch]
    /\ Goto(c, "attach_ok")
    /\ UNCHANGED <<tokenVars, clockVars, ipc, loopVars, up, authed, reason,
                   auth_token>>

\* ensure_pty_runtime cannot spawn the shell: `?` between the attachment and
\* the assignment of attached_epoch.
AttachSpawnFails(c, own, t) ==
    /\ RecvAttach(c, t)
    /\ MayAttach(c, own, t)
    /\ pty = "none"
    /\ Attached(c)
    /\ Goto(c, "failed")
    /\ UNCHANGED <<pty, tokenVars, clockVars, ipc, loopVars, up, authed,
                   attached_epoch, reason, auth_token>>

\* ATTACH_OK or RESUME_OK.
WriteAttachOk(c) ==
    /\ Running
    /\ pc[c] = "attach_ok"
    /\ Write(c, "data_plane")
    /\ UNCHANGED <<sessionVars, tokenVars, clockVars, ipc, loopVars, up, disp,
                   authed, attached_epoch, reason, auth_token>>

\* start_data_plane: open the STDOUT stream, write the replay, spawn the pumps.
StartDataPlane(c) ==
    /\ Running
    /\ pc[c] = "data_plane"
    /\ Write(c, "read")
    /\ UNCHANGED <<sessionVars, tokenVars, clockVars, ipc, loopVars, up, disp,
                   authed, attached_epoch, reason, auth_token>>

\* RESIZE has no reply.  Resizing a PTY whose shell is gone may fail.
Resize(c) ==
    /\ Recv(c, "Resize")
    /\ \/ UNCHANGED pc
       \/ pty = "exited" /\ Goto(c, "failed")
    /\ UNCHANGED <<sessionVars, tokenVars, clockVars, ipc, loopVars, up,
                   authed, attached_epoch, reason, auth_token>>

Detach(c) ==
    /\ Recv(c, "Detach")
    /\ detach_error(session, c) = "Ok"
    /\ session' = detach(session, c)
    /\ detached_at' = now
    /\ reason' = [reason EXCEPT ![c] = "ExplicitDetach"]
    /\ Goto(c, "cleanup")
    /\ UNCHANGED <<pty, tokenVars, clockVars, ipc, loopVars, up, authed,
                   attached_epoch, auth_token>>

DetachFails(c) ==
    /\ Recv(c, "Detach")
    /\ detach_error(session, c) # "Ok"
    /\ Goto(c, "failed")
    /\ UNCHANGED <<sessionVars, tokenVars, clockVars, ipc, loopVars, up,
                   authed, attached_epoch, reason, auth_token>>

\* CLOSE terminates the session whoever is attached to it.
Close(c) ==
    /\ Recv(c, "Close")
    /\ session' = terminate(session)
    /\ Goto(c, "cleanup")
    /\ UNCHANGED <<detached_at, pty, tokenVars, clockVars, ipc, loopVars, up,
                   authed, attached_epoch, reason, auth_token>>

\* finalize_connection_cleanup of a connection that attached.
finalize_connection_cleanup(c) ==
    IF reason[c] = "ConnectionEnd" /\ pty = "exited"
    THEN session' = terminate(session) /\ detached_at' = None
    ELSE IF owns(session, c, attached_epoch[c])
    THEN /\ session' = conditional_stale_cleanup(session, c, attached_epoch[c])
         /\ detached_at' = now
    ELSE UNCHANGED <<session, detached_at>>

\* Behind the loop: the conditional cleanup, then connection.close().
Cleanup(c) ==
    /\ Running
    /\ pc[c] = "cleanup"
    /\ IF attached_epoch[c] # None
       THEN finalize_connection_cleanup(c)
       ELSE UNCHANGED <<session, detached_at>>
    /\ Goto(c, "closed")
    /\ up' = [up EXCEPT ![c] = FALSE]
    /\ UNCHANGED <<pty, tokenVars, clockVars, ipc, loopVars, disp, authed,
                   attached_epoch, reason, auth_token>>

----------------------------------------------------------------------------
(* run_quic_accept_loop and the end of run_new *)

initial_timeout_fires ==
    /\ InitialAttachTimeout # 0
    /\ session.state = "Created"
    /\ ElapsedAtLeast(now, 0, InitialAttachTimeout)

detached_timeout_fires ==
    /\ SessionTimeout # 0
    /\ detached_at # None
    /\ ElapsedAtLeast(now, detached_at, SessionTimeout)

server_stop_reason ==
    IF session.state = "Terminated" THEN "session_terminated"
    ELSE IF session.state = "Expired" THEN "session_expired"
    ELSE None

Stop(why) == loop' = "stopping" /\ stop_reason' = why

\* The turn of the loop under the lock: the two timeouts, then the state.
CheckSession ==
    /\ loop = "check"
    /\ IF initial_timeout_fires
       THEN session' = expire(session) /\ Stop("initial_attach_timeout")
       ELSE IF detached_timeout_fires
       THEN session' = expire(session) /\ Stop("detached_session_timeout")
       ELSE IF server_stop_reason # None
       THEN UNCHANGED session /\ Stop(server_stop_reason)
       ELSE loop' = "accept" /\ UNCHANGED <<session, stop_reason>>
    /\ UNCHANGED <<detached_at, pty, tokenVars, clockVars, ipc, connVars>>

\* endpoint.accept() within its second: spawn the handler of c.
Accept(c) ==
    /\ loop = "accept"
    /\ pc[c] = "idle"
    /\ loop' = "check"
    /\ Goto(c, "accept_bi")
    /\ up' = [up EXCEPT ![c] = TRUE]
    /\ UNCHANGED <<sessionVars, tokenVars, clockVars, ipc, stop_reason, disp,
                   authed, attached_epoch, reason, auth_token>>

\* No connection within the second, or the endpoint is gone.
AcceptNone ==
    /\ loop = "accept"
    /\ \/ loop' = "check" /\ UNCHANGED stop_reason
       \/ Stop("endpoint_closed")
    /\ UNCHANGED <<sessionVars, tokenVars, clockVars, ipc, connVars>>

\* run_new aborts the IPC server and the sweeper and returns.
Exit ==
    /\ loop = "stopping"
    /\ loop' = "exited"
    /\ ipc' = "down"
    /\ UNCHANGED <<sessionVars, tokenVars, clockVars, stop_reason, connVars>>

----------------------------------------------------------------------------
(* run_ipc_server: one request at a time; any `?` ends the whole server. *)

\* A request of the owner for this session: a fresh auth token, whatever the
\* state of the session.  A wrong uid, session or user and a request that does
\* not parse are answered with an error and change nothing.  The answer is
\* written after the lock is released: when the peer is gone the write fails
\* and the server with it, the token stays issued.
RenewAuth ==
    /\ Running
    /\ ipc = "up"
    /\ issued < MaxTokens
    /\ records' = issue_token(records, issued + 1, "Auth", sid, user, AuthTtl, now)
    /\ issued' = issued + 1
    /\ ipc' \in {"up", "down"}
    /\ UNCHANGED <<sessionVars, clockVars, loopVars, connVars>>

\* The bind, accept, read, write or shutdown fails.
IpcFails ==
    /\ Running
    /\ ipc = "up"
    /\ ipc' = "down"
    /\ UNCHANGED <<sessionVars, tokenVars, clockVars, loopVars, connVars>>

----------------------------------------------------------------------------
(* The sweeper, the PTY reader thread, the network and the clock *)

sweep_tokens ==
    /\ Running
    /\ records' = cleanup_expired(records, now, Retention)
    /\ UNCHANGED <<sessionVars, issued, clockVars, ipc, loopVars,
                   connVars>>

\* The shell exits and the reader thread stores pty_exited.
PtyExit ==
    /\ Running
    /\ pty = "running"
    /\ pty' = "exited"
    /\ UNCHANGED <<session, detached_at, tokenVars, clockVars, ipc, loopVars,
                   connVars>>

\* The peer closes, or the idle timeout of QUIC expires, while c is handled.
ConnLost(c) ==
    /\ Running
    /\ up[c] /\ pc[c] \notin {"closed", "failed"}
    /\ up' = [up EXCEPT ![c] = FALSE]
    /\ UNCHANGED <<sessionVars, tokenVars, clockVars, ipc, loopVars, pc, disp,
                   authed, attached_epoch, reason, auth_token>>

\* Instants at which a timeout of the session fires.
Deadlines ==
    {IF session.state = "Created" THEN InitialAttachTimeout ELSE 0,
     IF detached_at = None THEN 0 ELSE detached_at + SessionTimeout}

\* Time passes freely up to MaxTime, and further while a timeout is pending.
Tick ==
    /\ Running
    /\ now < MaxTime \/ \E d \in Deadlines : now < d
    /\ now' = now + 1
    /\ UNCHANGED <<sessionVars, tokenVars, clock_steps, ipc, loopVars, connVars>>

\* The wall clock is set back.
ClockBack ==
    /\ Running
    /\ now > 0 /\ clock_steps < MaxClockSteps
    /\ now' = now - 1
    /\ clock_steps' = clock_steps + 1
    /\ UNCHANGED <<sessionVars, tokenVars, ipc, loopVars, connVars>>

Exited == loop = "exited" /\ UNCHANGED vars

----------------------------------------------------------------------------
Raw == 0..issued

HandlerStep(c) ==
    \/ AcceptBi(c) \/ WriteAuthOk(c) \/ WriteAttachOk(c) \/ StartDataPlane(c)
    \/ Cleanup(c)

Request(c) ==
    \/ ReadError(c) \/ BadMessage(c) \/ BadPayload(c) \/ Hello(c) \/ Ping(c)
    \/ \E t \in Raw : AuthRefused(c, t) \/ Auth(c, t)
    \/ \E own \in BOOLEAN, t \in Option(Raw) :
         \/ AttachRefused(c, own, t)
         \/ Attach(c, own, t)
         \/ AttachSpawnFails(c, own, t)
    \/ Resize(c) \/ Detach(c) \/ DetachFails(c) \/ Close(c)

Next ==
    \/ CheckSession \/ AcceptNone \/ Exit
    \/ \E c \in Conns : Accept(c) \/ HandlerStep(c) \/ Request(c) \/ ConnLost(c)
    \/ RenewAuth \/ IpcFails \/ sweep_tokens \/ PtyExit \/ Tick \/ ClockBack
    \/ Exited

Spec == Init /\ [][Next]_vars

\* The accept loop turns at least once a second, and time passes.
LoopFairness ==
    /\ WF_vars(CheckSession) /\ WF_vars(Exit) /\ WF_vars(Tick)
    /\ WF_vars(AcceptNone \/ \E c \in Conns : Accept(c))

\* Whatever waits on a lost connection returns its error, and a cleanup that was
\* reached runs.  A connected client owes nothing: not even its control stream.
HandlerFairness ==
    \A c \in Conns :
        /\ WF_vars(Cleanup(c))
        /\ WF_vars(~ up[c] /\ (HandlerStep(c) \/ ReadError(c)))

LoopSpec == Spec /\ LoopFairness
FairSpec == LoopSpec /\ HandlerFairness

----------------------------------------------------------------------------
(* Properties *)

Owner == session.attached_conn_id
Over  == session.state \in Terminal

\* Connections that count themselves attached: they captured an epoch and did
\* not detach, and their handler has not run its cleanup.
Holders == {c \in Conns : /\ attached_epoch[c] # None
                         /\ reason[c] = "ConnectionEnd"
                         /\ pc[c] # "closed"}

Ended == {"closed", "failed"}

\* The detached-timeout clock runs exactly while the session waits for its next
\* owner: it is stopped whenever a connection owns the session, and a session
\* in Detached never waits without it (detached_at is kept in ServerState,
\* apart from SessionManager, and every handler must keep the two in step).
TimerMatchesOwnership ==
    /\ Owner # None <=> session.state = "Attached"
    /\ Owner # None => detached_at = None
    /\ session.state = "Detached" => detached_at # None

\* A connection that counts itself attached owns the session under the epoch
\* it captured, unless the session is over.  So the pty_exit branch of
\* finalize_connection_cleanup, which checks neither connection nor epoch,
\* cannot hit a newer owner, and the conditional cleanup frees the session even
\* when attach_epoch has saturated.
HoldersOwn ==
    \A c \in Holders :
        Over \/ (Owner = c /\ session.attach_epoch = attached_epoch[c])

\* Whoever owns the session was let in by an auth token of its own: no two
\* connections were accepted with the same token, whatever the sweeper removed
\* and the clock did in between (validate_and_consume_auth).
OwnersAuthenticated ==
    /\ Owner # None => auth_token[Owner] # None
    /\ \A c, d \in Conns :
          auth_token[c] # None /\ auth_token[c] = auth_token[d] => c = d

\* The process stops on its own only for a session that is over, and the
\* initial timeout only stops one that was never attached.
StopsForAReason ==
    /\ stop_reason \notin {None, "endpoint_closed"} => Over
    /\ stop_reason = "initial_attach_timeout" => session.attach_epoch = 0

\* What the two properties above need to be inductive: raw tokens are numbered
\* in the order of issue, the record of an accepted token, while there is one,
\* says it was consumed; and only an unattached session is Created.
TokensNumbered == \A r \in records : r.raw \in 1..issued

AcceptedAreConsumed ==
    \A c \in Conns : auth_token[c] # None =>
        /\ auth_token[c] \in 1..issued
        /\ \A r \in records : r.raw = auth_token[c] => r.consumed_at # None

AuthedHaveToken == \A c \in Conns : authed[c] => auth_token[c] # None

CreatedIsUnattached == session.state = "Created" => session.attach_epoch = 0

IInv ==
    /\ TypeOK
    /\ TimerMatchesOwnership
    /\ HoldersOwn
    /\ TokensNumbered /\ AcceptedAreConsumed /\ AuthedHaveToken
    /\ OwnersAuthenticated
    /\ CreatedIsUnattached
    /\ StopsForAReason

\* No timeout expires a session while a connection owns it.
NeverExpireAttached ==
    [][session.state = "Attached" => session'.state # "Expired"]_vars

\* The cleanup of a connection leaves a session alone that by then belongs to
\* another connection, or to nobody: a late cleanup is a no-op.
LateCleanupIsNoOp ==
    [][\A c \in Conns :
         pc[c] = "cleanup" /\ pc'[c] = "closed" /\ Owner # c /\ ~ Over
           => UNCHANGED <<session, detached_at>>]_vars

\* A session that is over stays over and never gets an owner again.
OverIsFinal == [][Over => Over' /\ Owner' = None]_vars

\* Neoshd implements the exclusive lock: one owner at a time, no takeover, a
\* release only by or for the owner, no attachment once the session is over.
Lock == INSTANCE ExclusiveSession
          WITH owner <- Owner, epoch <- session.attach_epoch, over <- Over,
               holders <- Holders

ImplementsExclusiveSession == Lock!Spec

\* With both timeouts enabled, a session nobody owns is taken or the process
\* exits: it does not wait forever (needs the clock and the accept loop).
UnownedSessionEnds ==
    (Owner = None) ~> (Owner # None \/ loop = "exited")

\* A session that is over takes the process with it.
OverStopsServer == Over ~> (loop = "exited")

\* The handler of a lost connection ends, wherever it was.
LostHandlersEnd ==
    \A c \in Conns :
        (pc[c] # "idle" /\ ~ up[c]) ~> (pc[c] \in Ended \/ loop = "exited")

----------------------------------------------------------------------------
(* What the documents promise and the code does not keep *)

\* docs/v0.1.0/neoshd_implementation.md:305, "on connection close or `DETACH`,
\* clear `attached_conn_id`": a connection whose handler is gone owns nothing.
EndedHandlersOwnNothing == \A c \in Conns : pc[c] \in Ended => Owner # c

=============================================================================
