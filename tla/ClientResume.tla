---------------------------- MODULE ClientResume ----------------------------
(***************************************************************************)
(* `neosh connect` and `neosh resume` (src/bin/neosh.rs) against the       *)
(* session and the tokens of the neoshd they bootstrapped: connect_cmd,    *)
(* resume_cmd, resume_with_backoff and the part of run_session up to       *)
(* ATTACH_OK or RESUME_OK, with the cache file of src/client/cache.rs.     *)
(* NeoshClient says what happens while attached; here only the outcome of  *)
(* that counts.                                                            *)
(*                                                                         *)
(* A request and its answer travel separately: the connection may be lost  *)
(* before neoshd has acted on a request or after.  neoshd notices a lost   *)
(* connection later than the client does, or never.  The client process    *)
(* may be killed at any step.  Both machines have the same time.           *)
(*                                                                         *)
(* One session is followed: a second `neosh connect` would be another one. *)
(* The remote shell command of the bootstrap, the certificate fingerprint  *)
(* and the address, which a neoshd process never changes, are left out.    *)
(***************************************************************************)
EXTENDS SessionManager, TokenService, Sequences

CONSTANTS
    Absent, Torn,        \* the cache file does not exist, or does not parse
    AuthTtl, ResumeTtl,  \* of neoshd, in seconds
    Retention,           \* how long its sweeper keeps spent tokens
    MaxCommands,         \* bound: commands the user runs
    MaxLosses,           \* bound: connections the network loses
    MaxTime,             \* bound: seconds that pass
    MaxTyped             \* bound: chunks typed in one command

ASSUME ResumeAssumption ==
    /\ {AuthTtl, ResumeTtl, Retention, MaxCommands, MaxLosses, MaxTime,
        MaxTyped} \subseteq Nat

VARIABLES
    tty,       \* stdin and stdout are terminals
    commands,  \* commands run so far
    pc,        \* where the command is; "idle" between commands
    mode,      \* "New": connect_cmd with ATTACH; "Renew": resume with RESUME
    attempt,   \* the loop variable of connect_cmd or resume_with_backoff
    tries,     \* that of ssh_bootstrap_with_retry
    held,      \* resume token of the entry read at the top of the loop
    payload,   \* auth token of the bootstrap payload
    fresh,     \* the cache entry run_session made of AUTH_OK
    result,    \* what the last command returned
    cache,     \* the cache file of the session
    readers,   \* stdin tasks of earlier connections of this process
    typed,     \* chunks typed in this command
    lost,      \* of these, the ones that reached no live connection
    losses,    \* connections the network has lost so far
    net,       \* the current connection: "none", "up", "lost"
    conn,      \* its conn_id
    reply,     \* neoshd's answer under way
    server,    \* "none", "up", "gone"
    session, records, issued,   \* of neoshd, see Neoshd
    pty,       \* "none", "running", "exited"
    now,
    granted,   \* history: the resume tokens neoshd has issued
    deletion   \* history: why the client last deleted the entry, and the resume
               \* token it went by

loopVars   == <<tty, commands, mode, attempt, tries>>
inputVars  == <<readers, typed, lost>>
netVars    == <<net, conn, losses>>
tokenVars  == <<records, issued, granted>>
serverVars == <<server, session, tokenVars, pty>>
vars == <<loopVars, pc, held, payload, fresh, result, cache, inputVars, netVars,
          reply, serverVars, now, deletion>>

sid  == "sid"
user == "user"

Entry == [resume_token : Nat, resume_token_expires_at : Nat]

ASSUME CacheAssumption == {Absent, Torn} \cap Entry = {} /\ Absent # Torn

Reply ==
    [type : {"AUTH_OK"}, resume_token : Nat] \cup [type : {"ATTACH_OK"}]
    \cup [type : {"ERROR"}, code : {"AUTH_FAILED", "SESSION_EXPIRED", "ATTACH_DENIED"}]

ASSUME ReplyAssumption == None \notin Reply

Grant    == [raw : Nat, expires_at : Nat]
Deletion == [cause : {"expired", "refused", "closed"}, token : Nat]

ASSUME DeletionAssumption == None \notin Deletion

TypeOK ==
    /\ tty \in BOOLEAN /\ commands \in 0..MaxCommands
    /\ pc \in {"idle", "head", "ssh", "dial", "auth", "put", "write", "attach",
               "attached"}
    /\ mode \in {"New", "Renew"}
    /\ attempt \in 0..(IF mode = "New" THEN 1 ELSE 2) /\ tries \in 0..1
    /\ held \in Option(Nat) /\ payload \in Option(Nat)
    /\ fresh \in Option(Entry)
    /\ result \in {None, "Ok", "Cache", "Bootstrap", "Quic", "Protocol",
                   "AuthFailed", "Disconnected"}
    /\ cache \in Entry \cup {Absent, Torn}
    /\ readers \in Seq({"reading", "pending", "ended"})
    /\ typed \in 0..MaxTyped /\ lost \in 0..MaxTyped
    /\ net \in {"none", "up", "lost"} /\ conn \in 0..2
    /\ losses \in 0..MaxLosses
    /\ reply \in Option(Reply)
    /\ server \in {"none", "up", "gone"}
    /\ session \in Session(Nat)
    /\ records \subseteq TokenRecord(Nat, {sid}, {user}) /\ issued \in Nat
    /\ pty \in {"none", "running", "exited"}
    /\ now \in 0..MaxTime
    /\ granted \subseteq Grant /\ deletion \in Option(Deletion)

Init ==
    /\ tty \in BOOLEAN
    /\ commands = 0 /\ pc = "idle" /\ mode = "New" /\ attempt = 0 /\ tries = 0
    /\ held = None /\ payload = None /\ fresh = None /\ result = None
    /\ cache = Absent
    /\ readers = <<>> /\ typed = 0 /\ lost = 0
    /\ net = "none" /\ conn = 0 /\ losses = 0 /\ reply = None
    /\ server = "none" /\ session = create_session
    /\ records = {} /\ issued = 0 /\ pty = "none"
    /\ now = 0 /\ granted = {} /\ deletion = None

----------------------------------------------------------------------------
(* Error codes of neoshd *)

map_token_auth_error(e) == "AUTH_FAILED"

map_token_resume_error(e) ==
    IF e \in {"Expired", "Revoked"} THEN "SESSION_EXPIRED" ELSE "AUTH_FAILED"

\* attach_error returns neither NotFound nor PermissionDenied.
map_session_error(e) ==
    IF e = "AttachDenied" THEN "ATTACH_DENIED" ELSE "SESSION_EXPIRED"

resume_entry_expired(entry) == entry.resume_token_expires_at <= now

----------------------------------------------------------------------------
(* The end of a command, or of one of its attempts *)

\* The process is gone, its connection and its stdin tasks with it.
Exit ==
    /\ pc' = "idle"
    /\ net' = IF net = "up" THEN "lost" ELSE net
    /\ reply' = None
    /\ held' = None /\ payload' = None /\ fresh' = None
    /\ readers' = <<>> /\ typed' = 0 /\ lost' = 0
    /\ mode' = "New" /\ attempt' = 0 /\ tries' = 0
    /\ UNCHANGED <<tty, commands>>

Return(r) == Exit /\ result' = r

\* The next turn of the loop, at `label`.
Again(label) ==
    /\ pc' = label
    /\ attempt' = attempt + 1 /\ tries' = 0
    /\ reply' = None
    /\ net' = IF net = "up" THEN "lost" ELSE net
    /\ UNCHANGED <<tty, commands, mode, held, payload, fresh, result, typed, lost>>

\* SessionCache::delete, noting why.
DeleteEntry(cause, token) ==
    /\ cache' = Absent
    /\ deletion' = [cause |-> cause, token |-> token]

\* The stdin task of the connection that ended keeps reading the terminal.
LeaveReader == readers' = Append(readers, "reading")

----------------------------------------------------------------------------
(* Mutants *)

Disconnected_SamePayload ==
    /\ pc = "attached" /\ net = "lost"
    /\ mode = "Renew" /\ attempt < 2
    /\ Again("dial") /\ LeaveReader
    /\ UNCHANGED <<cache, conn, losses, serverVars, now, deletion>>

BootstrapFails_OnceMore ==
    /\ pc = "ssh"
    /\ IF tries <= 1
       THEN /\ tries' = tries + 1
            /\ UNCHANGED <<tty, commands, mode, attempt, pc, held, payload, fresh,
                           result, inputVars, net, reply>>
       ELSE Return("Bootstrap")
    /\ UNCHANGED <<cache, conn, losses, serverVars, now, deletion>>

AuthOk_NotCached ==
    /\ pc = "auth" /\ reply # None /\ reply.type = "AUTH_OK"
    /\ pc' = "attach"
    /\ fresh' = [resume_token |-> reply.resume_token,
                 resume_token_expires_at |-> now + ResumeTtl]
    /\ reply' = None
    /\ UNCHANGED <<loopVars, held, payload, result, cache, inputVars, netVars,
                   serverVars, now, deletion>>

AuthOk_CachesPayload ==
    /\ pc = "auth" /\ reply # None /\ reply.type = "AUTH_OK"
    /\ pc' = "put"
    /\ fresh' = [resume_token |-> payload,
                 resume_token_expires_at |-> now + ResumeTtl]
    /\ reply' = None
    /\ UNCHANGED <<loopVars, held, payload, result, cache, inputVars, netVars,
                   serverVars, now, deletion>>

StaleRead_GoesOn(i, ctrlA) ==
    /\ typed < MaxTyped
    /\ readers[i] # "ended"
    /\ typed' = typed + 1 /\ lost' = lost + 1
    /\ UNCHANGED <<loopVars, pc, held, payload, fresh, result, cache, readers,
                   netVars, reply, serverVars, now, deletion>>

NoAnswer_Waits == FALSE /\ UNCHANGED vars

----------------------------------------------------------------------------
(* The commands *)

\* `neosh connect`, the first command.
StartConnect ==
    /\ pc = "idle" /\ commands = 0 /\ MaxCommands > 0
    /\ commands' = 1
    /\ pc' = "ssh" /\ mode' = "New" /\ attempt' = 0 /\ tries' = 0
    /\ result' = None
    /\ UNCHANGED <<tty, held, payload, fresh, cache, inputVars, netVars, reply,
                   serverVars, now, deletion>>

\* `neosh resume`.  resume_cmd reads and checks the entry as the top of
\* resume_with_backoff does again, so its own check is left out.
StartResume ==
    /\ pc = "idle" /\ commands \in 1..(MaxCommands - 1)
    /\ commands' = commands + 1
    /\ pc' = "head" /\ mode' = "Renew" /\ attempt' = 0 /\ tries' = 0
    /\ result' = None
    /\ UNCHANGED <<tty, held, payload, fresh, cache, inputVars, netVars, reply,
                   serverVars, now, deletion>>

Killed ==
    /\ pc # "idle"
    /\ Exit
    /\ UNCHANGED <<result, cache, conn, losses, serverVars, now, deletion>>

\* The top of resume_with_backoff.
ReadCache ==
    /\ pc = "head"
    /\ IF cache \in {Absent, Torn}
       THEN Return("Cache") /\ UNCHANGED <<cache, deletion>>
       ELSE IF resume_entry_expired(cache)
       THEN Return("Cache") /\ DeleteEntry("expired", cache.resume_token)
       ELSE /\ held' = cache.resume_token
            /\ pc' = "ssh"
            /\ UNCHANGED <<loopVars, payload, fresh, result, cache, inputVars, net,
                           reply, deletion>>
    /\ UNCHANGED <<conn, losses, serverVars, now>>

\* ssh starts a neoshd, which prints its first auth token.  (One that an earlier
\* attempt started is left to its initial timeout.)
BootstrapNew ==
    /\ pc = "ssh" /\ mode = "New"
    /\ server' = "up" /\ session' = create_session /\ pty' = "none"
    /\ records' = issue_token({}, issued + 1, "Auth", sid, user, AuthTtl, now)
    /\ issued' = issued + 1 /\ granted' = {}
    /\ payload' = issued + 1
    /\ pc' = "dial"
    /\ UNCHANGED <<loopVars, held, fresh, result, cache, inputVars, netVars, reply,
                   now, deletion>>

BootstrapRenew ==
    /\ pc = "ssh" /\ mode = "Renew" /\ server = "up"
    /\ records' = issue_token(records, issued + 1, "Auth", sid, user, AuthTtl, now)
    /\ issued' = issued + 1
    /\ payload' = issued + 1
    /\ pc' = "dial"
    /\ UNCHANGED <<loopVars, held, fresh, result, cache, inputVars, netVars, reply,
                   server, session, granted, pty, now, deletion>>

\* ssh fails or prints no valid payload.  A token whose payload did not arrive is
\* never presented; its record is left out.
BootstrapFails ==
    /\ pc = "ssh"
    /\ IF tries = 0
       THEN /\ tries' = 1
            /\ UNCHANGED <<tty, commands, mode, attempt, pc, held, payload, fresh,
                           result, inputVars, net, reply>>
       ELSE Return("Bootstrap")
    /\ UNCHANGED <<cache, conn, losses, serverVars, now, deletion>>

----------------------------------------------------------------------------
(* run_session, up to the attachment *)

\* connect_and_verify, the control stream, HELLO and HELLO_ACK.  neoshd draws an
\* id for the connection that nobody else has.
Dial ==
    /\ pc = "dial" /\ server = "up"
    /\ conn' = (CHOOSE c \in 1..2 : c # session.attached_conn_id)
    /\ net' = "up"
    /\ pc' = "auth"
    /\ UNCHANGED <<loopVars, held, payload, fresh, result, cache, inputVars, losses, reply,
                   serverVars, now, deletion>>

DialFails ==
    /\ pc = "dial"
    /\ \E r \in {"Quic", "Protocol"} : Return(r)
    /\ UNCHANGED <<cache, conn, losses, serverVars, now, deletion>>

\* Whatever the client waits for, a lost connection ends: CliError::Protocol,
\* which neither loop retries.
NoAnswer ==
    /\ pc \in {"auth", "attach"} /\ net = "lost" /\ reply = None
    /\ Return("Protocol")
    /\ UNCHANGED <<cache, conn, losses, serverVars, now, deletion>>

AuthFailed ==
    /\ pc = "auth" /\ reply # None /\ reply.type = "ERROR"
    /\ IF attempt < (IF mode = "New" THEN 1 ELSE 2)
       THEN Again(IF mode = "New" THEN "ssh" ELSE "head") /\ UNCHANGED readers
       ELSE Return("AuthFailed")
    /\ UNCHANGED <<cache, conn, losses, serverVars, now, deletion>>

AuthOk ==
    /\ pc = "auth" /\ reply # None /\ reply.type = "AUTH_OK"
    /\ pc' = "put"
    /\ fresh' = [resume_token |-> reply.resume_token,
                 resume_token_expires_at |-> now + ResumeTtl]
    /\ reply' = None
    /\ UNCHANGED <<loopVars, held, payload, result, cache, inputVars, netVars,
                   serverVars, now, deletion>>

\* SessionCache::put is fs::write: the file is truncated, then written.
PutTruncates ==
    /\ pc = "put"
    /\ cache' = Torn
    /\ pc' = "write"
    /\ UNCHANGED <<loopVars, held, payload, fresh, result, inputVars, netVars, reply,
                   serverVars, now, deletion>>

PutWrites ==
    /\ pc = "write"
    /\ cache' = fresh
    /\ pc' = "attach"
    /\ UNCHANGED <<loopVars, held, payload, fresh, result, inputVars, netVars, reply,
                   serverVars, now, deletion>>

PutFails ==
    /\ pc \in {"put", "write"}
    /\ Return("Cache")
    /\ UNCHANGED <<cache, conn, losses, serverVars, now, deletion>>

AttachOk ==
    /\ pc = "attach" /\ reply # None /\ reply.type = "ATTACH_OK"
    /\ pc' = "attached"
    /\ reply' = None
    /\ UNCHANGED <<loopVars, held, payload, fresh, result, cache, inputVars, netVars,
                   serverVars, now, deletion>>

\* An ERROR is never retried.  SESSION_EXPIRED deletes the entry, also the one
\* that was written a moment ago.
AttachError ==
    /\ pc = "attach" /\ reply # None /\ reply.type = "ERROR"
    /\ Return("Protocol")
    /\ IF mode = "Renew" /\ reply.code = "SESSION_EXPIRED"
       THEN DeleteEntry("refused", held)
       ELSE UNCHANGED <<cache, deletion>>
    /\ UNCHANGED <<conn, losses, serverVars, now>>

----------------------------------------------------------------------------
(* Attached: how run_session returns *)

\* Err(Disconnected) in connect_cmd: a terminal is resumed.
DisconnectedNew ==
    /\ pc = "attached" /\ net = "lost" /\ mode = "New"
    /\ IF tty
       THEN /\ mode' = "Renew" /\ attempt' = 0 /\ tries' = 0
            /\ pc' = "head"
            /\ LeaveReader
            /\ UNCHANGED <<tty, commands, held, payload, fresh, result, typed,
                           lost, net, reply>>
       ELSE Return("Ok")
    /\ UNCHANGED <<cache, conn, losses, serverVars, now, deletion>>

\* And in resume_with_backoff: it counts as one of the three attempts.
Disconnected ==
    /\ pc = "attached" /\ net = "lost" /\ mode = "Renew"
    /\ IF attempt < 2 THEN Again("head") /\ LeaveReader
                      ELSE Return("Disconnected")
    /\ UNCHANGED <<cache, conn, losses, serverVars, now, deletion>>

\* DETACH, then endpoint.close at once: it may not get through.
Detach ==
    /\ pc = "attached" /\ net = "up"
    /\ Return("Ok")
    /\ session' \in {session} \cup
         (IF detach_error(session, conn) = "Ok" THEN {detach(session, conn)} ELSE {})
    /\ UNCHANGED <<cache, conn, losses, server, tokenVars, pty, now, deletion>>

\* The end of STDOUT, after the exit of the shell or because the client's receiver
\* lagged (see DataPlane) and the shell runs on: CLOSE, which need not get through
\* either, and the entry is deleted.
StreamClosed ==
    /\ pc = "attached" /\ net = "up"
    /\ Return("Ok")
    /\ session' \in {session, terminate(session)}
    /\ DeleteEntry("closed", cache.resume_token)
    /\ UNCHANGED <<conn, losses, server, tokenVars, pty, now>>

\* An ERROR or an unknown message, or a DETACH that cannot be written.
SessionFails ==
    /\ pc = "attached"
    /\ Return("Protocol")
    /\ UNCHANGED <<cache, conn, losses, serverVars, now, deletion>>

\* A stdin task of an earlier connection takes the chunk: a lone Ctrl-a is held
\* back, anything else cannot be written and ends the task.
StaleRead(i, ctrlA) ==
    /\ typed < MaxTyped
    /\ readers[i] # "ended"
    /\ typed' = typed + 1 /\ lost' = lost + 1
    /\ readers' = [readers EXCEPT ![i] = IF ctrlA /\ @ = "reading" THEN "pending"
                                                                  ELSE "ended"]
    /\ UNCHANGED <<loopVars, pc, held, payload, fresh, result, cache, netVars, reply,
                   serverVars, now, deletion>>

----------------------------------------------------------------------------
(* neoshd, as seen by this client *)

Answer(m) == reply' = m

ServerAuth ==
    LET e == auth_error(records, payload, sid, user, now) IN
    /\ pc = "auth" /\ net = "up" /\ reply = None /\ server = "up"
    /\ IF e = "Ok"
       THEN /\ records' = issue_token(consume(records, payload, now), issued + 1,
                                      "Resume", sid, user, ResumeTtl, now)
            /\ issued' = issued + 1
            /\ granted' = granted \cup {[raw |-> issued + 1, expires_at |-> now + ResumeTtl]}
            /\ Answer([type |-> "AUTH_OK", resume_token |-> issued + 1])
       ELSE /\ Answer([type |-> "ERROR", code |-> map_token_auth_error(e)])
            /\ UNCHANGED tokenVars
    /\ UNCHANGED <<loopVars, pc, held, payload, fresh, result, cache, inputVars,
                   netVars, server, session, pty, now, deletion>>

\* ATTACH, or RESUME with the token the client held before it authenticated.
ServerAttach ==
    LET t == IF mode = "New" THEN "Ok"
             ELSE resume_error(records, held, sid, user, now)
        s == attach_error(session)
    IN
    /\ pc = "attach" /\ net = "up" /\ reply = None /\ server = "up"
    /\ IF t # "Ok"
       THEN /\ Answer([type |-> "ERROR", code |-> map_token_resume_error(t)])
            /\ UNCHANGED <<session, pty>>
       ELSE IF s # "Ok"
       THEN /\ Answer([type |-> "ERROR", code |-> map_session_error(s)])
            /\ UNCHANGED <<session, pty>>
       ELSE /\ Answer([type |-> "ATTACH_OK"])
            /\ session' = attach_exclusive(session, conn)
            /\ pty' = IF pty = "none" THEN "running" ELSE pty
    /\ UNCHANGED <<loopVars, pc, held, payload, fresh, result, cache, inputVars,
                   netVars, server, tokenVars, now, deletion>>

\* The handler of a connection that is gone notices, and cleans up.
ServerReleases ==
    /\ server = "up"
    /\ session.attached_conn_id # None
    /\ session.attached_conn_id = conn => net = "lost"
    /\ session' = IF pty = "exited" THEN terminate(session) ELSE release(session)
    /\ UNCHANGED <<loopVars, pc, held, payload, fresh, result, cache, inputVars,
                   netVars, reply, server, tokenVars, pty, now, deletion>>

\* One of its two timeouts fires.
ServerExpires ==
    /\ server = "up" /\ session.state \in {"Created", "Detached"}
    /\ session' = expire(session)
    /\ UNCHANGED <<loopVars, pc, held, payload, fresh, result, cache, inputVars,
                   netVars, reply, server, tokenVars, pty, now, deletion>>

ServerExits ==
    /\ server = "up" /\ session.state \in Terminal
    /\ server' = "gone"
    /\ net' = IF net = "up" THEN "lost" ELSE net
    /\ UNCHANGED <<loopVars, pc, held, payload, fresh, result, cache, inputVars, conn,
                   losses, reply, session, tokenVars, pty, now, deletion>>

Sweep ==
    /\ server = "up"
    /\ records' = cleanup_expired(records, now, Retention)
    /\ UNCHANGED <<loopVars, pc, held, payload, fresh, result, cache, inputVars,
                   netVars, reply, server, session, issued, granted, pty, now, deletion>>

ShellExits ==
    /\ server = "up" /\ pty = "running"
    /\ pty' = "exited"
    /\ UNCHANGED <<loopVars, pc, held, payload, fresh, result, cache, inputVars,
                   netVars, reply, server, session, tokenVars, now, deletion>>

\* An answer that has arrived is still read; one under way may be lost.
ConnLost ==
    /\ net = "up" /\ losses < MaxLosses
    /\ net' = "lost"
    /\ losses' = losses + 1
    /\ reply' \in {reply, None}
    /\ UNCHANGED <<loopVars, pc, held, payload, fresh, result, cache, inputVars, conn,
                   serverVars, now, deletion>>

Tick ==
    /\ now < MaxTime
    /\ now' = now + 1
    /\ UNCHANGED <<loopVars, pc, held, payload, fresh, result, cache, inputVars,
                   netVars, reply, serverVars, deletion>>

----------------------------------------------------------------------------
Client ==
    \/ ReadCache \/ BootstrapNew \/ BootstrapRenew \/ BootstrapFails
    \/ Dial \/ DialFails \/ NoAnswer \/ AuthFailed \/ AuthOk
    \/ PutTruncates \/ PutWrites \/ PutFails \/ AttachOk \/ AttachError
    \/ DisconnectedNew \/ Disconnected

Server == ServerAuth \/ ServerAttach

Next ==
    \/ StartConnect \/ StartResume \/ Killed
    \/ Client \/ Server
    \/ Detach \/ StreamClosed \/ SessionFails
    \/ \E i \in DOMAIN readers, ctrlA \in BOOLEAN : StaleRead(i, ctrlA)
    \/ ServerReleases \/ ServerExpires \/ ServerExits \/ Sweep \/ ShellExits
    \/ ConnLost \/ Tick

Spec == Init /\ [][Next]_vars

\* The client runs, ssh ends, and neoshd answers on a working connection.
FairSpec == Spec /\ WF_vars(Client) /\ WF_vars(Server)

----------------------------------------------------------------------------
(* Properties *)

Cached == cache \notin {Absent, Torn}

\* neoshd would take t in a RESUME.
Honoured(t) == resume_error(records, t, sid, user, now) = "Ok"

\* A session that lives on in neoshd has its file: the entry is written before
\* ATTACH, so neither a killed client nor a lost answer leaves an attached session
\* without one, and it is deleted only once neoshd itself refuses the token the
\* client resumes with.  (The entry that goes may be the one just written, whose
\* own token neoshd would take: AttachError.)  What remains is the end of STDOUT,
\* which the client answers with CLOSE: if that is lost, the session outlives its
\* entry.
LiveSessionIsCached ==
    server = "up" /\ session.attach_epoch > 0 /\ session.state \notin Terminal =>
        \/ cache # Absent            \* a write may have been cut short: Torn
        \/ deletion # None /\ (deletion.cause = "closed" \/ ~ Honoured(deletion.token))

\* The entry is worth something: its token is a resume token this neoshd issued
\* and takes until it expires, which neither the sweeper nor another attempt cuts
\* short.  And the client does not think it expires earlier, so that it never
\* gives up an entry neoshd would still honour.
CachedTokenIsHonoured ==
    server = "up" /\ Cached =>
        \E g \in granted :
            /\ g.raw = cache.resume_token
            /\ g.expires_at <= cache.resume_token_expires_at
            /\ g.expires_at > now => Honoured(g.raw)

\* Every attempt authenticates with a token of its own: neoshd refuses one only
\* because it came too late, never because it was used before.
AuthFailsOnlyLate ==
    pc = "auth" /\ reply # None /\ reply.type = "ERROR" =>
        \A r \in find_record(records, payload) : r.expires_at <= now

\* What the stdin tasks of lost connections take away from the resumed session
\* is bounded by two chunks for every connection lost.
InputLossIsBounded == lost <= 2 * Len(readers)

\* Every command ends or stays attached: the two retry loops are bounded and no
\* wait outlives its connection.
CommandsEnd == <>[](pc \in {"idle", "attached"})

----------------------------------------------------------------------------
(* What the documents promise and the code does not keep *)

\* docs/v0.2.0/REQ-v0.2.0-002.md:22, "A reconnect from same `client_id` succeeds
\* without manual retry.": a client is not refused because of itself.
SameClientIsNotDenied ==
    reply # None /\ reply.type = "ERROR" => reply.code # "ATTACH_DENIED"

=============================================================================
