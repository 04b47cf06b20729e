------------------------ MODULE ClientResume_proofs ------------------------
(***************************************************************************)
(* The crash argument of the client, for every lifetime of a token and any *)
(* number of commands, losses and seconds.  IInv says where the entry is   *)
(* while a command runs.  TokenInv follows a token from where neoshd       *)
(* issues it to the reply, the cache file and the next attempt that        *)
(* presents it: an attempt fails only for being late, and the cached token *)
(* is one neoshd issued and takes until it expires.  DeletionInv adds why  *)
(* the file may be missing: a token that is dead stays dead, so what the   *)
(* client went by when it deleted the entry is still true later.           *)
(* LossIsCounted bounds the keys that stdin tasks of earlier connections   *)
(* can still take.                                                         *)
(***************************************************************************)
EXTENDS ClientResume, FiniteSetTheorems, TLAPS

USE NoneAssumption, MaxEpochAssumption, ResumeAssumption, CacheAssumption,
    ReplyAssumption, DeletionAssumption

Numbers ==
    /\ issued \in Nat /\ now \in Nat /\ conn \in Nat
    /\ session \in Session(Nat)
    /\ reply # None /\ reply.type = "AUTH_OK" => reply.resume_token \in Nat
    /\ cache \in Entry \cup {Absent, Torn}

\* Between AUTH_OK and the written file, run_session holds a complete entry.
EntryIsReady == pc \in {"put", "write"} => fresh \in Entry

\* From there until the connection ends the file is left alone.
EntryIsWritten == pc \in {"attach", "attached"} => Cached

\* There is no file before the first command has written one.
FirstEntry ==
    /\ commands = 0 => pc = "idle"
    /\ pc = "head" => mode # "New"
    /\ commands = 0 \/ (mode = "New" /\ pc \in {"ssh", "dial", "auth", "put"}) =>
        cache = Absent

\* Past the top of its loop, resume_with_backoff has the token of an entry.
TokenIsHeld == mode = "Renew" /\ pc \notin {"idle", "head"} => held \in Nat

IInv == Numbers /\ EntryIsReady /\ EntryIsWritten /\ FirstEntry /\ TokenIsHeld

----------------------------------------------------------------------------

LEMMA InitIInv == Init => IInv
<1> SUFFICES ASSUME Init PROVE IInv
  OBVIOUS
<1>1. session \in Session(Nat)
  BY DEF Init, create_session, Session, SessionState, Option
<1> QED
  BY <1>1 DEF Init, IInv, Numbers, EntryIsReady, EntryIsWritten, FirstEntry, TokenIsHeld

\* What the steps of neoshd make of its session: still a session, and no live
\* one that was not alive and attached before, but by ServerAttach.
LEMMA SessionStep ==
    ASSUME NEW s \in Session(Nat), NEW c \in Nat
    PROVE  /\ attach_exclusive(s, c) \in Session(Nat)
           /\ \A t \in {release(s), detach(s, c), terminate(s), expire(s)} :
                /\ t \in Session(Nat) /\ t.attach_epoch = s.attach_epoch
                /\ t.state \notin Terminal => s.state \notin Terminal
<1> USE DEF Session, SessionState, Option, Terminal
<1>1. saturating_inc(s.attach_epoch) \in 0..MaxEpoch
  BY DEF saturating_inc
<1>2. attach_exclusive(s, c) \in Session(Nat)
  BY <1>1 DEF attach_exclusive
<1>3. /\ release(s) \in Session(Nat) /\ release(s).attach_epoch = s.attach_epoch
      /\ release(s).state \notin Terminal => s.state \notin Terminal
  BY DEF release
<1>4. /\ terminate(s) \in Session(Nat) /\ terminate(s).attach_epoch = s.attach_epoch
      /\ terminate(s).state \in Terminal
  BY DEF terminate
<1>5. /\ expire(s) \in Session(Nat) /\ expire(s).attach_epoch = s.attach_epoch
      /\ expire(s).state \in Terminal
  BY DEF expire
<1> QED BY <1>2, <1>3, <1>4, <1>5 DEF detach

\* A step that leaves the file alone, and either keeps the place of the command
\* or leads away from the places IInv is about.
LEMMA QuietStep ==
    ASSUME IInv, Numbers', cache' = cache, commands' = commands,
           \/ UNCHANGED <<pc, mode, held, fresh>>
           \/ pc # "idle" /\ pc' \in {"idle", "head"} /\ (pc' = "head" => mode' # "New")
           \/ /\ pc' \in {"ssh", "dial", "auth"} /\ pc \in {"ssh", "dial", "auth"}
              /\ UNCHANGED <<mode, held>>
    PROVE  IInv'
<1> USE DEF IInv
<1>1. EntryIsReady' /\ EntryIsWritten'
  BY DEF EntryIsReady, EntryIsWritten, Cached
<1>2. FirstEntry'
  BY DEF FirstEntry
<1>3. TokenIsHeld'
  BY DEF TokenIsHeld
<1> QED BY <1>1, <1>2, <1>3

LEMMA SameNumbers ==
    ASSUME Numbers, UNCHANGED <<issued, now, conn, session>>, reply' \in {reply, None},
           cache' \in {cache, Absent, Torn} \cup Entry
    PROVE  Numbers'
<1>1. cache' \in Entry \cup {Absent, Torn}
  BY DEF Numbers
<1>2. reply' # None => reply' = reply
  OBVIOUS
<1> QED BY <1>1, <1>2 DEF Numbers

\* The steps after which the command is elsewhere but the file is as it was.
LEMMA CommandIInv ==
    ASSUME IInv,
           \/ StartConnect \/ StartResume \/ Killed \/ BootstrapFails \/ DialFails
           \/ NoAnswer \/ AuthFailed \/ PutFails \/ DisconnectedNew \/ Disconnected
           \/ SessionFails
    PROVE  IInv'
<1> USE DEF serverVars, tokenVars, netVars, inputVars, loopVars, Exit, Return, Again
<1>0. Numbers
  BY DEF IInv
<1>1. CASE StartConnect \/ StartResume
  <2>1. Numbers'
    BY <1>0, <1>1, SameNumbers DEF StartConnect, StartResume
  <2>2. EntryIsReady' /\ EntryIsWritten' /\ FirstEntry' /\ TokenIsHeld'
    BY <1>1 DEF StartConnect, StartResume, IInv, EntryIsReady, EntryIsWritten,
                FirstEntry, TokenIsHeld
  <2> QED BY <2>1, <2>2 DEF IInv
<1>2. CASE Killed
  BY <1>0, <1>2, QuietStep, SameNumbers DEF Killed
<1>3. CASE PutFails
  BY <1>0, <1>3, QuietStep, SameNumbers DEF PutFails
<1>4. CASE BootstrapFails
  BY <1>0, <1>4, QuietStep, SameNumbers DEF BootstrapFails
<1>5. CASE DialFails \/ NoAnswer \/ SessionFails
  BY <1>0, <1>5, QuietStep, SameNumbers DEF DialFails, NoAnswer, SessionFails
<1>6. CASE AuthFailed
  BY <1>0, <1>6, QuietStep, SameNumbers DEF AuthFailed
<1>7. CASE DisconnectedNew
  BY <1>0, <1>7, QuietStep, SameNumbers DEF DisconnectedNew
<1>8. CASE Disconnected
  BY <1>0, <1>8, QuietStep, SameNumbers DEF Disconnected
<1> QED BY <1>1, <1>2, <1>3, <1>4, <1>5, <1>6, <1>7, <1>8

\* The bootstraps and the dialling.
LEMMA BootstrapIInv == ASSUME IInv, BootstrapNew \/ BootstrapRenew \/ Dial PROVE IInv'
<1> USE DEF serverVars, tokenVars, netVars, inputVars, loopVars
<1>0. Numbers
  BY DEF IInv
<1>1. CASE BootstrapNew
  <2>1. session' \in Session(Nat)
    BY <1>1 DEF BootstrapNew, create_session, Session, SessionState, Option
  <2>2. Numbers'
    BY <1>0, <1>1, <2>1 DEF BootstrapNew, Numbers
  <2> QED
    BY <1>1, <2>2, QuietStep DEF BootstrapNew
<1>2. CASE BootstrapRenew
  <2>1. Numbers'
    BY <1>0, <1>2 DEF BootstrapRenew, Numbers
  <2> QED
    BY <1>2, <2>1, QuietStep DEF BootstrapRenew
<1>3. CASE Dial
  <2>1. \E c \in 1..2 : c # session.attached_conn_id
    OBVIOUS
  <2>2. conn' \in Nat
    BY <1>3, <2>1 DEF Dial
  <2>3. Numbers'
    BY <1>0, <1>3, <2>2 DEF Dial, Numbers
  <2> QED
    BY <1>3, <2>3, QuietStep DEF Dial
<1> QED BY <1>1, <1>2, <1>3

\* The steps that write or delete the file.
LEMMA CacheIInv ==
    ASSUME IInv,
           \/ ReadCache \/ AuthOk \/ PutTruncates \/ PutWrites \/ AttachOk
           \/ AttachError \/ StreamClosed
    PROVE  IInv'
<1> USE DEF serverVars, tokenVars, netVars, inputVars, loopVars, Exit, Return
<1>0. Numbers
  BY DEF IInv
<1>1. CASE ReadCache
  <2>1. Numbers'
    BY <1>0, <1>1, SameNumbers DEF ReadCache, DeleteEntry
  <2>2. CASE Exit
    BY <1>1, <2>1, <2>2
       DEF ReadCache, DeleteEntry, IInv, EntryIsReady, EntryIsWritten, FirstEntry,
           TokenIsHeld
  <2>3. CASE ~ Exit
    <3>1. /\ cache \notin {Absent, Torn} /\ held' = cache.resume_token
          /\ pc = "head" /\ pc' = "ssh" /\ UNCHANGED <<loopVars, cache>>
      BY <1>1, <2>3 DEF ReadCache
    <3>2. held' \in Nat
      <4>1. cache \in Entry
        BY <1>0, <3>1 DEF Numbers
      <4> QED BY <3>1, <4>1 DEF Entry
    <3>3. FirstEntry'
      BY <3>1 DEF IInv, FirstEntry
    <3> QED
      BY <2>1, <3>1, <3>2, <3>3 DEF IInv, EntryIsReady, EntryIsWritten, TokenIsHeld
  <2> QED BY <2>2, <2>3
<1>2. CASE AuthOk
  <2>1. Numbers'
    BY <1>0, <1>2, SameNumbers DEF AuthOk
  <2>2. fresh' \in Entry
    BY <1>0, <1>2 DEF AuthOk, Numbers, Entry
  <2> QED
    BY <1>2, <2>1, <2>2
       DEF AuthOk, IInv, EntryIsReady, EntryIsWritten, FirstEntry, TokenIsHeld
<1>3. CASE PutTruncates
  <2>1. Numbers'
    BY <1>0, <1>3, SameNumbers DEF PutTruncates
  <2> QED
    BY <1>3, <2>1
       DEF PutTruncates, IInv, EntryIsReady, EntryIsWritten, FirstEntry, TokenIsHeld
<1>4. CASE PutWrites
  <2>1. cache' \in Entry
    BY <1>4 DEF PutWrites, IInv, EntryIsReady
  <2>2. Numbers'
    BY <1>0, <1>4, <2>1, SameNumbers DEF PutWrites
  <2>3. Cached'
    BY <2>1 DEF Cached
  <2> QED
    BY <1>4, <2>2, <2>3
       DEF PutWrites, IInv, EntryIsReady, EntryIsWritten, FirstEntry, TokenIsHeld
<1>5. CASE AttachOk
  <2>1. Numbers'
    BY <1>0, <1>5, SameNumbers DEF AttachOk
  <2> QED
    BY <1>5, <2>1
       DEF AttachOk, IInv, EntryIsReady, EntryIsWritten, FirstEntry, TokenIsHeld, Cached
<1>6. CASE AttachError
  <2>1. Numbers'
    BY <1>0, <1>6, SameNumbers DEF AttachError, DeleteEntry
  <2> QED
    BY <1>6, <2>1
       DEF AttachError, DeleteEntry, IInv, EntryIsReady, EntryIsWritten, FirstEntry,
           TokenIsHeld
<1>7. CASE StreamClosed
  <2>1. session' \in Session(Nat)
    BY <1>0, <1>7, SessionStep DEF StreamClosed, Numbers
  <2>2. Numbers'
    BY <1>0, <1>7, <2>1 DEF StreamClosed, DeleteEntry, Numbers
  <2> QED
    BY <1>7, <2>2
       DEF StreamClosed, DeleteEntry, IInv, EntryIsReady, EntryIsWritten, FirstEntry,
           TokenIsHeld
<1> QED BY <1>1, <1>2, <1>3, <1>4, <1>5, <1>6, <1>7

\* The answers of neoshd.
LEMMA ServerIInv == ASSUME IInv, ServerAuth \/ ServerAttach PROVE IInv'
<1> USE DEF serverVars, tokenVars, netVars, inputVars, loopVars, Answer
<1>0. Numbers
  BY DEF IInv
<1>1. CASE ServerAuth
  <2>1. Numbers'
    <3>1. CASE reply' = [type |-> "AUTH_OK", resume_token |-> issued + 1]
      BY <1>0, <1>1, <3>1 DEF ServerAuth, Numbers
    <3>2. CASE reply'.type = "ERROR"
      BY <1>0, <1>1, <3>2 DEF ServerAuth, Numbers
    <3> QED BY <1>1, <3>1, <3>2 DEF ServerAuth
  <2> QED BY <1>1, <2>1, QuietStep DEF ServerAuth
<1>2. CASE ServerAttach
  <2>1. reply'.type \in {"ERROR", "ATTACH_OK"}
    BY <1>2 DEF ServerAttach
  <2>2. session' \in Session(Nat)
    BY <1>0, <1>2, SessionStep DEF ServerAttach, Numbers
  <2>3. Numbers'
    BY <1>0, <1>2, <2>1, <2>2 DEF ServerAttach, Numbers
  <2> QED
    BY <1>2, <2>3, QuietStep DEF ServerAttach
<1> QED BY <1>1, <1>2

\* The steps that end or release the attachment, and those of the environment.
LEMMA EnvironmentIInv ==
    ASSUME IInv,
           \/ Detach \/ ServerReleases \/ ServerExpires \/ ServerExits \/ Sweep
           \/ ShellExits \/ ConnLost \/ Tick
           \/ \E i \in DOMAIN readers, ctrlA \in BOOLEAN : StaleRead(i, ctrlA)
    PROVE  IInv'
<1> USE DEF serverVars, tokenVars, netVars, inputVars, loopVars
<1>0. Numbers /\ session \in Session(Nat) /\ conn \in Nat
  BY DEF IInv, Numbers
<1>1. CASE Detach
  <2>1. session' \in Session(Nat)
    BY <1>0, <1>1, SessionStep DEF Detach
  <2>2. Numbers'
    BY <1>0, <1>1, <2>1 DEF Detach, Numbers, Return, Exit
  <2> QED BY <1>1, <2>2, QuietStep DEF Detach, Return, Exit
<1>2. CASE ServerReleases \/ ServerExpires
  <2>1. session' \in Session(Nat)
    BY <1>0, <1>2, SessionStep DEF ServerReleases, ServerExpires
  <2>2. Numbers'
    BY <1>0, <1>2, <2>1 DEF ServerReleases, ServerExpires, Numbers
  <2> QED BY <1>2, <2>2, QuietStep DEF ServerReleases, ServerExpires
<1>3. CASE ServerExits \/ Sweep
  BY <1>0, <1>3, QuietStep, SameNumbers DEF ServerExits, Sweep
<1>4. CASE ShellExits
  <2>1. Numbers'
    BY <1>0, <1>4, SameNumbers DEF ShellExits
  <2> QED BY <1>4, <2>1, QuietStep DEF ShellExits
<1>5. CASE ConnLost
  BY <1>0, <1>5, QuietStep, SameNumbers DEF ConnLost
<1>6. CASE Tick
  <2>1. Numbers'
    BY <1>0, <1>6 DEF Tick, Numbers
  <2> QED BY <1>6, <2>1, QuietStep DEF Tick
<1>7. CASE \E i \in DOMAIN readers, ctrlA \in BOOLEAN : StaleRead(i, ctrlA)
  BY <1>0, <1>7, QuietStep, SameNumbers DEF StaleRead
<1> QED BY <1>1, <1>2, <1>3, <1>4, <1>5, <1>6, <1>7

LEMMA NextIInv == IInv /\ [Next]_vars => IInv'
<1> SUFFICES ASSUME IInv, [Next]_vars PROVE IInv'
  OBVIOUS
<1>1. CASE Next
  BY <1>1, CommandIInv, BootstrapIInv, CacheIInv, ServerIInv, EnvironmentIInv
     DEF Next, Client, Server
<1>2. CASE UNCHANGED vars
  <2>1. Numbers'
    BY <1>2, SameNumbers DEF IInv, vars, serverVars, tokenVars, netVars
  <2> QED BY <1>2, <2>1, QuietStep DEF vars, loopVars
<1> QED BY <1>1, <1>2

----------------------------------------------------------------------------
(* The tokens: what the client holds was issued by neoshd *)

\* The conjuncts of TypeOK, each about variables that change together; what was
\* lost was also typed.
LoopOK ==
    /\ tty \in BOOLEAN /\ commands \in 0..MaxCommands
    /\ mode \in {"New", "Renew"}
    /\ attempt \in 0..(IF mode = "New" THEN 1 ELSE 2) /\ tries \in 0..1
PlaceOK ==
    pc \in {"idle", "head", "ssh", "dial", "auth", "put", "write", "attach",
            "attached"}
HeldOK ==
    /\ held \in Option(Nat) /\ payload \in Option(Nat)
    /\ fresh \in Option(Entry)
    /\ result \in {None, "Ok", "Cache", "Bootstrap", "Quic", "Protocol",
                   "AuthFailed", "Disconnected"}
    /\ cache \in Entry \cup {Absent, Torn}
InputOK ==
    /\ readers \in Seq({"reading", "pending", "ended"})
    /\ typed \in 0..MaxTyped /\ lost \in 0..MaxTyped /\ lost <= typed
NetOK ==
    /\ net \in {"none", "up", "lost"} /\ conn \in 0..2 /\ losses \in 0..MaxLosses
ReplyOK == reply \in Option(Reply)
ServerOK ==
    /\ server \in {"none", "up", "gone"}
    /\ session \in Session(Nat)
    /\ records \subseteq TokenRecord(Nat, {sid}, {user}) /\ issued \in Nat
    /\ granted \subseteq Grant
    /\ pty \in {"none", "running", "exited"}
ClockOK == now \in 0..MaxTime /\ deletion \in Option(Deletion)

TypeInv ==
    /\ LoopOK /\ PlaceOK /\ HeldOK /\ InputOK /\ NetOK /\ ReplyOK /\ ServerOK
    /\ ClockOK

\* An answer is under way only while the client waits for one.
ReplyIsAwaited == reply # None => pc \in {"auth", "attach"}

\* R holds some of the first n tokens, at most once each, and none is revoked.
AreIssued(R, n) ==
    /\ \A r \in R : r.raw \in 1..n /\ r.revoked_at = None
    /\ \A q, r \in R : q.raw = r.raw => q = r

\* t was given out as an auth token that is not consumed yet.
IsUnused(R, n, t) ==
    /\ t \in 1..n
    /\ \A r \in R : r.raw = t => r.token_type = "Auth" /\ r.consumed_at = None

\* The grants G are of the first n tokens.  A record of one says the same, and is
\* kept as long as the token is valid at time m.
AreKept(G, R, n, m) ==
    \A g \in G :
        /\ g.raw \in 1..n
        /\ \A r \in R : r.raw = g.raw =>
                r.token_type = "Resume" /\ r.expires_at = g.expires_at
        /\ g.expires_at > m => \E r \in R : r.raw = g.raw

\* t was issued as a resume token that is taken until `limit` at most.
IsGranted(G, t, limit) == \E g \in G : g.raw = t /\ g.expires_at <= limit

\* Until neoshd has answered it, the auth token of the bootstrap is unused.
PayloadIsUnused ==
    pc = "dial" \/ (pc = "auth" /\ net = "up" /\ reply = None) =>
        IsUnused(records, issued, payload)

\* AUTH_OK, the entry run_session makes of it and the file hold resume tokens.
ReplyIsGranted ==
    reply # None /\ reply.type = "AUTH_OK" =>
        IsGranted(granted, reply.resume_token, now + ResumeTtl)
FreshIsGranted ==
    pc \in {"put", "write"} =>
        IsGranted(granted, fresh.resume_token, fresh.resume_token_expires_at)
CacheIsGranted ==
    Cached => IsGranted(granted, cache.resume_token, cache.resume_token_expires_at)

TokenInv ==
    /\ ReplyIsAwaited /\ AreIssued(records, issued) /\ PayloadIsUnused
    /\ AreKept(granted, records, issued, now)
    /\ ReplyIsGranted /\ FreshIsGranted /\ CacheIsGranted /\ AuthFailsOnlyLate

\* neoshd has issued t and takes it no more, nor will it ever.
IsDead(R, n, t, m) == t \in 1..n /\ \A r \in R : r.raw = t => r.expires_at <= m

\* When the file of a live session is missing, the client has deleted it, at the
\* end of STDOUT or because its token was dead.
DeletionIsSound ==
    /\ server = "up" /\ session.attach_epoch > 0 /\ session.state \notin Terminal
    /\ cache = Absent
    => /\ deletion # None
       /\ deletion.cause = "closed" \/ IsDead(records, issued, deletion.token, now)

\* neoshd answers SESSION_EXPIRED for a dead token or a session that has ended.
RefusalIsSound ==
    /\ pc = "attach" /\ mode = "Renew"
    /\ reply # None /\ reply.type = "ERROR" /\ reply.code = "SESSION_EXPIRED"
    => IsDead(records, issued, held, now) \/ session.state \in Terminal

DeletionInv == DeletionIsSound /\ RefusalIsSound

\* A stdin task takes one chunk when it holds Ctrl-a back, and one when it ends.
Started == {i \in DOMAIN readers : readers[i] # "reading"}
Ended   == {i \in DOMAIN readers : readers[i] = "ended"}
LossIsCounted == lost <= Cardinality(Started) + Cardinality(Ended)

LEMMA OptionIntro ==
    ASSUME NEW T PROVE None \in Option(T) /\ \A x \in T : x \in Option(T)
  BY DEF Option

Records == SUBSET TokenRecord(Nat, {sid}, {user})

\* Issuing and consuming keep the type of the records.
LEMMA IssueType ==
    ASSUME NEW R \in Records, NEW raw \in Nat, NEW type \in TokenType, NEW ttl \in Nat,
           NEW n \in Nat
    PROVE  issue_token(R, raw, type, sid, user, ttl, n) \in Records
<1>1. [raw |-> raw, token_type |-> type, session_id |-> sid, user_id |-> user,
       expires_at |-> n + ttl, consumed_at |-> None, revoked_at |-> None]
        \in TokenRecord(Nat, {sid}, {user})
  BY DEF TokenRecord, Option
<1> QED BY <1>1 DEF issue_token, Records

LEMMA ConsumeType ==
    ASSUME NEW R \in Records, NEW t, NEW n \in Nat PROVE consume(R, t, n) \in Records
  BY DEF consume, TokenRecord, Option, Records

LEMMA ServerTypes ==
    ASSUME TypeInv
    PROVE  /\ records \in Records /\ issued \in Nat /\ granted \in SUBSET Grant
           /\ now \in Nat
<1>1. records \in Records /\ granted \in SUBSET Grant
  BY DEF TypeInv, ServerOK, Records
<1>2. issued \in Nat
  BY DEF TypeInv, ServerOK
<1>3. now \in Nat
  BY DEF TypeInv, ClockOK
<1> QED BY <1>1, <1>2, <1>3

\* What a step does not touch keeps its type.
LEMMA TypeFrame ==
    ASSUME TypeInv
    PROVE  /\ UNCHANGED loopVars => LoopOK'
           /\ UNCHANGED pc => PlaceOK'
           /\ UNCHANGED <<held, payload, fresh, result, cache>> => HeldOK'
           /\ UNCHANGED inputVars => InputOK'
           /\ UNCHANGED netVars => NetOK'
           /\ reply' \in {reply, None} => ReplyOK'
           /\ UNCHANGED serverVars => ServerOK'
           /\ UNCHANGED <<now, deletion>> => ClockOK'
<1> USE DEF TypeInv
<1>1. UNCHANGED loopVars => LoopOK'
  BY DEF LoopOK, loopVars
<1>2. UNCHANGED pc => PlaceOK'
  BY DEF PlaceOK
<1>3. UNCHANGED <<held, payload, fresh, result, cache>> => HeldOK'
  BY DEF HeldOK
<1>4. UNCHANGED inputVars => InputOK'
  BY DEF InputOK, inputVars
<1>5. UNCHANGED netVars => NetOK'
  BY DEF NetOK, netVars
<1>6. reply' \in {reply, None} => ReplyOK'
  BY OptionIntro DEF ReplyOK
<1>7. UNCHANGED serverVars => ServerOK'
  BY DEF ServerOK, serverVars, tokenVars
<1>8. UNCHANGED <<now, deletion>> => ClockOK'
  BY DEF ClockOK
<1> QED BY <1>1, <1>2, <1>3, <1>4, <1>5, <1>6, <1>7, <1>8

LEMMA InitTypeInv == Init => TypeInv
<1> SUFFICES ASSUME Init PROVE TypeInv
  OBVIOUS
<1>1. LoopOK /\ PlaceOK
  BY DEF Init, LoopOK, PlaceOK
<1>2. HeldOK
  BY OptionIntro DEF Init, HeldOK
<1>3. InputOK
  <2>1. readers \in Seq({"reading", "pending", "ended"})
    BY DEF Init
  <2> QED BY <2>1 DEF Init, InputOK
<1>4. NetOK
  BY DEF Init, NetOK
<1>5. ReplyOK
  BY OptionIntro DEF Init, ReplyOK
<1>6. ClockOK
  <2>1. now \in 0..MaxTime
    BY DEF Init
  <2>2. deletion \in Option(Deletion)
    BY OptionIntro DEF Init
  <2> QED BY <2>1, <2>2 DEF ClockOK
<1>7. ServerOK
  <2>1. session \in Session(Nat)
    BY InitIInv DEF IInv, Numbers
  <2> QED BY <2>1 DEF Init, ServerOK
<1> QED BY <1>1, <1>2, <1>3, <1>4, <1>5, <1>6, <1>7 DEF TypeInv

\* The end of the command: its variables are reset.
LEMMA ExitTypeInv ==
    ASSUME TypeInv, IInv', Exit,
           result' \in {result, "Ok", "Cache", "Bootstrap", "Quic", "Protocol",
                        "AuthFailed", "Disconnected"},
           cache' \in {cache, Absent}, deletion' \in {deletion} \cup Deletion,
           UNCHANGED <<conn, losses, server, tokenVars, pty, now>>
    PROVE  TypeInv'
<1> USE DEF Exit, TypeInv
<1>1. LoopOK' /\ PlaceOK'
  BY DEF LoopOK, PlaceOK
<1>2. HeldOK'
  BY OptionIntro DEF HeldOK
<1>3. InputOK' /\ NetOK'
  BY DEF InputOK, NetOK
<1>4. ServerOK'
  <2>1. session' \in Session(Nat)
    BY DEF IInv, Numbers
  <2> QED BY <2>1 DEF ServerOK, tokenVars
<1>5. ClockOK'
  BY OptionIntro DEF ClockOK
<1> QED BY <1>1, <1>2, <1>3, <1>4, <1>5, TypeFrame

\* The next turn of one of the loops.
LEMMA AgainTypeInv ==
    ASSUME TypeInv, NEW label, Again(label), label \in {"ssh", "head"},
           attempt < (IF mode = "New" THEN 1 ELSE 2), InputOK',
           UNCHANGED <<cache, conn, losses, serverVars, now, deletion>>
    PROVE  TypeInv'
<1> USE DEF Again
<1>1. LoopOK' /\ PlaceOK'
  BY DEF LoopOK, PlaceOK, TypeInv
<1>2. NetOK'
  BY DEF NetOK, TypeInv
<1> QED BY <1>1, <1>2, TypeFrame DEF TypeInv

LEMMA CommandTypeInv ==
    ASSUME TypeInv, IInv', StartConnect \/ StartResume \/ Killed \/ ReadCache
    PROVE  TypeInv'
<1>1. CASE StartConnect \/ StartResume
  <2>1. LoopOK' /\ PlaceOK'
    BY <1>1 DEF StartConnect, StartResume, LoopOK, PlaceOK, TypeInv
  <2>2. HeldOK'
    BY <1>1 DEF StartConnect, StartResume, HeldOK, TypeInv
  <2> QED BY <1>1, <2>1, <2>2, TypeFrame DEF StartConnect, StartResume, TypeInv
<1>2. CASE Killed
  BY <1>2, ExitTypeInv DEF Killed, serverVars
<1>3. CASE ReadCache
  <2>1. CASE Exit
    <3>1. deletion' \in {deletion} \cup Deletion /\ cache' \in {cache, Absent}
      <4>1. cache \notin {Absent, Torn} => cache.resume_token \in Nat
        BY DEF TypeInv, HeldOK, Entry
      <4> QED BY <1>3, <2>1, <4>1 DEF ReadCache, DeleteEntry, Deletion
    <3> QED BY <1>3, <2>1, <3>1, ExitTypeInv DEF ReadCache, Return, serverVars
  <2>2. CASE ~ Exit
    <3>1. /\ cache \notin {Absent, Torn} /\ held' = cache.resume_token /\ pc' = "ssh"
          /\ UNCHANGED <<loopVars, payload, fresh, result, cache, inputVars, net,
                         reply, deletion, conn, losses, serverVars, now>>
      BY <1>3, <2>2 DEF ReadCache, Return
    <3>2. cache \in Entry
      BY <3>1 DEF TypeInv, HeldOK
    <3>3. held' \in Option(Nat)
      BY <3>1, <3>2, OptionIntro DEF Entry
    <3>4. PlaceOK' /\ HeldOK'
      BY <3>1, <3>3 DEF PlaceOK, HeldOK, TypeInv
    <3> QED BY <3>1, <3>4, TypeFrame DEF netVars, TypeInv
  <2> QED BY <2>1, <2>2
<1> QED BY <1>1, <1>2, <1>3

LEMMA BootstrapTypeInv ==
    ASSUME TypeInv, IInv', BootstrapNew \/ BootstrapRenew \/ BootstrapFails
    PROVE  TypeInv'
<1>1. CASE BootstrapNew \/ BootstrapRenew
  <2>1. issued + 1 \in Nat /\ now \in Nat
    BY ServerTypes
  <2>2. records' \in Records
    <3>1. {} \in Records /\ records \in Records /\ "Auth" \in TokenType /\ AuthTtl \in Nat
      BY ServerTypes DEF TokenType, Records
    <3>2. \A R \in Records :
            issue_token(R, issued + 1, "Auth", sid, user, AuthTtl, now) \in Records
      BY <2>1, <3>1, IssueType
    <3> QED BY <1>1, <3>1, <3>2 DEF BootstrapNew, BootstrapRenew
  <2>3. session' \in Session(Nat)
    BY DEF IInv, Numbers
  <2>4. /\ server' = "up" /\ pty' \in {"none", pty} /\ pc' = "dial"
        /\ granted' \in {{}, granted}
        /\ issued' = issued + 1 /\ payload' = issued + 1
        /\ UNCHANGED <<loopVars, held, fresh, result, cache, inputVars, netVars, reply,
                       now, deletion>>
    BY <1>1 DEF BootstrapNew, BootstrapRenew
  <2>5. ServerOK' /\ PlaceOK'
    BY <2>1, <2>2, <2>3, <2>4 DEF TypeInv, ServerOK, PlaceOK, Records
  <2>6. HeldOK'
    BY <2>1, <2>4, OptionIntro DEF TypeInv, HeldOK
  <2> QED BY <2>4, <2>5, <2>6, TypeFrame DEF TypeInv
<1>2. CASE BootstrapFails
  <2>1. CASE Exit
    BY <1>2, <2>1, ExitTypeInv DEF BootstrapFails, Return, serverVars
  <2>2. CASE ~ Exit
    <3>1. LoopOK'
      BY <1>2, <2>2 DEF BootstrapFails, Return, LoopOK, TypeInv
    <3> QED BY <1>2, <2>2, <3>1, TypeFrame DEF BootstrapFails, Return, netVars, TypeInv
  <2> QED BY <2>1, <2>2
<1> QED BY <1>1, <1>2

LEMMA SessionTypeInv ==
    ASSUME TypeInv, IInv, IInv',
           \/ Dial \/ DialFails \/ NoAnswer \/ AuthFailed \/ AuthOk \/ PutTruncates
           \/ PutWrites \/ PutFails \/ AttachOk \/ AttachError
    PROVE  TypeInv'
<1>1. CASE Dial
  <2>1. \E c \in 1..2 : c # session.attached_conn_id
    OBVIOUS
  <2>2. conn' \in 1..2
    BY <1>1, <2>1 DEF Dial
  <2>3. NetOK' /\ PlaceOK'
    BY <1>1, <2>2 DEF Dial, NetOK, PlaceOK, TypeInv
  <2> QED BY <1>1, <2>3, TypeFrame DEF Dial, TypeInv
<1>2. CASE DialFails \/ NoAnswer
  BY <1>2, ExitTypeInv DEF DialFails, NoAnswer, Return, serverVars
<1>3. CASE AuthFailed
  <2>1. CASE Exit
    BY <1>3, <2>1, ExitTypeInv DEF AuthFailed, Return, Again, serverVars
  <2>2. CASE ~ Exit
    <3>1. /\ Again(IF mode = "New" THEN "ssh" ELSE "head") /\ UNCHANGED readers
          /\ attempt < (IF mode = "New" THEN 1 ELSE 2)
          /\ UNCHANGED <<cache, conn, losses, serverVars, now, deletion>>
      BY <1>3, <2>2 DEF AuthFailed, Return
    <3>2. InputOK'
      BY <3>1, TypeFrame DEF Again, inputVars
    <3> QED BY <3>1, <3>2, AgainTypeInv
  <2> QED BY <2>1, <2>2
<1>4. CASE AuthOk
  <2>1. fresh' \in Entry
    BY <1>4 DEF AuthOk, IInv, EntryIsReady
  <2>2. HeldOK' /\ PlaceOK'
    BY <1>4, <2>1, OptionIntro DEF AuthOk, HeldOK, PlaceOK, TypeInv
  <2> QED BY <1>4, <2>2, TypeFrame DEF AuthOk, TypeInv
<1>5. CASE PutTruncates
  <2>1. HeldOK' /\ PlaceOK'
    BY <1>5 DEF PutTruncates, HeldOK, PlaceOK, TypeInv
  <2> QED BY <1>5, <2>1, TypeFrame DEF PutTruncates, TypeInv
<1>6. CASE PutWrites
  <2>1. cache' \in Entry
    BY <1>6 DEF PutWrites, IInv, EntryIsReady
  <2>2. HeldOK' /\ PlaceOK'
    BY <1>6, <2>1 DEF PutWrites, HeldOK, PlaceOK, TypeInv
  <2> QED BY <1>6, <2>2, TypeFrame DEF PutWrites, TypeInv
<1>7. CASE PutFails
  BY <1>7, ExitTypeInv DEF PutFails, Return, serverVars
<1>8. CASE AttachOk
  <2>1. PlaceOK'
    BY <1>8 DEF AttachOk, PlaceOK
  <2> QED BY <1>8, <2>1, TypeFrame DEF AttachOk, TypeInv
<1>9. CASE AttachError
  <2>1. deletion' \in {deletion} \cup Deletion /\ cache' \in {cache, Absent}
    <3>1. mode = "Renew" => held \in Nat
      BY <1>9 DEF AttachError, IInv, TokenIsHeld
    <3> QED BY <1>9, <3>1 DEF AttachError, DeleteEntry, Deletion
  <2> QED BY <1>9, <2>1, ExitTypeInv DEF AttachError, Return, serverVars
<1> QED BY <1>1, <1>2, <1>3, <1>4, <1>5, <1>6, <1>7, <1>8, <1>9

LEMMA AttachedTypeInv ==
    ASSUME TypeInv, IInv, IInv',
           \/ DisconnectedNew \/ Disconnected \/ Detach \/ StreamClosed \/ SessionFails
           \/ \E i \in DOMAIN readers, ctrlA \in BOOLEAN : StaleRead(i, ctrlA)
    PROVE  TypeInv'
<1>1. LeaveReader /\ UNCHANGED <<typed, lost>> => InputOK'
  BY DEF LeaveReader, TypeInv, InputOK
<1>2. CASE DisconnectedNew
  <2>1. CASE Exit
    BY <1>2, <2>1, ExitTypeInv DEF DisconnectedNew, Return, serverVars
  <2>2. CASE ~ Exit
    <3>1. /\ mode' = "Renew" /\ attempt' = 0 /\ tries' = 0 /\ pc' = "head" /\ LeaveReader
          /\ UNCHANGED <<tty, commands, held, payload, fresh, result, typed, lost, net,
                         reply, cache, conn, losses, serverVars, now, deletion>>
      BY <1>2, <2>2 DEF DisconnectedNew, Return
    <3>2. LoopOK' /\ PlaceOK'
      BY <3>1 DEF LoopOK, PlaceOK, TypeInv
    <3> QED BY <1>1, <3>1, <3>2, TypeFrame DEF TypeInv, netVars
  <2> QED BY <2>1, <2>2
<1>3. CASE Disconnected
  <2>1. CASE Exit
    BY <1>3, <2>1, ExitTypeInv DEF Disconnected, Return, Again, serverVars
  <2>2. CASE ~ Exit
    <3>1. /\ Again("head") /\ LeaveReader /\ mode = "Renew" /\ attempt < 2
          /\ UNCHANGED <<cache, conn, losses, serverVars, now, deletion>>
      BY <1>3, <2>2 DEF Disconnected, Return
    <3>2. InputOK'
      BY <1>1, <3>1 DEF Again
    <3> QED BY <3>1, <3>2, AgainTypeInv
  <2> QED BY <2>1, <2>2
<1>4. CASE Detach \/ SessionFails
  BY <1>4, ExitTypeInv DEF Detach, SessionFails, Return, serverVars
<1>5. CASE StreamClosed
  <2>1. cache.resume_token \in Nat
    BY <1>5 DEF StreamClosed, IInv, EntryIsWritten, Cached, TypeInv, HeldOK, Entry
  <2>2. deletion' \in Deletion /\ cache' = Absent
    BY <1>5, <2>1 DEF StreamClosed, DeleteEntry, Deletion
  <2> QED BY <1>5, <2>2, ExitTypeInv DEF StreamClosed, Return
<1>6. ASSUME NEW i \in DOMAIN readers, NEW ctrlA \in BOOLEAN, StaleRead(i, ctrlA)
      PROVE  TypeInv'
  <2> DEFINE S == {"reading", "pending", "ended"}
             v == IF ctrlA /\ readers[i] = "reading" THEN "pending" ELSE "ended"
  <2>0. readers \in Seq(S)
    BY DEF TypeInv, InputOK
  <2>1. readers' \in Seq(S)
    <3>1. readers' = [readers EXCEPT ![i] = v] /\ v \in S
      BY <1>6 DEF StaleRead
    <3> HIDE DEF S, v
    <3>2. DOMAIN readers = 1..Len(readers) /\ Len(readers) \in Nat
      BY <2>0
    <3>3. readers' \in [1..Len(readers) -> S]
      <4>1. readers \in [1..Len(readers) -> S]
        BY <2>0
      <4> QED BY <3>1, <4>1
    <3> QED BY <3>2, <3>3
  <2>2. typed' \in 0..MaxTyped /\ lost' \in 0..MaxTyped /\ lost' <= typed'
    <3>1. typed < MaxTyped /\ typed' = typed + 1 /\ lost' = lost + 1
      BY <1>6 DEF StaleRead
    <3>2. typed \in Nat /\ lost \in Nat /\ lost <= typed /\ MaxTyped \in Nat
      BY DEF TypeInv, InputOK
    <3> HIDE DEF S, v
    <3> QED BY <3>1, <3>2
  <2>3. InputOK'
    BY <2>1, <2>2 DEF InputOK
  <2> QED BY <1>6, <2>3, TypeFrame DEF StaleRead, TypeInv
<1> QED BY <1>2, <1>3, <1>4, <1>5, <1>6

LEMMA ServerTypeInv ==
    ASSUME TypeInv, IInv',
           \/ ServerAuth \/ ServerAttach \/ ServerReleases \/ ServerExpires
           \/ ServerExits \/ Sweep \/ ShellExits \/ ConnLost \/ Tick
    PROVE  TypeInv'
<1>0. session' \in Session(Nat)
  BY DEF IInv, Numbers
<1>1. CASE ServerAuth
  <2>1. CASE auth_error(records, payload, sid, user, now) = "Ok"
    <3>1. issued + 1 \in Nat /\ now \in Nat /\ records \in Records
      BY ServerTypes
    <3>2. "Resume" \in TokenType /\ ResumeTtl \in Nat
      BY DEF TokenType
    <3>3. records' \in Records
      <4>1. consume(records, payload, now) \in Records
        BY <3>1, ConsumeType
      <4>2. issue_token(consume(records, payload, now), issued + 1, "Resume", sid, user,
                        ResumeTtl, now) \in Records
        BY <3>1, <3>2, <4>1, IssueType
      <4> QED BY <1>1, <2>1, <4>2 DEF ServerAuth
    <3>4. ServerOK'
      <4>1. [raw |-> issued + 1, expires_at |-> now + ResumeTtl] \in Grant
        BY <3>1, <3>2 DEF Grant
      <4>2. granted' \subseteq Grant
        BY <1>1, <2>1, <4>1 DEF ServerAuth, TypeInv, ServerOK
      <4> QED
        BY <1>0, <1>1, <2>1, <3>1, <3>3, <4>2 DEF ServerAuth, TypeInv, ServerOK, Records
    <3>5. ReplyOK'
      <4>1. [type |-> "AUTH_OK", resume_token |-> issued + 1] \in Reply
        BY <3>1 DEF Reply
      <4> QED BY <1>1, <2>1, <4>1, OptionIntro DEF ServerAuth, Answer, ReplyOK
    <3> QED BY <1>1, <3>4, <3>5, TypeFrame DEF ServerAuth, TypeInv
  <2>2. CASE auth_error(records, payload, sid, user, now) # "Ok"
    <3>1. ReplyOK'
      <4>1. [type |-> "ERROR", code |-> "AUTH_FAILED"] \in Reply
        BY DEF Reply
      <4> QED
        BY <1>1, <2>2, <4>1, OptionIntro
           DEF ServerAuth, Answer, ReplyOK, map_token_auth_error
    <3> QED BY <1>1, <2>2, <3>1, TypeFrame DEF ServerAuth, TypeInv, serverVars
  <2> QED BY <2>1, <2>2
<1>2. CASE ServerAttach
  <2>1. pty' \in {pty, "running"}
    BY <1>2 DEF ServerAttach
  <2>2. ReplyOK'
    <3>1. /\ [type |-> "ATTACH_OK"] \in Reply
          /\ \A c \in {"AUTH_FAILED", "SESSION_EXPIRED", "ATTACH_DENIED"} :
               [type |-> "ERROR", code |-> c] \in Reply
      BY DEF Reply
    <3>2. \A e : /\ map_token_resume_error(e) \in {"AUTH_FAILED", "SESSION_EXPIRED"}
                 /\ map_session_error(e) \in {"ATTACH_DENIED", "SESSION_EXPIRED"}
      BY DEF map_token_resume_error, map_session_error
    <3>3. reply' \in Reply
      BY <1>2, <3>1, <3>2 DEF ServerAttach, Answer
    <3> QED BY <3>3, OptionIntro DEF ReplyOK
  <2>3. ServerOK'
    BY <1>0, <1>2, <2>1 DEF ServerAttach, TypeInv, ServerOK, tokenVars
  <2> QED BY <1>2, <2>2, <2>3, TypeFrame DEF ServerAttach, TypeInv
<1>3. CASE ServerReleases \/ ServerExpires \/ ShellExits
  <2>1. ServerOK'
    BY <1>0, <1>3 DEF ServerReleases, ServerExpires, ShellExits, TypeInv, ServerOK,
                      tokenVars
  <2> QED
    BY <1>3, <2>1, TypeFrame DEF ServerReleases, ServerExpires, ShellExits, TypeInv
<1>4. CASE ServerExits
  <2>1. ServerOK' /\ NetOK'
    BY <1>0, <1>4 DEF ServerExits, TypeInv, ServerOK, NetOK, tokenVars
  <2> QED BY <1>4, <2>1, TypeFrame DEF ServerExits, TypeInv
<1>5. CASE Sweep
  <2>1. records' \subseteq records
    BY <1>5 DEF Sweep, cleanup_expired
  <2>2. ServerOK'
    BY <1>5, <2>1 DEF Sweep, TypeInv, ServerOK
  <2> QED BY <1>5, <2>2, TypeFrame DEF Sweep, TypeInv
<1>6. CASE ConnLost
  <2>1. NetOK'
    BY <1>6 DEF ConnLost, NetOK, TypeInv
  <2> QED BY <1>6, <2>1, TypeFrame DEF ConnLost, TypeInv
<1>7. CASE Tick
  <2>1. ClockOK'
    BY <1>7 DEF Tick, ClockOK, TypeInv
  <2> QED BY <1>7, <2>1, TypeFrame DEF Tick, TypeInv
<1> QED BY <1>1, <1>2, <1>3, <1>4, <1>5, <1>6, <1>7

LEMMA NextTypeInv == TypeInv /\ IInv /\ IInv' /\ [Next]_vars => TypeInv'
<1> SUFFICES ASSUME TypeInv, IInv, IInv', [Next]_vars PROVE TypeInv'
  OBVIOUS
<1>1. CASE Next
  BY <1>1, CommandTypeInv, BootstrapTypeInv, SessionTypeInv, AttachedTypeInv,
     ServerTypeInv DEF Next, Client, Server
<1>2. CASE UNCHANGED vars
  BY <1>2, TypeFrame DEF vars, TypeInv
<1> QED BY <1>1, <1>2

\* Type correctness of the client, its cache file and the neoshd it talks to.
THEOREM ResumeTypeCorrect == Spec => []TypeOK
<1>1. TypeInv => TypeOK
  BY DEF TypeInv, TypeOK, LoopOK, PlaceOK, HeldOK, InputOK, NetOK, ReplyOK, ServerOK,
         ClockOK
<1> QED BY <1>1, InitIInv, NextIInv, InitTypeInv, NextTypeInv, PTL DEF Spec

----------------------------------------------------------------------------
(* What the operations of TokenService do to the tokens in circulation *)

\* A sweep, or a new neoshd, only takes records away.
LEMMA FewerRecords ==
    ASSUME NEW R, NEW Q \in SUBSET R, NEW n
    PROVE  /\ AreIssued(R, n) => AreIssued(Q, n)
           /\ \A t : IsUnused(R, n, t) => IsUnused(Q, n, t)
           /\ \A t, m : IsDead(R, n, t, m) => IsDead(Q, n, t, m)
  BY DEF AreIssued, IsUnused, IsDead

\* The sweeper keeps every record that is still valid.
LEMMA SweepKeeps ==
    ASSUME NEW G, NEW R, NEW n, NEW m, AreKept(G, R, n, m)
    PROVE  AreKept(G, cleanup_expired(R, m, Retention), n, m)
<1> DEFINE Q == cleanup_expired(R, m, Retention)
<1>1. Q \in SUBSET R /\ \A r \in R : r.expires_at > m => r \in Q
  BY DEF cleanup_expired
<1> HIDE DEF Q
<1>2. ASSUME NEW g \in G
      PROVE  /\ g.raw \in 1..n
             /\ \A r \in Q : r.raw = g.raw =>
                    r.token_type = "Resume" /\ r.expires_at = g.expires_at
             /\ g.expires_at > m => \E r \in Q : r.raw = g.raw
  BY <1>1 DEF AreKept
<1>3. AreKept(G, Q, n, m)
  BY <1>2 DEF AreKept
<1> QED BY <1>3 DEF Q

\* As time goes by, fewer tokens are valid.
LEMMA TimeKeeps ==
    ASSUME NEW G \in SUBSET Grant, NEW R \in Records, NEW n, NEW m \in Nat,
           NEW k \in Nat, m <= k
    PROVE  /\ AreKept(G, R, n, m) => AreKept(G, R, n, k)
           /\ \A t : IsDead(R, n, t, m) => IsDead(R, n, t, k)
<1>1. \A g \in G : g.expires_at \in Nat
  BY DEF Grant
<1>2. \A r \in R : r.expires_at \in Nat
  BY DEF Records, TokenRecord
<1>3. AreKept(G, R, n, m) => AreKept(G, R, n, k)
  <2>1. \A g \in G : g.expires_at > k => g.expires_at > m
    BY <1>1
  <2> QED BY <2>1 DEF AreKept
<1>4. \A t : IsDead(R, n, t, m) => IsDead(R, n, t, k)
  <2>1. \A r \in R : r.expires_at <= m => r.expires_at <= k
    BY <1>2
  <2> QED BY <2>1 DEF IsDead
<1> QED BY <1>3, <1>4

\* A new token differs from every earlier one.
LEMMA IssueToken ==
    ASSUME NEW R \in Records, NEW n \in Nat, NEW type \in TokenType, NEW ttl \in Nat,
           NEW m \in Nat, AreIssued(R, n)
    PROVE  LET Q == issue_token(R, n + 1, type, sid, user, ttl, m)
               g == [raw |-> n + 1, expires_at |-> m + ttl]
           IN
           /\ AreIssued(Q, n + 1)
           /\ \A t, k : IsDead(R, n, t, k) => IsDead(Q, n + 1, t, k)
           /\ \A G, k : AreKept(G, R, n, k) => AreKept(G, Q, n + 1, k)
           /\ type = "Auth" => IsUnused(Q, n + 1, n + 1)
           /\ type = "Resume" =>
                \A G : AreKept(G, R, n, m) => AreKept(G \cup {g}, Q, n + 1, m)
<1> DEFINE new == [raw |-> n + 1, token_type |-> type, session_id |-> sid,
                   user_id |-> user, expires_at |-> m + ttl,
                   consumed_at |-> None, revoked_at |-> None]
           Q == R \cup {new}
           g == [raw |-> n + 1, expires_at |-> m + ttl]
<1>1. issue_token(R, n + 1, type, sid, user, ttl, m) = Q
  BY DEF issue_token
<1>2. \A t \in 1..n : t \in 1..(n + 1) /\ t # n + 1
  OBVIOUS
<1>3. n + 1 \in 1..(n + 1)
  OBVIOUS
<1>4. /\ new.raw = n + 1 /\ new.token_type = type /\ new.expires_at = m + ttl
      /\ new.consumed_at = None /\ new.revoked_at = None
      /\ g.raw = n + 1 /\ g.expires_at = m + ttl
  OBVIOUS
<1> HIDE DEF new, g
<1>5. AreIssued(Q, n + 1)
  BY <1>2, <1>3, <1>4 DEF AreIssued
<1>6. \A t, k : IsDead(R, n, t, k) => IsDead(Q, n + 1, t, k)
  BY <1>2, <1>4 DEF IsDead
<1>7. \A G, k : AreKept(G, R, n, k) => AreKept(G, Q, n + 1, k)
  BY <1>2, <1>4 DEF AreKept
<1>8. type = "Auth" => IsUnused(Q, n + 1, n + 1)
  BY <1>2, <1>3, <1>4 DEF IsUnused, AreIssued
<1>9. ASSUME type = "Resume", NEW G, AreKept(G, R, n, m)
      PROVE  AreKept(G \cup {g}, Q, n + 1, m)
  <2>1. AreKept(G, Q, n + 1, m)
    BY <1>7, <1>9
  <2>2. \A r \in Q : r.raw = n + 1 => r = new
    BY <1>2, <1>4 DEF AreIssued
  <2>3. new \in Q
    OBVIOUS
  <2> QED BY <1>3, <1>4, <1>9, <2>1, <2>2, <2>3 DEF AreKept
<1> QED BY <1>1, <1>5, <1>6, <1>7, <1>8, <1>9 DEF g

\* Consuming a token marks its record and nothing else.
LEMMA ConsumeToken ==
    ASSUME NEW R \in Records, NEW n \in Nat, NEW t, NEW m \in Nat, AreIssued(R, n)
    PROVE  LET Q == consume(R, t, m) IN
           /\ AreIssued(Q, n)
           /\ \A u, k : IsDead(R, n, u, k) => IsDead(Q, n, u, k)
           /\ \A G, k : AreKept(G, R, n, k) => AreKept(G, Q, n, k)
<1> DEFINE mark(r) == IF r.raw = t THEN [r EXCEPT !.consumed_at = m] ELSE r
           Q == consume(R, t, m)
<1>1. Q = {mark(r) : r \in R}
  BY DEF consume
<1>2. ASSUME NEW r \in R
      PROVE  /\ mark(r).raw = r.raw /\ mark(r).token_type = r.token_type
             /\ mark(r).expires_at = r.expires_at /\ mark(r).revoked_at = r.revoked_at
  BY DEF Records, TokenRecord
<1> HIDE DEF mark, Q
<1>3. ASSUME NEW q \in Q
      PROVE  \E r \in R : q = mark(r) /\ q.raw = r.raw /\ q.token_type = r.token_type
                          /\ q.expires_at = r.expires_at /\ q.revoked_at = r.revoked_at
  BY <1>1, <1>2
<1>4. AreIssued(Q, n)
  <2>1. \A q \in Q : q.raw \in 1..n /\ q.revoked_at = None
    BY <1>3 DEF AreIssued
  <2>2. ASSUME NEW p \in Q, NEW q \in Q, p.raw = q.raw PROVE p = q
    BY <1>3, <2>2 DEF AreIssued
  <2> QED BY <2>1, <2>2 DEF AreIssued
<1>5. \A u, k : IsDead(R, n, u, k) => IsDead(Q, n, u, k)
  BY <1>3 DEF IsDead
<1>6. ASSUME NEW G, NEW k, AreKept(G, R, n, k) PROVE AreKept(G, Q, n, k)
  <2>1. \A r \in R : \E q \in Q : q.raw = r.raw
    BY <1>1, <1>2
  <2>2. ASSUME NEW g \in G
        PROVE  /\ g.raw \in 1..n
               /\ \A q \in Q : q.raw = g.raw =>
                      q.token_type = "Resume" /\ q.expires_at = g.expires_at
               /\ g.expires_at > k => \E q \in Q : q.raw = g.raw
    BY <1>3, <1>6, <2>1 DEF AreKept
  <2> QED BY <2>2 DEF AreKept
<1> QED BY <1>4, <1>5, <1>6 DEF Q

\* An unused auth token is refused only when it has expired, swept or not.
LEMMA RefusedIsLate ==
    ASSUME NEW R \in Records, NEW n \in Nat, NEW t, NEW m \in Nat,
           AreIssued(R, n), IsUnused(R, n, t),
           auth_error(R, t, sid, user, m) # "Ok"
    PROVE  \A r \in find_record(R, t) : r.expires_at <= m
<1> SUFFICES ASSUME NEW r \in find_record(R, t) PROVE r.expires_at <= m
  OBVIOUS
<1> DEFINE c == CHOOSE c \in find_record(R, t) : TRUE
<1>1. c \in find_record(R, t)
  OBVIOUS
<1>2. c = r
  BY <1>1 DEF find_record, AreIssued
<1>3. /\ r.token_type = "Auth" /\ r.consumed_at = None /\ r.revoked_at = None
      /\ r.session_id = sid /\ r.user_id = user
  BY DEF find_record, AreIssued, IsUnused, Records, TokenRecord
<1>4. auth_error(R, t, sid, user, m)
        = IF check(c, "Auth", sid, user, m) # "Ok" THEN check(c, "Auth", sid, user, m)
          ELSE IF c.consumed_at # None THEN "Consumed" ELSE "Ok"
  BY DEF auth_error
<1> HIDE DEF c
<1>5. check(r, "Auth", sid, user, m) # "Ok"
  BY <1>2, <1>3, <1>4
<1> QED BY <1>3, <1>5 DEF check

\* What neoshd says of a resume token in its records, and of a dead one.
LEMMA ResumeAnswer ==
    ASSUME NEW R \in Records, NEW n, NEW t, NEW m \in Nat, AreIssued(R, n)
    PROVE  /\ \A r \in R : r.raw = t /\ r.token_type = "Resume" /\ r.expires_at > m =>
                  resume_error(R, t, sid, user, m) = "Ok"
           /\ IsDead(R, n, t, m) => resume_error(R, t, sid, user, m) # "Ok"
           /\ resume_error(R, t, sid, user, m) \in {"Expired", "Revoked"} =>
                  IsDead(R, n, t, m)
<1> DEFINE c == CHOOSE c \in find_record(R, t) : TRUE
<1>1. resume_error(R, t, sid, user, m)
        = IF find_record(R, t) = {} THEN "NotFound" ELSE check(c, "Resume", sid, user, m)
  BY DEF resume_error
<1>2. find_record(R, t) # {} => c \in R /\ c.raw = t
  BY DEF find_record
<1>3. ASSUME NEW r \in R, r.raw = t PROVE c = r /\ find_record(R, t) # {}
  <2>1. r \in find_record(R, t)
    BY <1>3 DEF find_record
  <2> QED BY <1>2, <1>3, <2>1 DEF AreIssued
<1>4. \A r \in R : /\ r.session_id = sid /\ r.user_id = user /\ r.revoked_at = None
                   /\ r.raw \in 1..n /\ r.expires_at \in Nat
  BY DEF AreIssued, Records, TokenRecord
<1> HIDE DEF c
<1>5. ASSUME NEW r \in R, r.raw = t, r.token_type = "Resume", r.expires_at > m
      PROVE  resume_error(R, t, sid, user, m) = "Ok"
  <2>1. resume_error(R, t, sid, user, m) = check(r, "Resume", sid, user, m)
    BY <1>1, <1>3, <1>5
  <2> QED BY <1>4, <1>5, <2>1 DEF check
<1>6. ASSUME IsDead(R, n, t, m) PROVE resume_error(R, t, sid, user, m) # "Ok"
  <2>1. CASE find_record(R, t) = {}
    BY <1>1, <2>1
  <2>2. CASE find_record(R, t) # {}
    <3>1. c.expires_at <= m
      BY <1>2, <1>6, <2>2 DEF IsDead
    <3> QED BY <1>1, <2>2, <3>1 DEF check
  <2> QED BY <2>1, <2>2
<1>7. ASSUME resume_error(R, t, sid, user, m) \in {"Expired", "Revoked"}
      PROVE  IsDead(R, n, t, m)
  <2>1. find_record(R, t) # {}
    BY <1>1, <1>7
  <2>2. c.revoked_at = None /\ t \in 1..n
    BY <1>2, <1>4, <2>1
  <2>3. c.expires_at <= m
    BY <1>1, <1>7, <2>1, <2>2 DEF check
  <2> QED BY <1>3, <2>2, <2>3 DEF IsDead
<1> QED BY <1>5, <1>6, <1>7

----------------------------------------------------------------------------
(* No step hands the client a token it could not use *)

LEMMA InitTokenInv == Init => TokenInv
<1> SUFFICES ASSUME Init PROVE TokenInv
  OBVIOUS
<1>1. AreIssued(records, issued) /\ AreKept(granted, records, issued, now)
  BY DEF Init, AreIssued, AreKept
<1> QED
  BY <1>1 DEF Init, TokenInv, ReplyIsAwaited, PayloadIsUnused, ReplyIsGranted,
              FreshIsGranted, CacheIsGranted, AuthFailsOnlyLate, Cached

\* A step that issues nothing, writes no entry, and either keeps the place of the
\* command or leads to one where no token of it is in use.
LEMMA QuietTokens ==
    ASSUME TokenInv, TypeInv, TypeInv',
           UNCHANGED <<issued, granted>>, records' \in SUBSET records, now <= now',
           AreKept(granted, records', issued, now'),
           cache' \in {cache, Absent, Torn},
           reply' \in {reply, None}, reply' # None => pc' = pc,
           pc' \in {"put", "write"} => pc \in {"put", "write"} /\ fresh' = fresh,
           pc' = "dial" => pc = "dial" /\ payload' = payload,
           pc' = "auth" => /\ pc = "auth" /\ payload' = payload
                           /\ net' = "up" => net = "up" /\ reply' = reply
    PROVE  TokenInv'
<1>1. now \in Nat /\ now' \in Nat /\ ResumeTtl \in Nat
  BY DEF TypeInv, ClockOK
<1>2. /\ AreIssued(records, issued) => AreIssued(records', issued)
      /\ \A t : IsUnused(records, issued, t) => IsUnused(records', issued, t)
  BY FewerRecords
<1>3. ReplyIsAwaited'
  BY DEF TokenInv, ReplyIsAwaited
<1>4. AreIssued(records, issued)' /\ AreKept(granted, records, issued, now)'
  BY <1>2 DEF TokenInv
<1>5. PayloadIsUnused'
  BY <1>2 DEF TokenInv, PayloadIsUnused
<1>6. ReplyIsGranted'
  <2> SUFFICES ASSUME reply' # None, reply'.type = "AUTH_OK"
               PROVE  IsGranted(granted, reply.resume_token, now' + ResumeTtl)
    BY DEF ReplyIsGranted
  <2>1. IsGranted(granted, reply.resume_token, now + ResumeTtl)
    BY DEF TokenInv, ReplyIsGranted
  <2>2. \A g \in granted : g.expires_at \in Nat
    BY DEF TypeInv, ServerOK, Grant
  <2> QED BY <1>1, <2>1, <2>2 DEF IsGranted
<1>7. FreshIsGranted'
  BY DEF TokenInv, FreshIsGranted
<1>8. CacheIsGranted'
  BY DEF TokenInv, CacheIsGranted, Cached
<1>9. AuthFailsOnlyLate'
  <2> SUFFICES ASSUME pc' = "auth", reply' # None, reply'.type = "ERROR",
                      NEW r \in find_record(records', payload')
               PROVE  r.expires_at <= now'
    BY DEF AuthFailsOnlyLate
  <2>1. r \in find_record(records, payload) /\ r \in records
    BY DEF find_record
  <2>2. r.expires_at <= now
    BY <2>1 DEF TokenInv, AuthFailsOnlyLate
  <2>3. r.expires_at \in Nat
    BY <2>1 DEF TypeInv, ServerOK, TokenRecord
  <2> QED BY <1>1, <2>2, <2>3
<1> QED BY <1>3, <1>4, <1>5, <1>6, <1>7, <1>8, <1>9 DEF TokenInv

\* The end of a command, or of an attempt.
LEMMA EndTokens ==
    ASSUME TokenInv, TypeInv, TypeInv',
           Exit \/ Again("ssh") \/ Again("head"),
           UNCHANGED <<tokenVars, now>>, cache' \in {cache, Absent}
    PROVE  TokenInv'
<1>1. pc' \in {"idle", "ssh", "head"} /\ reply' = None
  BY DEF Exit, Again
<1>2. now <= now'
  BY DEF TypeInv, ClockOK
<1>3. AreKept(granted, records', issued, now')
  BY DEF TokenInv, tokenVars
<1> QED BY <1>1, <1>2, <1>3, QuietTokens DEF tokenVars

\* The steps of the command that leave the tokens alone.
LEMMA CommandTokens ==
    ASSUME TokenInv, TypeInv, TypeInv',
           \/ StartConnect \/ StartResume \/ Killed \/ ReadCache \/ BootstrapFails
           \/ DialFails \/ NoAnswer \/ AuthFailed \/ PutTruncates \/ PutFails
           \/ AttachOk \/ AttachError \/ DisconnectedNew \/ Disconnected
           \/ Detach \/ StreamClosed \/ SessionFails
    PROVE  TokenInv'
<1> USE DEF serverVars, tokenVars
<1>0. /\ now <= now /\ (reply # None => pc \in {"auth", "attach"})
      /\ AreKept(granted, records, issued, now)
  BY DEF TypeInv, ClockOK, TokenInv, ReplyIsAwaited
<1>1. CASE StartConnect \/ StartResume
  BY <1>0, <1>1, QuietTokens DEF StartConnect, StartResume, netVars
<1>2. CASE Killed \/ DialFails \/ NoAnswer \/ PutFails \/ SessionFails
  BY <1>2, EndTokens DEF Killed, DialFails, NoAnswer, PutFails, SessionFails, Return
<1>3. CASE AttachError \/ Detach \/ StreamClosed
  BY <1>3, EndTokens DEF AttachError, Detach, StreamClosed, DeleteEntry, Return
<1>4. CASE AuthFailed
  BY <1>4, EndTokens DEF AuthFailed, Return
<1>5. CASE ReadCache
  <2>1. CASE Exit
    BY <1>5, <2>1, EndTokens DEF ReadCache, DeleteEntry, Return
  <2>2. CASE ~ Exit
    BY <1>0, <1>5, <2>2, QuietTokens DEF ReadCache, Return
  <2> QED BY <2>1, <2>2
<1>6. CASE BootstrapFails
  <2>1. CASE Exit
    BY <1>6, <2>1, EndTokens DEF BootstrapFails, Return
  <2>2. CASE ~ Exit
    BY <1>0, <1>6, <2>2, QuietTokens DEF BootstrapFails, Return
  <2> QED BY <2>1, <2>2
<1>7. CASE PutTruncates \/ AttachOk
  BY <1>0, <1>7, QuietTokens DEF PutTruncates, AttachOk
<1>8. CASE DisconnectedNew
  <2>1. CASE Exit
    BY <1>8, <2>1, EndTokens DEF DisconnectedNew, Return
  <2>2. CASE ~ Exit
    BY <1>0, <1>8, <2>2, QuietTokens DEF DisconnectedNew, Return
  <2> QED BY <2>1, <2>2
<1>9. CASE Disconnected
  BY <1>9, EndTokens DEF Disconnected, Return
<1> QED BY <1>1, <1>2, <1>3, <1>4, <1>5, <1>6, <1>7, <1>8, <1>9

\* The bootstraps: a new auth token, and a new neoshd knows no other.
LEMMA BootstrapTokens ==
    ASSUME TokenInv, TypeInv, TypeInv', IInv, BootstrapNew \/ BootstrapRenew
    PROVE  TokenInv'
<1> DEFINE R == IF mode = "New" THEN {} ELSE records
           G == IF mode = "New" THEN {} ELSE granted
<1>1. /\ records' = issue_token(R, issued + 1, "Auth", sid, user, AuthTtl, now)
      /\ issued' = issued + 1 /\ payload' = issued + 1 /\ granted' = G
      /\ pc = "ssh" /\ pc' = "dial" /\ UNCHANGED <<cache, reply, now>>
  BY DEF BootstrapNew, BootstrapRenew
<1>2. /\ R \in Records /\ issued \in Nat /\ now \in Nat /\ AuthTtl \in Nat
      /\ "Auth" \in TokenType
  BY ServerTypes DEF TokenType, Records
<1>3. AreIssued(R, issued) /\ AreKept(G, R, issued, now)
  <2>1. R \in SUBSET records
    OBVIOUS
  <2>2. AreKept({}, {}, issued, now)
    BY DEF AreKept
  <2> QED BY <2>1, <2>2, FewerRecords DEF TokenInv
<1>4. mode = "New" => cache = Absent
  BY <1>1 DEF IInv, FirstEntry
<1>5. CacheIsGranted'
  BY <1>1, <1>4 DEF TokenInv, CacheIsGranted, Cached
<1> HIDE DEF R, G
<1>6. /\ AreIssued(records', issued') /\ AreKept(granted', records', issued', now')
      /\ IsUnused(records', issued', payload')
  BY <1>1, <1>2, <1>3, IssueToken
<1>7. reply' = None
  BY <1>1 DEF TokenInv, ReplyIsAwaited
<1>8. ReplyIsAwaited' /\ ReplyIsGranted' /\ FreshIsGranted' /\ AuthFailsOnlyLate'
  BY <1>1, <1>7 DEF ReplyIsAwaited, ReplyIsGranted, FreshIsGranted, AuthFailsOnlyLate
<1>9. PayloadIsUnused'
  BY <1>6 DEF PayloadIsUnused
<1> QED BY <1>5, <1>6, <1>8, <1>9 DEF TokenInv

\* The connection is set up, and the entry made of AUTH_OK and written.
LEMMA EntryTokens ==
    ASSUME TokenInv, TypeInv, TypeInv', Dial \/ AuthOk \/ PutWrites
    PROVE  TokenInv'
<1> USE DEF serverVars, tokenVars
<1>0. UNCHANGED <<records, issued, granted, now, payload>>
  BY DEF Dial, AuthOk, PutWrites
<1>1. AreIssued(records, issued)' /\ AreKept(granted, records, issued, now)'
  BY <1>0 DEF TokenInv
<1>2. reply' = None
  BY DEF Dial, AuthOk, PutWrites, TokenInv, ReplyIsAwaited
<1>3. ReplyIsAwaited' /\ ReplyIsGranted' /\ AuthFailsOnlyLate'
  BY <1>2 DEF ReplyIsAwaited, ReplyIsGranted, AuthFailsOnlyLate
<1>4. PayloadIsUnused'
  BY <1>0 DEF Dial, AuthOk, PutWrites, TokenInv, PayloadIsUnused
<1>5. FreshIsGranted'
  <2>1. CASE AuthOk
    <3>1. IsGranted(granted, reply.resume_token, now + ResumeTtl)
      BY <2>1 DEF AuthOk, TokenInv, ReplyIsGranted
    <3>2. /\ fresh'.resume_token = reply.resume_token
          /\ fresh'.resume_token_expires_at = now + ResumeTtl
      BY <2>1 DEF AuthOk
    <3> QED BY <1>0, <3>1, <3>2 DEF FreshIsGranted
  <2>2. CASE Dial \/ PutWrites
    BY <2>2 DEF Dial, PutWrites, FreshIsGranted
  <2> QED BY <2>1, <2>2
<1>6. CacheIsGranted'
  <2>1. CASE PutWrites
    BY <1>0, <2>1 DEF PutWrites, TokenInv, FreshIsGranted, CacheIsGranted
  <2>2. CASE Dial \/ AuthOk
    BY <1>0, <2>2 DEF Dial, AuthOk, TokenInv, CacheIsGranted, Cached
  <2> QED BY <2>1, <2>2
<1> QED BY <1>1, <1>3, <1>4, <1>5, <1>6 DEF TokenInv

\* neoshd takes the auth token and issues a resume token, or refuses it late.
LEMMA AuthTokens == ASSUME TokenInv, TypeInv, TypeInv', ServerAuth PROVE TokenInv'
<1>1. /\ pc = "auth" /\ net = "up" /\ reply = None
      /\ UNCHANGED <<pc, net, payload, cache, now>>
  BY DEF ServerAuth, netVars
<1>2. IsUnused(records, issued, payload) /\ AreIssued(records, issued)
  BY <1>1 DEF TokenInv, PayloadIsUnused
<1>3. records \in Records /\ issued \in Nat /\ now \in Nat /\ ResumeTtl \in Nat
  BY ServerTypes
<1>4. CASE auth_error(records, payload, sid, user, now) # "Ok"
  <2>1. /\ UNCHANGED <<records, issued, granted>>
        /\ reply' = [type |-> "ERROR",
                     code |-> map_token_auth_error(
                                auth_error(records, payload, sid, user, now))]
    BY <1>4 DEF ServerAuth, tokenVars, Answer
  <2>2. reply'.type = "ERROR"
    BY <2>1
  <2>3. IsUnused(records', issued', payload') /\ AreKept(granted', records', issued', now')
    BY <1>1, <1>2, <2>1 DEF TokenInv
  <2>4. AuthFailsOnlyLate'
    <3>1. \A r \in find_record(records, payload) : r.expires_at <= now
      BY <1>2, <1>3, <1>4, RefusedIsLate
    <3> QED BY <1>1, <2>1, <3>1 DEF AuthFailsOnlyLate
  <2>5. ReplyIsAwaited' /\ ReplyIsGranted' /\ FreshIsGranted' /\ PayloadIsUnused'
    BY <1>1, <2>2, <2>3 DEF ReplyIsAwaited, ReplyIsGranted, FreshIsGranted, PayloadIsUnused
  <2>6. CacheIsGranted'
    BY <1>1, <2>1 DEF TokenInv, CacheIsGranted, Cached
  <2> QED BY <1>2, <2>1, <2>3, <2>4, <2>5, <2>6 DEF TokenInv
<1>5. CASE auth_error(records, payload, sid, user, now) = "Ok"
  <2> DEFINE Q == consume(records, payload, now)
             g == [raw |-> issued + 1, expires_at |-> now + ResumeTtl]
  <2>1. /\ records' = issue_token(Q, issued + 1, "Resume", sid, user, ResumeTtl, now)
        /\ issued' = issued + 1 /\ granted' = granted \cup {g}
        /\ reply' = [type |-> "AUTH_OK", resume_token |-> issued + 1]
    BY <1>5 DEF ServerAuth, Answer
  <2>2. AreIssued(Q, issued) /\ AreKept(granted, Q, issued, now)
    <3>1. AreKept(granted, records, issued, now)
      BY DEF TokenInv
    <3> QED BY <1>2, <1>3, <3>1, ConsumeToken
  <2>3. Q \in Records /\ "Resume" \in TokenType
    BY <1>3, ConsumeType DEF TokenType
  <2> HIDE DEF Q
  <2>4. AreIssued(records', issued') /\ AreKept(granted', records', issued', now')
    BY <1>1, <1>3, <2>1, <2>2, <2>3, IssueToken
  <2>5. reply'.type = "AUTH_OK" /\ reply'.resume_token = issued + 1
    BY <2>1
  <2>6. ReplyIsAwaited' /\ FreshIsGranted' /\ AuthFailsOnlyLate'
    BY <1>1, <2>5 DEF ReplyIsAwaited, FreshIsGranted, AuthFailsOnlyLate
  <2>7. ReplyIsGranted'
    <3>1. g.raw = issued + 1 /\ g.expires_at <= now + ResumeTtl /\ g \in granted'
      BY <1>3, <2>1
    <3>2. IsGranted(granted', issued + 1, now + ResumeTtl)
      BY <3>1 DEF IsGranted
    <3> QED BY <1>1, <2>5, <3>2 DEF ReplyIsGranted
  <2>8. PayloadIsUnused'
    <3>1. reply' \in Reply
      BY <1>3, <2>1 DEF Reply
    <3> QED BY <1>1, <3>1 DEF PayloadIsUnused
  <2>9. CacheIsGranted'
    <3>1. \A t, l : IsGranted(granted, t, l) => IsGranted(granted', t, l)
      BY <2>1 DEF IsGranted
    <3> QED BY <1>1, <3>1 DEF TokenInv, CacheIsGranted, Cached
  <2> QED BY <2>4, <2>6, <2>7, <2>8, <2>9 DEF TokenInv
<1> QED BY <1>4, <1>5

\* The other steps of neoshd, the network and the clock.
LEMMA EnvironmentTokens ==
    ASSUME TokenInv, TypeInv, TypeInv',
           \/ ServerAttach \/ ServerReleases \/ ServerExpires \/ ServerExits \/ Sweep
           \/ ShellExits \/ ConnLost \/ Tick
           \/ \E i \in DOMAIN readers, ctrlA \in BOOLEAN : StaleRead(i, ctrlA)
    PROVE  TokenInv'
<1> USE DEF serverVars, tokenVars, netVars
<1>0. /\ now <= now /\ (reply # None => pc \in {"auth", "attach"})
      /\ AreKept(granted, records, issued, now)
  BY DEF TypeInv, ClockOK, TokenInv, ReplyIsAwaited
<1>1. CASE ServerAttach
  <2>1. /\ pc' = "attach" /\ UNCHANGED <<cache, records, issued, granted, now>>
        /\ reply'.type \in {"ERROR", "ATTACH_OK"}
    BY <1>1 DEF ServerAttach, Answer
  <2>2. /\ ReplyIsAwaited' /\ PayloadIsUnused' /\ ReplyIsGranted' /\ FreshIsGranted'
        /\ AuthFailsOnlyLate'
    BY <2>1 DEF ReplyIsAwaited, PayloadIsUnused, ReplyIsGranted, FreshIsGranted,
                AuthFailsOnlyLate
  <2> QED BY <2>1, <2>2 DEF TokenInv, CacheIsGranted, Cached
<1>2. CASE ServerReleases \/ ServerExpires \/ ServerExits \/ ShellExits
  BY <1>0, <1>2, QuietTokens
     DEF ServerReleases, ServerExpires, ServerExits, ShellExits
<1>3. CASE Sweep
  <2>1. records' \in SUBSET records
    BY <1>3 DEF Sweep, cleanup_expired
  <2>2. AreKept(granted, records', issued, now)
    BY <1>0, <1>3, SweepKeeps DEF Sweep
  <2> QED BY <1>0, <1>3, <2>1, <2>2, QuietTokens DEF Sweep
<1>4. CASE ConnLost
  BY <1>0, <1>4, QuietTokens DEF ConnLost
<1>5. CASE Tick
  <2>1. now <= now'
    BY <1>5 DEF Tick, TypeInv, ClockOK
  <2>2. AreKept(granted, records, issued, now')
    <3>1. /\ granted \in SUBSET Grant /\ records \in Records
          /\ now \in Nat /\ now' \in Nat
      BY ServerTypes DEF TypeInv, ClockOK
    <3> QED BY <1>0, <2>1, <3>1, TimeKeeps
  <2> QED BY <1>5, <2>1, <2>2, QuietTokens DEF Tick
<1>6. CASE \E i \in DOMAIN readers, ctrlA \in BOOLEAN : StaleRead(i, ctrlA)
  BY <1>0, <1>6, QuietTokens DEF StaleRead
<1> QED BY <1>1, <1>2, <1>3, <1>4, <1>5, <1>6

LEMMA NextTokenInv == TokenInv /\ TypeInv /\ TypeInv' /\ IInv /\ [Next]_vars => TokenInv'
<1> SUFFICES ASSUME TokenInv, TypeInv, TypeInv', IInv, [Next]_vars PROVE TokenInv'
  OBVIOUS
<1>1. CASE Next
  BY <1>1, CommandTokens, BootstrapTokens, EntryTokens, AuthTokens, EnvironmentTokens
     DEF Next, Client, Server
<1>2. CASE UNCHANGED vars
  <2>1. now <= now'
    BY <1>2 DEF vars, TypeInv, ClockOK
  <2>2. AreKept(granted, records', issued, now')
    BY <1>2 DEF vars, serverVars, tokenVars, TokenInv
  <2> QED BY <1>2, <2>1, <2>2, QuietTokens DEF vars, serverVars, tokenVars, netVars
<1> QED BY <1>1, <1>2

\* Every attempt to authenticate, of a retry loop too, presents a token that was
\* not presented before: neoshd refuses one only because it came too late.
THEOREM AuthAlwaysFailsLate == Spec => []AuthFailsOnlyLate
<1>1. TokenInv => AuthFailsOnlyLate
  BY DEF TokenInv
<1> QED
  BY <1>1, InitIInv, NextIInv, InitTypeInv, NextTypeInv, InitTokenInv, NextTokenInv, PTL
     DEF Spec

\* The entry of the cache file always holds a resume token that this neoshd has
\* issued and takes until it expires, whichever write of the file, bootstrap, reply
\* or sweep came last, and which does not expire later than the client thinks.
THEOREM CachedTokenIsAlwaysHonoured == Spec => []CachedTokenIsHonoured
<1>1. TokenInv /\ TypeInv => CachedTokenIsHonoured
  <2> SUFFICES ASSUME TokenInv, TypeInv, Cached
               PROVE  \E g \in granted :
                        /\ g.raw = cache.resume_token
                        /\ g.expires_at <= cache.resume_token_expires_at
                        /\ g.expires_at > now => Honoured(g.raw)
    BY DEF CachedTokenIsHonoured
  <2>1. PICK g \in granted : /\ g.raw = cache.resume_token
                             /\ g.expires_at <= cache.resume_token_expires_at
    BY DEF TokenInv, CacheIsGranted, IsGranted
  <2>2. records \in Records /\ now \in Nat /\ AreIssued(records, issued)
    BY ServerTypes DEF TokenInv
  <2>3. ASSUME g.expires_at > now PROVE Honoured(g.raw)
    <3>1. \E r \in records : /\ r.raw = g.raw /\ r.token_type = "Resume"
                             /\ r.expires_at > now
      BY <2>3 DEF TokenInv, AreKept
    <3> QED BY <2>2, <3>1, ResumeAnswer DEF Honoured
  <2> QED BY <2>1, <2>3
<1> QED
  BY <1>1, InitIInv, NextIInv, InitTypeInv, NextTypeInv, InitTokenInv, NextTokenInv, PTL
     DEF Spec

----------------------------------------------------------------------------
(* Why the file of a live session may be missing *)

LEMMA InitDeletion == Init => DeletionInv
  BY DEF Init, DeletionInv, DeletionIsSound, RefusalIsSound

\* Which steps touch the tokens, the clock and the session of neoshd.
LEMMA TokensStay ==
    ASSUME [Next]_vars
    PROVE  \/ UNCHANGED <<records, issued, now>>
           \/ BootstrapNew \/ BootstrapRenew \/ ServerAuth \/ Sweep \/ Tick
<1> USE DEF serverVars, tokenVars
<1>1. CASE \/ StartConnect \/ StartResume \/ Killed \/ ReadCache \/ BootstrapFails \/ Dial
           \/ DialFails \/ NoAnswer \/ AuthFailed \/ AuthOk \/ PutTruncates \/ PutWrites
           \/ PutFails \/ AttachOk \/ AttachError
  BY <1>1 DEF StartConnect, StartResume, Killed, ReadCache, BootstrapFails, Dial,
              DialFails, NoAnswer, AuthFailed, AuthOk, PutTruncates, PutWrites, PutFails,
              AttachOk, AttachError
<1>2. CASE \/ DisconnectedNew \/ Disconnected \/ Detach \/ StreamClosed \/ SessionFails
           \/ \E i \in DOMAIN readers, ctrlA \in BOOLEAN : StaleRead(i, ctrlA)
  BY <1>2 DEF DisconnectedNew, Disconnected, Detach, StreamClosed, SessionFails, StaleRead
<1>3. CASE \/ ServerAttach \/ ServerReleases \/ ServerExpires \/ ServerExits \/ ShellExits
           \/ ConnLost
  BY <1>3 DEF ServerAttach, ServerReleases, ServerExpires, ServerExits, ShellExits, ConnLost
<1>4. CASE UNCHANGED vars
  BY <1>4 DEF vars
<1> QED BY <1>1, <1>2, <1>3, <1>4 DEF Next, Client, Server

LEMMA SessionStays ==
    ASSUME IInv, [Next]_vars
    PROVE  \/ /\ session'.attach_epoch = session.attach_epoch
              /\ session'.state \notin Terminal => session.state \notin Terminal
              /\ server' = "up" => server = "up"
           \/ BootstrapNew \/ ServerAttach
<1> USE DEF serverVars
<1>0. session \in Session(Nat) /\ conn \in Nat
  BY DEF IInv, Numbers
<1>1. CASE \/ StartConnect \/ StartResume \/ Killed \/ ReadCache \/ BootstrapFails \/ Dial
           \/ DialFails \/ NoAnswer \/ AuthFailed \/ AuthOk \/ PutTruncates \/ PutWrites
           \/ PutFails \/ AttachOk \/ AttachError
  BY <1>1 DEF StartConnect, StartResume, Killed, ReadCache, BootstrapFails, Dial,
              DialFails, NoAnswer, AuthFailed, AuthOk, PutTruncates, PutWrites, PutFails,
              AttachOk, AttachError
<1>2. CASE \/ BootstrapRenew \/ DisconnectedNew \/ Disconnected \/ SessionFails
           \/ \E i \in DOMAIN readers, ctrlA \in BOOLEAN : StaleRead(i, ctrlA)
  BY <1>2 DEF BootstrapRenew, DisconnectedNew, Disconnected, SessionFails, StaleRead
<1>3. CASE ServerAuth \/ ServerExits \/ Sweep \/ ShellExits \/ ConnLost \/ Tick
  BY <1>3 DEF ServerAuth, ServerExits, Sweep, ShellExits, ConnLost, Tick
<1>4. CASE Detach \/ StreamClosed
  BY <1>0, <1>4, SessionStep DEF Detach, StreamClosed
<1>5. CASE ServerReleases \/ ServerExpires
  BY <1>0, <1>5, SessionStep DEF ServerReleases, ServerExpires
<1>6. CASE UNCHANGED vars
  BY <1>6 DEF vars
<1> QED BY <1>1, <1>2, <1>3, <1>4, <1>5, <1>6 DEF Next, Client, Server

\* A dead token stays dead: the clock does not go back, and a new token has a
\* number of its own.
LEMMA DeadStays ==
    ASSUME TokenInv, TypeInv, TypeInv', [Next]_vars
    PROVE  \A t : IsDead(records, issued, t, now) => IsDead(records', issued', t, now')
<1>1. /\ records \in Records /\ granted \in SUBSET Grant /\ issued \in Nat
      /\ now \in Nat /\ now' \in Nat /\ AuthTtl \in Nat /\ ResumeTtl \in Nat
      /\ "Auth" \in TokenType /\ "Resume" \in TokenType
      /\ AreIssued(records, issued)
  <2>1. now' \in Nat
    BY DEF TypeInv, ClockOK
  <2> QED BY <2>1, ServerTypes DEF TokenInv, TokenType
<1>2. CASE UNCHANGED <<records, issued, now>>
  BY <1>2
<1>3. CASE BootstrapNew
  <2>1. /\ {} \in Records /\ {} \in SUBSET records /\ AreIssued({}, issued)
    BY <1>1 DEF Records, AreIssued
  <2>2. \A t, m : IsDead(records, issued, t, m) => IsDead({}, issued, t, m)
    BY <2>1, FewerRecords
  <2>3. /\ records' = issue_token({}, issued + 1, "Auth", sid, user, AuthTtl, now)
        /\ issued' = issued + 1 /\ now' = now
    BY <1>3 DEF BootstrapNew
  <2>4. \A t, m : IsDead({}, issued, t, m) => IsDead(records', issued', t, m)
    BY <1>1, <2>1, <2>3, IssueToken
  <2> QED BY <2>2, <2>3, <2>4
<1>4. CASE BootstrapRenew
  <2>1. /\ records' = issue_token(records, issued + 1, "Auth", sid, user, AuthTtl, now)
        /\ issued' = issued + 1 /\ now' = now
    BY <1>4 DEF BootstrapRenew
  <2> QED BY <1>1, <2>1, IssueToken
<1>5. CASE ServerAuth
  <2>1. CASE UNCHANGED <<records, issued, now>>
    BY <2>1
  <2>2. CASE ~ UNCHANGED <<records, issued, now>>
    <3> DEFINE Q == consume(records, payload, now)
    <3>1. /\ records' = issue_token(Q, issued + 1, "Resume", sid, user, ResumeTtl, now)
          /\ issued' = issued + 1 /\ now' = now
      BY <1>5, <2>2 DEF ServerAuth, tokenVars
    <3>2. /\ AreIssued(Q, issued)
          /\ \A t, m : IsDead(records, issued, t, m) => IsDead(Q, issued, t, m)
      BY <1>1, ConsumeToken
    <3>3. Q \in Records
      BY <1>1, ConsumeType
    <3> HIDE DEF Q
    <3>4. \A t, m : IsDead(Q, issued, t, m) => IsDead(records', issued', t, m)
      BY <1>1, <3>1, <3>2, <3>3, IssueToken
    <3> QED BY <3>1, <3>2, <3>4
  <2> QED BY <2>1, <2>2
<1>6. CASE Sweep
  <2>1. records' \in SUBSET records /\ UNCHANGED <<issued, now>>
    BY <1>6 DEF Sweep, cleanup_expired
  <2> QED BY <2>1, FewerRecords
<1>7. CASE Tick
  <2>1. now <= now' /\ UNCHANGED <<records, issued>>
    BY <1>1, <1>7 DEF Tick, serverVars, tokenVars
  <2> QED BY <1>1, <2>1, TimeKeeps
<1> QED BY <1>2, <1>3, <1>4, <1>5, <1>6, <1>7, TokensStay

\* A step that deletes no entry and brings no answer to RESUME.
LEMMA QuietDeletion ==
    ASSUME DeletionInv, TokenInv, TypeInv, TypeInv', IInv, [Next]_vars,
           ~ BootstrapNew, ~ ServerAttach,
           cache' # Absent \/ UNCHANGED <<cache, deletion>>,
           \/ pc' # "attach" \/ reply' = None
           \/ UNCHANGED <<pc, mode, held, reply>>
    PROVE  DeletionInv'
<1>1. \A t : IsDead(records, issued, t, now) => IsDead(records', issued', t, now')
  BY DeadStays
<1>2. /\ session'.attach_epoch = session.attach_epoch
      /\ session'.state \notin Terminal => session.state \notin Terminal
      /\ server' = "up" => server = "up"
  BY SessionStays
<1>3. DeletionIsSound'
  BY <1>1, <1>2 DEF DeletionInv, DeletionIsSound
<1>4. RefusalIsSound'
  BY <1>1, <1>2 DEF DeletionInv, RefusalIsSound
<1> QED BY <1>3, <1>4 DEF DeletionInv

\* The three places that delete the entry.
LEMMA DeleteDeletion ==
    ASSUME DeletionInv, TokenInv, TypeInv, TypeInv', IInv,
           ReadCache \/ AttachError \/ StreamClosed
    PROVE  DeletionInv'
<1>0. [Next]_vars
  BY DEF Next, Client
<1>1. pc # "ssh" /\ pc' # "attach"
  BY DEF ReadCache, AttachError, StreamClosed, Return, Exit
<1>2. CASE UNCHANGED <<cache, deletion>>
  <2>1. ~ BootstrapNew
    BY <1>1 DEF BootstrapNew
  <2>2. ~ ServerAttach
    BY <1>1 DEF ServerAttach
  <2> QED BY <1>0, <1>1, <1>2, <2>1, <2>2, QuietDeletion
<1>3. RefusalIsSound'
  BY <1>1 DEF RefusalIsSound
<1>4. \A t : IsDead(records, issued, t, now) => IsDead(records', issued', t, now')
  BY <1>0, DeadStays
<1>5. ASSUME NEW cause \in {"expired", "refused", "closed"}, NEW t \in Nat,
             DeleteEntry(cause, t)
      PROVE  deletion' # None /\ deletion'.cause = cause /\ deletion'.token = t
  BY <1>5 DEF DeleteEntry, Deletion
<1>6. CASE ReadCache /\ ~ UNCHANGED <<cache, deletion>>
  <2>1. /\ cache \notin {Absent, Torn} /\ cache.resume_token_expires_at <= now
        /\ DeleteEntry("expired", cache.resume_token)
    BY <1>6 DEF ReadCache, resume_entry_expired
  <2>2. cache.resume_token \in Nat /\ cache.resume_token_expires_at \in Nat
    <3>1. cache \in Entry
      BY <2>1 DEF TypeInv, HeldOK
    <3> QED BY <3>1 DEF Entry
  <2>3. PICK g \in granted : /\ g.raw = cache.resume_token
                             /\ g.expires_at <= cache.resume_token_expires_at
    BY <2>1 DEF TokenInv, CacheIsGranted, IsGranted, Cached
  <2>4. g.expires_at \in Nat /\ now \in Nat
    BY ServerTypes DEF Grant
  <2>5. g.expires_at <= now
    BY <2>1, <2>2, <2>3, <2>4
  <2>6. IsDead(records, issued, cache.resume_token, now)
    BY <2>3, <2>5 DEF TokenInv, AreKept, IsDead
  <2>7. deletion' # None /\ deletion'.token = cache.resume_token
    BY <1>5, <2>1, <2>2
  <2>8. DeletionIsSound'
    BY <1>4, <2>6, <2>7 DEF DeletionIsSound
  <2> QED BY <1>3, <2>8 DEF DeletionInv
<1>7. CASE AttachError /\ ~ UNCHANGED <<cache, deletion>>
  <2>1. /\ pc = "attach" /\ mode = "Renew" /\ reply # None /\ reply.type = "ERROR"
        /\ reply.code = "SESSION_EXPIRED" /\ DeleteEntry("refused", held)
        /\ UNCHANGED session
    BY <1>7 DEF AttachError, serverVars
  <2>2. IsDead(records, issued, held, now) \/ session.state \in Terminal
    BY <2>1 DEF DeletionInv, RefusalIsSound
  <2>3. held \in Nat
    BY <2>1 DEF IInv, TokenIsHeld
  <2>4. deletion' # None /\ deletion'.token = held
    BY <1>5, <2>1, <2>3
  <2>5. DeletionIsSound'
    BY <1>4, <2>1, <2>2, <2>4 DEF DeletionIsSound
  <2> QED BY <1>3, <2>5 DEF DeletionInv
<1>8. CASE StreamClosed
  <2>1. cache.resume_token \in Nat
    <3>1. cache \in Entry
      BY <1>8 DEF StreamClosed, IInv, EntryIsWritten, Cached, TypeInv, HeldOK
    <3> QED BY <3>1 DEF Entry
  <2>2. deletion' # None /\ deletion'.cause = "closed"
    BY <1>5, <1>8, <2>1 DEF StreamClosed
  <2>3. DeletionIsSound'
    BY <2>2 DEF DeletionIsSound
  <2> QED BY <1>3, <2>3 DEF DeletionInv
<1> QED BY <1>2, <1>6, <1>7, <1>8

\* neoshd attaches only a client that has written its entry, and refuses with
\* SESSION_EXPIRED only what it will always refuse.
LEMMA AttachDeletion ==
    ASSUME DeletionInv, TokenInv, TypeInv, IInv, ServerAttach
    PROVE  DeletionInv'
<1>1. /\ pc = "attach" /\ UNCHANGED <<cache, mode, held, records, issued, now>>
  BY DEF ServerAttach, loopVars, tokenVars
<1>2. DeletionIsSound'
  BY <1>1 DEF IInv, EntryIsWritten, Cached, DeletionIsSound
<1> DEFINE t == resume_error(records, held, sid, user, now)
           s == attach_error(session)
<1>3. RefusalIsSound'
  <2> SUFFICES ASSUME mode = "Renew", reply'.type = "ERROR",
                      reply'.code = "SESSION_EXPIRED"
               PROVE  IsDead(records, issued, held, now) \/ session'.state \in Terminal
    BY <1>1 DEF RefusalIsSound
  <2>1. CASE t # "Ok"
    <3>1. reply'.code = map_token_resume_error(t)
      BY <2>1 DEF ServerAttach, Answer
    <3>2. t \in {"Expired", "Revoked"}
      BY <3>1 DEF map_token_resume_error
    <3>3. records \in Records /\ now \in Nat /\ AreIssued(records, issued)
      BY ServerTypes DEF TokenInv
    <3> QED BY <3>2, <3>3, ResumeAnswer
  <2>2. CASE t = "Ok"
    <3>1. s # "Ok" /\ reply'.code = map_session_error(s) /\ session' = session
      BY <2>2 DEF ServerAttach, Answer
    <3>2. s \notin {"Ok", "AttachDenied"}
      BY <3>1 DEF map_session_error
    <3> QED BY <3>1, <3>2 DEF attach_error
  <2> QED BY <2>1, <2>2
<1> QED BY <1>2, <1>3 DEF DeletionInv

LEMMA NextDeletion ==
    DeletionInv /\ TokenInv /\ TypeInv /\ TypeInv' /\ IInv /\ [Next]_vars => DeletionInv'
<1> SUFFICES ASSUME DeletionInv, TokenInv, TypeInv, TypeInv', IInv, [Next]_vars
             PROVE  DeletionInv'
  OBVIOUS
<1>1. CASE ReadCache \/ AttachError \/ StreamClosed
  BY <1>1, DeleteDeletion
<1>2. CASE ServerAttach
  BY <1>2, AttachDeletion
<1>3. CASE BootstrapNew
  <2>1. session'.attach_epoch = 0 /\ pc' = "dial"
    BY <1>3 DEF BootstrapNew, create_session
  <2> QED BY <2>1 DEF DeletionInv, DeletionIsSound, RefusalIsSound
<1> DEFINE Quiet ==
             /\ cache' # Absent \/ UNCHANGED <<cache, deletion>>
             /\ \/ pc' # "attach" \/ reply' = None
                \/ UNCHANGED <<pc, mode, held, reply>>
<1>4. CASE \/ StartConnect \/ StartResume \/ Killed \/ BootstrapRenew \/ BootstrapFails
           \/ Dial \/ DialFails \/ NoAnswer \/ AuthFailed \/ AuthOk \/ PutFails
           \/ AttachOk
  <2>1. Quiet
    BY <1>4 DEF StartConnect, StartResume, Killed, BootstrapRenew, BootstrapFails, Dial,
                DialFails, NoAnswer, AuthFailed, AuthOk, PutFails, AttachOk, Return, Exit,
                Again
  <2> QED BY <1>2, <1>3, <2>1, QuietDeletion
<1>5. CASE PutTruncates \/ PutWrites
  <2>1. cache' # Absent
    BY <1>5 DEF PutTruncates, PutWrites, IInv, EntryIsReady
  <2>2. reply' = None
    BY <1>5 DEF PutTruncates, PutWrites, TokenInv, ReplyIsAwaited
  <2> QED BY <1>2, <1>3, <2>1, <2>2, QuietDeletion
<1>6. CASE \/ DisconnectedNew \/ Disconnected \/ Detach \/ SessionFails
           \/ \E i \in DOMAIN readers, ctrlA \in BOOLEAN : StaleRead(i, ctrlA)
  <2>1. Quiet
    BY <1>6 DEF DisconnectedNew, Disconnected, Detach, SessionFails, StaleRead, Return,
                Exit, Again, loopVars
  <2> QED BY <1>2, <1>3, <2>1, QuietDeletion
<1>7. CASE \/ ServerAuth \/ ServerReleases \/ ServerExpires \/ ServerExits \/ Sweep
           \/ ShellExits \/ ConnLost \/ Tick
  <2>1. Quiet
    BY <1>7 DEF ServerAuth, ServerReleases, ServerExpires, ServerExits, Sweep,
                ShellExits, ConnLost, Tick, loopVars
  <2> QED BY <1>2, <1>3, <2>1, QuietDeletion
<1>8. CASE UNCHANGED vars
  <2>1. Quiet
    BY <1>8 DEF vars, loopVars
  <2> QED BY <1>2, <1>3, <2>1, QuietDeletion
<1> QED BY <1>1, <1>2, <1>3, <1>4, <1>5, <1>6, <1>7, <1>8 DEF Next, Client, Server

\* At whatever step `neosh` is killed or its connection lost, a session neoshd
\* keeps alive has its file, unless the client deleted it at the end of STDOUT, or
\* because it went by a token that neoshd does not take any more.
THEOREM LiveSessionIsAlwaysCached == Spec => []LiveSessionIsCached
<1>1. DeletionInv /\ TokenInv /\ TypeInv => LiveSessionIsCached
  <2> SUFFICES ASSUME DeletionInv, TokenInv, TypeInv,
                      server = "up", session.attach_epoch > 0,
                      session.state \notin Terminal, cache = Absent
               PROVE  /\ deletion # None
                      /\ deletion.cause = "closed" \/ ~ Honoured(deletion.token)
    BY DEF LiveSessionIsCached
  <2>1. /\ deletion # None
        /\ deletion.cause = "closed" \/ IsDead(records, issued, deletion.token, now)
    BY DEF DeletionInv, DeletionIsSound
  <2>2. records \in Records /\ now \in Nat /\ AreIssued(records, issued)
    BY ServerTypes DEF TokenInv
  <2> QED BY <2>1, <2>2, ResumeAnswer DEF Honoured
<1> QED
  BY <1>1, InitIInv, NextIInv, InitTypeInv, NextTypeInv, InitTokenInv, NextTokenInv,
     InitDeletion, NextDeletion, PTL DEF Spec

----------------------------------------------------------------------------
(* The input that stale stdin tasks take *)

LEMMA ReaderSetsFinite ==
    ASSUME TypeInv
    PROVE  /\ IsFiniteSet(Started) /\ IsFiniteSet(Ended)
           /\ Cardinality(Started) \in Nat /\ Cardinality(Ended) \in Nat
           /\ Cardinality(Started) <= Len(readers)
           /\ Cardinality(Ended) <= Len(readers)
<1>1. Len(readers) \in Nat /\ DOMAIN readers = 1..Len(readers)
  BY DEF TypeInv, InputOK
<1> DEFINE n == Len(readers)
<1>2. IsFiniteSet(1..n) /\ Cardinality(1..n) = n
  <2>1. 1 \in Int /\ n \in Int
    BY <1>1
  <2>2. /\ IsFiniteSet(1..n)
        /\ Cardinality(1..n) = IF 1 > n THEN 0 ELSE n - 1 + 1
    BY <2>1, FS_Interval
  <2> QED BY <1>1, <2>2
<1>3. Started \in SUBSET (1..n) /\ Ended \in SUBSET (1..n)
  BY <1>1 DEF Started, Ended
<1>4. /\ IsFiniteSet(Started) /\ Cardinality(Started) <= Cardinality(1..n)
      /\ IsFiniteSet(Ended) /\ Cardinality(Ended) <= Cardinality(1..n)
  BY <1>2, <1>3, FS_Subset
<1>5. Cardinality(Started) \in Nat /\ Cardinality(Ended) \in Nat
  BY <1>4, FS_CardinalityType
<1> QED BY <1>2, <1>4, <1>5

\* The connection that ends leaves a task behind that has taken nothing yet.
LEMMA LeaveReaderLoss ==
    ASSUME TypeInv, LossIsCounted, LeaveReader, lost' = lost
    PROVE  LossIsCounted'
<1>1. /\ readers \in Seq({"reading", "pending", "ended"})
      /\ readers' = Append(readers, "reading")
  BY DEF TypeInv, InputOK, LeaveReader
<1>2. Started' = Started
  BY <1>1 DEF Started
<1>3. Ended' = Ended
  BY <1>1 DEF Ended
<1> QED BY <1>2, <1>3 DEF LossIsCounted

\* A task that takes a chunk has started, and one that had started ends.
LEMMA StaleReadLoss ==
    ASSUME TypeInv, LossIsCounted, NEW i \in DOMAIN readers, NEW ctrlA \in BOOLEAN,
           StaleRead(i, ctrlA)
    PROVE  LossIsCounted'
<1> DEFINE v == IF ctrlA /\ readers[i] = "reading" THEN "pending" ELSE "ended"
<1>1. /\ readers[i] # "ended" /\ lost' = lost + 1
      /\ readers' = [readers EXCEPT ![i] = v]
  BY DEF StaleRead
<1>2. /\ DOMAIN readers' = DOMAIN readers /\ readers'[i] = v
      /\ \A j \in DOMAIN readers : j # i => readers'[j] = readers[j]
  BY <1>1 DEF TypeInv, InputOK
<1>3. v \in {"pending", "ended"} /\ (readers[i] # "reading" => v = "ended")
  OBVIOUS
<1> HIDE DEF v
<1>4. Started' = Started \cup {i} /\ Ended' \in {Ended, Ended \cup {i}} /\ i \notin Ended
  BY <1>1, <1>2, <1>3 DEF Started, Ended
<1>5. i \in Started => Ended' = Ended \cup {i}
  BY <1>1, <1>2, <1>3 DEF Started, Ended
<1>6. /\ i \notin Started => Cardinality(Started') = Cardinality(Started) + 1
      /\ i \in Started => Cardinality(Started') = Cardinality(Started)
      /\ Ended' = Ended \cup {i} => Cardinality(Ended') = Cardinality(Ended) + 1
  <2>1. i \in Started => Started' = Started
    BY <1>4
  <2>2. IsFiniteSet(Started) /\ IsFiniteSet(Ended)
    BY ReaderSetsFinite
  <2>3. /\ Cardinality(Started \cup {i})
              = IF i \in Started THEN Cardinality(Started) ELSE Cardinality(Started) + 1
        /\ Cardinality(Ended \cup {i})
              = IF i \in Ended THEN Cardinality(Ended) ELSE Cardinality(Ended) + 1
    BY <2>2, FS_AddElement
  <2> QED BY <1>4, <2>1, <2>3
<1>7. lost \in Nat
  BY DEF TypeInv, InputOK
<1>8. /\ Cardinality(Started) \in Nat /\ Cardinality(Ended) \in Nat
      /\ lost <= Cardinality(Started) + Cardinality(Ended)
  BY ReaderSetsFinite DEF LossIsCounted
<1>9. lost + 1 <= Cardinality(Started') + Cardinality(Ended')
  <2>1. CASE i \in Started
    BY <1>5, <1>6, <1>7, <1>8, <2>1
  <2>2. CASE i \notin Started
    BY <1>4, <1>6, <1>7, <1>8, <2>2
  <2> QED BY <2>1, <2>2
<1> QED BY <1>1, <1>9 DEF LossIsCounted

LEMMA InitLoss == Init => LossIsCounted
<1> SUFFICES ASSUME Init PROVE LossIsCounted
  OBVIOUS
<1>1. Cardinality(Started) \in Nat /\ Cardinality(Ended) \in Nat
  BY InitTypeInv, ReaderSetsFinite
<1> QED BY <1>1 DEF Init, LossIsCounted

LEMMA NextLoss == LossIsCounted /\ TypeInv /\ TypeInv' /\ [Next]_vars => LossIsCounted'
<1> SUFFICES ASSUME LossIsCounted, TypeInv, TypeInv', [Next]_vars PROVE LossIsCounted'
  OBVIOUS
<1>1. ASSUME Exit PROVE LossIsCounted'
  <2>1. lost' = 0 /\ Started' = {} /\ Ended' = {}
    BY <1>1 DEF Exit, Started, Ended
  <2> QED BY <2>1, FS_EmptySet DEF LossIsCounted
<1>2. UNCHANGED <<readers, lost>> => LossIsCounted'
  BY DEF LossIsCounted, Started, Ended
<1>3. LeaveReader /\ lost' = lost => LossIsCounted'
  BY LeaveReaderLoss
<1>4. CASE DisconnectedNew \/ Disconnected
  BY <1>1, <1>3, <1>4 DEF DisconnectedNew, Disconnected, Return, Again
<1>5. CASE \/ Killed \/ DialFails \/ NoAnswer \/ PutFails \/ AttachError \/ Detach
           \/ StreamClosed \/ SessionFails
  BY <1>1, <1>5 DEF Killed, DialFails, NoAnswer, PutFails, AttachError, Detach,
                    StreamClosed, SessionFails, Return
<1>6. CASE ReadCache \/ BootstrapFails \/ AuthFailed
  BY <1>1, <1>2, <1>6 DEF ReadCache, BootstrapFails, AuthFailed, Return, Again, inputVars
<1>7. CASE \/ StartConnect \/ StartResume \/ BootstrapNew \/ BootstrapRenew \/ Dial
           \/ AuthOk \/ PutTruncates \/ PutWrites \/ AttachOk
  BY <1>2, <1>7 DEF StartConnect, StartResume, BootstrapNew, BootstrapRenew, Dial,
                    AuthOk, PutTruncates, PutWrites, AttachOk, inputVars
<1>8. CASE \/ ServerAuth \/ ServerAttach \/ ServerReleases \/ ServerExpires
           \/ ServerExits \/ Sweep \/ ShellExits \/ ConnLost \/ Tick
  BY <1>2, <1>8 DEF ServerAuth, ServerAttach, ServerReleases, ServerExpires,
                    ServerExits, Sweep, ShellExits, ConnLost, Tick, inputVars
<1>9. CASE UNCHANGED vars
  BY <1>2, <1>9 DEF vars, inputVars
<1> QED
  BY <1>4, <1>5, <1>6, <1>7, <1>8, <1>9, StaleReadLoss DEF Next, Client, Server

\* However often the connection is lost, the stdin tasks left behind take at most
\* two chunks each from what is typed to the resumed session.
THEOREM InputLossIsAlwaysBounded == Spec => []InputLossIsBounded
<1>1. LossIsCounted /\ TypeInv => InputLossIsBounded
  <2> SUFFICES ASSUME LossIsCounted, TypeInv PROVE InputLossIsBounded
    OBVIOUS
  <2>1. Len(readers) \in Nat /\ lost \in Nat
    BY DEF TypeInv, InputOK
  <2> QED BY <2>1, ReaderSetsFinite DEF LossIsCounted, InputLossIsBounded
<1> QED
  BY <1>1, InitIInv, NextIInv, InitTypeInv, NextTypeInv, InitLoss, NextLoss, PTL DEF Spec

=============================================================================
