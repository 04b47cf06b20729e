---------------------------- MODULE TokenService ----------------------------
(***************************************************************************)
(* src/token/service.rs: the token records and the operations on them.     *)
(* `records` is a set of records; a raw token is an opaque value that      *)
(* identifies its record (32 random bytes and their SHA-256), so looking a *)
(* token up by hash is looking it up by raw value.                         *)
(***************************************************************************)
EXTENDS Options

TokenType == {"Auth", "Resume"}

TokenRecord(Raw, Sid, User) ==
    [raw : Raw, token_type : TokenType, session_id : Sid, user_id : User,
     expires_at : Nat, consumed_at : Option(Nat), revoked_at : Option(Nat)]

\* Mutant: the time to live is counted backwards.
issue_token_AlreadyExpired(records, raw, type, sid, user, ttl, now) ==
    records \cup
      {[raw |-> raw, token_type |-> type, session_id |-> sid, user_id |-> user,
        expires_at |-> now - ttl, consumed_at |-> None, revoked_at |-> None]}

issue_token(records, raw, type, sid, user, ttl, now) ==
    records \cup
      {[raw |-> raw, token_type |-> type, session_id |-> sid, user_id |-> user,
        expires_at |-> now + ttl, consumed_at |-> None, revoked_at |-> None]}

find_record(records, raw) == {r \in records : r.raw = raw}

----------------------------------------------------------------------------
(* Mutants *)

consume_Nothing(records, raw, now) == records

auth_error_SkipsConsumed(records, raw, sid, user, now) ==
    IF \E r \in find_record(records, raw) :
          /\ r.token_type = "Auth"
          /\ r.session_id = sid /\ r.user_id = user
          /\ r.expires_at > now /\ r.revoked_at = None
    THEN "Ok" ELSE "Consumed"

check_SkipsRevoked(r, type, sid, user, now) ==
    IF r.token_type # type THEN "TypeMismatch"
    ELSE IF r.session_id # sid \/ r.user_id # user THEN "BindingMismatch"
    ELSE IF r.expires_at <= now THEN "Expired"
    ELSE "Ok"

----------------------------------------------------------------------------
\* The checks validate_and_consume_auth and validate_resume share, in order.
check(r, type, sid, user, now) ==
    IF r.token_type # type THEN "TypeMismatch"
    ELSE IF r.session_id # sid \/ r.user_id # user THEN "BindingMismatch"
    ELSE IF r.expires_at <= now THEN "Expired"
    ELSE IF r.revoked_at # None THEN "Revoked"
    ELSE "Ok"

auth_error(records, raw, sid, user, now) ==
    IF find_record(records, raw) = {} THEN "NotFound"
    ELSE LET r == CHOOSE r \in find_record(records, raw) : TRUE
             e == check(r, "Auth", sid, user, now)
         IN  IF e # "Ok" THEN e
             ELSE IF r.consumed_at # None THEN "Consumed"
             ELSE "Ok"

consume(records, raw, now) ==
    {IF r.raw = raw THEN [r EXCEPT !.consumed_at = now] ELSE r : r \in records}

resume_error(records, raw, sid, user, now) ==
    IF find_record(records, raw) = {} THEN "NotFound"
    ELSE check(CHOOSE r \in find_record(records, raw) : TRUE,
               "Resume", sid, user, now)

revoke_token(records, raw, now) ==
    {IF r.raw = raw THEN [r EXCEPT !.revoked_at = now] ELSE r : r \in records}

\* Spent recently: within `retention` of a revocation or a consumption, as
\* far as the wall clock can tell.
too_recent(t, now, retention) == t # None /\ ElapsedAtMost(now, t, retention)

cleanup_expired(records, now, retention) ==
    {r \in records : \/ r.expires_at > now
                     \/ too_recent(r.revoked_at, now, retention)
                     \/ too_recent(r.consumed_at, now, retention)}

=============================================================================
