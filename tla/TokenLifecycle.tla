--------------------------- MODULE TokenLifecycle ---------------------------
(***************************************************************************)
(* TokenService (src/token/service.rs) under every sequence of its public  *)
(* calls, for several sessions and users, on a wall clock that may jump in *)
(* either direction between two calls.  Callers present any raw token with *)
(* any session and user.  NeoshdRuntime and neoshd call it this way.       *)
(***************************************************************************)
EXTENDS TokenService

CONSTANTS
    Sids, Users,
    Ttls,         \* the ttl arguments callers pass, 0 included
    Retention,    \* the retention argument of cleanup_expired
    MaxTokens,    \* bound: tokens issued
    MaxTime       \* bound: the clock shows 0..MaxTime

ASSUME TokenAssumption ==
    /\ Ttls \subseteq Nat
    /\ Retention \in Nat /\ MaxTokens \in Nat /\ MaxTime \in Nat

VARIABLES
    records, issued, now,
    origin,    \* history: what each issued token was issued for
    spent,     \* history: auth tokens accepted so far
    revoked,   \* history: tokens revoked so far
    reused,    \* history: some auth token was accepted twice
    grant      \* the last call, if it accepted a token: for what it did

vars == <<records, issued, now, origin, spent, revoked, reused, grant>>

Raw == 0..issued      \* 0 is a token nobody issued

Claim == [raw : Nat, token_type : TokenType, session_id : Sids, user_id : Users]

TypeOK ==
    /\ records \subseteq TokenRecord(Nat, Sids, Users)
    /\ issued \in Nat /\ now \in Nat
    /\ origin \subseteq Claim
    /\ spent \subseteq Nat /\ revoked \subseteq Nat
    /\ reused \in BOOLEAN
    /\ grant \in Option(Claim)

Init ==
    /\ records = {} /\ issued = 0 /\ now = 0
    /\ origin = {} /\ spent = {} /\ revoked = {}
    /\ reused = FALSE /\ grant = None

Issue(type, s, u, ttl) ==
    /\ issued < MaxTokens
    /\ records' = issue_token(records, issued + 1, type, s, u, ttl, now)
    /\ issued' = issued + 1
    /\ origin' = origin \cup {[raw |-> issued + 1, token_type |-> type,
                               session_id |-> s, user_id |-> u]}
    /\ grant' = None
    /\ UNCHANGED <<now, spent, revoked, reused>>

ValidateAndConsumeAuth(raw, s, u) ==
    /\ IF auth_error(records, raw, s, u, now) = "Ok"
       THEN /\ records' = consume(records, raw, now)
            /\ spent' = spent \cup {raw}
            /\ reused' = (reused \/ raw \in spent)
            /\ grant' = [raw |-> raw, token_type |-> "Auth",
                         session_id |-> s, user_id |-> u]
       ELSE grant' = None /\ UNCHANGED <<records, spent, reused>>
    /\ UNCHANGED <<issued, now, origin, revoked>>

ValidateResume(raw, s, u) ==
    /\ grant' = IF resume_error(records, raw, s, u, now) = "Ok"
                THEN [raw |-> raw, token_type |-> "Resume",
                      session_id |-> s, user_id |-> u]
                ELSE None
    /\ UNCHANGED <<records, issued, now, origin, spent, revoked, reused>>

\* NotFound, and nothing changes, when no record has this raw token.
Revoke(raw) ==
    /\ records' = revoke_token(records, raw, now)
    /\ revoked' = IF find_record(records, raw) = {} THEN revoked
                  ELSE revoked \cup {raw}
    /\ grant' = None
    /\ UNCHANGED <<issued, now, origin, spent, reused>>

Cleanup ==
    /\ records' = cleanup_expired(records, now, Retention)
    /\ grant' = None
    /\ UNCHANGED <<issued, now, origin, spent, revoked, reused>>

SetClock ==
    /\ now' \in 0..MaxTime
    /\ grant' = None
    /\ UNCHANGED <<records, issued, origin, spent, revoked, reused>>

Next ==
    \/ \E type \in TokenType, s \in Sids, u \in Users, ttl \in Ttls :
         Issue(type, s, u, ttl)
    \/ \E raw \in Raw, s \in Sids, u \in Users :
         ValidateAndConsumeAuth(raw, s, u) \/ ValidateResume(raw, s, u)
    \/ \E raw \in Raw : Revoke(raw)
    \/ Cleanup \/ SetClock

Spec == Init /\ [][Next]_vars

----------------------------------------------------------------------------
(* Properties *)

\* No auth token is accepted twice, although the record that remembers its
\* consumption is deleted by cleanup_expired and the clock may then be set back
\* to a time at which the token had not expired.
SingleUse == ~ reused

\* A token is only accepted for what it was issued for (type, session, user),
\* and never after it was revoked, whatever was cleaned up in between.
GrantsAreSound == grant # None => grant \in origin /\ grant.raw \notin revoked

=============================================================================
