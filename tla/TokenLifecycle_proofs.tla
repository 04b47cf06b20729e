------------------------ MODULE TokenLifecycle_proofs ------------------------
(***************************************************************************)
(* Proofs about TokenLifecycle for every set of sessions, users and times  *)
(* to live, every number of tokens and every movement of the clock.        *)
(***************************************************************************)
EXTENDS TokenLifecycle, TLAPS

USE NoneAssumption, TokenAssumption

\* The claim a record stands for.
ClaimOf(r) == [raw |-> r.raw, token_type |-> r.token_type,
               session_id |-> r.session_id, user_id |-> r.user_id]

\* The history is about tokens that were issued.
Numbered ==
    /\ \A r \in records : r.raw \in 1..issued
    /\ spent \subseteq 1..issued
    /\ revoked \subseteq 1..issued

\* While a token has a record, the record knows what became of it.
RecordsRemember ==
    \A r \in records : /\ ClaimOf(r) \in origin
                       /\ r.raw \in spent => r.consumed_at # None
                       /\ r.raw \in revoked => r.revoked_at # None

IInv == TypeOK /\ Numbered /\ RecordsRemember /\ SingleUse /\ GrantsAreSound

----------------------------------------------------------------------------
(* What the operations of TokenService do *)

\* An accepted auth token has a record of that type, for that session and user,
\* that is neither revoked nor consumed.
LEMMA AuthAccepts ==
    ASSUME NEW R, NEW t, NEW s, NEW u, NEW n, auth_error(R, t, s, u, n) = "Ok"
    PROVE  \E r \in R : /\ r.raw = t /\ r.token_type = "Auth"
                        /\ r.session_id = s /\ r.user_id = u
                        /\ r.revoked_at = None /\ r.consumed_at = None
<1>1. find_record(R, t) # {}
  BY DEF auth_error
<1> DEFINE r == CHOOSE r \in find_record(R, t) : TRUE
<1>2. r \in R /\ r.raw = t
  BY <1>1 DEF find_record
<1>3. check(r, "Auth", s, u, n) = "Ok" /\ r.consumed_at = None
  BY <1>1 DEF auth_error
<1>4. /\ r.token_type = "Auth" /\ r.session_id = s /\ r.user_id = u
      /\ r.revoked_at = None
  BY <1>3 DEF check
<1> QED BY <1>2, <1>3, <1>4

\* The same for a resume token.
LEMMA ResumeAccepts ==
    ASSUME NEW R, NEW t, NEW s, NEW u, NEW n, resume_error(R, t, s, u, n) = "Ok"
    PROVE  \E r \in R : /\ r.raw = t /\ r.token_type = "Resume"
                        /\ r.session_id = s /\ r.user_id = u
                        /\ r.revoked_at = None
<1>1. find_record(R, t) # {}
  BY DEF resume_error
<1> DEFINE r == CHOOSE r \in find_record(R, t) : TRUE
<1>2. r \in R /\ r.raw = t
  BY <1>1 DEF find_record
<1>3. check(r, "Resume", s, u, n) = "Ok"
  BY <1>1 DEF resume_error
<1>4. /\ r.token_type = "Resume" /\ r.session_id = s /\ r.user_id = u
      /\ r.revoked_at = None
  BY <1>3 DEF check
<1> QED BY <1>2, <1>4

\* Marking one token leaves the claims of all and the other records alone.
LEMMA MarkOne ==
    ASSUME NEW R \in SUBSET TokenRecord(Nat, Sids, Users), NEW t, NEW n \in Nat
    PROVE  /\ consume(R, t, n) \subseteq TokenRecord(Nat, Sids, Users)
           /\ revoke_token(R, t, n) \subseteq TokenRecord(Nat, Sids, Users)
           /\ \A q \in consume(R, t, n) : \E r \in R :
                /\ ClaimOf(q) = ClaimOf(r) /\ q.raw = r.raw
                /\ q.revoked_at = r.revoked_at
                /\ q.consumed_at = IF r.raw = t THEN n ELSE r.consumed_at
           /\ \A q \in revoke_token(R, t, n) : \E r \in R :
                /\ ClaimOf(q) = ClaimOf(r) /\ q.raw = r.raw
                /\ q.consumed_at = r.consumed_at
                /\ q.revoked_at = IF r.raw = t THEN n ELSE r.revoked_at
<1> USE DEF TokenRecord, Option, ClaimOf
<1>1. consume(R, t, n) \subseteq TokenRecord(Nat, Sids, Users)
  BY DEF consume
<1>2. revoke_token(R, t, n) \subseteq TokenRecord(Nat, Sids, Users)
  BY DEF revoke_token
<1>3. \A q \in consume(R, t, n) : \E r \in R :
        /\ ClaimOf(q) = ClaimOf(r) /\ q.raw = r.raw
        /\ q.revoked_at = r.revoked_at
        /\ q.consumed_at = IF r.raw = t THEN n ELSE r.consumed_at
  BY DEF consume
<1>4. \A q \in revoke_token(R, t, n) : \E r \in R :
        /\ ClaimOf(q) = ClaimOf(r) /\ q.raw = r.raw
        /\ q.consumed_at = r.consumed_at
        /\ q.revoked_at = IF r.raw = t THEN n ELSE r.revoked_at
  BY DEF revoke_token
<1> QED BY <1>1, <1>2, <1>3, <1>4

----------------------------------------------------------------------------
(* The invariant *)

\* The empty store satisfies the invariant.
LEMMA InitIInv == Init => IInv
<1> SUFFICES ASSUME Init PROVE IInv
  OBVIOUS
<1>1. TypeOK
  <2>1. records \subseteq TokenRecord(Nat, Sids, Users) /\ origin \subseteq Claim
    BY DEF Init
  <2>2. spent \subseteq Nat /\ revoked \subseteq Nat
    BY DEF Init
  <2>3. grant \in Option(Claim)
    BY DEF Init, Option
  <2> QED BY <2>1, <2>2, <2>3 DEF Init, TypeOK
<1>2. Numbered /\ RecordsRemember
  BY DEF Init, Numbered, RecordsRemember
<1>3. SingleUse /\ GrantsAreSound
  BY DEF Init, SingleUse, GrantsAreSound
<1> QED BY <1>1, <1>2, <1>3 DEF IInv

\* Issuing a token keeps the invariant: its number is new.
LEMMA IssueIInv ==
    ASSUME IInv, NEW type \in TokenType, NEW s \in Sids, NEW u \in Users,
           NEW ttl \in Ttls, Issue(type, s, u, ttl)
    PROVE  IInv'
<1> DEFINE new == [raw |-> issued + 1, token_type |-> type, session_id |-> s,
                   user_id |-> u, expires_at |-> now + ttl,
                   consumed_at |-> None, revoked_at |-> None]
<1>1. records' = records \cup {new}
  BY DEF Issue, issue_token
<1>2. new \in TokenRecord(Nat, Sids, Users) /\ ClaimOf(new) \in Claim
  BY DEF IInv, TypeOK, TokenRecord, Claim, ClaimOf, Option
<1>3. origin' = origin \cup {ClaimOf(new)}
  BY DEF Issue, ClaimOf
<1>4. TypeOK'
  <2>1. issued' \in Nat
    BY DEF Issue, IInv, TypeOK
  <2> QED BY <1>1, <1>2, <1>3, <2>1 DEF Issue, IInv, TypeOK, Option
<1>5. Numbered'
  <2>1. \A n \in 1..issued : n \in 1..issued'
    BY DEF Issue, IInv, TypeOK
  <2>2. new.raw \in 1..issued'
    BY DEF Issue, IInv, TypeOK
  <2> QED BY <1>1, <2>1, <2>2 DEF Issue, IInv, Numbered
<1>6. RecordsRemember'
  <2>1. new.raw \notin spent /\ new.raw \notin revoked
    BY DEF IInv, TypeOK, Numbered
  <2> QED BY <1>1, <1>3, <2>1 DEF Issue, IInv, RecordsRemember
<1>7. SingleUse' /\ GrantsAreSound'
  BY DEF Issue, IInv, SingleUse, GrantsAreSound
<1> QED BY <1>4, <1>5, <1>6, <1>7 DEF IInv

\* So does validate_and_consume_auth, whether it accepts or not.
LEMMA AuthIInv ==
    ASSUME IInv, NEW raw \in Raw, NEW s \in Sids, NEW u \in Users,
           ValidateAndConsumeAuth(raw, s, u)
    PROVE  IInv'
<1>1. CASE auth_error(records, raw, s, u, now) # "Ok"
  <2>1. /\ grant' = None
        /\ UNCHANGED <<records, issued, now, origin, spent, revoked, reused>>
    BY <1>1 DEF ValidateAndConsumeAuth
  <2> QED BY <2>1 DEF IInv, TypeOK, Numbered, RecordsRemember, SingleUse,
                      GrantsAreSound, Option
<1>2. CASE auth_error(records, raw, s, u, now) = "Ok"
  <2> DEFINE claim == [raw |-> raw, token_type |-> "Auth",
                       session_id |-> s, user_id |-> u]
  <2>1. /\ records' = consume(records, raw, now)
        /\ spent' = spent \cup {raw}
        /\ reused' = (reused \/ raw \in spent)
        /\ grant' = claim
        /\ UNCHANGED <<issued, now, origin, revoked>>
    BY <1>2 DEF ValidateAndConsumeAuth
  <2>2. PICK r \in records : /\ r.raw = raw /\ r.token_type = "Auth"
                             /\ r.session_id = s /\ r.user_id = u
                             /\ r.revoked_at = None /\ r.consumed_at = None
    BY <1>2, AuthAccepts
  <2>3. claim \in origin /\ raw \notin spent /\ raw \notin revoked
    BY <2>2 DEF IInv, RecordsRemember, ClaimOf
  <2>4. raw \in 1..issued /\ raw \in Nat
    BY <2>2 DEF IInv, Numbered, TypeOK, TokenRecord
  <2>5. TypeOK'
    <3>1. records' \subseteq TokenRecord(Nat, Sids, Users)
      BY <2>1, MarkOne DEF IInv, TypeOK
    <3>2. claim \in Claim
      BY <2>3 DEF IInv, TypeOK
    <3>3. reused' \in BOOLEAN
      BY <2>1
    <3> QED BY <2>1, <2>4, <3>1, <3>2, <3>3 DEF IInv, TypeOK, Option
  <2>6. \A q \in records' : \E p \in records :
          /\ ClaimOf(q) = ClaimOf(p) /\ q.raw = p.raw
          /\ q.revoked_at = p.revoked_at
          /\ q.consumed_at = IF p.raw = raw THEN now ELSE p.consumed_at
    <3>1. records \in SUBSET TokenRecord(Nat, Sids, Users) /\ now \in Nat
      BY DEF IInv, TypeOK
    <3>2. \A q \in consume(records, raw, now) : \E p \in records :
            /\ ClaimOf(q) = ClaimOf(p) /\ q.raw = p.raw
            /\ q.revoked_at = p.revoked_at
            /\ q.consumed_at = IF p.raw = raw THEN now ELSE p.consumed_at
      BY <3>1, MarkOne
    <3> QED BY <2>1, <3>2
  <2>7. Numbered'
    BY <2>1, <2>4, <2>6 DEF IInv, Numbered
  <2>8. RecordsRemember'
    <3>1. now # None
      BY DEF IInv, TypeOK
    <3> QED BY <2>1, <2>6, <3>1 DEF IInv, RecordsRemember
  <2>9. SingleUse' /\ GrantsAreSound'
    BY <2>1, <2>3 DEF IInv, SingleUse, GrantsAreSound
  <2> QED BY <2>5, <2>7, <2>8, <2>9 DEF IInv
<1> QED BY <1>1, <1>2

\* So does validate_resume.
LEMMA ResumeIInv ==
    ASSUME IInv, NEW raw \in Raw, NEW s \in Sids, NEW u \in Users,
           ValidateResume(raw, s, u)
    PROVE  IInv'
<1>1. UNCHANGED <<records, issued, now, origin, spent, revoked, reused>>
  BY DEF ValidateResume
<1>2. grant' # None => grant' \in origin /\ grant'.raw \notin revoked
  <2> SUFFICES ASSUME grant' # None
               PROVE  grant' \in origin /\ grant'.raw \notin revoked
    OBVIOUS
  <2>1. resume_error(records, raw, s, u, now) = "Ok"
    BY DEF ValidateResume
  <2>2. PICK r \in records : /\ r.raw = raw /\ r.token_type = "Resume"
                             /\ r.session_id = s /\ r.user_id = u
                             /\ r.revoked_at = None
    BY <2>1, ResumeAccepts
  <2>3. grant' = ClaimOf(r) /\ grant'.raw = r.raw
    BY <2>1, <2>2 DEF ValidateResume, ClaimOf
  <2> QED BY <2>2, <2>3 DEF IInv, RecordsRemember
<1>3. TypeOK'
  BY <1>1, <1>2 DEF IInv, TypeOK, Option
<1> QED
  BY <1>1, <1>2, <1>3
  DEF IInv, Numbered, RecordsRemember, SingleUse, GrantsAreSound

\* So does revoke_token.
LEMMA RevokeIInv ==
    ASSUME IInv, NEW raw \in Raw, Revoke(raw) PROVE IInv'
<1>1. /\ records' = revoke_token(records, raw, now)
      /\ grant' = None
      /\ UNCHANGED <<issued, now, origin, spent, reused>>
  BY DEF Revoke
<1>2. \A q \in records' : \E p \in records :
        /\ ClaimOf(q) = ClaimOf(p) /\ q.raw = p.raw
        /\ q.consumed_at = p.consumed_at
        /\ q.revoked_at = IF p.raw = raw THEN now ELSE p.revoked_at
  <2>1. records \in SUBSET TokenRecord(Nat, Sids, Users) /\ now \in Nat
    BY DEF IInv, TypeOK
  <2>2. \A q \in revoke_token(records, raw, now) : \E p \in records :
          /\ ClaimOf(q) = ClaimOf(p) /\ q.raw = p.raw
          /\ q.consumed_at = p.consumed_at
          /\ q.revoked_at = IF p.raw = raw THEN now ELSE p.revoked_at
    BY <2>1, MarkOne
  <2> QED BY <1>1, <2>2
<1>3. revoked' \subseteq revoked \cup {raw} /\ revoked' \subseteq 1..issued
  <2>1. CASE find_record(records, raw) = {}
    BY <2>1 DEF Revoke, IInv, Numbered
  <2>2. CASE find_record(records, raw) # {}
    <3>1. PICK r \in records : r.raw = raw
      BY <2>2 DEF find_record
    <3>2. raw \in 1..issued
      BY <3>1 DEF IInv, Numbered
    <3>3. revoked' = revoked \cup {raw}
      BY <2>2 DEF Revoke
    <3> QED BY <3>2, <3>3 DEF IInv, Numbered
  <2> QED BY <2>1, <2>2
<1>4. TypeOK'
  <2>1. records' \subseteq TokenRecord(Nat, Sids, Users)
    BY <1>1, MarkOne DEF IInv, TypeOK
  <2>2. revoked' \subseteq Nat
    BY <1>3 DEF IInv, TypeOK
  <2> QED BY <1>1, <2>1, <2>2 DEF IInv, TypeOK, Option
<1>5. Numbered'
  BY <1>1, <1>2, <1>3 DEF IInv, Numbered
<1>6. RecordsRemember'
  <2>1. now # None
    BY DEF IInv, TypeOK
  <2>2. ASSUME NEW q \in records'
        PROVE  /\ ClaimOf(q) \in origin'
               /\ q.raw \in spent' => q.consumed_at # None
               /\ q.raw \in revoked' => q.revoked_at # None
    <3>1. PICK p \in records :
            /\ ClaimOf(q) = ClaimOf(p) /\ q.raw = p.raw
            /\ q.consumed_at = p.consumed_at
            /\ q.revoked_at = IF p.raw = raw THEN now ELSE p.revoked_at
      BY <1>2
    <3>2. /\ ClaimOf(p) \in origin
          /\ p.raw \in spent => p.consumed_at # None
          /\ p.raw \in revoked => p.revoked_at # None
      BY DEF IInv, RecordsRemember
    <3>3. q.raw \in revoked' => q.revoked_at # None
      BY <1>3, <2>1, <3>1, <3>2
    <3> QED BY <1>1, <3>1, <3>2, <3>3
  <2> QED BY <2>2 DEF RecordsRemember, ClaimOf
<1> QED
  BY <1>1, <1>4, <1>5, <1>6 DEF IInv, SingleUse, GrantsAreSound

\* Every step keeps it; a cleanup only removes records.
LEMMA NextIInv == IInv /\ [Next]_vars => IInv'
<1> SUFFICES ASSUME IInv, [Next]_vars PROVE IInv'
  OBVIOUS
<1>1. CASE Cleanup
  BY <1>1 DEF Cleanup, cleanup_expired, IInv, TypeOK, Numbered, RecordsRemember,
              SingleUse, GrantsAreSound, Option
<1>2. CASE SetClock
  <2>1. now' \in Nat
    BY <1>2 DEF SetClock
  <2> QED BY <1>2, <2>1 DEF SetClock, IInv, TypeOK, Numbered, RecordsRemember,
                            SingleUse, GrantsAreSound, Option
<1>3. CASE UNCHANGED vars
  BY <1>3 DEF vars, IInv, TypeOK, Numbered, RecordsRemember, SingleUse,
              GrantsAreSound
<1> QED
  BY <1>1, <1>2, <1>3, IssueIInv, AuthIInv, ResumeIInv, RevokeIInv DEF Next

\* Type correctness of the token store and its history.
THEOREM TokenTypeCorrect == Spec => []TypeOK
<1>1. IInv => TypeOK
  BY DEF IInv
<1> QED BY <1>1, InitIInv, NextIInv, PTL DEF Spec

\* No auth token is ever accepted twice.
THEOREM SingleUseAlways == Spec => []SingleUse
<1>1. IInv => SingleUse
  BY DEF IInv
<1> QED BY <1>1, InitIInv, NextIInv, PTL DEF Spec

\* Tokens are accepted only for what they were issued for, and never once
\* revoked.
THEOREM GrantsAlwaysSound == Spec => []GrantsAreSound
<1>1. IInv => GrantsAreSound
  BY DEF IInv
<1> QED BY <1>1, InitIInv, NextIInv, PTL DEF Spec

=============================================================================
