----------------------------- MODULE AuthService -----------------------------
(***************************************************************************)
(* AuthService of core/auth.py: password attempts with throttling, session *)
(* tokens and their revocation.                                            *)
(*                                                                         *)
(* authenticate() reads the failure count under the lock, hashes the       *)
(* password without it, and takes the lock again to write the count it     *)
(* read plus one, or to forget the count.  A token is named by the attempt *)
(* that was given it.  A failure entry is kept for names that no user has  *)
(* as well: they are users for whom every password is wrong.               *)
(***************************************************************************)
EXTENDS Clock, FiniteSets

CONSTANTS
  Attempts,       \* sign-in attempts, and the tokens issued to them
  Users,          \* user names
  MaxFailed,      \* MAX_FAILED_ATTEMPTS
  Lockout,        \* LOCKOUT_SECONDS, in minutes
  SessionTtl,     \* SESSION_TTL_SECONDS, in minutes
  RevokedLimit,   \* how many revoked tokens are kept: 10_000
  Nobody          \* the user of an attempt or a token that does not exist

ASSUME AuthAssumption ==
  /\ MaxFailed \in Nat \ {0} /\ Lockout \in Nat /\ SessionTtl \in Nat
  /\ RevokedLimit \in Nat \ {0}
  /\ Nobody \notin Users

VARIABLES
  failures,    \* _failures: attempts and locked_until per user name
  checked,     \* checked[a]: the user and the count that attempt a has read
  issued,      \* issued[k]: user, expiry and signing key of token k
  revoked,     \* _revoked
  secret,      \* _secret
  wrong,       \* history: wrong passwords in a row per user name, their total, the last one's time
  overlapped,  \* history: user names of which two attempts ran between check and write
  signedOut    \* history: strings sent to sign-outs that this process should know of

authVars == <<failures, checked, issued, revoked, secret, wrong, overlapped, signedOut>>

NoFailures == [attempts |-> 0, until |-> 0]
NotChecked == [user |-> Nobody, attempts |-> 0]
NoToken == [user |-> Nobody, expires |-> 0, secret |-> 0]
NeverWrong == [inRow |-> 0, total |-> 0, last |-> 0]

AuthInit ==
  /\ failures = [u \in Users |-> NoFailures]
  /\ checked = [a \in Attempts |-> NotChecked]
  /\ issued = [a \in Attempts |-> NoToken]
  /\ revoked = {} /\ signedOut = {} /\ overlapped = {}
  /\ secret = 0
  /\ wrong = [u \in Users |-> NeverWrong]

-----------------------------------------------------------------------------
(* authenticate.                                                            *)

\* is_locked
Locked(u) == failures[u].until > now

\* The attempts that have passed the check and are hashing the password.
Hashing(u) == {a \in Attempts : checked[a].user = u}

\* Mutant: an attempt on a locked account renews the lockout.
RefuseLocked_Renews(u) ==
  /\ Locked(u)
  /\ failures' = [failures EXCEPT ![u].until = now + Lockout]
  /\ UNCHANGED <<checked, issued, revoked, secret, wrong, overlapped, signedOut>>

\* The first locked block, for an account that is locked: refused, nothing changes.
RefuseLocked(u) ==
  /\ Locked(u)
  /\ UNCHANGED authVars

\* The first locked block otherwise: the count is read.
Check(a, u) ==
  /\ ~Locked(u)
  /\ checked' = [checked EXCEPT ![a] = [user |-> u, attempts |-> failures[u].attempts]]
  /\ overlapped' = IF Hashing(u) = {} THEN overlapped ELSE overlapped \cup {u}
  /\ UNCHANGED <<failures, issued, revoked, secret, wrong, signedOut>>

\* Mutant: the account is locked one attempt late.
Failed_LocksLate(count) ==
  [attempts |-> count, until |-> IF count > MaxFailed THEN now + Lockout ELSE 0]

\* The failure entry after the count-th wrong password.
Failed(count) ==
  [attempts |-> count, until |-> IF count >= MaxFailed THEN now + Lockout ELSE 0]

\* The second locked block.
Conclude(a, ok) ==
  LET u == checked[a].user
      one == checked[a].attempts + 1
  IN /\ u # Nobody
     /\ failures' = [failures EXCEPT ![u] = IF ok THEN NoFailures ELSE Failed(one)]
     /\ wrong' = [wrong EXCEPT ![u] =
                    IF ok THEN [@ EXCEPT !.inRow = 0]
                    ELSE [inRow |-> @.inRow + 1, total |-> @.total + 1, last |-> now]]
     /\ checked' = [checked EXCEPT ![a] = NotChecked]
     /\ UNCHANGED <<issued, revoked, secret, overlapped, signedOut>>

-----------------------------------------------------------------------------
(* Sessions.                                                                *)

\* issue_session
IssueSession(a, u) ==
  /\ issued' = [issued EXCEPT ![a] =
                  [user |-> u, expires |-> now + SessionTtl, secret |-> secret]]
  /\ UNCHANGED <<failures, checked, revoked, secret, wrong, overlapped, signedOut>>

\* validate_session: the user of token k, or Nobody; k may be any string.
Principal(k) ==
  IF k \in Attempts /\ issued[k].secret = secret /\ issued[k].expires >= now /\ k \notin revoked
  THEN issued[k].user
  ELSE Nobody

\* Mutant: the list is cleared when it reaches its limit.
Revoked_ClearsAtLimit(k) ==
  IF Cardinality(revoked \cup {k}) >= RevokedLimit THEN {} ELSE revoked \cup {k}

\* The revocation list after k: emptied, k included, when it passes its limit.
Revoked(k) ==
  IF Cardinality(revoked \cup {k}) > RevokedLimit THEN {} ELSE revoked \cup {k}

Revoke(k) ==
  /\ revoked' = Revoked(k)
  /\ signedOut' = signedOut \cup {k}
  /\ UNCHANGED <<failures, checked, issued, secret, wrong, overlapped>>

\* A new process: failures and revocations are gone.  Without DEMO_SECRET_KEY
\* it signs with a new key; with it, tokens live on and sign-outs are forgotten.
AuthRestart ==
  /\ failures' = [u \in Users |-> NoFailures]
  /\ checked' = [a \in Attempts |-> NotChecked]
  /\ revoked' = {}
  /\ \/ secret' = secret + 1 /\ UNCHANGED signedOut
     \/ secret' = secret /\ signedOut' = {}
  /\ wrong' = [u \in Users |-> [wrong[u] EXCEPT !.inRow = 0]]
  /\ UNCHANGED <<issued, overlapped>>

-----------------------------------------------------------------------------
(* core/auth.py, lines 47-48, five attempts and five minutes: when no two   *)
(* attempts on an account overlapped, MaxFailed wrong passwords in a row    *)
(* close it until Lockout minutes after the last of them, and every one of  *)
(* them was counted.  (Overlapping attempts write the same count twice.)    *)
WrongPasswordsLock ==
  \A u \in Users \ overlapped :
    /\ failures[u].attempts = wrong[u].inRow
    /\ wrong[u].inRow >= MaxFailed => (Locked(u) <=> now < wrong[u].last + Lockout)

(* However attempts overlap, an account is locked only after MaxFailed      *)
(* wrong passwords were given for it, and it opens Lockout minutes after    *)
(* the last password that was tried: attempts made meanwhile do not count.  *)
LockoutIsProvoked ==
  \A u \in Users : Locked(u) =>
    wrong[u].total >= MaxFailed /\ failures[u].until <= wrong[u].last + Lockout
=============================================================================
