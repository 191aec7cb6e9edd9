------------------------------ MODULE Accounts ------------------------------
(***************************************************************************)
(* Accounts, sessions and the login throttle (auth/auth.go, its handlers). *)
(* A client sends one request at a time and keeps the token of its latest  *)
(* login.  A step is one call to MySQL or Redis; a call may fail, and the  *)
(* gateway may die between two calls, within a budget of faults.           *)
(***************************************************************************)
EXTENDS Naturals, FiniteSets

CONSTANTS Client, User,
          Seeded,            \* accounts made in SQL, with a plaintext password
          MaxLoginFailures,
          Faults, MaxFaults,
          MaxRequests,       \* requests that are modelled
          None

ASSUME AccountAssumption ==
  /\ MaxLoginFailures \in Nat \ {0} /\ MaxFaults \in Nat
  /\ IsFiniteSet(Client) /\ Seeded \subseteq User /\ None \notin User

VARIABLES password,  \* what tb_user holds for a username: "none", "plain", "hashed"
          failures,  \* auth:login-failures:<username>, 0 where the key is missing
          armed,     \* that key has a time to live
          session,   \* the user a client's token stands for in Redis
          pc, user,  \* a request's progress, and the username or user id it is about
          guesses,   \* wrong passwords since the counter last started anew (history)
          unarmed,   \* usernames whose EXPIRE failed or was never sent (history)
          served, faults

accounts == <<password, failures, armed, session, guesses, unarmed>>
accountVars == <<accounts, pc, user, served, faults>>

AccountInit == /\ password = [u \in User |-> IF u \in Seeded THEN "plain" ELSE "none"]
               /\ failures = [u \in User |-> 0] /\ armed = [u \in User |-> FALSE]
               /\ session \in [Client -> Seeded \cup {None}]  \* Redis keeps the sessions of earlier logins
               /\ pc = [c \in Client |-> "idle"] /\ user = [c \in Client |-> None]
               /\ guesses = [u \in User |-> 0] /\ unarmed = {}
               /\ served = 0 /\ faults = 0

At(c, step) == pc[c] = step
Goto(c, step) == /\ pc' = [pc EXCEPT ![c] = step]
                 /\ user' = IF step = "idle" THEN [user EXCEPT ![c] = None] ELSE user
Works == UNCHANGED faults
Fault(kind) == kind \in Faults /\ faults < MaxFaults /\ faults' = faults + 1

\* A request about user u arrives and takes its first step.
Arrive(c, u, step) == /\ At(c, "idle") /\ served < MaxRequests
                      /\ served' = served + 1
                      /\ pc' = [pc EXCEPT ![c] = step]
                      /\ user' = [user EXCEPT ![c] = IF step = "idle" THEN None ELSE u]

\* A call fails and the handler returns the error.
ErrorReturn(c, kind) == Fault(kind) /\ Goto(c, "idle")

----------------------------------------------------------------------------
(* Register                                                                *)

\* Register, to its Count: a name that is taken is refused.
Register(c, u) == Arrive(c, u, IF password[u] = "none" THEN "create" ELSE "idle")

\* The register handler, once the form is valid.
register(c) == /\ \E u \in User : Register(c, u)
               /\ Works /\ UNCHANGED accounts

\* users.Create: the unique index refuses a name that was taken meanwhile.
Create(c) ==
  LET u == user[c]
  IN /\ At(c, "create")
     /\ \/ /\ Works /\ password[u] = "none"
           /\ password' = [password EXCEPT ![u] = "hashed"] /\ Goto(c, "idle")
        \/ Works /\ password[u] # "none" /\ Goto(c, "idle") /\ UNCHANGED password
        \/ ErrorReturn(c, "db") /\ UNCHANGED password
     /\ UNCHANGED <<failures, armed, session, guesses, unarmed, served>>

----------------------------------------------------------------------------
(* Login                                                                   *)

\* Mutant: the throttle lets one attempt too many through.
LoginAttemptAllowedLate(u) == failures[u] <= MaxLoginFailures

LoginAttemptAllowed(u) == failures[u] < MaxLoginFailures

\* The login handler and the throttle.
login(c) == /\ \E u \in User : Arrive(c, u, IF LoginAttemptAllowed(u) THEN "verify" ELSE "idle")
            /\ Works /\ UNCHANGED accounts

\* PasswordMatches, of the right or a wrong password; an unknown name has no right one.
PasswordMatches(u) == IF password[u] = "none" THEN {FALSE} ELSE BOOLEAN

\* NeedsRehash: the password is in plaintext.
NeedsRehash(u) == password[u] = "plain"

\* Login, from FindByUsername on: the password is right, or a failure is recorded.
Login(c) ==
  LET u == user[c]
  IN /\ At(c, "verify")
     /\ \/ /\ Works /\ TRUE \in PasswordMatches(u) /\ UNCHANGED guesses
           /\ Goto(c, IF NeedsRehash(u) THEN "rehash" ELSE "clear")
        \/ /\ Works /\ FALSE \in PasswordMatches(u) /\ guesses' = [guesses EXCEPT ![u] = @ + 1]
           /\ Goto(c, "record")
        \/ ErrorReturn(c, "db") /\ UNCHANGED guesses
     /\ UNCHANGED <<password, failures, armed, session, unarmed, served>>

\* Mutant: the window is set again by every failure but the first.
recordLoginFailureAgain(c) ==
  LET u == user[c]
  IN /\ At(c, "record") /\ Works
     /\ failures' = [failures EXCEPT ![u] = @ + 1]
     /\ Goto(c, IF failures'[u] = 1 THEN "idle" ELSE "expire")
     /\ UNCHANGED <<password, armed, session, guesses, unarmed, served>>

\* recordLoginFailure: INCR, and the first failure sets the window.
recordLoginFailure(c) ==
  LET u == user[c]
  IN /\ At(c, "record")
     /\ \/ /\ Works
           /\ failures' = [failures EXCEPT ![u] = @ + 1]
           /\ Goto(c, IF failures'[u] = 1 THEN "expire" ELSE "idle")
        \/ ErrorReturn(c, "redis") /\ UNCHANGED failures
     /\ UNCHANGED <<password, armed, session, guesses, unarmed, served>>

\* The EXPIRE of the first failure; without it the counter stays for good.
ExpireFailures(c) ==
  LET u == user[c]
  IN /\ At(c, "expire")
     /\ \/ Works /\ armed' = [armed EXCEPT ![u] = failures[u] > 0] /\ UNCHANGED unarmed
        \/ Fault("redis") /\ unarmed' = unarmed \cup {u} /\ UNCHANGED armed
     /\ Goto(c, "idle")
     /\ UNCHANGED <<password, failures, session, guesses, served>>

\* A plaintext password is hashed on the first login.
UpdatePassword(c) ==
  /\ At(c, "rehash")
  /\ \/ Works /\ password' = [password EXCEPT ![user[c]] = "hashed"] /\ Goto(c, "clear")
     \/ ErrorReturn(c, "db") /\ UNCHANGED password
  /\ UNCHANGED <<failures, armed, session, guesses, unarmed, served>>

Restart(u) == /\ failures' = [failures EXCEPT ![u] = 0] /\ armed' = [armed EXCEPT ![u] = FALSE]
              /\ guesses' = [guesses EXCEPT ![u] = 0] /\ unarmed' = unarmed \ {u}

\* A successful login deletes the counter.
ClearFailures(c) ==
  /\ At(c, "clear")
  /\ \/ Works /\ Restart(user[c]) /\ Goto(c, "session")
     \/ ErrorReturn(c, "redis") /\ UNCHANGED <<failures, armed, guesses, unarmed>>
  /\ UNCHANGED <<password, session, served>>

CreateSession(c) ==
  /\ At(c, "session")
  /\ \/ Works /\ session' = [session EXCEPT ![c] = user[c]] /\ Goto(c, "idle")
     \/ ErrorReturn(c, "redis") /\ UNCHANGED session
  /\ UNCHANGED <<password, failures, armed, guesses, unarmed, served>>

----------------------------------------------------------------------------
(* Sessions                                                                *)

\* authRequired and ResolveUser.
ResolveUser(c) == session[c]

\* RevokeSession deletes the key of the token.
RevokeSession(c) == session' = [session EXCEPT ![c] = None]

\* The logout handler.
logout(c) == /\ Arrive(c, None, "idle")
             /\ ResolveUser(c) # None
             /\ RevokeSession(c)
             /\ Works /\ UNCHANGED <<password, failures, armed, guesses, unarmed>>

\* A session ends after a day.
SessionExpires(c) == /\ session[c] # None
                     /\ session' = [session EXCEPT ![c] = None]
                     /\ UNCHANGED <<password, failures, armed, guesses, unarmed, pc, user, served, faults>>

\* Ten minutes after the first failure its counter is gone.
WindowEnds(u) == armed[u] /\ Restart(u) /\ UNCHANGED <<password, session, pc, user, served, faults>>

\* The gateway dies, perhaps between INCR and EXPIRE.
CrashLogin(c) == /\ pc[c] \in {"create", "verify", "record", "expire", "rehash", "clear", "session"}
                 /\ Fault("crash") /\ Goto(c, "idle")
                 /\ unarmed' = IF At(c, "expire") THEN unarmed \cup {user[c]} ELSE unarmed
                 /\ UNCHANGED <<password, failures, armed, session, guesses, served>>

AccountStep(c) ==
  \/ register(c) \/ Create(c) \/ login(c) \/ Login(c) \/ recordLoginFailure(c) \/ ExpireFailures(c) \/ UpdatePassword(c)
  \/ ClearFailures(c) \/ CreateSession(c) \/ logout(c) \/ CrashLogin(c)

AccountNext == \/ \E c \in Client : AccountStep(c) \/ SessionExpires(c)
               \/ \E u \in User : WindowEnds(u)

AccountSpec == AccountInit /\ [][AccountNext]_accountVars

----------------------------------------------------------------------------
(* Properties                                                              *)

\* A username that is locked out gets its chance back: the counter has a time to live, or the request that counted
\* the first failure is about to set one, whatever other logins of the name do in between; only a failure right
\* there leaves it without.
LockoutEnds ==
  \A u \in User : failures[u] > 0 => armed[u] \/ u \in unarmed \/ \E c \in Client : At(c, "expire") /\ user[c] = u

\* The throttle holds for concurrent logins too: beyond the limit there is at most one wrong password for each
\* client, all of which read the counter before the others were counted, and one for each failure that was not
\* counted.
GuessesBounded == \A u \in User : guesses[u] <= MaxLoginFailures - 1 + Cardinality(Client) + faults
=============================================================================
