--------------------------- MODULE AccountSessions ---------------------------
(***************************************************************************)
(* Accounts and opaque sessions: src/app/auth/service.py over the          *)
(* repository of src/app/auth/memory.py and postgres.py, as the handlers   *)
(* of src/app/api/routes/auth.py run it, one database call or one hashing  *)
(* job per step.  A password stands for its hash: verify_password accepts  *)
(* a stored hash exactly for the password it was made from.                *)
(***************************************************************************)
EXTENDS RequestThreads

CONSTANTS
    Emails,      \* addresses clients use, each in its normal form
    Malformed,   \* an address normalize_email refuses
    Local,       \* the address of the single-user identity
    Passwords,
    Random,      \* the password generated for the single-user identity
    MaxFailures, \* bound: database calls that fail
    Scrypt,      \* the hashing job of a request
    Absent       \* no account, no token

ASSUME AbsentAssumption ==
    Absent \notin [id : Nat, email : Emails \cup {Malformed, Local}, password : Passwords \cup {Random}]

VARIABLES
    singleUser,  \* the AUTH_SINGLE_USER setting
    accounts,    \* rows [id, email, password]
    sessions,    \* rows [token, user, expired]
    tokens,      \* tokens issued so far: token_urlsafe never repeats
    failures     \* database calls that failed

accountVars == <<accounts, sessions, tokens>>

AccountKinds == {"register", "login", "me", "logout"}

AccountsInit ==
    /\ singleUser \in BOOLEAN
    /\ accounts = {} /\ sessions = {} /\ tokens = 0 /\ failures = 0

Request(kind, email, password, token, phase) ==
    [kind |-> kind, email |-> email, password |-> password, token |-> token,
     phase |-> phase, account |-> Absent, reply |-> ""]

At(r, kind, phase) == Serves(r, {kind}) /\ req[r].phase = phase
Goes(r, phase)     == req' = [req EXCEPT ![r].phase = phase]
Replies(r, reply)  == req' = [req EXCEPT ![r].phase = "replied", ![r].reply = reply]
ActsAs(r, account) ==
    req' = [req EXCEPT ![r].phase = "replied", ![r].reply = "ok", ![r].account = account]

WithEmail(email) == {a \in accounts : a.email = email}
Credentials(email) ==
    IF WithEmail(email) = {} THEN Absent ELSE CHOOSE a \in WithEmail(email) : TRUE

(***************************************************************************)
(* The first synchronous part of each handler.  Registering hashes the     *)
(* password before it looks at the address; signing in refuses a malformed *)
(* address first.                                                          *)
(***************************************************************************)
BeginRegister(r, email, password) ==
    /\ Begin(r, Request("register", email, password, Absent, "hashing"))
    /\ Submit(<<r, Scrypt>>)

BeginLogin(r, email, password) ==
    /\ Begin(r, IF email = Malformed
                THEN [Request("login", email, password, Absent, "replied")
                          EXCEPT !.reply = "invalid"]
                ELSE Request("login", email, password, Absent, "reading"))
    /\ UNCHANGED threadVars

BeginMe(r, token) ==
    /\ Begin(r, Request("me", Local, Random, token,
                        IF singleUser THEN "reading" ELSE "resolving"))
    /\ UNCHANGED threadVars

BeginLogout(r, token) ==
    /\ Begin(r, Request("logout", Absent, Absent, token, "revoking"))
    /\ UNCHANGED threadVars

\* get_credentials: a sign-in goes on to verify, with a dummy hash if there is
\* no account; the single-user identity is created if it does not exist.
ReadCredentials(r) ==
    LET found == Credentials(req[r].email) IN
    /\ \/ /\ At(r, "login", "reading")
          /\ req' = [req EXCEPT ![r].phase = "hashing", ![r].account = found]
          /\ Submit(<<r, Scrypt>>)
       \/ /\ At(r, "me", "reading")
          /\ IF found = Absent
             THEN Goes(r, "hashing") /\ Submit(<<r, Scrypt>>)
             ELSE ActsAs(r, found) /\ UNCHANGED threadVars
    /\ UNCHANGED accountVars

Valid(r) == req[r].account # Absent /\ req[r].account.password = req[r].password

\* The thread has hashed or verified the password.
Hashed(r) ==
    /\ Serves(r, AccountKinds) /\ req[r].phase = "hashing"
    /\ ThreadReturns(<<r, Scrypt>>)
    /\ CASE req[r].kind = "login" ->
                IF Valid(r) THEN Goes(r, "opening") ELSE Replies(r, "refused")
         [] req[r].kind = "register" /\ req[r].email = Malformed -> Replies(r, "invalid")
         [] OTHER -> Goes(r, "creating")
    /\ UNCHANGED accountVars

\* Mutant: nothing enforces that addresses are unique.
TakenUnindexed(email) == FALSE

\* create_account: the address is unique, under a lock in memory and by the
\* unique index in PostgreSQL.
Taken(email) == WithEmail(email) # {}

CreateAccount(r) ==
    LET account == [id |-> Cardinality(accounts) + 1,
                    email |-> req[r].email, password |-> req[r].password] IN
    /\ At(r, "register", "creating") \/ At(r, "me", "creating")
    /\ IF Taken(req[r].email)
       THEN /\ IF req[r].kind = "register" THEN Replies(r, "conflict") ELSE Goes(r, "rereading")
            /\ UNCHANGED accounts
       ELSE /\ accounts' = accounts \cup {account}
            /\ IF req[r].kind = "register"
               THEN req' = [req EXCEPT ![r].phase = "opening", ![r].account = account]
               ELSE ActsAs(r, account)
    /\ UNCHANGED <<sessions, tokens, threadVars>>

\* The loser of a race to create the single-user identity reads the winner's.
RereadLocal(r) ==
    /\ At(r, "me", "rereading")
    /\ IF Credentials(Local) = Absent THEN Replies(r, "conflict")
       ELSE ActsAs(r, Credentials(Local))
    /\ UNCHANGED <<accountVars, threadVars>>

\* create_session: expired rows are deleted, a fresh token is stored.
CreateSession(r) ==
    /\ At(r, "register", "opening") \/ At(r, "login", "opening")
    /\ tokens' = tokens + 1
    /\ sessions' = {s \in sessions : ~ s.expired}
                   \cup {[token |-> tokens + 1, user |-> req[r].account.id, expired |-> FALSE]}
    /\ req' = [req EXCEPT ![r].phase = "replied", ![r].reply = "ok", ![r].token = tokens + 1]
    /\ UNCHANGED <<accounts, threadVars>>

\* get_account_by_session: an unexpired session joined with its account.
ResolveSession(r) ==
    LET open == {s \in sessions : s.token = req[r].token /\ ~ s.expired}
        owner == {a \in accounts : \E s \in open : s.user = a.id} IN
    /\ At(r, "me", "resolving")
    /\ IF owner = {} THEN Replies(r, "unauthenticated")
       ELSE ActsAs(r, CHOOSE a \in owner : TRUE)
    /\ UNCHANGED <<accountVars, threadVars>>

RevokeSession(r) ==
    /\ At(r, "logout", "revoking")
    /\ sessions' = {s \in sessions : s.token # req[r].token}
    /\ Replies(r, "gone")
    /\ UNCHANGED <<accounts, tokens, threadVars>>

\* A database call raises: the request fails where it stands, what it stored stays.
DatabaseFails(r) ==
    /\ Serves(r, AccountKinds)
    /\ req[r].phase \in {"reading", "creating", "rereading", "opening", "resolving", "revoking"}
    /\ failures < MaxFailures
    /\ failures' = failures + 1
    /\ Replies(r, "unavailable")
    /\ UNCHANGED <<accountVars, threadVars>>

SessionExpires ==
    \E s \in sessions :
        /\ ~ s.expired
        /\ sessions' = (sessions \ {s}) \cup {[s EXCEPT !.expired = TRUE]}
        /\ UNCHANGED <<accounts, tokens, req, threadVars>>

LeaveAccount(r) ==
    /\ Serves(r, AccountKinds) /\ req[r].phase = "replied"
    /\ req' = [req EXCEPT ![r] = Idle]
    /\ UNCHANGED <<accountVars, threadVars>>

AccountBegins(r) ==
    /\ \/ \E e \in Emails \cup {Malformed}, p \in Passwords :
              BeginRegister(r, e, p) \/ BeginLogin(r, e, p)
       \/ \E t \in 1 .. tokens \cup {Absent} : BeginMe(r, t) \/ BeginLogout(r, t)
    /\ UNCHANGED accountVars

AccountStep(r) ==
    \/ ReadCredentials(r) \/ Hashed(r) \/ CreateAccount(r) \/ RereadLocal(r)
    \/ CreateSession(r) \/ ResolveSession(r) \/ RevokeSession(r) \/ LeaveAccount(r)
=============================================================================
