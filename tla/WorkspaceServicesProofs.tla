----------------------- MODULE WorkspaceServicesProofs -----------------------
(***************************************************************************)
(* Accounts and sessions, and the batches of market data, for any clients, *)
(* symbols, numbers of requests and threads, and failures, while requests  *)
(* of both kinds share the event loop and the thread pool.                 *)
(*                                                                         *)
(* AccountsInv: the rows of the two tables (Ledger), and of every request  *)
(* in progress what its handler has established so far (AccountOK).  The   *)
(* thread pool does not occur in it: when the threads take or return jobs  *)
(* cannot matter to what the accounts are.                                 *)
(*                                                                         *)
(* BatchInv: the pool holds every job once and only jobs that a request    *)
(* awaits (PoolOK), so that a slot is not used again while a job of its    *)
(* former request may still report to it; and of every market request what *)
(* its tasks and its reply, if any, say of the symbols asked (BatchOK).    *)
(***************************************************************************)
EXTENDS WorkspaceServices, WellFoundedInduction, SequenceTheorems, FiniteSetTheorems, TLAPS

Addresses == Emails \cup {Malformed, Local}
Secrets   == Passwords \cup {Random}
Row       == [id : Nat, email : Addresses, password : Secrets]

\* An id is at most the number of accounts: the next one is fresh.
Ledger ==
    /\ IsFiniteSet(accounts) /\ accounts \subseteq Row
    /\ \A a \in accounts : a.id <= Cardinality(accounts)
    /\ \A a, b \in accounts : a.email = b.email \/ a.id = b.id => a = b
    /\ tokens \in Nat
    /\ \A s \in sessions : s = [token |-> s.token, user |-> s.user, expired |-> s.expired]
                           /\ s.token \in 1..tokens

\* The request acts as an account it gave the address and password of.
Owns(q, as) ==
    q.account \in as /\ q.account.email = q.email /\ q.account.password = q.password

\* What an account request knows of the accounts as, the sessions ss and the n
\* tokens issued.
AccountOK(q, as, ss, n, single) ==
    /\ q.kind \in AccountKinds
    /\ q = [kind |-> q.kind, email |-> q.email, password |-> q.password, token |-> q.token,
            phase |-> q.phase, account |-> q.account, reply |-> q.reply]
    /\ q.kind \in {"register", "login"} =>
          /\ q.email \in Addresses /\ q.password \in Secrets
          /\ q.kind = "login" /\ q.phase = "hashing" =>
                q.account = Absent \/ (q.account \in as /\ q.account.email = q.email)
          /\ q.phase = "opening" => Owns(q, as)
          /\ q.token # Absent =>
                /\ q.phase = "replied" /\ Owns(q, as) /\ q.token \in 1..n
                /\ \A s \in ss : s.token = q.token => s.user = q.account.id
    /\ q.kind = "me" =>
          /\ q.email = Local /\ q.password = Random
          /\ q.phase = "rereading" => \E a \in as : a.email = Local
          /\ single => q.phase # "resolving"
          /\ single /\ q.phase = "replied" /\ q.reply # "unavailable" =>
                q.account \in as /\ q.account.email = Local

MarketOK(q) ==
    q.kind \in MarketKinds /\ q = [f \in DOMAIN q |-> q[f]] /\ "kind" \in DOMAIN q

RequestOK(q, as, ss, n, single) == q = Idle \/ AccountOK(q, as, ss, n, single) \/ MarketOK(q)

AccountsInv ==
    /\ Ledger
    /\ req = [r \in Slots |-> req[r]]
    /\ \A r \in Slots : RequestOK(req[r], accounts, sessions, tokens, singleUser)

\* The tables only grow: rows stay, and sessions keep their users.
Grows(as, ss, n, bs, ts, m) ==
    /\ as \subseteq bs /\ n <= m
    /\ \A t \in ts : t.token > n \/ \E s \in ss : s.token = t.token /\ s.user = t.user

Names == {NormalForm[a] : a \in DOMAIN NormalForm}
Jobs  == Slots \X (Names \cup {Scrypt})

\* The jobs somebody awaits, whether or not a thread has taken them.
Pooled == busy \cup Range(queue)

\* A job is in the pool once.
PoolOK ==
    /\ queue \in Seq(Jobs) /\ busy \subseteq Jobs
    /\ IsInjective(queue) /\ Range(queue) \cap busy = {}

\* A request awaits its hashing job, or the lookup of a task that is at it.
Awaits(q, x) ==
    \/ q.kind \in AccountKinds /\ q.phase = "hashing" /\ x = Scrypt
    \/ q.kind \in MarketKinds /\ x \in DOMAIN q.task /\ q.task[x].is = "lookup"

Settled(task) == \A s \in DOMAIN task : task[s].is \in {"failed", "found"}

\* The items a batch answers with.
Items(symbols, task) == [i \in DOMAIN symbols |-> Snapshot(symbols[i], task[symbols[i]])]

\* A batch was refused, or has one task per symbol and a reply that tells of them.
Refused(q) ==
    /\ Invalid \in ToSet(q.symbols) /\ DOMAIN q.task = {} /\ q.reply = Error("invalid_symbol")

Working(q) ==
    /\ DOMAIN q.task = ToSet(q.symbols)
    /\ \A s \in DOMAIN q.task : q.task[s].is \in {"waiting", "lookup", "failed", "found"}
    /\ \/ q.reply = None
       \/ /\ q.reply = Error("internal_error")
          /\ \E s \in DOMAIN q.task : q.task[s].is = "found" /\ DividesByZero(q.task[s].history)
       \/ q.reply = Answered(Items(q.symbols, q.task)) /\ Settled(q.task)

\* What a market request is: a record with at least these fields, and tasks for
\* symbols of its own.
BatchOK(q) ==
    /\ q = [f \in DOMAIN q |-> q[f]]
    /\ {"kind", "asked", "symbols", "reply", "task"} \subseteq DOMAIN q
    /\ q.symbols \in Seq(Names)
    /\ q.task = [s \in DOMAIN q.task |-> q.task[s]] /\ DOMAIN q.task \subseteq ToSet(q.symbols)
    /\ q.kind = "snapshots" =>
          /\ q.asked \in Asks /\ q.symbols = Normalized(q.asked)
          /\ Refused(q) \/ Working(q)

BatchInv ==
    /\ PoolOK
    /\ \A job \in Pooled : Awaits(req[job[1]], job[2])
    /\ \A r \in Slots : Serves(r, MarketKinds) => BatchOK(req[r])
-----------------------------------------------------------------------------
\* What a request knows stays true when the tables grow.
LEMMA KnowledgeStays ==
    ASSUME NEW q, NEW as, NEW ss, NEW n \in Nat, NEW single, NEW bs, NEW ts, NEW m \in Nat,
           RequestOK(q, as, ss, n, single), Grows(as, ss, n, bs, ts, m)
    PROVE  RequestOK(q, bs, ts, m, single)
<1> SUFFICES ASSUME AccountOK(q, as, ss, n, single) PROVE AccountOK(q, bs, ts, m, single)
  BY DEF RequestOK
<1>1. as \subseteq bs /\ n <= m
  BY DEF Grows
<1>2. Owns(q, as) => Owns(q, bs)
  BY <1>1 DEF Owns
<1>3. ASSUME q.kind \in {"register", "login"}, q.token # Absent
      PROVE  /\ q.token \in 1..m
             /\ \A t \in ts : t.token = q.token => t.user = q.account.id
  <2>1. q.token \in 1..n /\ \A s \in ss : s.token = q.token => s.user = q.account.id
    BY <1>3 DEF AccountOK
  <2>2. ASSUME NEW t \in ts, t.token = q.token PROVE t.user = q.account.id
    <3>1. ~ (t.token > n)
      BY <2>1, <2>2
    <3>2. PICK s \in ss : s.token = t.token /\ s.user = t.user
      BY <3>1 DEF Grows
    <3> QED
      BY <2>1, <2>2, <3>2
  <2> QED
    BY <1>1, <2>1, <2>2
<1>4. \A a \in as : a \in bs
  BY <1>1
<1> QED
  BY <1>2, <1>3, <1>4 DEF AccountOK

\* A step that changes the request of one slot: the invariant is left to show of
\* that request, and of the tables.
LEMMA SlotStep ==
    ASSUME AccountsInv, Ledger', NEW r \in Slots, NEW x, req' = [req EXCEPT ![r] = x],
           singleUser' = singleUser,
           Grows(accounts, sessions, tokens, accounts', sessions', tokens'),
           RequestOK(x, accounts', sessions', tokens', singleUser)
    PROVE  AccountsInv'
<1>1. tokens \in Nat /\ tokens' \in Nat /\ req = [k \in Slots |-> req[k]]
  BY DEF AccountsInv, Ledger
<1>2. req' = [k \in Slots |-> req'[k]] /\ req'[r] = x /\ \A k \in Slots : k # r => req'[k] = req[k]
  BY <1>1
<1>3. ASSUME NEW k \in Slots
      PROVE  RequestOK(req'[k], accounts', sessions', tokens', singleUser')
  <2>1. CASE k = r
    BY <1>2, <2>1
  <2>2. CASE k # r
    <3>1. RequestOK(req[k], accounts, sessions, tokens, singleUser)
      BY DEF AccountsInv
    <3>2. RequestOK(req[k], accounts', sessions', tokens', singleUser)
      BY <1>1, <3>1, KnowledgeStays
    <3> QED
      BY <1>2, <2>2, <3>2
  <2> QED
    BY <2>1, <2>2
<1>4. \A k \in Slots : RequestOK(req[k], accounts, sessions, tokens, singleUser)'
  BY <1>3 DEF RequestOK, AccountOK, MarketOK
<1> QED
  BY <1>2, <1>4 DEF AccountsInv

\* Tables that do not change grow.
LEMMA SameTables ==
    ASSUME AccountsInv, accounts' = accounts, sessions' = sessions, tokens' = tokens
    PROVE  Ledger' /\ Grows(accounts, sessions, tokens, accounts', sessions', tokens')
<1>1. Ledger
  BY DEF AccountsInv
<1>2. Ledger'
  BY <1>1 DEF Ledger
<1>3. Grows(accounts, sessions, tokens, accounts, sessions, tokens)
  BY <1>1 DEF Ledger, Grows
<1> QED
  BY <1>2, <1>3

\* One request goes on and the tables are left alone.
LEMMA QuietStep ==
    ASSUME AccountsInv, UNCHANGED accountVars, singleUser' = singleUser,
           NEW r \in Slots, NEW x, req' = [req EXCEPT ![r] = x],
           RequestOK(x, accounts, sessions, tokens, singleUser)
    PROVE  AccountsInv'
<1>1. accounts' = accounts /\ sessions' = sessions /\ tokens' = tokens
  BY DEF accountVars
<1>2. Ledger' /\ Grows(accounts, sessions, tokens, accounts', sessions', tokens')
  BY <1>1, SameTables
<1>3. RequestOK(x, accounts', sessions', tokens', singleUser)
  BY <1>1
<1> QED
  BY <1>2, <1>3, SlotStep

\* A request that serves an account kind is one, and knows what AccountOK says.
LEMMA AccountRequest ==
    ASSUME AccountsInv, NEW r \in Slots, Serves(r, AccountKinds)
    PROVE  AccountOK(req[r], accounts, sessions, tokens, singleUser)
  BY DEF AccountsInv, RequestOK, MarketOK, Idle, Serves, AccountKinds, MarketKinds

\* The same of a market request.
LEMMA MarketRequest ==
    ASSUME AccountsInv, NEW r \in Slots, Serves(r, MarketKinds)
    PROVE  MarketOK(req[r])
  BY DEF AccountsInv, RequestOK, AccountOK, Idle, Serves, AccountKinds, MarketKinds

\* Where a handler stands tells what its request is.
LEMMA AtRequest ==
    ASSUME AccountsInv, NEW r \in Slots, NEW kind \in AccountKinds, NEW phase, At(r, kind, phase)
    PROVE  /\ AccountOK(req[r], accounts, sessions, tokens, singleUser)
           /\ req[r].kind = kind /\ req[r].phase = phase
<1>1. Serves(r, AccountKinds) /\ req[r].kind = kind /\ req[r].phase = phase
  BY DEF At, Serves
<1> QED
  BY <1>1, AccountRequest

-----------------------------------------------------------------------------
\* The request q with another phase, account, reply and token.
Now(q, phase, account, reply, token) ==
    [kind |-> q.kind, email |-> q.email, password |-> q.password, token |-> token,
     phase |-> phase, account |-> account, reply |-> reply]

\* The fields of a request that goes on.
LEMMA NowFields ==
    ASSUME NEW q, NEW phase, NEW account, NEW reply, NEW token
    PROVE  LET x == Now(q, phase, account, reply, token) IN
           /\ x = [kind |-> x.kind, email |-> x.email, password |-> x.password, token |-> x.token,
                   phase |-> x.phase, account |-> x.account, reply |-> x.reply]
           /\ x.kind = q.kind /\ x.email = q.email /\ x.password = q.password
           /\ x.token = token /\ x.phase = phase /\ x.account = account /\ x.reply = reply
  BY DEF Now

IsRequest(q) ==
    q = [kind |-> q.kind, email |-> q.email, password |-> q.password, token |-> q.token,
         phase |-> q.phase, account |-> q.account, reply |-> q.reply]

\* One field of a request changes.
LEMMA Update ==
    ASSUME NEW q, IsRequest(q), NEW v
    PROVE  /\ [q EXCEPT !.phase = v] = Now(q, v, q.account, q.reply, q.token)
           /\ [q EXCEPT !.account = v] = Now(q, q.phase, v, q.reply, q.token)
           /\ [q EXCEPT !.reply = v] = Now(q, q.phase, q.account, v, q.token)
           /\ [q EXCEPT !.token = v] = Now(q, q.phase, q.account, q.reply, v)
<1>1. [q EXCEPT !.phase = v] = Now(q, v, q.account, q.reply, q.token)
  BY DEF Now, IsRequest
<1>2. [q EXCEPT !.account = v] = Now(q, q.phase, v, q.reply, q.token)
  BY DEF Now, IsRequest
<1>3. [q EXCEPT !.reply = v] = Now(q, q.phase, q.account, v, q.token)
  BY DEF Now, IsRequest
<1>4. [q EXCEPT !.token = v] = Now(q, q.phase, q.account, q.reply, v)
  BY DEF Now, IsRequest
<1> QED
  BY <1>1, <1>2, <1>3, <1>4

\* A request that changed is a request, and changes again.
LEMMA Again ==
    ASSUME NEW q, NEW phase, NEW account, NEW reply, NEW token,
           NEW f, NEW a, NEW y, NEW t
    PROVE  /\ IsRequest(Now(q, phase, account, reply, token))
           /\ Now(Now(q, phase, account, reply, token), f, a, y, t) = Now(q, f, a, y, t)
  BY DEF IsRequest, Now

\* The phase and the reply change.
LEMMA ReplyUpdate ==
    ASSUME NEW q, IsRequest(q), NEW phase, NEW reply
    PROVE  [q EXCEPT !.phase = phase, !.reply = reply] = Now(q, phase, q.account, reply, q.token)
<1> DEFINE x == Now(q, phase, q.account, q.reply, q.token)
<1>1. [q EXCEPT !.phase = phase] = x
  BY Update
<1>2. IsRequest(x) /\ x.phase = phase /\ x.account = q.account /\ x.token = q.token
  BY NowFields DEF IsRequest
<1>3. Now(x, x.phase, x.account, reply, x.token) = Now(q, phase, q.account, reply, q.token)
  BY <1>2, Again
<1> HIDE DEF x
<1>4. [x EXCEPT !.reply = reply] = Now(q, phase, q.account, reply, q.token)
  BY <1>2, <1>3, Update
<1>5. [q EXCEPT !.phase = phase, !.reply = reply]
         = [[q EXCEPT !.phase = phase] EXCEPT !.reply = reply]
  OBVIOUS
<1> QED
  BY <1>1, <1>4, <1>5, Zenon

\* The phase and the account change.
LEMMA AccountUpdate ==
    ASSUME NEW q, IsRequest(q), NEW phase, NEW account
    PROVE  [q EXCEPT !.phase = phase, !.account = account] = Now(q, phase, account, q.reply, q.token)
<1> DEFINE x == Now(q, phase, q.account, q.reply, q.token)
<1>1. [q EXCEPT !.phase = phase] = x
  BY Update
<1>2. IsRequest(x) /\ x.phase = phase /\ x.reply = q.reply /\ x.token = q.token
  BY NowFields DEF IsRequest
<1>3. Now(x, x.phase, account, x.reply, x.token) = Now(q, phase, account, q.reply, q.token)
  BY <1>2, Again
<1> HIDE DEF x
<1>4. [x EXCEPT !.account = account] = Now(q, phase, account, q.reply, q.token)
  BY <1>2, <1>3, Update
<1>5. [q EXCEPT !.phase = phase, !.account = account]
         = [[q EXCEPT !.phase = phase] EXCEPT !.account = account]
  OBVIOUS
<1> QED
  BY <1>1, <1>4, <1>5, Zenon

\* The phase, the reply and the account change.
LEMMA IdentityUpdate ==
    ASSUME NEW q, IsRequest(q), NEW phase, NEW reply, NEW account
    PROVE  [q EXCEPT !.phase = phase, !.reply = reply, !.account = account]
              = Now(q, phase, account, reply, q.token)
<1> DEFINE x == Now(q, phase, q.account, reply, q.token)
<1>1. [q EXCEPT !.phase = phase, !.reply = reply] = x
  BY ReplyUpdate
<1>2. IsRequest(x) /\ x.phase = phase /\ x.reply = reply /\ x.token = q.token
  BY NowFields DEF IsRequest
<1>3. Now(x, x.phase, account, x.reply, x.token) = Now(q, phase, account, reply, q.token)
  BY <1>2, Again
<1> HIDE DEF x
<1>4. [x EXCEPT !.account = account] = Now(q, phase, account, reply, q.token)
  BY <1>2, <1>3, Update
<1>5. [q EXCEPT !.phase = phase, !.reply = reply, !.account = account]
         = [[q EXCEPT !.phase = phase, !.reply = reply] EXCEPT !.account = account]
  OBVIOUS
<1> QED
  BY <1>1, <1>4, <1>5, Zenon

\* The phase, the reply and the token change.
LEMMA TokenUpdate ==
    ASSUME NEW q, IsRequest(q), NEW phase, NEW reply, NEW token
    PROVE  [q EXCEPT !.phase = phase, !.reply = reply, !.token = token]
              = Now(q, phase, q.account, reply, token)
<1> DEFINE x == Now(q, phase, q.account, reply, q.token)
<1>1. [q EXCEPT !.phase = phase, !.reply = reply] = x
  BY ReplyUpdate
<1>2. IsRequest(x) /\ x.phase = phase /\ x.reply = reply /\ x.account = q.account
  BY NowFields DEF IsRequest
<1>3. Now(x, x.phase, x.account, x.reply, token) = Now(q, phase, q.account, reply, token)
  BY <1>2, Again
<1> HIDE DEF x
<1>4. [x EXCEPT !.token = token] = Now(x, x.phase, x.account, x.reply, token)
  BY <1>2, Update
<1>5. [q EXCEPT !.phase = phase, !.reply = reply, !.token = token]
         = [[q EXCEPT !.phase = phase, !.reply = reply] EXCEPT !.token = token]
  OBVIOUS
<1> QED
  BY <1>1, <1>3, <1>4, <1>5, Zenon

\* What the three ways to go on make of a request.
LEMMA GoesOn ==
    ASSUME NEW r, AccountOK(req[r], accounts, sessions, tokens, singleUser),
           NEW phase, NEW account, NEW reply
    PROVE  LET q == req[r] IN
           /\ Goes(r, phase) => req' = [req EXCEPT ![r] = Now(q, phase, q.account, q.reply, q.token)]
           /\ Replies(r, reply) =>
                req' = [req EXCEPT ![r] = Now(q, "replied", q.account, reply, q.token)]
           /\ ActsAs(r, account) =>
                req' = [req EXCEPT ![r] = Now(q, "replied", account, "ok", q.token)]
<1> DEFINE q == req[r]
<1>1. IsRequest(q)
  BY DEF AccountOK, IsRequest
<1> HIDE DEF q
<1>2. /\ [q EXCEPT !.phase = phase] = Now(q, phase, q.account, q.reply, q.token)
      /\ [q EXCEPT !.phase = "replied", !.reply = reply]
            = Now(q, "replied", q.account, reply, q.token)
      /\ [q EXCEPT !.phase = "replied", !.reply = "ok", !.account = account]
            = Now(q, "replied", account, "ok", q.token)
  <2>1. [q EXCEPT !.phase = phase] = Now(q, phase, q.account, q.reply, q.token)
    BY <1>1, Update
  <2>2. [q EXCEPT !.phase = "replied", !.reply = reply]
          = Now(q, "replied", q.account, reply, q.token)
    BY <1>1, ReplyUpdate
  <2>3. [q EXCEPT !.phase = "replied", !.reply = "ok", !.account = account]
          = Now(q, "replied", account, "ok", q.token)
    BY <1>1, IdentityUpdate
  <2> QED
    BY <2>1, <2>2, <2>3
<1>3. ASSUME Goes(r, phase)
      PROVE  req' = [req EXCEPT ![r] = Now(q, phase, q.account, q.reply, q.token)]
  <2>1. req' = [req EXCEPT ![r] = [q EXCEPT !.phase = phase]]
    BY <1>3 DEF Goes, q
  <2> QED
    BY <1>2, <2>1
<1>4. ASSUME Replies(r, reply)
      PROVE  req' = [req EXCEPT ![r] = Now(q, "replied", q.account, reply, q.token)]
  <2>1. req' = [req EXCEPT ![r] = [q EXCEPT !.phase = "replied", !.reply = reply]]
    BY <1>4 DEF Replies, q
  <2> QED
    BY <1>2, <2>1
<1>5. ASSUME ActsAs(r, account)
      PROVE  req' = [req EXCEPT ![r] = Now(q, "replied", account, "ok", q.token)]
  <2>1. req' = [req EXCEPT ![r] = [q EXCEPT !.phase = "replied", !.reply = "ok",
                                            !.account = account]]
    BY <1>5 DEF ActsAs, q
  <2> QED
    BY <1>2, <2>1
<1> QED
  BY <1>3, <1>4, <1>5 DEF q

\* get_credentials returns the account of an address if there is one.
LEMMA CredentialsFound ==
    ASSUME Ledger, NEW email
    PROVE  /\ Credentials(email) = Absent <=> WithEmail(email) = {}
           /\ Credentials(email) # Absent =>
                Credentials(email) \in accounts /\ Credentials(email).email = email
<1>1. WithEmail(email) # {} => Credentials(email) \in WithEmail(email)
  BY DEF Credentials
<1>2. WithEmail(email) = {} => Credentials(email) = Absent
  BY DEF Credentials
<1>3. \A a \in WithEmail(email) : a \in accounts /\ a.email = email /\ a # Absent
  BY AbsentAssumption DEF WithEmail, Ledger, Row, Addresses, Secrets
<1> QED
  BY <1>1, <1>2, <1>3

\* An account request begins.
LEMMA AccountBeginsStep ==
    ASSUME AccountsInv, NEW r \in Slots, AccountBegins(r), singleUser' = singleUser
    PROVE  AccountsInv'
<1>1. UNCHANGED accountVars
  BY DEF AccountBegins
<1> DEFINE fresh(x) == req' = [req EXCEPT ![r] = x]
           okay(x) == RequestOK(x, accounts, sessions, tokens, singleUser)
<1>2. ASSUME NEW e \in Emails \cup {Malformed}, NEW p \in Passwords, BeginRegister(r, e, p)
      PROVE  \E x : fresh(x) /\ okay(x)
  <2> DEFINE x == Request("register", e, p, Absent, "hashing")
  <2>1. fresh(x)
    BY <1>2 DEF BeginRegister, Begin
  <2>2. AccountOK(x, accounts, sessions, tokens, singleUser)
    BY DEF Request, AccountOK, AccountKinds, Addresses, Secrets
  <2> QED
    BY <2>1, <2>2 DEF RequestOK
<1>3. ASSUME NEW e \in Emails \cup {Malformed}, NEW p \in Passwords, BeginLogin(r, e, p)
      PROVE  \E x : fresh(x) /\ okay(x)
  <2> DEFINE x == Now([kind |-> "login", email |-> e, password |-> p],
                      IF e = Malformed THEN "replied" ELSE "reading", Absent,
                      IF e = Malformed THEN "invalid" ELSE "", Absent)
  <2>1. fresh(x)
    <3>1. CASE e = Malformed
      <4>1. [Request("login", e, p, Absent, "replied") EXCEPT !.reply = "invalid"] = x
        <5> DEFINE y == Request("login", e, p, Absent, "replied")
        <5>1. /\ IsRequest(y) /\ y.kind = "login" /\ y.email = e /\ y.password = p
              /\ y.phase = "replied" /\ y.account = Absent /\ y.token = Absent
          BY DEF Request, IsRequest
        <5> HIDE DEF y
        <5>2. [y EXCEPT !.reply = "invalid"] = Now(y, y.phase, y.account, "invalid", y.token)
          BY <5>1, Update
        <5>3. Now(y, y.phase, y.account, "invalid", y.token) = x
          BY <3>1, <5>1 DEF Now
        <5> QED
          BY <5>2, <5>3 DEF y
      <4> HIDE DEF x
      <4> QED
        BY <1>3, <3>1, <4>1 DEF BeginLogin, Begin
    <3>2. CASE e # Malformed
      BY <1>3, <3>2 DEF BeginLogin, Begin, Request, Now
    <3> QED
      BY <3>1, <3>2
  <2>2. AccountOK(x, accounts, sessions, tokens, singleUser)
    BY DEF Now, AccountOK, AccountKinds, Addresses, Secrets
  <2> QED
    BY <2>1, <2>2 DEF RequestOK
<1>4. ASSUME NEW t \in 1 .. tokens \cup {Absent}, BeginMe(r, t)
      PROVE  \E x : fresh(x) /\ okay(x)
  <2> DEFINE x == Request("me", Local, Random, t, IF singleUser THEN "reading" ELSE "resolving")
  <2>1. fresh(x)
    BY <1>4 DEF BeginMe, Begin
  <2>2. AccountOK(x, accounts, sessions, tokens, singleUser)
    BY DEF Request, AccountOK, AccountKinds
  <2> QED
    BY <2>1, <2>2 DEF RequestOK
<1>5. ASSUME NEW t \in 1 .. tokens \cup {Absent}, BeginLogout(r, t)
      PROVE  \E x : fresh(x) /\ okay(x)
  <2> DEFINE x == Request("logout", Absent, Absent, t, "revoking")
  <2>1. fresh(x)
    BY <1>5 DEF BeginLogout, Begin
  <2>2. AccountOK(x, accounts, sessions, tokens, singleUser)
    BY DEF Request, AccountOK, AccountKinds
  <2> QED
    BY <2>1, <2>2 DEF RequestOK
<1>6. PICK x : fresh(x) /\ okay(x)
  BY <1>2, <1>3, <1>4, <1>5 DEF AccountBegins
<1> QED
  BY <1>1, <1>6, QuietStep

\* The credentials are read.
LEMMA ReadCredentialsStep ==
    ASSUME AccountsInv, NEW r \in Slots, ReadCredentials(r), singleUser' = singleUser
    PROVE  AccountsInv'
<1> DEFINE q == req[r]
           found == Credentials(q.email)
<1>1. UNCHANGED accountVars
  BY DEF ReadCredentials
<1>2. found # Absent => found \in accounts /\ found.email = q.email
  BY CredentialsFound DEF AccountsInv
<1>3. CASE /\ At(r, "login", "reading")
           /\ req' = [req EXCEPT ![r].phase = "hashing", ![r].account = found]
  <2> DEFINE x == Now(q, "hashing", found, q.reply, q.token)
  <2>1. /\ AccountOK(q, accounts, sessions, tokens, singleUser)
        /\ q.kind = "login" /\ q.phase = "reading"
    BY <1>3, AtRequest DEF AccountKinds
  <2> HIDE DEF q, found
  <2>2. [q EXCEPT !.phase = "hashing", !.account = found] = x
    <3>1. IsRequest(q)
      BY <2>1 DEF AccountOK, IsRequest
    <3> QED
      BY <3>1, AccountUpdate
  <2>3. req' = [req EXCEPT ![r] = [q EXCEPT !.phase = "hashing", !.account = found]]
    BY <1>3 DEF q
  <2>4. req' = [req EXCEPT ![r] = x]
    BY <2>2, <2>3
  <2>5. AccountOK(x, accounts, sessions, tokens, singleUser)
    <3>1. q.token = Absent
      BY <2>1 DEF AccountOK
    <3> HIDE DEF x
    <3>2. /\ x.kind = "login" /\ x.email = q.email /\ x.password = q.password
          /\ x.phase = "hashing" /\ x.account = found /\ x.token = Absent
          /\ x = [kind |-> x.kind, email |-> x.email, password |-> x.password, token |-> x.token,
                  phase |-> x.phase, account |-> x.account, reply |-> x.reply]
      BY <2>1, <3>1 DEF x, Now
    <3> QED
      BY <1>2, <2>1, <3>2 DEF AccountOK
  <2> QED
    BY <1>1, <2>4, <2>5, QuietStep DEF RequestOK
<1>4. CASE At(r, "me", "reading") /\ Goes(r, "hashing")
  <2> DEFINE x == Now(q, "hashing", q.account, q.reply, q.token)
  <2>1. /\ AccountOK(q, accounts, sessions, tokens, singleUser)
        /\ q.kind = "me" /\ q.phase = "reading"
    BY <1>4, AtRequest DEF AccountKinds
  <2>2. req' = [req EXCEPT ![r] = x]
    BY <1>4, <2>1, GoesOn
  <2> HIDE DEF q
  <2>3. AccountOK(x, accounts, sessions, tokens, singleUser)
    BY <2>1, NowFields DEF AccountOK
  <2> QED
    BY <1>1, <2>2, <2>3, QuietStep DEF RequestOK
<1>5. CASE At(r, "me", "reading") /\ ActsAs(r, found) /\ found # Absent
  <2> DEFINE x == Now(q, "replied", found, "ok", q.token)
  <2>1. /\ AccountOK(q, accounts, sessions, tokens, singleUser)
        /\ q.kind = "me" /\ q.phase = "reading"
    BY <1>5, AtRequest DEF AccountKinds
  <2>2. req' = [req EXCEPT ![r] = x]
    BY <1>5, <2>1, GoesOn
  <2> HIDE DEF q, found
  <2>3. AccountOK(x, accounts, sessions, tokens, singleUser)
    BY <1>2, <1>5, <2>1, NowFields DEF AccountOK
  <2> QED
    BY <1>1, <2>2, <2>3, QuietStep DEF RequestOK
<1> QED
  BY <1>3, <1>4, <1>5 DEF ReadCredentials

\* A password is hashed or verified.
LEMMA HashedStep ==
    ASSUME AccountsInv, NEW r \in Slots, Hashed(r), singleUser' = singleUser
    PROVE  AccountsInv'
<1> DEFINE q == req[r]
<1>1. UNCHANGED accountVars /\ Serves(r, AccountKinds) /\ q.phase = "hashing"
  BY DEF Hashed
<1>2. AccountOK(q, accounts, sessions, tokens, singleUser)
  BY <1>1, AccountRequest
<1>3. CASE q.kind = "login" /\ Valid(r) /\ Goes(r, "opening")
  <2> DEFINE x == Now(q, "opening", q.account, q.reply, q.token)
  <2>1. req' = [req EXCEPT ![r] = x]
    BY <1>2, <1>3, GoesOn
  <2>2. q.account # Absent /\ q.account.password = q.password
    BY <1>3 DEF Valid
  <2> HIDE DEF q
  <2>3. Owns(q, accounts) /\ q.token = Absent
    BY <1>1, <1>2, <1>3, <2>2 DEF AccountOK, Owns
  <2>4. AccountOK(x, accounts, sessions, tokens, singleUser)
    BY <1>2, <1>3, <2>3, NowFields DEF AccountOK, Owns
  <2> QED
    BY <1>1, <2>1, <2>4, QuietStep DEF RequestOK
<1>4. ASSUME q.kind \in {"login", "register"}, NEW reply, Replies(r, reply) PROVE AccountsInv'
  <2> DEFINE x == Now(q, "replied", q.account, reply, q.token)
  <2>1. req' = [req EXCEPT ![r] = x]
    BY <1>2, <1>4, GoesOn
  <2> HIDE DEF q
  <2>2. q.token = Absent
    BY <1>1, <1>2, <1>4 DEF AccountOK
  <2>3. AccountOK(x, accounts, sessions, tokens, singleUser)
    BY <1>2, <1>4, <2>2, NowFields DEF AccountOK
  <2> QED
    BY <1>1, <2>1, <2>3, QuietStep DEF RequestOK
<1>5. CASE q.kind # "login" /\ Goes(r, "creating")
  <2> DEFINE x == Now(q, "creating", q.account, q.reply, q.token)
  <2>1. req' = [req EXCEPT ![r] = x]
    BY <1>2, <1>5, GoesOn
  <2> HIDE DEF q
  <2>2. q.kind = "register" => q.token = Absent
    BY <1>1, <1>2 DEF AccountOK
  <2>3. AccountOK(x, accounts, sessions, tokens, singleUser)
    BY <1>2, <1>5, <2>2, NowFields DEF AccountOK
  <2> QED
    BY <1>1, <2>1, <2>3, QuietStep DEF RequestOK
<1>6. \/ q.kind = "login" /\ Valid(r) /\ Goes(r, "opening")
      \/ q.kind = "login" /\ Replies(r, "refused")
      \/ q.kind = "register" /\ Replies(r, "invalid")
      \/ q.kind # "login" /\ Goes(r, "creating")
  BY DEF Hashed
<1> QED
  BY <1>3, <1>4, <1>5, <1>6

\* An address is taken, or its account is new.
LEMMA CreateAccountStep ==
    ASSUME AccountsInv, NEW r \in Slots, CreateAccount(r), singleUser' = singleUser
    PROVE  AccountsInv'
<1> DEFINE q == req[r]
           account == [id |-> Cardinality(accounts) + 1, email |-> q.email, password |-> q.password]
<1>1. /\ At(r, "register", "creating") \/ At(r, "me", "creating")
      /\ sessions' = sessions /\ tokens' = tokens
  BY DEF CreateAccount
<1>2. /\ AccountOK(q, accounts, sessions, tokens, singleUser)
      /\ q.kind \in {"register", "me"} /\ q.phase = "creating"
  BY <1>1, AtRequest DEF AccountKinds
<1>3. q.kind = "register" => q.token = Absent
  BY <1>2 DEF AccountOK
<1>4. q.email \in Addresses /\ q.password \in Secrets
  BY <1>2 DEF AccountOK, Addresses, Secrets
<1>5. CASE Taken(q.email) /\ accounts' = accounts
  <2>1. UNCHANGED accountVars
    BY <1>1, <1>5 DEF accountVars
  <2>2. CASE q.kind = "register" /\ Replies(r, "conflict")
    <3> DEFINE x == Now(q, "replied", q.account, "conflict", q.token)
    <3>1. req' = [req EXCEPT ![r] = x]
      BY <1>2, <2>2, GoesOn
    <3> HIDE DEF q
    <3>2. AccountOK(x, accounts, sessions, tokens, singleUser)
      BY <1>2, <1>3, <2>2, NowFields DEF AccountOK
    <3> QED
      BY <2>1, <3>1, <3>2, QuietStep DEF RequestOK
  <2>3. CASE q.kind # "register" /\ Goes(r, "rereading")
    <3> DEFINE x == Now(q, "rereading", q.account, q.reply, q.token)
    <3>1. req' = [req EXCEPT ![r] = x]
      BY <1>2, <2>3, GoesOn
    <3>2. \E a \in accounts : a.email = q.email
      BY <1>5 DEF Taken, WithEmail
    <3> HIDE DEF q
    <3>3. q.kind = "me" /\ q.email = Local
      BY <1>2, <2>3 DEF AccountOK
    <3>4. AccountOK(x, accounts, sessions, tokens, singleUser)
      BY <1>2, <3>2, <3>3, NowFields DEF AccountOK
    <3> QED
      BY <2>1, <3>1, <3>4, QuietStep DEF RequestOK
  <2> QED
    BY <1>5, <2>2, <2>3 DEF CreateAccount
<1>6. CASE ~ Taken(q.email) /\ accounts' = accounts \cup {account}
  <2>1. Ledger
    BY DEF AccountsInv
  <2>2. \A a \in accounts : a.email # q.email
    BY <1>6 DEF Taken, WithEmail
  <2>3. /\ Cardinality(accounts) \in Nat
        /\ account.id = Cardinality(accounts) + 1 /\ account.email = q.email
        /\ account.password = q.password /\ account \in Row
    <3>1. Cardinality(accounts) \in Nat
      BY <2>1, FS_CardinalityType DEF Ledger
    <3> QED
      BY <1>4, <3>1 DEF Row
  <2> HIDE DEF account, q
  <2>4. account \notin accounts
    BY <2>2, <2>3
  <2>5. IsFiniteSet(accounts') /\ Cardinality(accounts') = Cardinality(accounts) + 1
    BY <1>6, <2>1, <2>4, FS_AddElement DEF Ledger
  <2>6. Ledger'
    <3>1. \A a \in accounts : a.id <= Cardinality(accounts) /\ a.id \in Nat
      BY <2>1 DEF Ledger, Row
    <3>2. \A a \in accounts' : a.id <= Cardinality(accounts')
      BY <1>6, <2>3, <2>5, <3>1
    <3>3. \A a, b \in accounts' : a.email = b.email \/ a.id = b.id => a = b
      <4> SUFFICES ASSUME NEW a \in accounts', NEW b \in accounts', a.email = b.email \/ a.id = b.id
                   PROVE  a = b
        OBVIOUS
      <4>1. CASE a \in accounts /\ b \in accounts
        BY <2>1, <4>1 DEF Ledger
      <4>2. CASE a \in accounts /\ b = account
        BY <2>2, <2>3, <3>1, <4>2
      <4>3. CASE a = account /\ b \in accounts
        BY <2>2, <2>3, <3>1, <4>3
      <4> QED
        BY <1>6, <4>1, <4>2, <4>3
    <3>4. accounts' \subseteq Row
      BY <1>6, <2>1, <2>3 DEF Ledger
    <3> QED
      BY <1>1, <2>1, <2>5, <3>2, <3>3, <3>4 DEF Ledger
  <2>7. Grows(accounts, sessions, tokens, accounts', sessions', tokens')
    BY <1>1, <1>6, <2>1 DEF Ledger, Grows
  <2>8. CASE /\ q.kind = "register"
             /\ req' = [req EXCEPT ![r].phase = "opening", ![r].account = account]
    <3> DEFINE x == Now(q, "opening", account, q.reply, q.token)
    <3>1. IsRequest(q)
      BY <1>2 DEF AccountOK, IsRequest
    <3>2. [q EXCEPT !.phase = "opening", !.account = account] = x
      BY <3>1, AccountUpdate
    <3>3. req' = [req EXCEPT ![r] = [q EXCEPT !.phase = "opening", !.account = account]]
      BY <2>8 DEF q
    <3>4. req' = [req EXCEPT ![r] = x]
      BY <3>2, <3>3
    <3>5. account \in accounts'
      BY <1>6
    <3>6. AccountOK(x, accounts', sessions', tokens', singleUser)
      BY <1>2, <1>3, <1>4, <2>3, <2>8, <3>5, NowFields DEF AccountOK, Owns
    <3> QED
      BY <2>6, <2>7, <3>4, <3>6, SlotStep DEF RequestOK
  <2>9. CASE q.kind # "register" /\ ActsAs(r, account)
    <3> DEFINE x == Now(q, "replied", account, "ok", q.token)
    <3>1. req' = [req EXCEPT ![r] = x]
      BY <1>2, <2>9, GoesOn DEF q
    <3>2. account \in accounts' /\ q.kind = "me" /\ q.email = Local
      BY <1>2, <1>6, <2>9 DEF AccountOK
    <3>3. AccountOK(x, accounts', sessions', tokens', singleUser)
      BY <1>2, <2>3, <3>2, NowFields DEF AccountOK
    <3> QED
      BY <2>6, <2>7, <3>1, <3>3, SlotStep DEF RequestOK
  <2> QED
    BY <1>6, <2>8, <2>9 DEF CreateAccount, q, account
<1> QED
  BY <1>5, <1>6 DEF CreateAccount

\* The loser of the race finds the account of the winner.
LEMMA RereadLocalStep ==
    ASSUME AccountsInv, NEW r \in Slots, RereadLocal(r), singleUser' = singleUser
    PROVE  AccountsInv'
<1> DEFINE q == req[r]
           found == Credentials(Local)
           x == Now(q, "replied", found, "ok", q.token)
<1>1. UNCHANGED accountVars /\ At(r, "me", "rereading")
  BY DEF RereadLocal
<1>2. /\ AccountOK(q, accounts, sessions, tokens, singleUser)
      /\ q.kind = "me" /\ q.phase = "rereading"
  BY <1>1, AtRequest DEF AccountKinds
<1>3. WithEmail(Local) # {}
  BY <1>2 DEF AccountOK, WithEmail
<1>4. found # Absent /\ found \in accounts /\ found.email = Local
  BY <1>3, CredentialsFound DEF AccountsInv
<1>5. ActsAs(r, found)
  BY <1>4 DEF RereadLocal
<1>6. req' = [req EXCEPT ![r] = x]
  BY <1>2, <1>5, GoesOn
<1> HIDE DEF q, found
<1>7. AccountOK(x, accounts, sessions, tokens, singleUser)
  BY <1>2, <1>4, NowFields DEF AccountOK
<1> QED
  BY <1>1, <1>6, <1>7, QuietStep DEF RequestOK

\* A session is opened under a fresh token.
LEMMA CreateSessionStep ==
    ASSUME AccountsInv, NEW r \in Slots, CreateSession(r), singleUser' = singleUser
    PROVE  AccountsInv'
<1> DEFINE q == req[r]
           session == [token |-> tokens + 1, user |-> q.account.id, expired |-> FALSE]
           x == Now(q, "replied", q.account, "ok", tokens + 1)
<1>1. /\ At(r, "register", "opening") \/ At(r, "login", "opening")
      /\ tokens' = tokens + 1 /\ accounts' = accounts
      /\ sessions' = {s \in sessions : ~ s.expired} \cup {session}
      /\ req' = [req EXCEPT ![r].phase = "replied", ![r].reply = "ok", ![r].token = tokens + 1]
  BY DEF CreateSession
<1>2. /\ AccountOK(q, accounts, sessions, tokens, singleUser)
      /\ q.kind \in {"register", "login"} /\ q.phase = "opening"
  BY <1>1, AtRequest DEF AccountKinds
<1>3. Ledger
  BY DEF AccountsInv
<1>4. /\ session.token = tokens + 1 /\ session.user = q.account.id
      /\ session = [token |-> session.token, user |-> session.user, expired |-> session.expired]
  OBVIOUS
<1>5. req' = [req EXCEPT ![r] = [q EXCEPT !.phase = "replied", !.reply = "ok", !.token = tokens + 1]]
  BY <1>1
<1> HIDE DEF q, session
<1>6. [q EXCEPT !.phase = "replied", !.reply = "ok", !.token = tokens + 1] = x
  <2>1. IsRequest(q)
    BY <1>2 DEF AccountOK, IsRequest
  <2>2. \A f, y, n : [q EXCEPT !.phase = f, !.reply = y, !.token = n]
                       = Now(q, f, q.account, y, n)
    BY <2>1, TokenUpdate
  <2> QED
    BY <2>2
<1>7. req' = [req EXCEPT ![r] = x]
  BY <1>5, <1>6
<1>8. \A s \in sessions' : s = session \/ s \in sessions
  BY <1>1
<1>9. tokens \in Nat /\ \A s \in sessions : s.token \in 1..tokens
  BY <1>3 DEF Ledger
<1>10. Ledger'
  <2>1. \A s \in sessions' : s = [token |-> s.token, user |-> s.user, expired |-> s.expired]
    BY <1>3, <1>4, <1>8 DEF Ledger
  <2>2. \A s \in sessions' : s.token \in 1..tokens'
    BY <1>1, <1>4, <1>8, <1>9
  <2> QED
    BY <1>1, <1>3, <1>9, <2>1, <2>2 DEF Ledger
<1>11. Grows(accounts, sessions, tokens, accounts', sessions', tokens')
  <2>1. ASSUME NEW t \in sessions'
        PROVE  t.token > tokens \/ \E s \in sessions : s.token = t.token /\ s.user = t.user
    BY <1>4, <1>8, <1>9
  <2> QED
    BY <1>1, <1>9, <2>1 DEF Grows
<1>12. Owns(q, accounts)
  BY <1>2 DEF AccountOK
<1>13. AccountOK(x, accounts', sessions', tokens', singleUser)
  <2>1. tokens + 1 \in 1..tokens'
    BY <1>1, <1>9
  <2>2. \A s \in sessions' : s.token = tokens + 1 => s.user = q.account.id
    BY <1>4, <1>8, <1>9
  <2>3. /\ x.kind = q.kind /\ x.email = q.email /\ x.password = q.password
        /\ x.token = tokens + 1 /\ x.phase = "replied" /\ x.account = q.account
        /\ x = [kind |-> x.kind, email |-> x.email, password |-> x.password, token |-> x.token,
                phase |-> x.phase, account |-> x.account, reply |-> x.reply]
    BY NowFields
  <2>4. Owns(x, accounts')
    BY <1>1, <1>12, <2>3 DEF Owns
  <2> HIDE DEF x
  <2> QED
    BY <1>2, <2>1, <2>2, <2>3, <2>4 DEF AccountOK
<1> QED
  BY <1>7, <1>10, <1>11, <1>13, SlotStep DEF RequestOK

\* A token is looked up.
LEMMA ResolveSessionStep ==
    ASSUME AccountsInv, NEW r \in Slots, ResolveSession(r), singleUser' = singleUser
    PROVE  AccountsInv'
<1> DEFINE q == req[r]
<1>1. UNCHANGED accountVars /\ At(r, "me", "resolving")
  BY DEF ResolveSession
<1>2. /\ AccountOK(q, accounts, sessions, tokens, singleUser)
      /\ q.kind = "me" /\ q.phase = "resolving"
  BY <1>1, AtRequest DEF AccountKinds
<1>3. ~ singleUser
  BY <1>2 DEF AccountOK
<1>4. PICK account, reply :
         req' = [req EXCEPT ![r] = Now(q, "replied", account, reply, q.token)]
  <2>1. Replies(r, "unauthenticated") \/ \E account : ActsAs(r, account)
    BY DEF ResolveSession
  <2>2. ASSUME Replies(r, "unauthenticated")
        PROVE  req' = [req EXCEPT ![r] = Now(q, "replied", q.account, "unauthenticated", q.token)]
    BY <1>2, <2>2, GoesOn
  <2>3. ASSUME NEW account, ActsAs(r, account)
        PROVE  req' = [req EXCEPT ![r] = Now(q, "replied", account, "ok", q.token)]
    BY <1>2, <2>3, GoesOn
  <2> HIDE DEF q
  <2> QED
    BY <2>1, <2>2, <2>3
<1> DEFINE x == Now(q, "replied", account, reply, q.token)
<1> HIDE DEF q
<1>5. AccountOK(x, accounts, sessions, tokens, singleUser)
  BY <1>2, <1>3, NowFields DEF AccountOK
<1> QED
  BY <1>1, <1>4, <1>5, QuietStep DEF RequestOK, q

\* A session is deleted.
LEMMA RevokeSessionStep ==
    ASSUME AccountsInv, NEW r \in Slots, RevokeSession(r), singleUser' = singleUser
    PROVE  AccountsInv'
<1> DEFINE q == req[r]
           x == Now(q, "replied", q.account, "gone", q.token)
<1>1. /\ At(r, "logout", "revoking") /\ Replies(r, "gone")
      /\ accounts' = accounts /\ tokens' = tokens /\ sessions' \subseteq sessions
  BY DEF RevokeSession
<1>2. AccountOK(q, accounts, sessions, tokens, singleUser) /\ q.kind = "logout"
  BY <1>1, AtRequest DEF AccountKinds
<1>3. req' = [req EXCEPT ![r] = x]
  BY <1>1, <1>2, GoesOn
<1>4. Ledger /\ tokens \in Nat
  BY DEF AccountsInv, Ledger
<1>5. Ledger'
  BY <1>1, <1>4 DEF Ledger
<1>6. Grows(accounts, sessions, tokens, accounts', sessions', tokens')
  BY <1>1, <1>4 DEF Grows
<1> HIDE DEF q
<1>7. AccountOK(x, accounts', sessions', tokens', singleUser)
  BY <1>2, NowFields DEF AccountOK
<1> QED
  BY <1>3, <1>5, <1>6, <1>7, SlotStep DEF RequestOK

\* The client has its answer.
LEMMA LeaveStep ==
    ASSUME AccountsInv, NEW r \in Slots, UNCHANGED accountVars, singleUser' = singleUser,
           req' = [req EXCEPT ![r] = Idle]
    PROVE  AccountsInv'
  BY QuietStep DEF RequestOK

\* A database call raises: what the request was given it had before.
LEMMA DatabaseFailsStep ==
    ASSUME AccountsInv, NEW r \in Slots, DatabaseFails(r), singleUser' = singleUser
    PROVE  AccountsInv'
<1> DEFINE q == req[r]
           x == Now(q, "replied", q.account, "unavailable", q.token)
<1>1. /\ Serves(r, AccountKinds) /\ q.phase # "replied" /\ Replies(r, "unavailable")
      /\ UNCHANGED accountVars
  BY DEF DatabaseFails
<1>2. AccountOK(q, accounts, sessions, tokens, singleUser)
  BY <1>1, AccountRequest
<1>3. req' = [req EXCEPT ![r] = x]
  BY <1>1, <1>2, GoesOn
<1> HIDE DEF q
<1>4. AccountOK(x, accounts, sessions, tokens, singleUser)
  BY <1>1, <1>2, NowFields DEF AccountOK
<1> QED
  BY <1>1, <1>3, <1>4, QuietStep DEF RequestOK

\* Requests stand still while the tables grow.
LEMMA TablesStep ==
    ASSUME AccountsInv, Ledger', req' = req, singleUser' = singleUser,
           Grows(accounts, sessions, tokens, accounts', sessions', tokens')
    PROVE  AccountsInv'
<1>1. tokens \in Nat /\ tokens' \in Nat
  BY DEF AccountsInv, Ledger
<1>2. ASSUME NEW k \in Slots
      PROVE  RequestOK(req'[k], accounts', sessions', tokens', singleUser')
  <2>1. RequestOK(req[k], accounts, sessions, tokens, singleUser)
    BY DEF AccountsInv
  <2> QED
    BY <1>1, <2>1, KnowledgeStays
<1>3. \A k \in Slots : RequestOK(req[k], accounts, sessions, tokens, singleUser)'
  BY <1>2 DEF RequestOK, AccountOK, MarketOK
<1> QED
  BY <1>3 DEF AccountsInv

\* A session expires.
LEMMA SessionExpiresStep ==
    ASSUME AccountsInv, SessionExpires, singleUser' = singleUser
    PROVE  AccountsInv'
<1>1. PICK s \in sessions : sessions' = (sessions \ {s}) \cup {[s EXCEPT !.expired = TRUE]}
  BY DEF SessionExpires
<1>2. accounts' = accounts /\ tokens' = tokens /\ req' = req
  BY DEF SessionExpires
<1>3. Ledger /\ s = [token |-> s.token, user |-> s.user, expired |-> s.expired] /\ tokens \in Nat
  BY DEF AccountsInv, Ledger
<1> DEFINE old == [s EXCEPT !.expired = TRUE]
<1>4. /\ old.token = s.token /\ old.user = s.user
      /\ old = [token |-> old.token, user |-> old.user, expired |-> old.expired]
  <2>1. PICK a, b, c : s = [token |-> a, user |-> b, expired |-> c]
    BY <1>3
  <2>2. \A v : [s EXCEPT !.expired = v] = [token |-> a, user |-> b, expired |-> v]
    BY <2>1
  <2>3. s.token = a /\ s.user = b
    BY <2>1
  <2>4. old = [token |-> a, user |-> b, expired |-> TRUE]
    BY <2>2, Zenon
  <2> HIDE DEF old
  <2> QED
    BY <2>3, <2>4
<1> HIDE DEF old
<1>5. \A t \in sessions' : t = old \/ t \in sessions
  BY <1>1 DEF old
<1>6. Ledger'
  BY <1>2, <1>3, <1>4, <1>5 DEF Ledger
<1>7. Grows(accounts, sessions, tokens, accounts', sessions', tokens')
  BY <1>2, <1>3, <1>4, <1>5 DEF Grows
<1> QED
  BY <1>2, <1>6, <1>7, TablesStep

\* A market request stays one.
LEMMA MarketTaskStep ==
    ASSUME AccountsInv, NEW r \in Slots, Serves(r, MarketKinds),
           UNCHANGED accountVars, singleUser' = singleUser,
           \/ \E task : req' = [req EXCEPT ![r] = [req[r] EXCEPT !.task = task]]
           \/ \E task, reply : req' = [req EXCEPT ![r] = [req[r] EXCEPT !.task = task, !.reply = reply]]
    PROVE  AccountsInv'
<1> DEFINE q == req[r]
<1>1. MarketOK(q)
  BY MarketRequest
<1> HIDE DEF q
<1>2. ASSUME NEW task PROVE MarketOK([q EXCEPT !.task = task])
  BY <1>1 DEF MarketOK
<1>3. ASSUME NEW p, MarketOK(p), NEW reply PROVE MarketOK([p EXCEPT !.reply = reply])
  BY <1>3 DEF MarketOK
<1>4. \A task, reply : [q EXCEPT !.task = task, !.reply = reply]
                          = [[q EXCEPT !.task = task] EXCEPT !.reply = reply]
  OBVIOUS
<1>5. PICK x : req' = [req EXCEPT ![r] = x] /\ MarketOK(x)
  <2>1. CASE \E task : req' = [req EXCEPT ![r] = [q EXCEPT !.task = task]]
    BY <1>2, <2>1
  <2>2. ASSUME NEW task, NEW reply,
               req' = [req EXCEPT ![r] = [q EXCEPT !.task = task, !.reply = reply]]
        PROVE  \E x : req' = [req EXCEPT ![r] = x] /\ MarketOK(x)
    <3>1. MarketOK([[q EXCEPT !.task = task] EXCEPT !.reply = reply])
      BY <1>2, <1>3
    <3>2. MarketOK([q EXCEPT !.task = task, !.reply = reply])
      BY <1>4, <3>1
    <3> QED
      BY <2>2, <3>2
  <2> QED
    BY <2>1, <2>2 DEF q
<1> QED
  BY <1>5, QuietStep DEF RequestOK

\* A market request begins.
LEMMA MarketBeginsStep ==
    ASSUME AccountsInv, NEW r \in Slots, MarketBegins(r), UNCHANGED accountVars,
           singleUser' = singleUser
    PROVE  AccountsInv'
<1>1. ASSUME NEW kind \in MarketKinds, NEW asked, BeginMarket(r, kind, asked)
      PROVE  \E x : req' = [req EXCEPT ![r] = x] /\ MarketOK(x)
  <2>1. PICK symbols, reply, task :
           req' = [req EXCEPT ![r] = [kind |-> kind, asked |-> asked, symbols |-> symbols,
                                      reply |-> reply, task |-> task]]
    BY <1>1 DEF BeginMarket, Begin
  <2>2. MarketOK([kind |-> kind, asked |-> asked, symbols |-> symbols, reply |-> reply,
                  task |-> task])
    BY DEF MarketOK
  <2> QED
    BY <2>1, <2>2
<1>2. ASSUME NEW query, NEW asked, BeginDataset(r, query, asked)
      PROVE  \E x : req' = [req EXCEPT ![r] = x] /\ MarketOK(x)
  <2>1. PICK symbols, reply, task :
           req' = [req EXCEPT ![r] = [kind |-> "dataset", query |-> query, asked |-> asked,
                                      symbols |-> symbols, reply |-> reply, task |-> task]]
    BY <1>2 DEF BeginDataset, Begin
  <2>2. MarketOK([kind |-> "dataset", query |-> query, asked |-> asked, symbols |-> symbols,
                  reply |-> reply, task |-> task])
    BY DEF MarketOK, MarketKinds
  <2> QED
    BY <2>1, <2>2
<1>3. PICK x : req' = [req EXCEPT ![r] = x] /\ MarketOK(x)
  BY <1>1, <1>2 DEF MarketBegins
<1> QED
  BY <1>3, QuietStep DEF RequestOK

\* A market request goes on, or is over.
LEMMA MarketStepStep ==
    ASSUME AccountsInv, NEW r \in Slots, MarketStep(r), UNCHANGED accountVars,
           singleUser' = singleUser
    PROVE  AccountsInv'
<1>1. ASSUME NEW s, NEW outcome, Serves(r, MarketKinds), Settle(r, s, outcome)
      PROVE  AccountsInv'
  <2>1. PICK task, reply : req' = [req EXCEPT ![r].task = task, ![r].reply = reply]
    BY <1>1 DEF Settle
  <2>2. req' = [req EXCEPT ![r] = [req[r] EXCEPT !.task = task, !.reply = reply]]
    BY <2>1
  <2> QED
    BY <1>1, <2>2, MarketTaskStep
<1>2. CASE StartLookup(r)
  <2>1. PICK next : req' = [req EXCEPT ![r].task[next] = Lookup]
    BY <1>2 DEF StartLookup
  <2>2. req' = [req EXCEPT ![r] = [req[r] EXCEPT !.task = [req[r].task EXCEPT ![next] = Lookup]]]
    BY <2>1
  <2>3. Serves(r, MarketKinds)
    BY <1>2 DEF StartLookup
  <2> QED
    BY <2>2, <2>3, MarketTaskStep
<1>3. CASE LeaveMarket(r)
  BY <1>3, LeaveStep DEF LeaveMarket
<1>4. ASSUME NEW s \in Symbols, LookupReturns(r, s) PROVE AccountsInv'
  BY <1>1, <1>4 DEF LookupReturns
<1>5. ASSUME NEW s \in Symbols, LookupTimesOut(r, s) PROVE AccountsInv'
  BY <1>1, <1>5 DEF LookupTimesOut
<1> QED
  BY <1>2, <1>3, <1>4, <1>5 DEF MarketStep

\* The invariant holds of a process that serves nobody yet.
LEMMA InitHasInv == Init => AccountsInv
<1> SUFFICES ASSUME Init PROVE AccountsInv
  OBVIOUS
<1>1. accounts = {} /\ sessions = {} /\ tokens = 0 /\ req = [r \in Slots |-> Idle]
  BY DEF Init, AccountsInit
<1>2. IsFiniteSet({}) /\ Cardinality({}) = 0
  BY FS_EmptySet
<1> QED
  BY <1>1, <1>2 DEF AccountsInv, Ledger, RequestOK

\* Every step keeps it.
LEMMA NextKeepsInv == AccountsInv /\ [Next]_vars => AccountsInv'
<1> SUFFICES ASSUME AccountsInv, [Next]_vars PROVE AccountsInv'
  OBVIOUS
<1>1. ASSUME NEW r \in Slots, AccountBegins(r), UNCHANGED <<singleUser, failures>>
      PROVE  AccountsInv'
  BY <1>1, AccountBeginsStep
<1>2. ASSUME NEW r \in Slots, MarketBegins(r), UNCHANGED <<singleUser, failures, accountVars>>
      PROVE  AccountsInv'
  BY <1>2, MarketBeginsStep
<1>3. ASSUME NEW r \in Slots, AccountStep(r), UNCHANGED <<begun, singleUser, failures>>
      PROVE  AccountsInv'
  <2>1. CASE LeaveAccount(r)
    BY <1>3, <2>1, LeaveStep DEF LeaveAccount
  <2> QED
    BY <1>3, <2>1, ReadCredentialsStep, HashedStep, CreateAccountStep, RereadLocalStep,
       CreateSessionStep, ResolveSessionStep, RevokeSessionStep DEF AccountStep
<1>4. ASSUME NEW r \in Slots, DatabaseFails(r), UNCHANGED <<begun, singleUser>>
      PROVE  AccountsInv'
  BY <1>4, DatabaseFailsStep
<1>5. ASSUME NEW r \in Slots, MarketStep(r), UNCHANGED <<begun, singleUser, failures, accountVars>>
      PROVE  AccountsInv'
  BY <1>5, MarketStepStep
<1>6. CASE SessionExpires /\ UNCHANGED <<begun, singleUser, failures>>
  BY <1>6, SessionExpiresStep
<1>7. ASSUME req' = req, singleUser' = singleUser, UNCHANGED accountVars PROVE AccountsInv'
  <2>1. accounts' = accounts /\ sessions' = sessions /\ tokens' = tokens
    BY <1>7 DEF accountVars
  <2> QED
    BY <1>7, <2>1, SameTables, TablesStep
<1>8. CASE UNCHANGED vars
  BY <1>7, <1>8 DEF vars
<1>9. CASE (ThreadTakes \/ AbandonedReturns) /\ UNCHANGED <<req, begun, singleUser, failures, accountVars>>
  BY <1>7, <1>9
<1> QED
  BY <1>1, <1>2, <1>3, <1>4, <1>5, <1>6, <1>8, <1>9 DEF Next

\* For any clients, passwords, request slots and threads and any number of
\* requests and database failures, the tables and what every request knows of
\* them are as AccountsInv describes.
THEOREM AccountsInvariant == Spec => []AccountsInv
<1>1. Init => AccountsInv
  BY InitHasInv
<1>2. AccountsInv /\ [Next]_vars => AccountsInv'
  BY NextKeepsInv
<1> QED
  BY <1>1, <1>2, PTL DEF Spec

\* IdentitiesAreSound: one account per address and per id; a request with a
\* session gave its account's address and password, and the session is that
\* account's; single-user requests act as the one local account.
THEOREM IdentitiesStaySound == Spec => []IdentitiesAreSound
<1>1. AccountsInv => IdentitiesAreSound
  <2> SUFFICES ASSUME AccountsInv PROVE IdentitiesAreSound
    OBVIOUS
  <2>1. \A a, b \in accounts : a.email = b.email \/ a.id = b.id => a = b
    BY DEF AccountsInv, Ledger
  <2>2. ASSUME NEW r \in Slots, Serves(r, {"register", "login"}), req[r].token # Absent
        PROVE  /\ req[r].account \in accounts
               /\ req[r].account.email = req[r].email
               /\ req[r].account.password = req[r].password
               /\ \A s \in sessions : s.token = req[r].token => s.user = req[r].account.id
    <3>1. Serves(r, AccountKinds) /\ req[r].kind \in {"register", "login"}
      BY <2>2 DEF Serves, AccountKinds
    <3>2. AccountOK(req[r], accounts, sessions, tokens, singleUser)
      BY <3>1, AccountRequest
    <3> QED
      BY <2>2, <3>1, <3>2 DEF AccountOK, Owns
  <2>3. ASSUME NEW r \in Slots, singleUser, At(r, "me", "replied"), req[r].reply # "unavailable"
        PROVE  req[r].account \in WithEmail(Local)
    <3>1. /\ AccountOK(req[r], accounts, sessions, tokens, singleUser)
          /\ req[r].kind = "me" /\ req[r].phase = "replied"
      BY <2>3, AtRequest DEF AccountKinds
    <3> QED
      BY <2>3, <3>1 DEF AccountOK, WithEmail
  <2> QED
    BY <2>1, <2>2, <2>3 DEF IdentitiesAreSound
<1> QED
  BY <1>1, AccountsInvariant, PTL

-----------------------------------------------------------------------------
\* A set of natural numbers that is not empty has a least element, and Min is it.
LEMMA MinIsLeast ==
    ASSUME NEW T, T \subseteq Nat, T # {}
    PROVE  Min(T) \in T /\ \A y \in T : Min(T) <= y
<1> DEFINE R == OpToRel(<, Nat)
<1>1. IsWellFoundedOn(R, Nat)
  BY NatLessThanWellFounded
<1>2. \A y, z \in Nat : y < z => <<y, z>> \in R
  BY DEF OpToRel
<1> HIDE DEF R
<1>3. PICK m \in T : \A y \in T : ~ (<<y, m>> \in R)
  BY <1>1, WFMin
<1>4. \A y \in T : m <= y
  <2> SUFFICES ASSUME NEW y \in T, ~ (m <= y) PROVE FALSE
    OBVIOUS
  <2>1. y \in Nat /\ m \in Nat /\ y < m
    OBVIOUS
  <2>2. <<y, m>> \in R
    BY <1>2, <2>1, Zenon
  <2> QED
    BY <1>3, <2>2, Zenon
<1> QED
  BY <1>4 DEF Min

\* Appending a new value keeps a sequence without duplicates.
LEMMA AppendDistinct ==
    ASSUME NEW S, NEW s \in Seq(S), NEW e \in S, IsInjective(s), e \notin Range(s)
    PROVE  /\ Append(s, e) \in Seq(S) /\ IsInjective(Append(s, e))
           /\ Len(Append(s, e)) = Len(s) + 1
           /\ Range(Append(s, e)) = Range(s) \cup {e}
<1>0. PICK u : u = Append(s, e)
  OBVIOUS
<1>1. /\ u \in Seq(S) /\ Len(u) = Len(s) + 1
      /\ \A i \in 1..Len(s) : u[i] = s[i]
      /\ u[Len(s) + 1] = e
  BY <1>0
<1>2. DOMAIN u = 1..(Len(s) + 1) /\ DOMAIN s = 1..Len(s) /\ Len(s) \in Nat
  BY <1>1
<1>3. \A i \in 1..Len(s) : s[i] \in Range(s) /\ s[i] # e
  BY <1>2 DEF Range
<1>4. IsInjective(u)
  BY <1>1, <1>2, <1>3 DEF IsInjective
<1>5. Range(u) = Range(s) \cup {e}
  BY <1>1, <1>2 DEF Range
<1> QED
  BY <1>0, <1>1, <1>4, <1>5

\* So does the removal of a value.
LEMMA RemoveDistinct ==
    ASSUME NEW S, NEW s \in Seq(S), NEW e, IsInjective(s)
    PROVE  /\ RemoveFirst(s, e) \in Seq(S) /\ IsInjective(RemoveFirst(s, e))
           /\ Range(RemoveFirst(s, e)) = Range(s) \ {e}
           /\ Len(RemoveFirst(s, e)) = IF e \in Range(s) THEN Len(s) - 1 ELSE Len(s)
<1> DEFINE T == {i \in 1..Len(s) : s[i] = e}
<1>0. Len(s) \in Nat /\ DOMAIN s = 1..Len(s) /\ \A i \in 1..Len(s) : s[i] \in S
  OBVIOUS
<1>1. CASE T = {}
  <2>1. RemoveFirst(s, e) = s
    BY <1>1 DEF RemoveFirst
  <2>2. e \notin Range(s)
    BY <1>0, <1>1 DEF Range
  <2> QED
    BY <2>1, <2>2
<1>2. CASE T # {}
  <2>1. PICK k : k = Min(T)
    OBVIOUS
  <2>2. k \in T
    <3>1. T \subseteq Nat
      BY <1>0
    <3> HIDE DEF T
    <3> QED BY <3>1, <2>1, <1>2, MinIsLeast
  <2>3. k \in 1..Len(s) /\ s[k] = e
    BY <2>2
  <2>4. RemoveFirst(s, e) = RemoveAt(s, k)
    BY <1>2, <2>1 DEF RemoveFirst, SelectInSeq
  <2> DEFINE a == SubSeq(s, 1, k - 1)
             b == SubSeq(s, k + 1, Len(s))
             u == RemoveFirst(s, e)
  <2>5. /\ a \in Seq(S) /\ Len(a) = k - 1
        /\ \A i \in 1..(k - 1) : a[i] = s[i]
    <3>1. 1 \in Int /\ k - 1 \in Int /\ \A i \in 1..(k - 1) : s[i] \in S
      BY <2>3, <1>0
    <3>2. /\ a \in Seq(S) /\ Len(a) = IF 1 <= k - 1 THEN k - 1 - 1 + 1 ELSE 0
          /\ \A i \in 1..(k - 1 - 1 + 1) : a[i] = s[1 + i - 1]
      BY <3>1, SubSeqProperties
    <3> QED
      BY <3>2, <2>3, <1>0
  <2>6. /\ b \in Seq(S) /\ Len(b) = Len(s) - k
        /\ \A i \in 1..(Len(s) - k) : b[i] = s[k + i]
    <3>1. k + 1 \in Int /\ Len(s) \in Int /\ \A i \in (k + 1)..Len(s) : s[i] \in S
      BY <2>3, <1>0
    <3>2. /\ b \in Seq(S)
          /\ Len(b) = IF k + 1 <= Len(s) THEN Len(s) - (k + 1) + 1 ELSE 0
          /\ \A i \in 1..(Len(s) - (k + 1) + 1) : b[i] = s[k + 1 + i - 1]
      BY <3>1, SubSeqProperties
    <3> QED
      BY <3>2, <2>3, <1>0
  <2>7. u = a \o b
    BY <2>4 DEF RemoveAt
  <2> HIDE DEF a, b, u, T
  <2>8. /\ u \in Seq(S) /\ Len(u) = Len(s) - 1 /\ DOMAIN u = 1..(Len(s) - 1)
        /\ \A i \in 1..(Len(s) - 1) : u[i] = IF i < k THEN a[i] ELSE b[i - (k - 1)]
    <3>1. /\ u \in Seq(S) /\ Len(u) = Len(a) + Len(b)
          /\ \A i \in 1..(Len(a) + Len(b)) :
                u[i] = IF i <= Len(a) THEN a[i] ELSE b[i - Len(a)]
      BY <2>5, <2>6, <2>7, ConcatProperties
    <3>2. DOMAIN u = 1..Len(u)
      BY <3>1
    <3> QED
      BY <3>1, <3>2, <2>3, <2>5, <2>6, <1>0
  <2>9. \A i \in 1..(Len(s) - 1) : u[i] = s[IF i < k THEN i ELSE i + 1]
    <3> TAKE i \in 1..(Len(s) - 1)
    <3>1. CASE i < k
      BY <3>1, <2>3, <2>5, <2>8, <1>0
    <3>2. CASE ~(i < k)
      <4>1. i - (k - 1) \in 1..(Len(s) - k) /\ k + (i - (k - 1)) = i + 1
        BY <3>2, <2>3, <1>0
      <4> QED
        BY <3>2, <4>1, <2>6, <2>8
    <3> QED
      BY <3>1, <3>2
  <2>10. IsInjective(u)
    <3> SUFFICES ASSUME NEW i \in 1..(Len(s) - 1), NEW j \in 1..(Len(s) - 1), u[i] = u[j]
                 PROVE  i = j
      BY <2>8 DEF IsInjective
    <3> DEFINE f(m) == IF m < k THEN m ELSE m + 1
    <3>1. f(i) \in 1..Len(s) /\ f(j) \in 1..Len(s) /\ (f(i) = f(j) => i = j)
      BY <2>3, <1>0
    <3>2. u[i] = s[f(i)] /\ u[j] = s[f(j)]
      BY <2>9
    <3> HIDE DEF f
    <3> QED
      BY <3>1, <3>2, <1>0 DEF IsInjective
  <2>11. Range(u) \subseteq Range(s) \ {e}
    <3> SUFFICES ASSUME NEW i \in 1..(Len(s) - 1) PROVE u[i] \in Range(s) \ {e}
      BY <2>8 DEF Range
    <3>1. PICK m \in 1..Len(s) : m # k /\ u[i] = s[m]
      <4> DEFINE m == IF i < k THEN i ELSE i + 1
      <4>1. m \in 1..Len(s) /\ m # k
        BY <2>3, <1>0
      <4>2. u[i] = s[m]
        BY <2>9
      <4> HIDE DEF m
      <4> QED BY <4>1, <4>2
    <3> QED
      BY <3>1, <2>3, <1>0 DEF IsInjective, Range
  <2>12. Range(s) \ {e} \subseteq Range(u)
    <3> SUFFICES ASSUME NEW i \in 1..Len(s), s[i] # e PROVE s[i] \in Range(u)
      BY <1>0 DEF Range
    <3>1. CASE i < k
      <4>1. i \in DOMAIN u /\ u[i] = s[i]
        BY <3>1, <2>3, <2>8, <2>9, <1>0
      <4> QED
        BY <4>1 DEF Range
    <3>2. CASE i > k
      <4>1. i - 1 \in DOMAIN u /\ u[i - 1] = s[i]
        BY <3>2, <2>3, <2>8, <2>9, <1>0
      <4> QED
        BY <4>1 DEF Range
    <3> QED
      BY <3>1, <3>2, <2>3, <1>0
  <2>13. e \in Range(s)
    BY <2>3, <1>0 DEF Range
  <2> QED
    BY <2>8, <2>10, <2>11, <2>12, <2>13 DEF u
<1> QED
  BY <1>1, <1>2

\* The newest of a sequence without duplicates, and the others.
LEMMA TailDistinct ==
    ASSUME NEW S, NEW s \in Seq(S), IsInjective(s), s # <<>>
    PROVE  /\ Tail(s) \in Seq(S) /\ IsInjective(Tail(s)) /\ Len(Tail(s)) = Len(s) - 1
           /\ Range(Tail(s)) \subseteq Range(s)
<1>1. /\ Tail(s) \in Seq(S) /\ Len(Tail(s)) = Len(s) - 1 /\ Len(s) \in Nat
      /\ DOMAIN s = 1..Len(s) /\ DOMAIN Tail(s) = 1..(Len(s) - 1)
      /\ \A i \in 1..(Len(s) - 1) : Tail(s)[i] = s[i + 1]
  OBVIOUS
<1>2. IsInjective(Tail(s))
  BY <1>1 DEF IsInjective
<1> QED
  BY <1>1, <1>2 DEF Range

\* The place of a member among the members of a set of numbers.
Rank(keep, i) == Cardinality({j \in keep : j <= i})

\* Ranks are numbers up to the size of the set, and grow with the members.
LEMMA RankFacts ==
    ASSUME NEW n \in Nat, NEW keep, keep \subseteq 1..n
    PROVE  /\ Cardinality(keep) \in Nat
           /\ \A i \in keep : Rank(keep, i) \in 1..Cardinality(keep)
           /\ \A i, k \in keep : Rank(keep, i) = Rank(keep, k) => i = k
           /\ \A i, k \in keep : Rank(keep, i) < Rank(keep, k) => i < k
<1>1. IsFiniteSet(keep)
  <2>1. IsFiniteSet(1..n)
    BY FS_Interval
  <2> QED
    BY <2>1, FS_Subset
<1>2. Cardinality(keep) \in Nat
  BY <1>1, FS_CardinalityType
<1> DEFINE upto(i) == {j \in keep : j <= i}
<1>3. ASSUME NEW i \in keep
      PROVE  /\ IsFiniteSet(upto(i)) /\ Cardinality(upto(i)) \in Nat
             /\ Cardinality(upto(i)) <= Cardinality(keep)
  <2>1. upto(i) \in SUBSET keep
    OBVIOUS
  <2> HIDE DEF upto
  <2> QED
    BY <1>1, <2>1, FS_Subset, FS_CardinalityType
<1>4. ASSUME NEW i \in keep PROVE Cardinality(upto(i)) # 0
  <2>1. i \in upto(i)
    OBVIOUS
  <2> HIDE DEF upto
  <2> QED
    BY <1>3, <2>1, FS_EmptySet
<1>5. ASSUME NEW i \in keep, NEW k \in keep, i < k, Cardinality(upto(i)) = Cardinality(upto(k))
      PROVE  FALSE
  <2>a. i \in Nat /\ k \in Nat /\ \A j \in keep : j \in Nat
    OBVIOUS
  <2>b. k \in upto(k) /\ k \notin upto(i)
    BY <1>5, <2>a
  <2>c. \A j \in upto(i) : j \in upto(k)
    BY <1>5, <2>a
  <2>1. upto(i) \in SUBSET upto(k) /\ k \in upto(k) /\ k \notin upto(i)
    BY <2>b, <2>c, Zenon
  <2> HIDE DEF upto
  <2>2. upto(k) = upto(i)
    BY <1>3, <1>5, <2>1, FS_Subset
  <2> QED
    BY <2>1, <2>2
<1>6. \A i \in keep : Rank(keep, i) = Cardinality(upto(i))
  BY DEF Rank
<1> HIDE DEF upto
<1>7. \A i \in keep : Rank(keep, i) \in 1..Cardinality(keep)
  BY <1>2, <1>3, <1>4, <1>6
<1>8. ASSUME NEW i \in keep, NEW k \in keep, Rank(keep, i) = Rank(keep, k) PROVE i = k
  <2>1. ~ (i < k) /\ ~ (k < i)
    BY <1>5, <1>6, <1>8
  <2> QED
    BY <2>1
<1>9. ASSUME NEW i \in keep, NEW k \in keep, Rank(keep, i) < Rank(keep, k) PROVE i < k
  <2> SUFFICES ASSUME k < i PROVE FALSE
    BY <1>7, <1>9
  <2>1. \A j \in keep : j \in Nat
    OBVIOUS
  <2>2. \A j \in upto(k) : j \in upto(i)
    BY <2>1 DEF upto
  <2>3. upto(k) \in SUBSET upto(i)
    BY <2>2, Zenon
  <2>4. Cardinality(upto(k)) <= Cardinality(upto(i))
    BY <1>3, <2>3, FS_Subset
  <2> QED
    BY <1>3, <1>6, <1>9, <2>4
<1> QED
  BY <1>2, <1>7, <1>8, <1>9

\* Every place among the members of a set of numbers is taken by one of them.
LEMMA RankFilled ==
    ASSUME NEW n \in Nat, NEW keep, keep \subseteq 1..n, NEW k \in 1..Cardinality(keep)
    PROVE  \E i \in keep : Rank(keep, i) = k
<1>1. IsFiniteSet(keep) /\ Cardinality(keep) \in Nat /\ keep \subseteq Nat
  <2>1. IsFiniteSet(1..n)
    BY FS_Interval
  <2>2. IsFiniteSet(keep)
    BY <2>1, FS_Subset
  <2> QED
    BY <2>2, FS_CardinalityType
<1> DEFINE Filled(j) == \E r \in keep : Rank(keep, r) = j
           Free == {j \in 1..Cardinality(keep) : ~ Filled(j)}
           UpTo(r) == {q \in keep : q <= r}
<1>2. Free = {}
  <2> SUFFICES ASSUME Free # {} PROVE FALSE
    OBVIOUS
  <2>1. Free \subseteq Nat
    BY <1>1
  <2>2. PICK m \in Free : \A j \in Free : m <= j
    <3> HIDE DEF Free
    <3> QED
      BY <2>1, MinIsLeast
  <2>3. m \in 1..Cardinality(keep) /\ ~ Filled(m)
    BY <2>2
  <2>4. PICK low \in SUBSET keep : /\ Cardinality(low) = m - 1 /\ IsFiniteSet(low)
                                   /\ \A q \in low, r \in keep \ low : q < r
    <3>1. CASE m = 1
      <4>1. IsFiniteSet({}) /\ Cardinality({}) = 0
        BY FS_EmptySet
      <4> QED
        BY <3>1, <4>1
    <3>2. CASE m # 1
      <4>1. m - 1 \in 1..Cardinality(keep) /\ ~ (m <= m - 1)
        BY <3>2, <2>3, <1>1
      <4>2. Filled(m - 1)
        BY <4>1, <2>2
      <4>3. PICK r \in keep : Cardinality(UpTo(r)) = m - 1
        BY <4>2 DEF Rank
      <4>4. UpTo(r) \in SUBSET keep
        OBVIOUS
      <4>5. \A q \in UpTo(r), y \in keep \ UpTo(r) : q < y
        BY <1>1
      <4> HIDE DEF UpTo
      <4>6. IsFiniteSet(UpTo(r))
        BY <1>1, <4>4, FS_Subset
      <4> QED
        BY <4>3, <4>4, <4>5, <4>6
    <3> QED
      BY <3>1, <3>2
  <2>5. keep \ low # {}
    <3> SUFFICES ASSUME keep = low PROVE FALSE
      BY <2>4
    <3> QED
      BY <2>3, <2>4, <1>1
  <2>6. PICK r \in keep \ low : \A y \in keep \ low : r <= y
    <3>1. keep \ low \subseteq Nat
      BY <1>1
    <3> QED
      BY <2>5, <3>1, MinIsLeast
  <2>7. UpTo(r) = low \cup {r}
    <3>1. \A q \in keep : q <= r <=> (q \in low \/ q = r)
      <4> TAKE q \in keep
      <4>1. q \in Nat /\ r \in Nat
        BY <1>1
      <4>2. CASE q \in low
        BY <4>1, <4>2, <2>4
      <4>3. CASE q \notin low
        BY <4>1, <4>3, <2>6
      <4> QED
        BY <4>2, <4>3
    <3> QED
      BY <2>4, <2>6, <3>1
  <2>8. Cardinality(UpTo(r)) = m
    <3>1. Cardinality(low \cup {r}) = Cardinality(low) + 1
      BY <2>4, <2>6, FS_AddElement
    <3> HIDE DEF UpTo
    <3> QED
      BY <3>1, <2>3, <2>4, <2>7, <1>1
  <2>9. Rank(keep, r) = m
    BY <2>8 DEF Rank
  <2> QED
    BY <2>3, <2>6, <2>9
<1> QED
  BY <1>2

-----------------------------------------------------------------------------
\* Normalizing keeps each symbol asked for once, in the order of first mention.
LEMMA NormalizedFacts ==
    ASSUME NEW asked \in Seq(DOMAIN NormalForm)
    PROVE  /\ Normalized(asked) \in Seq(Names)
           /\ ToSet(Normalized(asked)) = {NormalForm[a] : a \in ToSet(asked)}
           /\ \A i, j \in DOMAIN Normalized(asked) : i < j =>
                 FirstAsked(asked, Normalized(asked)[i]) < FirstAsked(asked, Normalized(asked)[j])
<1> DEFINE name(i) == NormalForm[asked[i]]
           first == {i \in DOMAIN asked : \A j \in 1 .. i - 1 : name(j) # name(i)}
           at(n) == CHOOSE i \in first : Cardinality({j \in first : j <= i}) = n
           list  == [n \in 1 .. Cardinality(first) |-> name(at(n))]
           Same(i) == {j \in DOMAIN asked : name(j) = name(i)}
<1>1. Normalized(asked) = list
  BY DEF Normalized
<1>2. /\ Len(asked) \in Nat /\ DOMAIN asked = 1 .. Len(asked)
      /\ \A i \in 1 .. Len(asked) : asked[i] \in DOMAIN NormalForm
  OBVIOUS
<1>3. first \subseteq 1 .. Len(asked)
  BY <1>2
<1>4. \A i \in 1 .. Len(asked) : name(i) \in Names
  BY <1>2 DEF Names
<1>5. \A i, k \in 1 .. Len(asked) : i \in Same(k) <=> name(i) = name(k)
  BY <1>2
<1>6. \A k \in first, i \in 1 .. Len(asked) : name(i) = name(k) => ~ (i < k)
  BY <1>2
<1>7. \A k \in 1 .. Len(asked) :
         (\A i \in 1 .. Len(asked) : name(i) = name(k) => ~ (i < k)) => k \in first
  BY <1>2
<1>8. \A k : FirstAsked(asked, name(k)) = Min(Same(k))
  BY DEF FirstAsked
<1>9. \A k \in 1 .. Len(asked) : Same(k) \subseteq Nat /\ Same(k) # {}
  BY <1>2
<1> HIDE DEF first, name, Same
<1>10. \A k \in 1 .. Len(asked) : /\ Min(Same(k)) \in Same(k)
                                  /\ \A i \in Same(k) : Min(Same(k)) <= i
  BY <1>9, MinIsLeast
<1>11. \A k \in 1 .. Len(asked) : Same(k) \subseteq 1 .. Len(asked)
  BY <1>2 DEF Same
<1>12. \A k \in first : FirstAsked(asked, name(k)) = k
  <2> TAKE k \in first
  <2>1. PICK m : m = Min(Same(k))
    OBVIOUS
  <2>2. m \in Same(k) /\ (\A i \in Same(k) : m <= i) /\ k \in 1 .. Len(asked)
    BY <1>3, <1>10, <2>1
  <2>3. m \in 1 .. Len(asked) /\ name(m) = name(k) /\ m <= k
    BY <1>5, <1>11, <2>2
  <2>4. m = k
    BY <1>2, <1>6, <2>2, <2>3
  <2> QED
    BY <1>8, <2>1, <2>4
<1>13. \A k \in 1 .. Len(asked) : \E i \in first : name(i) = name(k)
  <2> TAKE k \in 1 .. Len(asked)
  <2>1. PICK m : m = Min(Same(k))
    OBVIOUS
  <2>2. m \in Same(k) /\ (\A i \in Same(k) : m <= i)
    BY <1>10, <2>1
  <2>3. m \in 1 .. Len(asked) /\ name(m) = name(k)
    BY <1>5, <1>11, <2>2
  <2>4. \A i \in 1 .. Len(asked) : name(i) = name(m) => ~ (i < m)
    BY <1>2, <1>5, <2>2, <2>3
  <2> QED
    BY <1>7, <2>3, <2>4
<1>14. /\ Cardinality(first) \in Nat
       /\ \A i \in first : Rank(first, i) \in 1 .. Cardinality(first)
       /\ \A i, k \in first : Rank(first, i) = Rank(first, k) => i = k
       /\ \A i, k \in first : Rank(first, i) < Rank(first, k) => i < k
  BY <1>2, <1>3, RankFacts
<1>15. \A n \in 1 .. Cardinality(first) : at(n) \in first /\ Rank(first, at(n)) = n
  <2> TAKE n \in 1 .. Cardinality(first)
  <2>1. \E i \in first : Rank(first, i) = n
    BY <1>2, <1>3, RankFilled
  <2>2. \E i \in first : Cardinality({j \in first : j <= i}) = n
    BY <2>1 DEF Rank
  <2>3. at(n) \in first /\ Cardinality({j \in first : j <= at(n)}) = n
    BY <2>2
  <2> QED
    BY <2>3 DEF Rank
<1> HIDE DEF at
<1>16. \A k \in first : at(Rank(first, k)) = k
  BY <1>14, <1>15
<1>17. DOMAIN list = 1 .. Cardinality(first) /\ list \in Seq(Names)
       /\ \A n \in 1 .. Cardinality(first) : list[n] = name(at(n))
  <2>1. \A n \in 1 .. Cardinality(first) : name(at(n)) \in Names
    BY <1>3, <1>4, <1>15
  <2>2. list \in [1 .. Cardinality(first) -> Names]
    BY <2>1
  <2> QED
    BY <1>14, <2>2
<1> HIDE DEF list
<1>18. \A i, j \in DOMAIN list : i < j =>
          FirstAsked(asked, list[i]) < FirstAsked(asked, list[j])
  <2> TAKE i, j \in DOMAIN list
  <2> HAVE i < j
  <2>1. at(i) < at(j)
    BY <1>14, <1>15, <1>17
  <2> QED
    BY <1>12, <1>15, <1>17, <2>1
<1>19. ToSet(list) = {NormalForm[a] : a \in ToSet(asked)}
  <2>1. ASSUME NEW n \in DOMAIN list PROVE list[n] \in {NormalForm[a] : a \in ToSet(asked)}
    <3>1. at(n) \in 1 .. Len(asked) /\ list[n] = NormalForm[asked[at(n)]]
      BY <1>3, <1>15, <1>17 DEF name
    <3> QED
      BY <1>2, <3>1 DEF ToSet
  <2>2. ASSUME NEW a \in ToSet(asked) PROVE NormalForm[a] \in ToSet(list)
    <3>1. PICK k \in 1 .. Len(asked) : a = asked[k]
      BY <1>2 DEF ToSet
    <3>2. PICK i \in first : name(i) = NormalForm[a]
      BY <1>13, <3>1 DEF name
    <3>3. Rank(first, i) \in DOMAIN list /\ list[Rank(first, i)] = NormalForm[a]
      BY <1>14, <1>16, <1>17, <3>2
    <3> QED
      BY <3>3 DEF ToSet
  <2> QED
    BY <2>1, <2>2 DEF ToSet
<1> QED
  BY <1>1, <1>17, <1>18, <1>19

-----------------------------------------------------------------------------
\* A job that is not in the pool is submitted.
LEMMA PoolSubmits ==
    ASSUME PoolOK, NEW job \in Jobs, job \notin Pooled, Submit(job)
    PROVE  PoolOK' /\ Pooled' = Pooled \cup {job}
<1>1. queue' = Append(queue, job) /\ busy' = busy
  BY DEF Submit
<1>2. queue \in Seq(Jobs) /\ IsInjective(queue) /\ job \notin Range(queue) /\ job \notin busy
  BY DEF PoolOK, Pooled
<1>3. /\ Append(queue, job) \in Seq(Jobs) /\ IsInjective(Append(queue, job))
      /\ Range(Append(queue, job)) = Range(queue) \cup {job}
  BY <1>2, AppendDistinct
<1>4. queue' \in Seq(Jobs) /\ IsInjective(queue') /\ Range(queue') = Range(queue) \cup {job}
  BY <1>1, <1>3
<1>5. busy \subseteq Jobs /\ Range(queue) \cap busy = {}
  BY DEF PoolOK
<1> QED
  BY <1>1, <1>2, <1>4, <1>5 DEF PoolOK, Pooled

\* A thread takes a job: it stays in the pool.
LEMMA PoolTakes ==
    ASSUME PoolOK, ThreadTakes
    PROVE  PoolOK' /\ Pooled' = Pooled
<1>1. queue # <<>> /\ busy' = busy \cup {Head(queue)} /\ queue' = Tail(queue)
  BY DEF ThreadTakes
<1>2. queue \in Seq(Jobs) /\ IsInjective(queue)
  BY DEF PoolOK
<1>3. /\ Tail(queue) \in Seq(Jobs) /\ IsInjective(Tail(queue))
      /\ Range(Tail(queue)) \subseteq Range(queue)
  BY <1>1, <1>2, TailDistinct
<1>4. /\ Len(queue) \in Nat \ {0} /\ DOMAIN queue = 1 .. Len(queue) /\ Head(queue) = queue[1]
      /\ DOMAIN Tail(queue) = 1 .. (Len(queue) - 1)
      /\ \A i \in 1 .. (Len(queue) - 1) : Tail(queue)[i] = queue[i + 1]
      /\ \A i \in 1 .. Len(queue) : queue[i] \in Jobs
  BY <1>1, <1>2
<1>5. Head(queue) \in Range(queue) /\ Head(queue) \in Jobs
  BY <1>4 DEF Range
<1>6. Head(queue) \notin Range(Tail(queue))
  <2> SUFFICES ASSUME NEW i \in 1 .. (Len(queue) - 1), queue[1] = queue[i + 1] PROVE FALSE
    BY <1>4 DEF Range
  <2>1. 1 \in DOMAIN queue /\ i + 1 \in DOMAIN queue /\ i + 1 # 1
    BY <1>4
  <2> QED
    BY <1>2, <2>1 DEF IsInjective
<1>7. \A job \in Range(queue) : job = Head(queue) \/ job \in Range(Tail(queue))
  <2> SUFFICES ASSUME NEW i \in 1 .. Len(queue), i # 1 PROVE queue[i] \in Range(Tail(queue))
    BY <1>4 DEF Range
  <2>1. i - 1 \in DOMAIN Tail(queue) /\ Tail(queue)[i - 1] = queue[i]
    BY <1>4
  <2> QED
    BY <2>1 DEF Range
<1>8. queue' \in Seq(Jobs) /\ IsInjective(queue') /\ Range(queue') = Range(Tail(queue))
  BY <1>1, <1>3
<1>9. busy \subseteq Jobs /\ Range(queue) \cap busy = {}
  BY DEF PoolOK
<1> QED
  BY <1>1, <1>3, <1>5, <1>6, <1>7, <1>8, <1>9 DEF PoolOK, Pooled

\* A job is done and leaves the pool.
LEMMA PoolReturns ==
    ASSUME PoolOK, NEW job, ThreadReturns(job)
    PROVE  PoolOK' /\ Pooled' = Pooled \ {job} /\ job \in Pooled
<1>1. job \in busy /\ busy' = busy \ {job} /\ queue' = queue
  BY DEF ThreadReturns
<1>2. job \notin Range(queue)
  BY <1>1 DEF PoolOK
<1>3. IsInjective(queue') /\ Range(queue') = Range(queue)
  BY <1>1 DEF PoolOK
<1> QED
  BY <1>1, <1>2, <1>3 DEF PoolOK, Pooled

\* A job is given up and leaves the pool.
LEMMA PoolAbandons ==
    ASSUME PoolOK, NEW job, Abandon(job)
    PROVE  PoolOK' /\ Pooled' = Pooled \ {job}
<1>1. queue' = RemoveFirst(queue, job) /\ busy' = busy \ {job}
  BY DEF Abandon
<1>2. queue \in Seq(Jobs) /\ IsInjective(queue)
  BY DEF PoolOK
<1>3. /\ RemoveFirst(queue, job) \in Seq(Jobs) /\ IsInjective(RemoveFirst(queue, job))
      /\ Range(RemoveFirst(queue, job)) = Range(queue) \ {job}
  BY <1>2, RemoveDistinct
<1>4. queue' \in Seq(Jobs) /\ IsInjective(queue') /\ Range(queue') = Range(queue) \ {job}
  BY <1>1, <1>3
<1> QED
  BY <1>1, <1>4 DEF PoolOK, Pooled

\* A pool that is left alone.
LEMMA PoolStays ==
    ASSUME PoolOK, queue' = queue, busy' = busy
    PROVE  PoolOK' /\ Pooled' = Pooled
<1>1. IsInjective(queue') /\ Range(queue') = Range(queue)
  BY DEF PoolOK
<1> QED
  BY <1>1 DEF PoolOK, Pooled

-----------------------------------------------------------------------------
\* A step of one request: the invariant is left to show of what it awaits and,
\* if it is a market request, of itself.
LEMMA RequestStep ==
    ASSUME AccountsInv, BatchInv, NEW r \in Slots, NEW x, req' = [req EXCEPT ![r] = x], PoolOK',
           \A job \in Pooled' :
              \/ job \in Pooled /\ job[1] # r
              \/ job[1] = r /\ Awaits(x, job[2]),
           x.kind \in MarketKinds => BatchOK(x)
    PROVE  BatchInv'
<1>1. req = [k \in Slots |-> req[k]]
  BY DEF AccountsInv
<1>2. req'[r] = x /\ \A k \in Slots : k # r => req'[k] = req[k]
  BY <1>1
<1>3. queue' \in Seq(Jobs) /\ busy' \subseteq Jobs
  BY DEF PoolOK
<1>4. \A job \in Pooled' : job[1] \in Slots
  <2>1. \A job \in Jobs : job[1] \in Slots
    BY DEF Jobs
  <2>2. \A i \in DOMAIN queue' : queue'[i] \in Jobs
    BY <1>3
  <2> QED
    BY <1>3, <2>1, <2>2 DEF Pooled, Range
<1>5. ASSUME NEW job \in Pooled' PROVE Awaits(req'[job[1]], job[2])
  <2>1. CASE job[1] = r /\ Awaits(x, job[2])
    BY <1>2, <2>1
  <2>2. CASE job \in Pooled /\ job[1] # r
    <3>1. Awaits(req[job[1]], job[2])
      BY <2>2 DEF BatchInv
    <3>2. req'[job[1]] = req[job[1]]
      BY <1>2, <1>4, <2>2
    <3> QED
      BY <3>1, <3>2
  <2> QED
    BY <2>1, <2>2
<1>6. ASSUME NEW k \in Slots, req'[k].kind \in MarketKinds PROVE BatchOK(req'[k])
  <2>1. CASE k = r
    BY <1>2, <1>6, <2>1
  <2>2. CASE k # r
    <3>1. req'[k] = req[k]
      BY <1>2, <2>2
    <3>2. Serves(k, MarketKinds)
      BY <1>6, <3>1 DEF Serves
    <3> QED
      BY <3>1, <3>2 DEF BatchInv
  <2> QED
    BY <2>1, <2>2
<1>7. \A job \in Pooled' : Awaits(req[job[1]], job[2])'
  BY <1>5 DEF Awaits
<1>8. \A k \in Slots : Serves(k, MarketKinds)' => BatchOK(req[k])'
  BY <1>6 DEF Serves, BatchOK, Refused, Working, Settled
<1> QED
  BY <1>7, <1>8 DEF BatchInv

\* Nothing in the pool belongs to a request that awaits nothing.
LEMMA AwaitsNothing ==
    ASSUME BatchInv, NEW r, \A y : ~ Awaits(req[r], y), NEW job \in Pooled
    PROVE  job[1] # r
  BY DEF BatchInv

\* A slot that serves nothing awaits nothing.
LEMMA IdleAwaits ==
    ASSUME NEW r, req[r] = Idle
    PROVE  \A y : ~ Awaits(req[r], y)
<1>1. Idle.kind = "idle"
  BY DEF Idle
<1> QED
  BY <1>1 DEF Awaits, AccountKinds, MarketKinds

\* An account request that is not hashing awaits nothing.
LEMMA AccountAwaits ==
    ASSUME NEW r, Serves(r, AccountKinds), req[r].phase # "hashing"
    PROVE  \A y : ~ Awaits(req[r], y)
  BY DEF Awaits, Serves, AccountKinds, MarketKinds

\* A request that awaited nothing goes on and leaves the pool alone.
LEMMA QuietRequest ==
    ASSUME AccountsInv, BatchInv, NEW r \in Slots, NEW x, req' = [req EXCEPT ![r] = x],
           \A y : ~ Awaits(req[r], y), UNCHANGED threadVars,
           x.kind \in MarketKinds => BatchOK(x)
    PROVE  BatchInv'
<1>1. PoolOK /\ queue' = queue /\ busy' = busy
  BY DEF BatchInv, threadVars
<1>2. PoolOK' /\ Pooled' = Pooled
  BY <1>1, PoolStays
<1>3. \A job \in Pooled' : job \in Pooled /\ job[1] # r
  BY <1>2, AwaitsNothing
<1> QED
  BY <1>2, <1>3, RequestStep

\* A request that awaited nothing submits a job.
LEMMA SubmittingRequest ==
    ASSUME AccountsInv, BatchInv, NEW r \in Slots, NEW x, req' = [req EXCEPT ![r] = x],
           \A y : ~ Awaits(req[r], y), Submit(<<r, Scrypt>>),
           x.kind \in AccountKinds, x.phase = "hashing"
    PROVE  BatchInv'
<1> DEFINE job == <<r, Scrypt>>
<1>1. PoolOK /\ job \in Jobs /\ job[1] = r /\ job[2] = Scrypt
  BY DEF BatchInv, Jobs
<1> HIDE DEF job
<1>2. job \notin Pooled
  BY <1>1, AwaitsNothing
<1>3. PoolOK' /\ Pooled' = Pooled \cup {job}
  BY <1>1, <1>2, PoolSubmits DEF job
<1>4. Awaits(x, Scrypt)
  BY DEF Awaits
<1>5. ASSUME NEW j \in Pooled'
      PROVE  \/ j \in Pooled /\ j[1] # r
             \/ j[1] = r /\ Awaits(x, j[2])
  <2>1. CASE j = job
    BY <1>1, <1>4, <2>1
  <2>2. CASE j \in Pooled
    BY <2>2, AwaitsNothing
  <2> QED
    BY <1>3, <2>1, <2>2
<1>6. x.kind \notin MarketKinds
  BY DEF AccountKinds, MarketKinds
<1> QED
  BY <1>3, <1>5, <1>6, RequestStep

\* An account request begins.
LEMMA AccountBeginsBatch ==
    ASSUME AccountsInv, BatchInv, NEW r \in Slots, AccountBegins(r)
    PROVE  BatchInv'
<1>1. ASSUME NEW e, NEW p, BeginRegister(r, e, p) PROVE BatchInv'
  <2> DEFINE x == Request("register", e, p, Absent, "hashing")
  <2>1. req[r] = Idle /\ req' = [req EXCEPT ![r] = x] /\ Submit(<<r, Scrypt>>)
    BY <1>1 DEF BeginRegister, Begin
  <2>2. x.kind \in AccountKinds /\ x.phase = "hashing"
    BY DEF Request, AccountKinds
  <2> HIDE DEF x
  <2>3. \A y : ~ Awaits(req[r], y)
    BY <2>1, IdleAwaits
  <2> QED
    BY <2>1, <2>2, <2>3, SubmittingRequest
<1>2. ASSUME NEW x, Begin(r, x), UNCHANGED threadVars, x.kind \in AccountKinds PROVE BatchInv'
  <2>1. req[r] = Idle /\ req' = [req EXCEPT ![r] = x] /\ x.kind \notin MarketKinds
    BY <1>2 DEF Begin, AccountKinds, MarketKinds
  <2>2. \A y : ~ Awaits(req[r], y)
    BY <2>1, IdleAwaits
  <2> QED
    BY <1>2, <2>1, <2>2, QuietRequest
<1>3. ASSUME NEW e, NEW p, BeginLogin(r, e, p) PROVE BatchInv'
  <2> DEFINE y == Request("login", e, p, Absent, "replied")
             z == [y EXCEPT !.reply = "invalid"]
             q == Request("login", e, p, Absent, "reading")
  <2>1. UNCHANGED threadVars /\ (Begin(r, z) \/ Begin(r, q))
    BY <1>3 DEF BeginLogin
  <2>2. q.kind = "login" /\ y.kind = "login"
    BY DEF Request
  <2>3. z.kind = y.kind
    <3> HIDE DEF y
    <3> QED
      OBVIOUS
  <2>4. z.kind \in AccountKinds /\ q.kind \in AccountKinds
    BY <2>2, <2>3 DEF AccountKinds
  <2> HIDE DEF z, q
  <2> QED
    BY <1>2, <2>1, <2>4
<1>4. ASSUME NEW t, BeginMe(r, t) PROVE BatchInv'
  <2>1. UNCHANGED threadVars
        /\ Begin(r, Request("me", Local, Random, t, IF singleUser THEN "reading" ELSE "resolving"))
    BY <1>4 DEF BeginMe
  <2>2. Request("me", Local, Random, t, IF singleUser THEN "reading" ELSE "resolving").kind
           \in AccountKinds
    BY DEF Request, AccountKinds
  <2> QED
    BY <1>2, <2>1, <2>2
<1>5. ASSUME NEW t, BeginLogout(r, t) PROVE BatchInv'
  <2>1. UNCHANGED threadVars /\ Begin(r, Request("logout", Absent, Absent, t, "revoking"))
    BY <1>5 DEF BeginLogout
  <2>2. Request("logout", Absent, Absent, t, "revoking").kind \in AccountKinds
    BY DEF Request, AccountKinds
  <2> QED
    BY <1>2, <2>1, <2>2
<1> QED
  BY <1>1, <1>3, <1>4, <1>5 DEF AccountBegins

\* An account request that was not hashing moves on and leaves the pool alone.
LEMMA QuietAccount ==
    ASSUME AccountsInv, BatchInv, NEW r \in Slots, Serves(r, AccountKinds), UNCHANGED threadVars,
           req[r].phase # "hashing", NEW phase, NEW account, NEW reply, NEW token,
           req' = [req EXCEPT ![r] = Now(req[r], phase, account, reply, token)]
    PROVE  BatchInv'
<1> DEFINE x == Now(req[r], phase, account, reply, token)
<1>1. x.kind = req[r].kind
  BY NowFields
<1> HIDE DEF x
<1>2. x.kind \notin MarketKinds
  BY <1>1 DEF Serves, AccountKinds, MarketKinds
<1>3. \A y : ~ Awaits(req[r], y)
  BY AccountAwaits
<1>4. req' = [req EXCEPT ![r] = x]
  BY DEF x
<1> QED
  BY <1>2, <1>3, <1>4, QuietRequest

\* The three ways to go on, of a request that was not hashing.
LEMMA QuietMoves ==
    ASSUME AccountsInv, BatchInv, NEW r \in Slots, Serves(r, AccountKinds), UNCHANGED threadVars,
           req[r].phase # "hashing",
           \/ \E phase : Goes(r, phase)
           \/ \E reply : Replies(r, reply)
           \/ \E account : ActsAs(r, account)
    PROVE  BatchInv'
<1>1. AccountOK(req[r], accounts, sessions, tokens, singleUser)
  BY AccountRequest
<1>2. PICK phase, account, reply, token :
         req' = [req EXCEPT ![r] = Now(req[r], phase, account, reply, token)]
  BY <1>1, GoesOn
<1> QED
  BY <1>2, QuietAccount

\* Where a handler stands tells which kind its request is.
LEMMA AtServes ==
    ASSUME NEW r, NEW kind \in AccountKinds, NEW phase, At(r, kind, phase)
    PROVE  Serves(r, AccountKinds) /\ req[r].kind = kind /\ req[r].phase = phase
  BY DEF At, Serves

\* The credentials are read; a password may have to be hashed.
LEMMA ReadCredentialsBatch ==
    ASSUME AccountsInv, BatchInv, NEW r \in Slots, ReadCredentials(r)
    PROVE  BatchInv'
<1> DEFINE q == req[r]
           found == Credentials(q.email)
<1>1. ASSUME At(r, "login", "reading"), Submit(<<r, Scrypt>>),
             req' = [req EXCEPT ![r].phase = "hashing", ![r].account = found]
      PROVE  BatchInv'
  <2> DEFINE x == Now(q, "hashing", found, q.reply, q.token)
  <2>1. Serves(r, AccountKinds) /\ q.kind = "login" /\ q.phase = "reading"
    BY <1>1, AtServes DEF AccountKinds
  <2>2. AccountOK(q, accounts, sessions, tokens, singleUser)
    BY <2>1, AccountRequest
  <2>3. req' = [req EXCEPT ![r] = [q EXCEPT !.phase = "hashing", !.account = found]]
    BY <1>1
  <2>4. \A y : ~ Awaits(req[r], y)
    BY <2>1, AccountAwaits
  <2> HIDE DEF q, found
  <2>5. [q EXCEPT !.phase = "hashing", !.account = found] = x
    <3>1. IsRequest(q)
      BY <2>2 DEF AccountOK, IsRequest
    <3> QED
      BY <3>1, AccountUpdate
  <2>6. x.kind \in AccountKinds /\ x.phase = "hashing"
    BY <2>1, NowFields DEF AccountKinds
  <2>7. req' = [req EXCEPT ![r] = x]
    BY <2>3, <2>5
  <2> HIDE DEF x
  <2> QED
    BY <1>1, <2>4, <2>6, <2>7, SubmittingRequest
<1>2. ASSUME At(r, "me", "reading"), Goes(r, "hashing"), Submit(<<r, Scrypt>>) PROVE BatchInv'
  <2> DEFINE x == Now(q, "hashing", q.account, q.reply, q.token)
  <2>1. Serves(r, AccountKinds) /\ q.kind = "me" /\ q.phase = "reading"
    BY <1>2, AtServes DEF AccountKinds
  <2>2. AccountOK(q, accounts, sessions, tokens, singleUser)
    BY <2>1, AccountRequest
  <2>3. req' = [req EXCEPT ![r] = x]
    BY <1>2, <2>2, GoesOn
  <2>4. \A y : ~ Awaits(req[r], y)
    BY <2>1, AccountAwaits
  <2>5. x.kind \in AccountKinds /\ x.phase = "hashing"
    BY <2>1, NowFields DEF AccountKinds
  <2> HIDE DEF x, q
  <2> QED
    BY <1>2, <2>3, <2>4, <2>5, SubmittingRequest
<1>3. ASSUME At(r, "me", "reading"), ActsAs(r, found), UNCHANGED threadVars PROVE BatchInv'
  <2>1. Serves(r, AccountKinds) /\ q.phase = "reading"
    BY <1>3, AtServes DEF AccountKinds
  <2> HIDE DEF found
  <2> QED
    BY <1>3, <2>1, QuietMoves
<1>4. \/ /\ At(r, "login", "reading") /\ Submit(<<r, Scrypt>>)
         /\ req' = [req EXCEPT ![r].phase = "hashing", ![r].account = found]
      \/ At(r, "me", "reading") /\ Goes(r, "hashing") /\ Submit(<<r, Scrypt>>)
      \/ At(r, "me", "reading") /\ ActsAs(r, found) /\ UNCHANGED threadVars
  BY DEF ReadCredentials
<1> HIDE DEF found
<1> QED
  BY <1>1, <1>2, <1>3, <1>4

\* A password is hashed: the only job of its request is done.
LEMMA HashedBatch ==
    ASSUME AccountsInv, BatchInv, NEW r \in Slots, Hashed(r)
    PROVE  BatchInv'
<1> DEFINE job == <<r, Scrypt>>
<1>1. Serves(r, AccountKinds) /\ ThreadReturns(job)
      /\ \/ \E phase : Goes(r, phase)
         \/ \E reply : Replies(r, reply)
  BY DEF Hashed
<1>2. AccountOK(req[r], accounts, sessions, tokens, singleUser)
  BY <1>1, AccountRequest
<1>3. PICK phase, account, reply, token :
         req' = [req EXCEPT ![r] = Now(req[r], phase, account, reply, token)]
  BY <1>1, <1>2, GoesOn
<1> DEFINE x == Now(req[r], phase, account, reply, token)
<1>4. x.kind = req[r].kind
  BY NowFields
<1>5. req' = [req EXCEPT ![r] = x]
  BY <1>3
<1> HIDE DEF x, job
<1>6. PoolOK' /\ Pooled' = Pooled \ {job}
  BY <1>1, PoolReturns DEF BatchInv
<1>7. ASSUME NEW j \in Pooled' PROVE j \in Pooled /\ j[1] # r
  <2> SUFFICES ASSUME j[1] = r PROVE j = job
    BY <1>6
  <2>1. Awaits(req[r], j[2])
    BY <1>6 DEF BatchInv
  <2>2. j[2] = Scrypt
    BY <1>1, <2>1 DEF Awaits, Serves, AccountKinds, MarketKinds
  <2>3. j \in Jobs
    BY <1>6 DEF BatchInv, PoolOK, Pooled, Range
  <2>4. j = <<j[1], j[2]>>
    BY <2>3 DEF Jobs
  <2> QED
    BY <2>2, <2>4 DEF job
<1>8. x.kind \notin MarketKinds
  BY <1>1, <1>4 DEF Serves, AccountKinds, MarketKinds
<1> QED
  BY <1>5, <1>6, <1>7, <1>8, RequestStep

\* The other steps of account requests do not touch the pool.
LEMMA AccountStepBatch ==
    ASSUME AccountsInv, BatchInv, NEW r \in Slots, AccountStep(r)
    PROVE  BatchInv'
<1>1. CASE CreateAccount(r)
  <2> DEFINE account == [id |-> Cardinality(accounts) + 1,
                         email |-> req[r].email, password |-> req[r].password]
  <2>1. /\ At(r, "register", "creating") \/ At(r, "me", "creating")
        /\ UNCHANGED threadVars
        /\ \/ \E phase : Goes(r, phase)
           \/ \E reply : Replies(r, reply)
           \/ ActsAs(r, account)
           \/ req' = [req EXCEPT ![r].phase = "opening", ![r].account = account]
    BY <1>1 DEF CreateAccount
  <2>2. Serves(r, AccountKinds) /\ req[r].phase = "creating"
    BY <2>1, AtServes DEF AccountKinds
  <2> HIDE DEF account
  <2>3. CASE req' = [req EXCEPT ![r].phase = "opening", ![r].account = account]
    <3>1. IsRequest(req[r])
      BY <2>2, AccountRequest DEF AccountOK, IsRequest
    <3>2. req' = [req EXCEPT ![r] = [req[r] EXCEPT !.phase = "opening", !.account = account]]
      BY <2>3
    <3>3. [req[r] EXCEPT !.phase = "opening", !.account = account]
             = Now(req[r], "opening", account, req[r].reply, req[r].token)
      BY <3>1, AccountUpdate
    <3>4. req' = [req EXCEPT ![r] = Now(req[r], "opening", account, req[r].reply, req[r].token)]
      BY <3>2, <3>3
    <3> QED
      BY <2>1, <2>2, <3>4, QuietAccount
  <2> QED
    BY <2>1, <2>2, <2>3, QuietMoves
<1>2. CASE RereadLocal(r)
  <2>1. /\ At(r, "me", "rereading") /\ UNCHANGED threadVars
        /\ (\E reply : Replies(r, reply)) \/ (\E account : ActsAs(r, account))
    BY <1>2 DEF RereadLocal
  <2>2. Serves(r, AccountKinds) /\ req[r].phase = "rereading"
    BY <2>1, AtServes DEF AccountKinds
  <2> QED
    BY <2>1, <2>2, QuietMoves
<1>3. CASE CreateSession(r)
  <2> DEFINE q == req[r]
  <2>1. PICK n : n = tokens + 1
    OBVIOUS
  <2>2. (At(r, "register", "opening") \/ At(r, "login", "opening")) /\ UNCHANGED threadVars
    BY <1>3 DEF CreateSession
  <2>3. req' = [req EXCEPT ![r] = [q EXCEPT !.phase = "replied", !.reply = "ok", !.token = n]]
    BY <1>3, <2>1 DEF CreateSession
  <2>4. Serves(r, AccountKinds) /\ q.phase = "opening"
    BY <2>2, AtServes DEF AccountKinds
  <2>5. IsRequest(q)
    BY <2>4, AccountRequest DEF AccountOK, IsRequest
  <2> HIDE DEF q
  <2>6. \A f, y, m : [q EXCEPT !.phase = f, !.reply = y, !.token = m]
                       = Now(q, f, q.account, y, m)
    BY <2>5, TokenUpdate
  <2>7. [q EXCEPT !.phase = "replied", !.reply = "ok", !.token = n]
           = Now(q, "replied", q.account, "ok", n)
    BY <2>6
  <2>8. req' = [req EXCEPT ![r] = Now(q, "replied", q.account, "ok", n)]
    BY <2>3, <2>7
  <2>9. PICK phase, account, reply, token :
           req' = [req EXCEPT ![r] = Now(req[r], phase, account, reply, token)]
    BY <2>8 DEF q
  <2>10. req[r].phase # "hashing"
    BY <2>4 DEF q
  <2> QED
    BY <2>2, <2>4, <2>9, <2>10, QuietAccount
<1>4. CASE ResolveSession(r)
  <2>1. /\ At(r, "me", "resolving") /\ UNCHANGED threadVars
        /\ (\E reply : Replies(r, reply)) \/ (\E account : ActsAs(r, account))
    BY <1>4 DEF ResolveSession
  <2>2. Serves(r, AccountKinds) /\ req[r].phase = "resolving"
    BY <2>1, AtServes DEF AccountKinds
  <2> QED
    BY <2>1, <2>2, QuietMoves
<1>5. CASE RevokeSession(r)
  <2>1. At(r, "logout", "revoking") /\ UNCHANGED threadVars /\ Replies(r, "gone")
    BY <1>5 DEF RevokeSession
  <2>2. Serves(r, AccountKinds) /\ req[r].phase = "revoking"
    BY <2>1, AtServes DEF AccountKinds
  <2> QED
    BY <2>1, <2>2, QuietMoves
<1>6. CASE LeaveAccount(r)
  <2>1. /\ Serves(r, AccountKinds) /\ req[r].phase = "replied"
        /\ req' = [req EXCEPT ![r] = Idle] /\ UNCHANGED threadVars
    BY <1>6 DEF LeaveAccount
  <2>2. \A y : ~ Awaits(req[r], y)
    BY <2>1, AccountAwaits
  <2>3. Idle.kind \notin MarketKinds
    BY DEF Idle, MarketKinds
  <2> QED
    BY <2>1, <2>2, <2>3, QuietRequest
<1> QED
  BY <1>1, <1>2, <1>3, <1>4, <1>5, <1>6, ReadCredentialsBatch, HashedBatch DEF AccountStep

\* A failing database call leaves the pool alone too.
LEMMA DatabaseFailsBatch ==
    ASSUME AccountsInv, BatchInv, NEW r \in Slots, DatabaseFails(r)
    PROVE  BatchInv'
<1>1. /\ Serves(r, AccountKinds) /\ req[r].phase # "hashing"
      /\ Replies(r, "unavailable") /\ UNCHANGED threadVars
  BY DEF DatabaseFails
<1> QED
  BY <1>1, QuietMoves

-----------------------------------------------------------------------------
\* A market request with other tasks and another reply is otherwise the same.
Retold(q, task, reply) == [q EXCEPT !.task = task, !.reply = reply]

\* All of it but these two fields is kept, and it is a record as before.
LEMMA MarketUpdate ==
    ASSUME NEW q, q = [f \in DOMAIN q |-> q[f]],
           {"kind", "asked", "symbols", "reply", "task"} \subseteq DOMAIN q, NEW task, NEW reply
    PROVE  LET x == Retold(q, task, reply) IN
           /\ x = [f \in DOMAIN x |-> x[f]]
           /\ {"kind", "asked", "symbols", "reply", "task"} \subseteq DOMAIN x
           /\ x.kind = q.kind /\ x.asked = q.asked /\ x.symbols = q.symbols
           /\ x.task = task /\ x.reply = reply
<1>1. PICK p : p = [q EXCEPT !.task = task]
  OBVIOUS
<1>2. /\ p = [f \in DOMAIN p |-> p[f]] /\ DOMAIN p = DOMAIN q
      /\ p.kind = q.kind /\ p.asked = q.asked /\ p.symbols = q.symbols
      /\ p.task = task /\ p.reply = q.reply
  BY <1>1
<1>3. PICK x : x = [p EXCEPT !.reply = reply]
  OBVIOUS
<1>4. /\ x = [f \in DOMAIN x |-> x[f]] /\ DOMAIN x = DOMAIN q
      /\ x.kind = q.kind /\ x.asked = q.asked /\ x.symbols = q.symbols
      /\ x.task = task /\ x.reply = reply
  BY <1>2, <1>3
<1>5. [q EXCEPT !.task = task, !.reply = reply] = [[q EXCEPT !.task = task] EXCEPT !.reply = reply]
  OBVIOUS
<1>6. Retold(q, task, reply) = x
  BY <1>1, <1>3, <1>5 DEF Retold
<1> QED
  BY <1>4, <1>6

\* Whatever a lookup comes to is a failure or something found.
LEMMA OutcomeFacts ==
    ASSUME NEW request, NEW outcome \in Answers(request)
    PROVE  outcome.is \in {"failed", "found"}
<1>1. \A code : Failed(code).is = "failed"
  BY DEF Failed
<1>2. \A h : Found(h).is = "found"
  BY DEF Found
<1>3. NotFound.is = "failed" /\ Unavailable.is = "failed"
  BY <1>1 DEF NotFound, Unavailable
<1>4. \A rows : FetchedHistory(rows) = NotFound \/ \E h : FetchedHistory(rows) = Found(h)
  BY DEF FetchedHistory
<1>5. \A raw, query : \/ FetchedDataset(raw, query) = NotFound
                      \/ \E h : FetchedDataset(raw, query) = Found(h)
  BY DEF FetchedDataset
<1>6. \/ outcome \in {NotFound, Unavailable} \/ outcome = Found(None)
      \/ \E rows : outcome = FetchedHistory(rows)
      \/ \E raw, query : outcome = FetchedDataset(raw, query)
  <2> HIDE DEF NotFound, Unavailable, Found, FetchedHistory, FetchedDataset
  <2>1. CASE request.kind = "comparison"
    BY <2>1 DEF Answers
  <2>2. CASE request.kind \in {"drawdowns", "backtest"}
    BY <2>2 DEF Answers
  <2>3. CASE request.kind = "dataset"
    BY <2>3 DEF Answers
  <2>4. CASE request.kind \notin {"comparison", "drawdowns", "backtest", "dataset"}
    BY <2>4 DEF Answers
  <2> QED
    BY <2>1, <2>2, <2>3, <2>4
<1> QED
  BY <1>2, <1>3, <1>4, <1>5, <1>6

\* The first waiting task is a waiting task.
LEMMA NextIsWaiting ==
    ASSUME NEW r, req[r].symbols \in Seq(Names), DOMAIN req[r].task \subseteq ToSet(req[r].symbols),
           Tasks(r, "waiting") # {}
    PROVE  req[r].symbols[SelectInSeq(req[r].symbols, LAMBDA s : s \in Tasks(r, "waiting"))]
              \in Tasks(r, "waiting") \cap Names
<1> DEFINE symbols == req[r].symbols
           waiting == Tasks(r, "waiting")
           T == {i \in 1 .. Len(symbols) : symbols[i] \in waiting}
<1>1. /\ Len(symbols) \in Nat /\ DOMAIN symbols = 1 .. Len(symbols)
      /\ \A i \in 1 .. Len(symbols) : symbols[i] \in Names
  OBVIOUS
<1>2. waiting \subseteq ToSet(symbols)
  BY DEF Tasks
<1>3. SelectInSeq(symbols, LAMBDA s : s \in waiting) = IF T # {} THEN Min(T) ELSE 0
  BY DEF SelectInSeq
<1>4. T # {}
  <2>1. PICK s : s \in waiting /\ s \in ToSet(symbols)
    BY <1>2
  <2>2. PICK i \in 1 .. Len(symbols) : symbols[i] = s
    BY <1>1, <2>1 DEF ToSet
  <2> QED
    BY <2>1, <2>2
<1>5. PICK k : k = Min(T)
  OBVIOUS
<1>6. k \in T
  <2>1. T \subseteq Nat
    BY <1>1
  <2> HIDE DEF T
  <2> QED
    BY <1>4, <1>5, <2>1, MinIsLeast
<1>7. symbols[k] \in waiting \cap Names
  BY <1>1, <1>6
<1>8. SelectInSeq(symbols, LAMBDA s : s \in waiting) = k
  BY <1>3, <1>4, <1>5
<1> QED
  BY <1>7, <1>8

\* A task that awaited its lookup settles.
LEMMA SettleFacts ==
    ASSUME NEW r \in Slots, BatchOK(req[r]), NEW s \in DOMAIN req[r].task,
           req[r].task[s].is = "lookup", NEW outcome, outcome.is \in {"failed", "found"},
           Settle(r, s, outcome)
    PROVE  \E x : /\ req' = [req EXCEPT ![r] = x] /\ BatchOK(x) /\ x.kind = req[r].kind
                  /\ x.task = [req[r].task EXCEPT ![s] = outcome]
<1> DEFINE q == req[r]
           task == [q.task EXCEPT ![s] = outcome]
           raised == Raises(q.kind, outcome)
           open == \E t \in DOMAIN task : task[t].is \in {"waiting", "lookup"}
           reply == IF q.reply # None THEN q.reply
                    ELSE IF raised # None THEN Error(raised)
                    ELSE IF open THEN None
                    ELSE Computed(q.kind, q.symbols, task)
<1>1. req' = [req EXCEPT ![r] = [q EXCEPT !.task = task, !.reply = reply]]
  BY DEF Settle
<1>2. BatchOK(q) /\ s \in DOMAIN q.task /\ q.task[s].is = "lookup"
  OBVIOUS
<1> HIDE DEF q
<1>3. /\ DOMAIN task = DOMAIN q.task /\ task = [t \in DOMAIN task |-> task[t]]
      /\ task[s] = outcome /\ \A t \in DOMAIN task : t # s => task[t] = q.task[t]
  BY <1>2 DEF BatchOK
<1> HIDE DEF task
<1>4. \/ q.reply # None /\ reply = q.reply
      \/ q.reply = None /\ raised # None /\ reply = Error(raised)
      \/ q.reply = None /\ reply = None
      \/ q.reply = None /\ ~ open /\ reply = Computed(q.kind, q.symbols, task)
  OBVIOUS
<1>5. q.kind = "snapshots" /\ raised # None =>
         raised = "internal_error" /\ outcome.is = "found" /\ DividesByZero(outcome.history)
  BY DEF Raises
<1> HIDE DEF reply, raised
<1> DEFINE x == Retold(q, task, reply)
<1>6. /\ x = [f \in DOMAIN x |-> x[f]]
      /\ {"kind", "asked", "symbols", "reply", "task"} \subseteq DOMAIN x
      /\ x.kind = q.kind /\ x.asked = q.asked /\ x.symbols = q.symbols
      /\ x.task = task /\ x.reply = reply
  <2>1. q = [f \in DOMAIN q |-> q[f]]
    BY <1>2 DEF BatchOK
  <2>2. {"kind", "asked", "symbols", "reply", "task"} \subseteq DOMAIN q
    BY <1>2 DEF BatchOK
  <2> QED
    BY <2>1, <2>2, MarketUpdate
<1>11. x = [q EXCEPT !.task = task, !.reply = reply]
  BY DEF Retold
<1> HIDE DEF x
<1>7. q.kind = "snapshots" /\ Working(q) => Working(x)
  <2> SUFFICES ASSUME q.kind = "snapshots", Working(q) PROVE Working(x)
    OBVIOUS
  <2>1. DOMAIN x.task = ToSet(x.symbols)
    BY <1>3, <1>6 DEF Working
  <2>2. \A t \in DOMAIN task : task[t].is \in {"waiting", "lookup", "failed", "found"}
    BY <1>3 DEF Working
  <2> DEFINE Replied == \/ reply = None
                        \/ /\ reply = Error("internal_error")
                           /\ \E t \in DOMAIN task :
                                 task[t].is = "found" /\ DividesByZero(task[t].history)
                        \/ reply = Answered(Items(q.symbols, task)) /\ Settled(task)
  <2>3. ASSUME q.reply # None, reply = q.reply PROVE Replied
    <3>1. ~ Settled(q.task)
      BY <1>2 DEF Settled
    <3>2. /\ q.reply = Error("internal_error")
          /\ \E t \in DOMAIN q.task : q.task[t].is = "found" /\ DividesByZero(q.task[t].history)
      BY <2>3, <3>1 DEF Working
    <3>3. PICK t \in DOMAIN q.task : q.task[t].is = "found" /\ DividesByZero(q.task[t].history)
      BY <3>2
    <3>4. t \in DOMAIN task /\ task[t] = q.task[t]
      BY <1>2, <1>3, <3>3
    <3> QED
      BY <2>3, <3>2, <3>3, <3>4
  <2>4. ASSUME raised # None, reply = Error(raised) PROVE Replied
    <3>1. s \in DOMAIN task /\ task[s] = outcome
      BY <1>2, <1>3
    <3>2. raised = "internal_error" /\ outcome.is = "found" /\ DividesByZero(outcome.history)
      BY <1>5, <2>4
    <3>3. task[s].is = "found" /\ DividesByZero(task[s].history)
      BY <3>1, <3>2
    <3> QED
      BY <2>4, <3>1, <3>2, <3>3
  <2>5. ASSUME ~ open, reply = Computed(q.kind, q.symbols, task) PROVE Replied
    <3>1. Settled(task)
      BY <2>2, <2>5 DEF Settled
    <3>2. Computed("snapshots", q.symbols, task) = Answered(Items(q.symbols, task))
      <4>1. \A symbols, tasks : Computed("snapshots", symbols, tasks) = Answered(Items(symbols, tasks))
        BY DEF Computed, Items
      <4> QED
        BY <4>1
    <3> QED
      BY <2>5, <3>1, <3>2
  <2>6. Replied
    BY <1>4, <2>3, <2>4, <2>5
  <2> QED
    BY <1>6, <2>1, <2>2, <2>6 DEF Working
<1>8. q.kind = "snapshots" => Working(q)
  BY <1>2 DEF BatchOK, Refused
<1>9. BatchOK(x)
  BY <1>2, <1>3, <1>6, <1>7, <1>8 DEF BatchOK
<1>10. req' = [req EXCEPT ![r] = x]
  BY <1>1, <1>11
<1> QED
  BY <1>6, <1>9, <1>10 DEF q, task

\* The lookup of the first waiting task is submitted.
LEMMA StartLookupBatch ==
    ASSUME AccountsInv, BatchInv, NEW r \in Slots, StartLookup(r)
    PROVE  BatchInv'
<1> DEFINE q == req[r]
<1>1. BatchOK(q) /\ Serves(r, MarketKinds)
  BY DEF BatchInv, StartLookup
<1>2. PICK next : /\ next \in Tasks(r, "waiting") \cap Names
                  /\ req' = [req EXCEPT ![r].task[next] = Lookup]
                  /\ Submit(<<r, next>>)
  <2>1. Tasks(r, "waiting") # {}
    BY DEF StartLookup
  <2>2. PICK next : next = req[r].symbols[
           SelectInSeq(req[r].symbols, LAMBDA s : s \in Tasks(r, "waiting"))]
    OBVIOUS
  <2>3. req[r].symbols \in Seq(Names) /\ DOMAIN req[r].task \subseteq ToSet(req[r].symbols)
    BY <1>1 DEF BatchOK
  <2>4. next \in Tasks(r, "waiting") \cap Names
    BY <2>1, <2>2, <2>3, NextIsWaiting
  <2>5. req' = [req EXCEPT ![r].task[next] = Lookup] /\ Submit(<<r, next>>)
    BY <2>2 DEF StartLookup
  <2> QED
    BY <2>4, <2>5
<1>3. next \in DOMAIN q.task /\ q.task[next].is = "waiting" /\ next \in Names
  BY <1>2 DEF Tasks
<1> DEFINE job == <<r, next>>
           task == [q.task EXCEPT ![next] = Lookup]
           x == [q EXCEPT !.task = task]
<1>4. req' = [req EXCEPT ![r] = x]
  BY <1>2
<1>5. Serves(r, MarketKinds) => q.kind \in MarketKinds
  BY DEF Serves
<1>6. job \in Jobs /\ job[1] = r /\ job[2] = next
  BY <1>3 DEF Jobs
<1>7. \A j \in Pooled : j[1] = r => Awaits(q, j[2])
  BY DEF BatchInv
<1>8. q.kind \in MarketKinds
  BY <1>1, <1>5
<1> HIDE DEF q
<1>9. \A y : Awaits(q, y) => y \in DOMAIN q.task /\ q.task[y].is = "lookup"
  BY <1>8 DEF Awaits, AccountKinds, MarketKinds
<1>10. /\ DOMAIN task = DOMAIN q.task /\ task = [t \in DOMAIN task |-> task[t]]
       /\ task[next].is = "lookup" /\ \A t \in DOMAIN task : t # next => task[t] = q.task[t]
  BY <1>1, <1>3 DEF BatchOK, Lookup
<1> HIDE DEF task
<1>11. /\ x = [f \in DOMAIN x |-> x[f]]
       /\ {"kind", "asked", "symbols", "reply", "task"} \subseteq DOMAIN x
       /\ x.kind = q.kind /\ x.asked = q.asked /\ x.symbols = q.symbols
       /\ x.task = task /\ x.reply = q.reply
  <2>1. q = [f \in DOMAIN q |-> q[f]]
    BY <1>1 DEF BatchOK
  <2>2. {"kind", "asked", "symbols", "reply", "task"} \subseteq DOMAIN q
    BY <1>1 DEF BatchOK
  <2> QED
    BY <2>1, <2>2
<1> HIDE DEF x, job
<1>12. q.kind = "snapshots" => Working(x)
  <2> SUFFICES ASSUME q.kind = "snapshots" PROVE Working(x)
    OBVIOUS
  <2>1. Working(q)
    BY <1>1, <1>3 DEF BatchOK, Refused
  <2>2. ~ Settled(q.task)
    BY <1>3 DEF Settled
  <2>3. \A t \in DOMAIN task : task[t].is \in {"waiting", "lookup", "failed", "found"}
    BY <1>10, <2>1 DEF Working
  <2>4. (\E t \in DOMAIN q.task : q.task[t].is = "found" /\ DividesByZero(q.task[t].history))
           => \E t \in DOMAIN task : task[t].is = "found" /\ DividesByZero(task[t].history)
    <3> SUFFICES ASSUME NEW t \in DOMAIN q.task, q.task[t].is = "found",
                        DividesByZero(q.task[t].history)
                 PROVE  \E u \in DOMAIN task : task[u].is = "found" /\ DividesByZero(task[u].history)
      OBVIOUS
    <3>1. t \in DOMAIN task /\ task[t] = q.task[t]
      BY <1>3, <1>10
    <3> QED
      BY <3>1
  <2> QED
    BY <1>10, <1>11, <2>1, <2>2, <2>3, <2>4 DEF Working
<1>13. BatchOK(x)
  BY <1>1, <1>10, <1>11, <1>12 DEF BatchOK
<1>14. job \notin Pooled
  BY <1>3, <1>6, <1>7, <1>9
<1>15. PoolOK' /\ Pooled' = Pooled \cup {job}
  BY <1>2, <1>6, <1>14, PoolSubmits DEF BatchInv, job
<1>16. ASSUME NEW j \in Pooled'
       PROVE  \/ j \in Pooled /\ j[1] # r
              \/ j[1] = r /\ Awaits(x, j[2])
  <2>1. CASE j = job
    BY <1>3, <1>6, <1>8, <1>10, <1>11, <2>1 DEF Awaits
  <2>2. CASE j \in Pooled /\ j[1] = r
    <3>1. j[2] \in DOMAIN q.task /\ q.task[j[2]].is = "lookup"
      BY <1>7, <1>9, <2>2
    <3>2. j[2] \in DOMAIN task /\ task[j[2]].is = "lookup"
      BY <1>3, <1>10, <3>1
    <3> QED
      BY <1>8, <1>11, <2>2, <3>2 DEF Awaits
  <2> QED
    BY <1>15, <2>1, <2>2
<1> QED
  BY <1>4, <1>13, <1>15, <1>16, RequestStep

\* A lookup came to something: its job has left the pool, its task is settled.
LEMMA SettleBatch ==
    ASSUME AccountsInv, BatchInv, NEW r \in Slots, Serves(r, MarketKinds), NEW s,
           s \in DOMAIN req[r].task, req[r].task[s].is = "lookup",
           NEW outcome, outcome.is \in {"failed", "found"}, Settle(r, s, outcome),
           PoolOK', Pooled' = Pooled \ {<<r, s>>}
    PROVE  BatchInv'
<1>1. BatchOK(req[r]) /\ req[r].kind \in MarketKinds
  BY DEF BatchInv, Serves
<1>2. PICK x : /\ req' = [req EXCEPT ![r] = x] /\ BatchOK(x) /\ x.kind = req[r].kind
               /\ x.task = [req[r].task EXCEPT ![s] = outcome]
  BY <1>1, SettleFacts
<1>3. DOMAIN x.task = DOMAIN req[r].task
      /\ \A t \in DOMAIN x.task : t # s => x.task[t] = req[r].task[t]
  BY <1>1, <1>2 DEF BatchOK
<1>4. ASSUME NEW j \in Pooled'
      PROVE  \/ j \in Pooled /\ j[1] # r
             \/ j[1] = r /\ Awaits(x, j[2])
  <2> SUFFICES ASSUME j[1] = r PROVE Awaits(x, j[2])
    OBVIOUS
  <2>1. Awaits(req[r], j[2])
    BY DEF BatchInv
  <2>2. j[2] \in DOMAIN req[r].task /\ req[r].task[j[2]].is = "lookup"
    BY <1>1, <2>1 DEF Awaits, AccountKinds, MarketKinds
  <2>3. j \in Jobs
    BY DEF BatchInv, PoolOK, Pooled, Range
  <2>4. j = <<j[1], j[2]>>
    BY <2>3 DEF Jobs
  <2>5. j[2] # s
    BY <2>4
  <2> QED
    BY <1>1, <1>2, <1>3, <2>2, <2>5 DEF Awaits
<1> QED
  BY <1>2, <1>4, RequestStep

\* A market request goes on, or is over.
LEMMA MarketStepBatch ==
    ASSUME AccountsInv, BatchInv, NEW r \in Slots, MarketStep(r)
    PROVE  BatchInv'
<1>0. PoolOK
  BY DEF BatchInv
<1>1. ASSUME NEW s \in Symbols, LookupReturns(r, s) PROVE BatchInv'
  <2>1. Serves(r, MarketKinds) /\ ThreadReturns(<<r, s>>)
    BY <1>1 DEF LookupReturns
  <2>2. PICK outcome \in Answers(req[r]) : Settle(r, s, outcome)
    BY <1>1 DEF LookupReturns
  <2>3. outcome.is \in {"failed", "found"}
    BY OutcomeFacts
  <2>4. PoolOK' /\ Pooled' = Pooled \ {<<r, s>>} /\ <<r, s>> \in Pooled
    BY <1>0, <2>1, PoolReturns
  <2>5. Awaits(req[r], s)
    <3>1. PICK j \in Pooled : j = <<r, s>>
      BY <2>4
    <3>2. Awaits(req[j[1]], j[2]) /\ j[1] = r /\ j[2] = s
      BY <3>1 DEF BatchInv
    <3> QED
      BY <3>2
  <2>6. s \in DOMAIN req[r].task /\ req[r].task[s].is = "lookup"
    BY <2>1, <2>5 DEF Awaits, Serves, AccountKinds, MarketKinds
  <2> QED
    BY <2>1, <2>2, <2>3, <2>4, <2>6, SettleBatch
<1>2. ASSUME NEW s \in Symbols, LookupTimesOut(r, s) PROVE BatchInv'
  <2>1. Serves(r, MarketKinds) /\ Abandon(<<r, s>>) /\ Settle(r, s, TimedOut)
    BY <1>2 DEF LookupTimesOut
  <2>2. s \in DOMAIN req[r].task /\ req[r].task[s].is = "lookup"
    BY <1>2 DEF LookupTimesOut, Tasks
  <2>3. TimedOut.is \in {"failed", "found"}
    BY DEF TimedOut, Failed
  <2>4. PoolOK' /\ Pooled' = Pooled \ {<<r, s>>}
    BY <1>0, <2>1, PoolAbandons
  <2> QED
    BY <2>1, <2>2, <2>3, <2>4, SettleBatch
<1>3. CASE LeaveMarket(r)
  <2>1. /\ Serves(r, MarketKinds) /\ Tasks(r, "lookup") = {}
        /\ req' = [req EXCEPT ![r] = Idle] /\ UNCHANGED threadVars
    BY <1>3 DEF LeaveMarket
  <2>2. \A y : ~ Awaits(req[r], y)
    BY <2>1 DEF Awaits, Tasks, Serves, AccountKinds, MarketKinds
  <2>3. Idle.kind \notin MarketKinds
    BY DEF Idle, MarketKinds
  <2> QED
    BY <2>1, <2>2, <2>3, QuietRequest
<1> QED
  BY <1>1, <1>2, <1>3, StartLookupBatch DEF MarketStep

\* A market request begins.
LEMMA MarketBeginsBatch ==
    ASSUME AccountsInv, BatchInv, NEW r \in Slots, MarketBegins(r)
    PROVE  BatchInv'
<1>1. ASSUME NEW x, Begin(r, x), UNCHANGED threadVars, BatchOK(x) PROVE BatchInv'
  <2>1. req[r] = Idle /\ req' = [req EXCEPT ![r] = x]
    BY <1>1 DEF Begin
  <2>2. \A y : ~ Awaits(req[r], y)
    BY <2>1, IdleAwaits
  <2> QED
    BY <1>1, <2>1, <2>2, QuietRequest
<1>2. ASSUME NEW kind \in MarketKinds, NEW asked \in Asks, BeginMarket(r, kind, asked)
      PROVE  BatchInv'
  <2> DEFINE symbols == Normalized(asked)
             refusal == IF Invalid \in ToSet(symbols) THEN Error("invalid_symbol")
                        ELSE IF ~ Accepts(kind, symbols) THEN Error("invalid_query")
                        ELSE None
             task == IF refusal = None THEN [s \in ToSet(symbols) |-> Waiting] ELSE <<>>
             x == [kind |-> kind, asked |-> asked, symbols |-> symbols, reply |-> refusal,
                   task |-> task]
  <2>1. Begin(r, x) /\ UNCHANGED threadVars
    BY <1>2 DEF BeginMarket
  <2>2. symbols \in Seq(Names)
    BY AsksAssumption, NormalizedFacts
  <2>3. kind = "snapshots" /\ refusal # None =>
           Invalid \in ToSet(symbols) /\ refusal = Error("invalid_symbol")
    BY DEF Accepts
  <2>4. /\ task = [s \in DOMAIN task |-> task[s]]
        /\ refusal = None => /\ DOMAIN task = ToSet(symbols)
                             /\ \A s \in DOMAIN task : task[s].is = "waiting"
        /\ refusal # None => DOMAIN task = {}
    <3> HIDE DEF symbols, refusal
    <3>1. CASE refusal = None
      BY <3>1 DEF Waiting
    <3>2. CASE refusal # None
      <4>1. task = <<>> /\ DOMAIN <<>> = {} /\ <<>> = [s \in {} |-> <<>>[s]]
        BY <3>2
      <4> QED
        BY <3>2, <4>1
    <3> QED
      BY <3>1, <3>2
  <2> HIDE DEF task, refusal
  <2>5. /\ x.kind = kind /\ x.asked = asked /\ x.symbols = symbols /\ x.reply = refusal
        /\ x.task = task /\ x = [f \in DOMAIN x |-> x[f]]
        /\ {"kind", "asked", "symbols", "reply", "task"} \subseteq DOMAIN x
    <3> HIDE DEF symbols
    <3> QED
      OBVIOUS
  <2>6. x.symbols = Normalized(x.asked)
    BY <2>5
  <2> HIDE DEF x, symbols
  <2>7. x.kind = "snapshots" => Refused(x) \/ Working(x)
    BY <2>3, <2>4, <2>5 DEF Refused, Working
  <2>8. DOMAIN x.task \subseteq ToSet(x.symbols)
    BY <2>4, <2>5
  <2>9. BatchOK(x)
    BY <2>2, <2>4, <2>5, <2>6, <2>7, <2>8 DEF BatchOK
  <2> QED
    BY <1>1, <2>1, <2>9
<1>3. ASSUME NEW query, NEW asked \in Asks, BeginDataset(r, query, asked)
      PROVE  BatchInv'
  <2> DEFINE symbol == NormalForm[asked[1]]
  <2>1. PICK refusal, task :
           /\ Begin(r, [kind |-> "dataset", query |-> query, asked |-> asked,
                        symbols |-> <<symbol>>, reply |-> refusal, task |-> task])
           /\ task = <<>> \/ task = [s \in {symbol} |-> Waiting]
           /\ UNCHANGED threadVars /\ Len(asked) = 1
    BY <1>3 DEF BeginDataset
  <2>2. symbol \in Names
    <3>1. asked \in Seq(DOMAIN NormalForm)
      BY AsksAssumption
    <3>2. asked[1] \in DOMAIN NormalForm
      BY <2>1, <3>1
    <3> QED
      BY <3>2 DEF Names
  <2> HIDE DEF symbol
  <2>3. task = [s \in DOMAIN task |-> task[s]] /\ DOMAIN task \subseteq {symbol}
    <3>1. CASE task = [s \in {symbol} |-> Waiting]
      BY <3>1
    <3>2. CASE task = <<>>
      <4>1. DOMAIN <<>> = {} /\ <<>> = [s \in {} |-> <<>>[s]]
        OBVIOUS
      <4> QED
        BY <3>2, <4>1
    <3> QED
      BY <2>1, <3>1, <3>2
  <2>4. <<symbol>> \in Seq(Names) /\ ToSet(<<symbol>>) = {symbol}
    BY <2>2 DEF ToSet
  <2> DEFINE x == [kind |-> "dataset", query |-> query, asked |-> asked, symbols |-> <<symbol>>,
                   reply |-> refusal, task |-> task]
  <2>5. /\ x.kind = "dataset" /\ x.symbols = <<symbol>> /\ x.task = task
        /\ x = [f \in DOMAIN x |-> x[f]]
        /\ {"kind", "asked", "symbols", "reply", "task"} \subseteq DOMAIN x
    OBVIOUS
  <2>6. Begin(r, x)
    BY <2>1
  <2> HIDE DEF x
  <2>7. BatchOK(x)
    BY <2>3, <2>4, <2>5 DEF BatchOK
  <2> QED
    BY <1>1, <2>1, <2>6, <2>7
<1> QED
  BY <1>2, <1>3 DEF MarketBegins

\* Requests stand still: what they await has stayed in the pool.
LEMMA StillBatch ==
    ASSUME BatchInv, req' = req, PoolOK', Pooled' = Pooled
    PROVE  BatchInv'
<1>1. \A job \in Pooled' : Awaits(req[job[1]], job[2])'
  BY DEF BatchInv, Awaits
<1>2. \A k \in Slots : Serves(k, MarketKinds)' => BatchOK(req[k])'
  BY DEF BatchInv, Serves, BatchOK, Refused, Working, Settled
<1> QED
  BY <1>1, <1>2 DEF BatchInv

\* Nobody has asked for anything.
LEMMA InitHasBatch == Init => BatchInv
<1> SUFFICES ASSUME Init PROVE BatchInv
  OBVIOUS
<1>1. queue = <<>> /\ busy = {} /\ req = [r \in Slots |-> Idle]
  BY DEF Init, ThreadsInit
<1>2. Range(queue) = {} /\ IsInjective(queue) /\ queue \in Seq(Jobs)
  BY <1>1 DEF Range, IsInjective
<1>3. \A r \in Slots : ~ Serves(r, MarketKinds)
  BY <1>1 DEF Serves, Idle, MarketKinds
<1> QED
  BY <1>1, <1>2, <1>3 DEF BatchInv, PoolOK, Pooled

\* Every step keeps what the batches rest on.
LEMMA NextKeepsBatch == AccountsInv /\ BatchInv /\ [Next]_vars => BatchInv'
<1> SUFFICES ASSUME AccountsInv, BatchInv, [Next]_vars PROVE BatchInv'
  OBVIOUS
<1>0. PoolOK
  BY DEF BatchInv
<1>1. ASSUME req' = req, queue' = queue, busy' = busy PROVE BatchInv'
  BY <1>0, <1>1, PoolStays, StillBatch
<1>2. CASE SessionExpires
  BY <1>1, <1>2 DEF SessionExpires, threadVars
<1>3. CASE ThreadTakes /\ req' = req
  BY <1>0, <1>3, PoolTakes, StillBatch
<1>4. CASE AbandonedReturns /\ req' = req
  BY <1>1, <1>4 DEF AbandonedReturns
<1>5. CASE UNCHANGED vars
  BY <1>1, <1>5 DEF vars, threadVars
<1> QED
  BY <1>2, <1>3, <1>4, <1>5, AccountBeginsBatch, MarketBeginsBatch, AccountStepBatch,
     DatabaseFailsBatch, MarketStepBatch DEF Next

\* For any symbols, spellings and histories and any number of requests and
\* threads, every job in the pool is awaited by the request it belongs to, once,
\* and every market request is as BatchOK describes.
THEOREM BatchesInvariant == Spec => []BatchInv
<1>1. Init => AccountsInv /\ BatchInv
  BY InitHasInv, InitHasBatch
<1>2. AccountsInv /\ BatchInv /\ [Next]_vars => (AccountsInv /\ BatchInv)'
  BY NextKeepsInv, NextKeepsBatch
<1> QED
  BY <1>1, <1>2, PTL DEF Spec

\* What an item says of its lookup.
LEMMA SnapshotFacts ==
    ASSUME NEW s, NEW outcome, outcome.is \in {"failed", "found"}
    PROVE  /\ Snapshot(s, outcome).symbol = s
           /\ Snapshot(s, outcome).status = "ok"
                 <=> outcome.is = "found" /\ Analysable(outcome.history, 2)
           /\ Snapshot(s, outcome).status = "symbol_not_found" <=> outcome = NotFound
<1>1. NotFound.is = "failed"
  BY DEF NotFound, Failed
<1>2. CASE outcome.is = "failed"
  BY <1>2 DEF Snapshot
<1>3. CASE outcome.is = "found" /\ Analysable(outcome.history, 2)
  <2>1. Snapshot(s, outcome) = [symbol |-> s, status |-> "ok"]
    BY <1>3 DEF Snapshot
  <2> QED
    BY <1>1, <1>3, <2>1
<1>4. CASE outcome.is = "found" /\ ~ Analysable(outcome.history, 2)
  <2>1. Snapshot(s, outcome) = [symbol |-> s, status |-> "provider_unavailable"]
    BY <1>4 DEF Snapshot
  <2> QED
    BY <1>1, <1>4, <2>1
<1> QED
  BY <1>2, <1>3, <1>4

\* A batch that was answered has an item per symbol, in order, of its own lookup.
LEMMA AnsweredBatch ==
    ASSUME NEW q, BatchOK(q), q.kind = "snapshots", q.reply # None, q.reply.is = "answered"
    PROVE  LET items == q.reply.body IN
           /\ {items[i].symbol : i \in DOMAIN items} = {NormalForm[a] : a \in ToSet(q.asked)}
           /\ \A i, j \in DOMAIN items : i < j =>
                 FirstAsked(q.asked, items[i].symbol) < FirstAsked(q.asked, items[j].symbol)
           /\ \A i \in DOMAIN items :
                 LET outcome == q.task[items[i].symbol] IN
                 /\ items[i].status = "ok"
                       <=> outcome.is = "found" /\ Analysable(outcome.history, 2)
                 /\ items[i].status = "symbol_not_found" <=> outcome = NotFound
<1>1. \A code : Error(code).is = "error"
  BY DEF Error
<1>2. q.asked \in Asks /\ q.symbols = Normalized(q.asked) /\ (Refused(q) \/ Working(q))
  BY DEF BatchOK
<1>3. /\ q.reply = Answered(Items(q.symbols, q.task)) /\ Settled(q.task)
      /\ DOMAIN q.task = ToSet(q.symbols)
  BY <1>1, <1>2 DEF Refused, Working
<1> DEFINE items == q.reply.body
<1>4. items = Items(q.symbols, q.task)
  BY <1>3 DEF Answered
<1>5. /\ q.symbols \in Seq(Names)
      /\ ToSet(q.symbols) = {NormalForm[a] : a \in ToSet(q.asked)}
      /\ \A i, j \in DOMAIN q.symbols : i < j =>
            FirstAsked(q.asked, q.symbols[i]) < FirstAsked(q.asked, q.symbols[j])
  BY <1>2, AsksAssumption, NormalizedFacts
<1>6. DOMAIN items = DOMAIN q.symbols
      /\ \A i \in DOMAIN items : items[i] = Snapshot(q.symbols[i], q.task[q.symbols[i]])
  BY <1>4 DEF Items
<1>7. \A i \in DOMAIN items : q.task[q.symbols[i]].is \in {"failed", "found"}
  BY <1>3, <1>6 DEF Settled, ToSet
<1> HIDE DEF items
<1>8. ASSUME NEW i \in DOMAIN items
      PROVE  /\ items[i].symbol = q.symbols[i]
             /\ items[i].status = "ok"
                   <=> /\ q.task[q.symbols[i]].is = "found"
                       /\ Analysable(q.task[q.symbols[i]].history, 2)
             /\ items[i].status = "symbol_not_found" <=> q.task[q.symbols[i]] = NotFound
  <2>1. PICK outcome : outcome = q.task[q.symbols[i]]
    OBVIOUS
  <2>2. outcome.is \in {"failed", "found"} /\ items[i] = Snapshot(q.symbols[i], outcome)
    BY <1>6, <1>7, <2>1
  <2> QED
    BY <2>1, <2>2, SnapshotFacts
<1>9. {items[i].symbol : i \in DOMAIN items} = ToSet(q.symbols)
  BY <1>6, <1>8 DEF ToSet
<1>10. \A i, j \in DOMAIN items : i < j =>
          FirstAsked(q.asked, items[i].symbol) < FirstAsked(q.asked, items[j].symbol)
  BY <1>5, <1>6, <1>8
<1> QED
  BY <1>5, <1>8, <1>9, <1>10 DEF items

\* A batch that was not has a spelling no ticker has, or a close to divide by that is zero.
LEMMA FailedBatch ==
    ASSUME NEW q, BatchOK(q), q.kind = "snapshots", q.reply # None, q.reply.is # "answered"
    PROVE  \/ \E a \in ToSet(q.asked) : NormalForm[a] = Invalid
           \/ \E s \in DOMAIN q.task :
                 /\ q.task[s].is = "found" /\ Analysable(q.task[s].history, 2)
                 /\ DividesByZero(q.task[s].history)
<1>1. \A body : Answered(body).is = "answered"
  BY DEF Answered
<1>2. q.asked \in Asks /\ q.symbols = Normalized(q.asked) /\ (Refused(q) \/ Working(q))
  BY DEF BatchOK
<1>3. CASE Refused(q)
  <2>1. ToSet(q.symbols) = {NormalForm[a] : a \in ToSet(q.asked)}
    BY <1>2, AsksAssumption, NormalizedFacts
  <2>2. Invalid \in ToSet(q.symbols)
    BY <1>3 DEF Refused
  <2> QED
    BY <2>1, <2>2
<1>4. CASE Working(q)
  <2>1. PICK s \in DOMAIN q.task : q.task[s].is = "found" /\ DividesByZero(q.task[s].history)
    BY <1>1, <1>4 DEF Working
  <2>2. Analysable(q.task[s].history, 2)
    BY <2>1 DEF DividesByZero
  <2> QED
    BY <2>1, <2>2
<1> QED
  BY <1>2, <1>3, <1>4

\* BatchesAnswerEverySymbol: a batch answers with one item per distinct symbol in
\* the order asked for, each item what its own lookup came to, in whatever order
\* lookups, timeouts and other requests' jobs end, for any number of threads.
THEOREM BatchesAnswer == Spec => []BatchesAnswerEverySymbol
<1>1. BatchInv => BatchesAnswerEverySymbol
  <2> SUFFICES ASSUME BatchInv PROVE BatchesAnswerEverySymbol
    OBVIOUS
  <2>1. \A r \in Slots : Serves(r, {"snapshots"}) => req[r].kind = "snapshots" /\ BatchOK(req[r])
    BY DEF BatchInv, Serves, MarketKinds
  <2> QED
    BY <2>1, AnsweredBatch, FailedBatch DEF BatchesAnswerEverySymbol
<1> QED
  BY <1>1, BatchesInvariant, PTL
=============================================================================
