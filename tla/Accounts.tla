------------------------------- MODULE Accounts -------------------------------
(***************************************************************************)
(* Registration, login and sessions: the gateway's handlers                *)
(* (gateway/internal/api/auth.go), the middleware that reads the session   *)
(* cookie, and repo's table users behind them (service/user.go,            *)
(* repository/user.go).                                                    *)
(*                                                                         *)
(* A call is one HTTP request of one browser; it runs in a goroutine of    *)
(* its own.  net/http keeps the first status a handler writes, and drops   *)
(* a cookie set after it, while the handler runs on until it returns.      *)
(***************************************************************************)
EXTENDS Integers, FiniteSets

CONSTANTS Names, Emails, \* user names and addresses
          Secrets,       \* passwords as typed
          Long,          \* passwords of more than 72 bytes, refused by bcrypt
          Key,           \* what bcrypt's comparison reads: the first 72 bytes
          Ids,           \* row ids (uuid.NewV4)
          Seeds,         \* rows of the seed migration
          Browsers, Calls,
          None,          \* no row, no session
          MaxFaults      \* bound: calls cut off, queries that fail

\* A stored password is a bcrypt hash, the text of a seed, or the empty string.
Hashed(s) == <<"bcrypt", Key[s]>>
Empty == <<"empty", None>>
StoredPasswords == {"bcrypt", "plain", "empty"} \X (Secrets \cup {None})

User == [id : Ids, name : Names, email : Emails, password : StoredPasswords]
Form == [name : Names, email : Emails, secret : Secrets]
LoginForm == [name : Names, email : {None}, secret : Secrets]

ASSUME AccountsAssumption ==
    /\ Long \subseteq Secrets
    /\ Key \in [Secrets -> Secrets \ Long]
    /\ \A s \in Secrets \ Long : Key[s] = s
    /\ Seeds \subseteq User
    /\ \A u, w \in Seeds : u = w \/ (u.id # w.id /\ u.name # w.name /\ u.email # w.email)
    /\ None \notin Names \cup Emails \cup Secrets \cup Ids \cup User
    /\ MaxFaults \in Nat

VARIABLES
    users,    \* the table
    pc,       \* per call, where its handler is
    op,       \* per call, the handler it went to
    browser,  \* per call, who sent it
    form,     \* per call, the decoded body
    found,    \* per call, the row repo answered with
    status,   \* per call, the first status written (0: none yet)
    jar,      \* per browser, the user id of its session cookie
    faults

callVars == <<pc, op, browser, form, found, status>>
vars == <<users, callVars, jar, faults>>

States == {"idle", "insert", "inserted", "refused", "lookup", "check", "done", "lost"}
Statuses == {0, 200, 201, 303, 400, 401, 500}

Init ==
    /\ users = Seeds
    /\ pc = [c \in Calls |-> "idle"]
    /\ op = [c \in Calls |-> None]
    /\ browser = [c \in Calls |-> None]
    /\ form = [c \in Calls |-> None]
    /\ found = [c \in Calls |-> None]
    /\ status = [c \in Calls |-> 0]
    /\ jar = [b \in Browsers |-> None]
    /\ faults = 0

Goto(c, state) == pc' = [pc EXCEPT ![c] = state]

\* http.Error and WriteHeader: only the first status counts.
First(c, code) == IF status[c] = 0 THEN code ELSE status[c]
Write(c, code) == status' = [status EXCEPT ![c] = First(c, code)]

\* A request of browser b arrives at a handler.
Arrive(c, b, handler) ==
    /\ pc[c] = "idle"
    /\ op' = [op EXCEPT ![c] = handler]
    /\ browser' = [browser EXCEPT ![c] = b]

Fault == faults < MaxFaults /\ faults' = faults + 1

-----------------------------------------------------------------------------
(* Register.                                                               *)

\* A failed hash is reported, but Register and Login run on.
AfterHash(s) == IF s \in Long THEN 500 ELSE 0
HashErrorIgnored(s) == 0            \* faulty: nothing is reported

HashStatus(s) == AfterHash(s)

\* The body is decoded and the password hashed.
Begin(c, b, handler, f, next) ==
    /\ Arrive(c, b, handler)
    /\ form' = [form EXCEPT ![c] = f]
    /\ status' = [status EXCEPT ![c] = HashStatus(f.secret)]
    /\ Goto(c, next)
    /\ UNCHANGED <<users, found, jar, faults>>

BeginRegister(c, b, f) == Begin(c, b, "register", f, "insert")

\* A body that is not JSON.
BadPayload(c, b, handler) ==
    /\ Arrive(c, b, handler)
    /\ Write(c, 400)
    /\ Goto(c, "done")
    /\ UNCHANGED <<users, form, found, jar, faults>>

\* What the row stores: HashPassword returns "" beside its error.
NewPassword(s) == IF s \in Long THEN Empty ELSE Hashed(s)

NewUser(c, d) == [id |-> d, name |-> form[c].name, email |-> form[c].email,
                  password |-> NewPassword(form[c].secret)]

\* The UNIQUE columns of the table.
Unique(u) == \A w \in users : w.name # u.name /\ w.email # u.email
UniqueName(u) ==                    \* faulty: no UNIQUE on email
    \A w \in users : w.name # u.name

Admitted(u) == Unique(u)

\* userRepo.CreateUser: one INSERT with a fresh id.  It may fail without effect,
\* and it may take effect without its answer coming back.
Insert(c, d) ==
    /\ pc[c] = "insert"
    /\ d \notin {u.id : u \in users}
    /\ \/ /\ Admitted(NewUser(c, d))
          /\ users' = users \cup {NewUser(c, d)}
          /\ \/ /\ Goto(c, "inserted")
                /\ found' = [found EXCEPT ![c] = NewUser(c, d)]
                /\ UNCHANGED faults
             \/ Goto(c, "refused") /\ Fault /\ UNCHANGED found
       \/ /\ \/ ~Admitted(NewUser(c, d)) /\ UNCHANGED faults
             \/ Fault
          /\ Goto(c, "refused")
          /\ UNCHANGED <<users, found>>
    /\ UNCHANGED <<op, browser, form, status, jar>>

\* The end of Register.
Answer(c) ==
    /\ \/ pc[c] = "inserted" /\ Write(c, 201)
       \/ pc[c] = "refused" /\ Write(c, 500)
    /\ Goto(c, "done")
    /\ UNCHANGED <<users, op, browser, form, found, jar, faults>>

-----------------------------------------------------------------------------
(* Login, Logout.                                                          *)

BeginLogin(c, b, f) == Begin(c, b, "login", f, "lookup")

\* SELECT by user name.
RowsOf(c) == {u \in users : u.name = form[c].name}

\* GetUser.  No row and a failed query end alike.
Lookup(c) ==
    /\ pc[c] = "lookup"
    /\ \/ /\ \E u \in RowsOf(c) : found' = [found EXCEPT ![c] = u]
          /\ Goto(c, "check")
          /\ UNCHANGED <<status, faults>>
       \/ /\ \/ RowsOf(c) = {} /\ UNCHANGED faults
             \/ Fault
          /\ Write(c, 500)
          /\ Goto(c, "done")
          /\ UNCHANGED found
    /\ UNCHANGED <<users, op, browser, form, jar>>

\* utils.CheckPasswordHash.
Matches(s, stored) == stored = Hashed(s)

\* The header SetCookie adds is sent only with the status that follows it.
BeforeStatus(c) == status[c] = 0
Anytime(c) == TRUE                  \* faulty: the cookie is sent whatever was written

CookieSent(c) == BeforeStatus(c)

\* What GenToken puts in the token: the id of the row that was found.
IdFound(c) == found[c].id
NameFound(c) == found[c].name       \* faulty: the user name instead

SessionOf(c) == IdFound(c)

\* The rest of Login; the Redirect at its end comes after the status.  The
\* answer, cookie included, may not reach the browser.
Check(c) ==
    /\ pc[c] = "check"
    /\ Goto(c, "done")
    /\ IF Matches(form[c].secret, found[c].password)
       THEN /\ Write(c, 200)
            /\ \/ /\ CookieSent(c)
                  /\ jar' = [jar EXCEPT ![browser[c]] = SessionOf(c)]
                  /\ UNCHANGED faults
               \/ ~CookieSent(c) /\ UNCHANGED <<jar, faults>>
               \/ Fault /\ UNCHANGED jar
       ELSE Write(c, 401) /\ UNCHANGED <<jar, faults>>
    /\ UNCHANGED <<users, op, browser, form, found>>

\* Logout deletes the browser's cookie; the token itself has no end.
Logout(c, b) ==
    /\ Arrive(c, b, "logout")
    /\ jar' = [jar EXCEPT ![b] = None]
    /\ Write(c, 303)
    /\ Goto(c, "done")
    /\ UNCHANGED <<users, form, found, faults>>

\* AuthMiddleware and ValidateToken: the user id a handler behind it works for.
UserOf(b) == jar[b]

\* A call behind AuthMiddleware, here the refusal of one without a session.
Guarded(c, b) ==
    /\ Arrive(c, b, "guarded")
    /\ Write(c, IF UserOf(b) = None THEN 401 ELSE 200)
    /\ Goto(c, "done")
    /\ UNCHANGED <<users, form, found, jar, faults>>

\* The client goes away or a service dies in the middle of a call.
Cut(c) ==
    /\ pc[c] \notin {"idle", "done", "lost"}
    /\ Fault
    /\ Goto(c, "lost")
    /\ UNCHANGED <<users, op, browser, form, found, status, jar>>

Register(c) == \/ \E b \in Browsers, f \in Form : BeginRegister(c, b, f)
               \/ \E d \in Ids : Insert(c, d)
               \/ Answer(c)
Login(c) == \/ \E b \in Browsers, f \in LoginForm : BeginLogin(c, b, f)
            \/ Lookup(c) \/ Check(c)
Other(c) == \E b \in Browsers : \/ \E h \in {"register", "login"} : BadPayload(c, b, h)
                                 \/ Logout(c, b) \/ Guarded(c, b)

Next == \E c \in Calls : Register(c) \/ Login(c) \/ Other(c) \/ Cut(c)

Spec == Init /\ [][Next]_vars

-----------------------------------------------------------------------------
\* Rows, calls and cookies are well formed.
TypeOK ==
    /\ users \subseteq User
    /\ pc \in [Calls -> States]
    /\ op \in [Calls -> {"register", "login", "logout", "guarded", None}]
    /\ browser \in [Calls -> Browsers \cup {None}]
    /\ form \in [Calls -> Form \cup LoginForm \cup {None}]
    /\ found \in [Calls -> User \cup {None}]
    /\ status \in [Calls -> Statuses]
    /\ jar \in [Browsers -> Ids \cup {None}]
    /\ faults \in 0..MaxFaults

\* A call that registered its user.
Welcomed(c) == op[c] = "register" /\ status[c] = 201

\* However many registrations run at once or are repeated after a lost answer,
\* at most one per user name and one per address is answered 201, and the table
\* holds one account for each.
OneAccountEach ==
    /\ \A u, w \in users : u.name = w.name \/ u.email = w.email => u = w
    /\ \A c, d \in Calls :
          c # d /\ Welcomed(c) /\ Welcomed(d)
              => form[c].name # form[d].name /\ form[c].email # form[d].email

\* Who was answered 201 can log in, from then on, with what was typed: the
\* failed hash, after which Register goes on and creates a row without a
\* password, is never answered 201.
RegisteredCanLogIn ==
    \A c \in Calls : Welcomed(c) =>
        \E u \in users : /\ u.name = form[c].name
                         /\ u.email = form[c].email
                         /\ Matches(form[c].secret, u.password)

\* A browser's session is the account of a login of that browser that was
\* answered 200 with that account's password: neither a login that went on
\* after a failed hash nor one of another browser or name ever sets it.
SessionIsEarned ==
    \A b \in Browsers : jar[b] # None =>
        \E c \in Calls, u \in users :
            /\ op[c] = "login" /\ browser[c] = b /\ status[c] = 200
            /\ u.id = jar[b] /\ u.name = form[c].name
            /\ Matches(form[c].secret, u.password)
=============================================================================
