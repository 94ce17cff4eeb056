---------------------------- MODULE AccountsProofs ----------------------------
(***************************************************************************)
(* Registration and login for any table, any number of calls, browsers and *)
(* faults.  None of the properties is inductive by itself.  What a call    *)
(* answers depends on what it did several steps before: Stage ties the     *)
(* point a handler is at to the status already written, the body decoded   *)
(* and the row in hand.  That two calls never both register a name needs   *)
(* more: each of them holds a row of its own (OwnRows), and the table      *)
(* holds one row for each name, address and id (OneRowEach).               *)
(***************************************************************************)
EXTENDS Accounts, TLAPS

\* Row r of table T is the one a registration of body f creates.
RowFor(r, f, T) ==
    /\ f \in Form
    /\ r \in T
    /\ r.name = f.name
    /\ r.email = f.email
    /\ r.password = NewPassword(f.secret)

\* What holds of a call at p in handler o of browser b, with body f, row r and
\* status s, over table T.
Stage(p, o, b, f, r, s, T) ==
    /\ p = "idle" => s = 0 /\ r = None
    /\ p \in {"insert", "inserted", "refused"} => o = "register" /\ f \in Form
    /\ p \in {"lookup", "check"} => o = "login" /\ f \in LoginForm /\ b \in Browsers
    /\ p \in {"insert", "inserted", "lookup", "check"} => s = HashStatus(f.secret)
    /\ p = "insert" => r = None
    /\ p = "inserted" => RowFor(r, f, T)
    /\ p = "check" => r \in T /\ r.name = f.name
    /\ o = "register" /\ s = 201 => /\ p = "done"
                                    /\ RowFor(r, f, T)
                                    /\ f.secret \notin Long

Stages == \A c \in Calls :
    Stage(pc[c], op[c], browser[c], form[c], found[c], status[c], users)

OneRowEach == \A u, w \in users :
    u.id = w.id \/ u.name = w.name \/ u.email = w.email => u = w

\* A call that holds the row it created.
Created(c) == pc[c] = "inserted" \/ Welcomed(c)

OwnRows == \A c, d \in Calls :
    c # d /\ Created(c) /\ Created(d) => found[c].id # found[d].id

Inv == TypeOK /\ Stages /\ OneRowEach /\ OwnRows /\ SessionIsEarned

-----------------------------------------------------------------------------
\* A failed hash writes 500, any other nothing.
LEMMA HashCodes ==
    ASSUME NEW s \in Secrets
    PROVE  /\ HashStatus(s) \in {0, 500}
           /\ HashStatus(s) = 500 <=> s \in Long
           /\ NewPassword(s) \in StoredPasswords
           /\ s \notin Long => NewPassword(s) = Hashed(s)
<1>1. Hashed(s) \in StoredPasswords
  BY AccountsAssumption DEF Hashed, StoredPasswords
<1>2. Empty \in StoredPasswords
  BY DEF Empty, StoredPasswords
<1> QED
  BY <1>1, <1>2 DEF HashStatus, AfterHash, NewPassword

\* What holds of a call still holds when the table grows.
LEMMA StageGrows ==
    ASSUME NEW p, NEW o, NEW b, NEW f, NEW r, NEW s, NEW T, NEW U,
           T \subseteq U, Stage(p, o, b, f, r, s, T)
    PROVE  Stage(p, o, b, f, r, s, U)
BY DEF Stage, RowFor

\* A step of call c leaves the other calls and every row alone.
OnlyCall(c) ==
    /\ users \subseteq users'
    /\ \A e \in Calls \ {c} :
          /\ pc'[e] = pc[e] /\ op'[e] = op[e] /\ browser'[e] = browser[e]
          /\ form'[e] = form[e] /\ found'[e] = found[e] /\ status'[e] = status[e]

LEMMA StepsAreLocal ==
    ASSUME NEW c \in Calls, TypeOK, Register(c) \/ Login(c) \/ Other(c) \/ Cut(c)
    PROVE  OnlyCall(c)
<1> USE DEF OnlyCall, TypeOK, Arrive, Goto, Write
<1>1. ASSUME NEW b, NEW h, NEW f, NEW n, Begin(c, b, h, f, n) PROVE OnlyCall(c)
  BY <1>1 DEF Begin
<1>2. ASSUME NEW d, Insert(c, d) PROVE OnlyCall(c)
  BY <1>2 DEF Insert
<1>3. ASSUME Answer(c) PROVE OnlyCall(c)
  BY <1>3 DEF Answer
<1>4. ASSUME Lookup(c) PROVE OnlyCall(c)
  BY <1>4 DEF Lookup
<1>5. ASSUME Check(c) PROVE OnlyCall(c)
  BY <1>5 DEF Check
<1>6. ASSUME NEW b, NEW h, BadPayload(c, b, h) \/ Logout(c, b) \/ Guarded(c, b)
      PROVE  OnlyCall(c)
  BY <1>6 DEF BadPayload, Logout, Guarded
<1>7. ASSUME Cut(c) PROVE OnlyCall(c)
  BY <1>7 DEF Cut
<1> QED
  BY <1>1, <1>2, <1>3, <1>4, <1>5, <1>6, <1>7
     DEF Register, Login, Other, BeginRegister, BeginLogin

-----------------------------------------------------------------------------
\* The step keeps the types, and leaves its own call in order.
LEMMA BeginSteps ==
    ASSUME NEW c \in Calls, NEW b \in Browsers, TypeOK, Stages,
           \/ \E f \in Form : BeginRegister(c, b, f)
           \/ \E f \in LoginForm : BeginLogin(c, b, f)
    PROVE  /\ TypeOK'
           /\ Stage(pc'[c], op'[c], browser'[c], form'[c], found'[c], status'[c], users')
           /\ status'[c] # 201
           /\ users' = users /\ jar' = jar /\ faults' = faults
           /\ pc'[c] \in {"insert", "lookup"} /\ pc[c] = "idle"
<1> USE DEF TypeOK, Arrive, Goto
<1>1. pc[c] = "idle" => found[c] = None
  BY DEF Stages, Stage
<1>2. ASSUME NEW f \in Form, BeginRegister(c, b, f)
      PROVE  /\ TypeOK'
             /\ Stage(pc'[c], op'[c], browser'[c], form'[c], found'[c], status'[c], users')
             /\ status'[c] # 201
             /\ users' = users /\ jar' = jar /\ faults' = faults
             /\ pc'[c] = "insert" /\ pc[c] = "idle"
  <2>1. f.secret \in Secrets
    BY DEF Form
  <2>2. /\ HashStatus(f.secret) \in {0, 500}
        /\ HashStatus(f.secret) = 500 <=> f.secret \in Long
    BY <2>1, HashCodes
  <2>3. /\ pc' = [pc EXCEPT ![c] = "insert"] /\ pc[c] = "idle"
        /\ op' = [op EXCEPT ![c] = "register"]
        /\ browser' = [browser EXCEPT ![c] = b]
        /\ form' = [form EXCEPT ![c] = f]
        /\ status' = [status EXCEPT ![c] = HashStatus(f.secret)]
        /\ users' = users /\ jar' = jar /\ faults' = faults /\ found' = found
    BY <1>2 DEF BeginRegister, Begin
  <2>4. TypeOK'
    BY <2>2, <2>3 DEF States, Statuses
  <2>5. /\ pc'[c] = "insert" /\ op'[c] = "register" /\ form'[c] = f
        /\ status'[c] = HashStatus(f.secret) /\ found'[c] = None
    BY <1>1, <2>3
  <2> QED
    BY <2>2, <2>3, <2>4, <2>5 DEF Stage
<1>3. ASSUME NEW f \in LoginForm, BeginLogin(c, b, f)
      PROVE  /\ TypeOK'
             /\ Stage(pc'[c], op'[c], browser'[c], form'[c], found'[c], status'[c], users')
             /\ status'[c] # 201
             /\ users' = users /\ jar' = jar /\ faults' = faults
             /\ op'[c] = "login"
             /\ pc'[c] = "lookup" /\ pc[c] = "idle"
  <2>1. f.secret \in Secrets
    BY DEF LoginForm
  <2>2. HashStatus(f.secret) \in {0, 500}
    BY <2>1, HashCodes
  <2>3. /\ pc' = [pc EXCEPT ![c] = "lookup"] /\ pc[c] = "idle"
        /\ op' = [op EXCEPT ![c] = "login"]
        /\ browser' = [browser EXCEPT ![c] = b]
        /\ form' = [form EXCEPT ![c] = f]
        /\ status' = [status EXCEPT ![c] = HashStatus(f.secret)]
        /\ users' = users /\ jar' = jar /\ faults' = faults /\ found' = found
    BY <1>3 DEF BeginLogin, Begin
  <2>4. TypeOK'
    BY <2>2, <2>3 DEF States, Statuses
  <2>5. /\ pc'[c] = "lookup" /\ op'[c] = "login" /\ form'[c] = f
        /\ browser'[c] = b /\ status'[c] = HashStatus(f.secret)
    BY <2>3
  <2> QED
    BY <2>2, <2>3, <2>4, <2>5 DEF Stage
<1> QED
  BY <1>2, <1>3

\* An INSERT keeps the table's keys, and gives its call a row of its own.
LEMMA InsertStep ==
    ASSUME NEW c \in Calls, NEW d \in Ids, TypeOK, Stages, OneRowEach, Insert(c, d)
    PROVE  /\ TypeOK'
           /\ Stage(pc'[c], op'[c], browser'[c], form'[c], found'[c], status'[c], users')
           /\ OneRowEach'
           /\ status' = status /\ op' = op /\ form' = form /\ jar' = jar
           /\ pc[c] = "insert" /\ status[c] # 201
           /\ pc'[c] = "inserted" => \A u \in users : u.id # found'[c].id
<1> USE DEF TypeOK, Goto
<1> DEFINE new == NewUser(c, d)
<1>1. /\ pc[c] = "insert" /\ op[c] = "register" /\ form[c] \in Form /\ found[c] = None
      /\ status[c] = HashStatus(form[c].secret)
  BY DEF Insert, Stages, Stage
<1>2. /\ form[c].secret \in Secrets /\ form[c].name \in Names /\ form[c].email \in Emails
  BY <1>1 DEF Form
<1>3. /\ status[c] \in {0, 500}
      /\ status[c] = 500 <=> form[c].secret \in Long
      /\ NewPassword(form[c].secret) \in StoredPasswords
  BY <1>1, <1>2, HashCodes
<1>4. /\ new \in User /\ new.id = d /\ new.name = form[c].name /\ new.email = form[c].email
      /\ new.password = NewPassword(form[c].secret)
  BY <1>2, <1>3 DEF NewUser, User
<1>5. \A u \in users : u.id # d
  BY DEF Insert
<1>6. /\ status' = status /\ op' = op /\ form' = form /\ jar' = jar /\ browser' = browser
  BY DEF Insert
<1>7. CASE /\ Admitted(new) /\ users' = users \cup {new}
           /\ pc' = [pc EXCEPT ![c] = "inserted"] /\ found' = [found EXCEPT ![c] = new]
           /\ faults' = faults
  <2>1. TypeOK'
    BY <1>4, <1>6, <1>7 DEF States
  <2>2. OneRowEach'
    BY <1>4, <1>5, <1>7 DEF OneRowEach, Admitted, Unique
  <2>3. /\ pc'[c] = "inserted" /\ found'[c] = new /\ new \in users'
    BY <1>7
  <2>4. Stage(pc'[c], op'[c], browser'[c], form'[c], found'[c], status'[c], users')
    BY <1>1, <1>3, <1>4, <1>6, <2>3 DEF Stage, RowFor
  <2> QED
    BY <1>1, <1>3, <1>4, <1>5, <1>6, <2>1, <2>2, <2>3, <2>4
<1>8. CASE /\ Admitted(new) /\ users' = users \cup {new}
           /\ pc' = [pc EXCEPT ![c] = "refused"] /\ found' = found /\ Fault
  <2>1. TypeOK'
    BY <1>4, <1>6, <1>8, AccountsAssumption DEF States, Fault
  <2>2. OneRowEach'
    BY <1>4, <1>5, <1>8 DEF OneRowEach, Admitted, Unique
  <2>3. pc'[c] = "refused"
    BY <1>8
  <2>4. Stage(pc'[c], op'[c], browser'[c], form'[c], found'[c], status'[c], users')
    BY <1>1, <1>3, <1>6, <2>3 DEF Stage
  <2> QED
    BY <1>1, <1>3, <1>6, <2>1, <2>2, <2>3, <2>4
<1>9. CASE /\ (faults' = faults \/ Fault)
           /\ pc' = [pc EXCEPT ![c] = "refused"] /\ found' = found /\ users' = users
  <2>1. TypeOK'
    BY <1>6, <1>9, AccountsAssumption DEF States, Fault
  <2>2. pc'[c] = "refused"
    BY <1>9
  <2>3. Stage(pc'[c], op'[c], browser'[c], form'[c], found'[c], status'[c], users')
    BY <1>1, <1>3, <1>6, <2>2 DEF Stage
  <2> QED
    BY <1>1, <1>3, <1>6, <1>9, <2>1, <2>2, <2>3 DEF OneRowEach
<1> QED
  BY <1>7, <1>8, <1>9 DEF Insert

\* The end of Register: 201 only after an INSERT of a hash.
LEMMA AnswerStep ==
    ASSUME NEW c \in Calls, TypeOK, Stages, Answer(c)
    PROVE  /\ TypeOK'
           /\ Stage(pc'[c], op'[c], browser'[c], form'[c], found'[c], status'[c], users')
           /\ users' = users /\ jar' = jar /\ faults' = faults
           /\ found' = found /\ op' = op /\ form' = form
           /\ pc'[c] = "done" /\ status[c] # 201
           /\ status'[c] = 201 => pc[c] = "inserted"
<1> USE DEF TypeOK, Goto, Write, First
<1>1. /\ pc' = [pc EXCEPT ![c] = "done"]
      /\ users' = users /\ jar' = jar /\ faults' = faults
      /\ found' = found /\ op' = op /\ form' = form /\ browser' = browser
  BY DEF Answer
<1>2. pc'[c] = "done" /\ op[c] = "register" /\ form[c] \in Form
  BY <1>1 DEF Answer, Stages, Stage
<1>3. status[c] # 201
  <2>1. form[c].secret \in Secrets
    BY <1>2 DEF Form
  <2>2. CASE pc[c] = "inserted"
    BY <2>1, <2>2, HashCodes DEF Stages, Stage
  <2>3. CASE pc[c] = "refused"
    BY <2>3, <1>2 DEF Stages, Stage, Answer
  <2> QED
    BY <2>2, <2>3 DEF Answer
<1>4. /\ status' \in [Calls -> Statuses]
      /\ status'[c] = 201 => pc[c] = "inserted"
      /\ status'[c] = 201 => status[c] = 0
  BY <1>3 DEF Answer, Statuses
<1>5. status'[c] = 201 => RowFor(found[c], form[c], users) /\ form[c].secret \notin Long
  <2>1. form[c].secret \in Secrets
    BY <1>2 DEF Form
  <2> QED
    BY <2>1, <1>4, HashCodes DEF Stages, Stage
<1>6. TypeOK'
  BY <1>1, <1>4 DEF States
<1>7. Stage(pc'[c], op'[c], browser'[c], form'[c], found'[c], status'[c], users')
  BY <1>1, <1>2, <1>5 DEF Stage
<1> QED
  BY <1>1, <1>2, <1>3, <1>4, <1>6, <1>7

\* Login finds a row by name, and what it holds is of the table.
LEMMA LookupStep ==
    ASSUME NEW c \in Calls, TypeOK, Stages, Lookup(c)
    PROVE  /\ TypeOK'
           /\ Stage(pc'[c], op'[c], browser'[c], form'[c], found'[c], status'[c], users')
           /\ users' = users /\ jar' = jar /\ op' = op
           /\ pc'[c] # "inserted" /\ op[c] = "login"
<1> USE DEF TypeOK, Goto, Write, First
<1>1. /\ users' = users /\ jar' = jar /\ op' = op /\ form' = form /\ browser' = browser
      /\ pc[c] = "lookup"
  BY DEF Lookup
<1>2. /\ op[c] = "login" /\ form[c] \in LoginForm /\ browser[c] \in Browsers
      /\ status[c] = HashStatus(form[c].secret)
  BY <1>1 DEF Stages, Stage
<1>3. CASE /\ \E u \in RowsOf(c) : found' = [found EXCEPT ![c] = u]
           /\ pc' = [pc EXCEPT ![c] = "check"]
           /\ status' = status /\ faults' = faults
  <2>1. PICK u \in RowsOf(c) : found' = [found EXCEPT ![c] = u]
    BY <1>3
  <2>2. u \in users /\ u.name = form[c].name
    BY DEF RowsOf
  <2>3. TypeOK'
    BY <1>1, <1>3, <2>1, <2>2 DEF States
  <2>4. pc'[c] = "check" /\ found'[c] = u /\ status'[c] = status[c]
    BY <1>3, <2>1
  <2>5. Stage(pc'[c], op'[c], browser'[c], form'[c], found'[c], status'[c], users')
    BY <1>1, <1>2, <2>2, <2>4 DEF Stage
  <2> QED
    BY <1>1, <1>2, <2>3, <2>4, <2>5
<1>4. CASE /\ faults' = faults \/ Fault
           /\ status' = [status EXCEPT ![c] = First(c, 500)]
           /\ pc' = [pc EXCEPT ![c] = "done"] /\ found' = found
  <2>1. TypeOK'
    BY <1>1, <1>4, AccountsAssumption DEF States, Statuses, Fault
  <2>2. pc'[c] = "done" /\ op'[c] = "login"
    BY <1>1, <1>2, <1>4
  <2>3. Stage(pc'[c], op'[c], browser'[c], form'[c], found'[c], status'[c], users')
    BY <2>2 DEF Stage
  <2> QED
    BY <1>1, <1>2, <2>1, <2>2, <2>3
<1> QED
  BY <1>3, <1>4 DEF Lookup

\* A cookie goes with a 200 and the id of the row whose password matched.
LEMMA CheckStep ==
    ASSUME NEW c \in Calls, TypeOK, Stages, Check(c)
    PROVE  /\ TypeOK'
           /\ Stage(pc'[c], op'[c], browser'[c], form'[c], found'[c], status'[c], users')
           /\ users' = users /\ op' = op
           /\ pc'[c] = "done" /\ op[c] = "login"
           /\ \/ jar' = jar
              \/ /\ jar' = [jar EXCEPT ![browser[c]] = found[c].id]
                 /\ status'[c] = 200 /\ found[c] \in users /\ found[c].name = form[c].name
                 /\ Matches(form[c].secret, found[c].password)
                 /\ form' = form /\ browser' = browser
<1> USE DEF TypeOK, Goto, Write, First
<1>1. /\ users' = users /\ op' = op /\ form' = form /\ browser' = browser
      /\ found' = found /\ pc[c] = "check" /\ pc' = [pc EXCEPT ![c] = "done"]
  BY DEF Check
<1>2. /\ op[c] = "login" /\ browser[c] \in Browsers
      /\ found[c] \in users /\ found[c].name = form[c].name
  BY <1>1 DEF Stages, Stage
<1>3. pc'[c] = "done" /\ op'[c] = "login"
  BY <1>1, <1>2
<1>4. found[c].id \in Ids
  BY <1>2 DEF User
<1>5. Stage(pc'[c], op'[c], browser'[c], form'[c], found'[c], status'[c], users')
  BY <1>3 DEF Stage
<1>6. /\ status' \in [Calls -> Statuses]
      /\ faults' \in 0..MaxFaults
      /\ \/ jar' = jar
         \/ /\ jar' = [jar EXCEPT ![browser[c]] = found[c].id]
            /\ Matches(form[c].secret, found[c].password)
            /\ status'[c] = 200
  BY AccountsAssumption DEF Check, Statuses, CookieSent, BeforeStatus, SessionOf, IdFound, Fault
<1>7. jar' \in [Browsers -> Ids \cup {None}]
  BY <1>2, <1>4, <1>6
<1>8. pc' \in [Calls -> States]
  BY <1>1 DEF States
<1>9. TypeOK'
  BY <1>1, <1>6, <1>7, <1>8
<1> QED
  BY <1>1, <1>2, <1>3, <1>5, <1>6, <1>9

\* The other calls answer in one step, and a call that is cut off ends.
LEMMA OtherSteps ==
    ASSUME NEW c \in Calls, TypeOK, Stages, Other(c) \/ Cut(c)
    PROVE  /\ TypeOK'
           /\ Stage(pc'[c], op'[c], browser'[c], form'[c], found'[c], status'[c], users')
           /\ users' = users
           /\ pc'[c] \in {"done", "lost"}
           /\ op'[c] = "register" => status'[c] # 201
           /\ \/ jar' = jar
              \/ \E b \in Browsers : jar' = [jar EXCEPT ![b] = None]
<1> USE DEF TypeOK, Goto, Write, First, Arrive
<1>1. pc[c] = "idle" => status[c] = 0
  BY DEF Stages, Stage
<1>2. ASSUME NEW b \in Browsers, NEW h \in {"register", "login"}, BadPayload(c, b, h)
      PROVE  /\ TypeOK' /\ users' = users /\ pc'[c] = "done" /\ status'[c] = 400 /\ jar' = jar
  BY <1>1, <1>2 DEF BadPayload, States, Statuses
<1>3. ASSUME NEW b \in Browsers, Logout(c, b)
      PROVE  /\ TypeOK' /\ users' = users /\ pc'[c] = "done" /\ status'[c] = 303
             /\ jar' = [jar EXCEPT ![b] = None]
  BY <1>1, <1>3 DEF Logout, States, Statuses
<1>4. ASSUME NEW b \in Browsers, Guarded(c, b)
      PROVE  /\ TypeOK' /\ users' = users /\ pc'[c] = "done" /\ status'[c] \in {200, 401}
             /\ jar' = jar
  BY <1>1, <1>4 DEF Guarded, States, Statuses
<1>5. ASSUME Cut(c)
      PROVE  /\ TypeOK' /\ users' = users /\ pc'[c] = "lost"
             /\ op' = op /\ status' = status /\ jar' = jar
             /\ op[c] = "register" => status[c] # 201
  <2>1. TypeOK' /\ users' = users /\ pc'[c] = "lost" /\ op' = op /\ status' = status /\ jar' = jar
    BY <1>5, AccountsAssumption DEF Cut, States, Fault
  <2>2. op[c] = "register" => status[c] # 201
    BY <1>5 DEF Cut, Stages, Stage
  <2> QED
    BY <2>1, <2>2
<1>6. /\ TypeOK' /\ users' = users /\ pc'[c] \in {"done", "lost"}
      /\ op'[c] = "register" => status'[c] # 201
      /\ \/ jar' = jar
         \/ \E b \in Browsers : jar' = [jar EXCEPT ![b] = None]
  BY <1>2, <1>3, <1>4, <1>5 DEF Other
<1>7. Stage(pc'[c], op'[c], browser'[c], form'[c], found'[c], status'[c], users')
  BY <1>6 DEF Stage
<1> QED
  BY <1>6, <1>7

\* What a call answered stays answered, with the handler, browser and body it had.
LEMMA AnswersStay ==
    ASSUME NEW c \in Calls, TypeOK, Stages,
           Register(c) \/ Login(c) \/ Other(c) \/ Cut(c), status[c] = 200
    PROVE  /\ status'[c] = 200 /\ op'[c] = op[c]
           /\ browser'[c] = browser[c] /\ form'[c] = form[c]
<1> USE DEF TypeOK, Goto, Write, First, Arrive
<1>1. pc[c] # "idle"
  BY DEF Stages, Stage
<1>2. ASSUME NEW b, NEW h, NEW f, NEW n, Begin(c, b, h, f, n) PROVE FALSE
  BY <1>1, <1>2 DEF Begin
<1>3. ASSUME NEW b, NEW h, BadPayload(c, b, h) \/ Logout(c, b) \/ Guarded(c, b)
      PROVE  FALSE
  BY <1>1, <1>3 DEF BadPayload, Logout, Guarded
<1>4. ASSUME NEW d, Insert(c, d)
      PROVE  status' = status /\ op' = op /\ browser' = browser /\ form' = form
  BY <1>4 DEF Insert
<1>5. ASSUME Answer(c) \/ Lookup(c) \/ Check(c) \/ Cut(c)
      PROVE  /\ status'[c] = 200 /\ op' = op /\ browser' = browser /\ form' = form
  BY <1>5 DEF Answer, Lookup, Check, Cut
<1> QED
  BY <1>2, <1>3, <1>4, <1>5 DEF Register, Login, Other, BeginRegister, BeginLogin

\* One step of one call.
LEMMA StepKeepsInv ==
    ASSUME Inv, NEW c \in Calls, Register(c) \/ Login(c) \/ Other(c) \/ Cut(c)
    PROVE  Inv'
<1> USE DEF Inv
<1>1. OnlyCall(c)
  BY StepsAreLocal
<1>2. /\ TypeOK'
      /\ Stage(pc'[c], op'[c], browser'[c], form'[c], found'[c], status'[c], users')
      /\ OneRowEach'
  <2>1. CASE \E b \in Browsers : \/ \E f \in Form : BeginRegister(c, b, f)
                                 \/ \E f \in LoginForm : BeginLogin(c, b, f)
    <3>1. PICK b \in Browsers : \/ \E f \in Form : BeginRegister(c, b, f)
                                \/ \E f \in LoginForm : BeginLogin(c, b, f)
      BY <2>1
    <3> QED
      BY <3>1, BeginSteps DEF OneRowEach
  <2>2. CASE \E d \in Ids : Insert(c, d)
    BY <2>2, InsertStep
  <2>3. CASE Answer(c)
    BY <2>3, AnswerStep DEF OneRowEach
  <2>4. CASE Lookup(c)
    BY <2>4, LookupStep DEF OneRowEach
  <2>5. CASE Check(c)
    BY <2>5, CheckStep DEF OneRowEach
  <2>6. CASE Other(c) \/ Cut(c)
    BY <2>6, OtherSteps DEF OneRowEach
  <2> QED
    BY <2>1, <2>2, <2>3, <2>4, <2>5, <2>6 DEF Register, Login
<1>3. Stages'
  <2>1. ASSUME NEW e \in Calls
        PROVE  Stage(pc'[e], op'[e], browser'[e], form'[e], found'[e], status'[e], users')
    <3>1. CASE e # c
      <4>1. Stage(pc[e], op[e], browser[e], form[e], found[e], status[e], users)
        BY DEF Stages
      <4>2. Stage(pc[e], op[e], browser[e], form[e], found[e], status[e], users')
        BY <1>1, <4>1, StageGrows DEF OnlyCall
      <4> QED
        BY <1>1, <3>1, <4>2 DEF OnlyCall
    <3> QED
      BY <1>2, <3>1
  <2> QED
    BY <2>1 DEF Stages
<1>4. /\ \A e \in Calls \ {c} : Created(e)' <=> Created(e)
      /\ \A e \in Calls : Created(e) => found[e] \in users
  <2>1. \A e \in Calls \ {c} : Created(e)' <=> Created(e)
    BY <1>1 DEF Created, Welcomed, OnlyCall
  <2>2. ASSUME NEW e \in Calls, Created(e) PROVE found[e] \in users
    BY <2>2 DEF Stages, Stage, Created, Welcomed, RowFor
  <2> QED
    BY <2>1, <2>2
<1>5. Created(c)' => \/ Created(c) /\ found'[c] = found[c]
                     \/ \A u \in users : u.id # found'[c].id
  <2>1. CASE \E b \in Browsers : \/ \E f \in Form : BeginRegister(c, b, f)
                                 \/ \E f \in LoginForm : BeginLogin(c, b, f)
    <3>1. PICK b \in Browsers : \/ \E f \in Form : BeginRegister(c, b, f)
                                \/ \E f \in LoginForm : BeginLogin(c, b, f)
      BY <2>1
    <3>2. pc'[c] \in {"insert", "lookup"} /\ status'[c] # 201
      BY <3>1, BeginSteps
    <3> QED
      BY <3>2 DEF Created, Welcomed
  <2>2. CASE \E d \in Ids : Insert(c, d)
    <3>1. PICK d \in Ids : Insert(c, d)
      BY <2>2
    <3>2. /\ pc'[c] = "inserted" => \A u \in users : u.id # found'[c].id
          /\ status'[c] # 201
      BY <3>1, InsertStep
    <3> QED
      BY <3>2 DEF Created, Welcomed
  <2>3. CASE Answer(c)
    <3>1. /\ pc'[c] = "done" /\ found' = found
          /\ status'[c] = 201 => pc[c] = "inserted"
      BY <2>3, AnswerStep
    <3> QED
      BY <3>1 DEF Created, Welcomed
  <2>4. CASE Lookup(c)
    BY <2>4, LookupStep DEF Created, Welcomed
  <2>5. CASE Check(c)
    <3>1. pc'[c] = "done" /\ op'[c] = "login"
      BY <2>5, CheckStep
    <3> QED
      BY <3>1 DEF Created, Welcomed
  <2>6. CASE Other(c) \/ Cut(c)
    <3>1. pc'[c] \in {"done", "lost"} /\ (op'[c] = "register" => status'[c] # 201)
      BY <2>6, OtherSteps
    <3> QED
      BY <3>1 DEF Created, Welcomed
  <2> QED
    BY <2>1, <2>2, <2>3, <2>4, <2>5, <2>6 DEF Register, Login
<1>6. OwnRows'
  <2>1. \A e \in Calls \ {c} : found'[e] = found[e]
    BY <1>1 DEF OnlyCall
  <2>2. ASSUME NEW d \in Calls, NEW e \in Calls, d # e, Created(d)', Created(e)'
        PROVE  found'[d].id # found'[e].id
    <3>1. CASE d # c /\ e # c
      BY <1>4, <2>1, <2>2, <3>1 DEF OwnRows
    <3>2. CASE d = c
      BY <1>4, <1>5, <2>1, <2>2, <3>2 DEF OwnRows
    <3>3. CASE e = c
      BY <1>4, <1>5, <2>1, <2>2, <3>3 DEF OwnRows
    <3> QED
      BY <3>1, <3>2, <3>3
  <2> QED
    BY <2>2 DEF OwnRows
<1>7. SessionIsEarned'
  <2> DEFINE Login200(e, b, i, o, w, s, f, T) ==
                \E u \in T : /\ o[e] = "login" /\ w[e] = b /\ s[e] = 200
                             /\ u.id = i /\ u.name = f[e].name
                             /\ Matches(f[e].secret, u.password)
  <2>1. ASSUME NEW b \in Browsers, jar'[b] # None
        PROVE  \E e \in Calls : Login200(e, b, jar'[b], op', browser', status', form', users')
    <3>1. CASE jar'[b] = jar[b]
      <4>1. PICK e \in Calls : Login200(e, b, jar[b], op, browser, status, form, users)
        BY <2>1, <3>1 DEF SessionIsEarned
      <4>2. /\ op'[e] = op[e] /\ browser'[e] = browser[e] /\ form'[e] = form[e]
            /\ status'[e] = 200 /\ users \subseteq users'
        BY <1>1, <4>1, AnswersStay DEF OnlyCall
      <4> QED
        BY <3>1, <4>1, <4>2
    <3>2. CASE jar'[b] # jar[b]
      <4>1. Check(c)
        <5>1. ~(Other(c) \/ Cut(c))
          <6>1. ASSUME NEW d \in Browsers, jar' = [jar EXCEPT ![d] = None]
                PROVE  FALSE
            BY <2>1, <3>2, <6>1 DEF TypeOK
          <6> QED
            BY <3>2, <6>1, OtherSteps
        <5>2. ~Register(c)
          BY <3>2 DEF Register, BeginRegister, Begin, Insert, Answer
        <5> QED
          BY <3>2, <5>1, <5>2 DEF Login, BeginLogin, Begin, Lookup
      <4>2. /\ jar' = [jar EXCEPT ![browser[c]] = found[c].id]
            /\ op' = op /\ users' = users /\ op[c] = "login"
            /\ status'[c] = 200 /\ found[c] \in users /\ found[c].name = form[c].name
            /\ Matches(form[c].secret, found[c].password)
            /\ form' = form /\ browser' = browser
        BY <3>2, <4>1, CheckStep
      <4>3. browser[c] = b /\ jar'[b] = found[c].id
        BY <3>2, <4>2 DEF TypeOK
      <4>4. Login200(c, b, jar'[b], op', browser', status', form', users')
        BY <4>2, <4>3
      <4> QED
        BY <4>4
    <3> QED
      BY <3>1, <3>2
  <2> QED
    BY <2>1 DEF SessionIsEarned
<1> QED
  BY <1>2, <1>3, <1>6, <1>7

\* The invariant the theorems follow from.
LEMMA Invariant == Spec => []Inv
<1>1. Init => Inv
  <2> SUFFICES ASSUME Init PROVE Inv
    OBVIOUS
  <2> USE AccountsAssumption DEF Init
  <2>1. TypeOK
    BY DEF TypeOK, States, Statuses
  <2>2. Stages
    BY DEF Stages, Stage
  <2>3. OneRowEach
    BY DEF OneRowEach
  <2>4. OwnRows /\ SessionIsEarned
    BY DEF OwnRows, Created, Welcomed, SessionIsEarned
  <2> QED
    BY <2>1, <2>2, <2>3, <2>4 DEF Inv
<1>2. Inv /\ [Next]_vars => Inv'
  <2> SUFFICES ASSUME Inv, [Next]_vars PROVE Inv'
    OBVIOUS
  <2>1. CASE Next
    <3>1. PICK c \in Calls : Register(c) \/ Login(c) \/ Other(c) \/ Cut(c)
      BY <2>1 DEF Next
    <3> QED
      BY <3>1, StepKeepsInv
  <2>2. CASE UNCHANGED vars
    BY <2>2 DEF vars, callVars, Inv, TypeOK, Stages, OneRowEach, OwnRows, Created,
                Welcomed, SessionIsEarned
  <2> QED
    BY <2>1, <2>2
<1> QED
  BY <1>1, <1>2, PTL DEF Spec

-----------------------------------------------------------------------------
\* Rows, calls and cookies are well formed, for any number of calls.
THEOREM TypeSafety == Spec => []TypeOK
BY Invariant, PTL DEF Inv

\* Whatever registrations overlap, fail or are repeated, a name and an address
\* are answered 201 once and have one row.
THEOREM RegistersOnce == Spec => []OneAccountEach
<1>1. Inv => OneAccountEach
  <2> SUFFICES ASSUME Inv PROVE OneAccountEach
    OBVIOUS
  <2> USE DEF Inv
  <2>1. \A u, w \in users : u.name = w.name \/ u.email = w.email => u = w
    BY DEF OneRowEach
  <2>2. ASSUME NEW c \in Calls, NEW d \in Calls, c # d, Welcomed(c), Welcomed(d)
        PROVE  form[c].name # form[d].name /\ form[c].email # form[d].email
    <3>1. found[c].id # found[d].id
      BY <2>2 DEF OwnRows, Created
    <3>2. RowFor(found[c], form[c], users) /\ RowFor(found[d], form[d], users)
      BY <2>2 DEF Stages, Stage, Welcomed
    <3>3. found[c] # found[d]
      BY <3>1
    <3> QED
      BY <2>1, <3>2, <3>3 DEF RowFor
  <2> QED
    BY <2>1, <2>2 DEF OneAccountEach
<1> QED
  BY <1>1, Invariant, PTL

\* A 201 is answered only for a row whose password is a hash of what was typed.
THEOREM WelcomeIsKept == Spec => []RegisteredCanLogIn
<1>1. Inv => RegisteredCanLogIn
  <2> SUFFICES ASSUME Inv, NEW c \in Calls, Welcomed(c)
               PROVE  \E u \in users : /\ u.name = form[c].name
                                       /\ u.email = form[c].email
                                       /\ Matches(form[c].secret, u.password)
    BY DEF RegisteredCanLogIn
  <2>1. RowFor(found[c], form[c], users) /\ form[c].secret \notin Long
    BY DEF Inv, Stages, Stage, Welcomed
  <2>2. form[c].secret \in Secrets
    BY <2>1 DEF RowFor, Form
  <2> QED
    BY <2>1, <2>2, HashCodes DEF RowFor, Matches
<1> QED
  BY <1>1, Invariant, PTL

\* A session cookie is always the fruit of a login of its browser that was
\* answered 200 for the account it names.
THEOREM SessionsAreEarned == Spec => []SessionIsEarned
BY Invariant, PTL DEF Inv

=============================================================================
