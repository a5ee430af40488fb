------------------------------- MODULE Accounts ------------------------------
(***************************************************************************)
(* Accounts: logging in and registering in two requests each, legacy       *)
(* accounts that get their salt at a log in, new names and new passwords,  *)
(* with the client's forms, which wait for the server between two requests.*)
(* Accounts of one user may be used over several connections.  Handlers    *)
(* read a row, await, and write it in a transaction at READ COMMITTED.     *)
(***************************************************************************)
EXTENDS Rows, Integers, Sequences, SequencesExt, FiniteSets, Functions

CONSTANTS
    Line,           \* connections
    Name, Password,
    MaxClicks,      \* bound: what the users ask for
    MaxFailures     \* bound: commits that fail, or seem to

VARIABLES
    users,          \* the table
    login,          \* of every connection: status, user, name; listed: is it registered
    tasks,          \* of every connection: requests on their way or in progress
    answers,        \* of every connection: what is on its way to the client
    form,           \* of every client: its panel and the forms' fields
    salts,          \* salts that were made
    clicks, failures,
    believed,       \* history: of every account, the passwords its user can expect
    doubt,          \* history: accounts whose password was changed while a log in migrated them
    renamed         \* history: accounts renamed while that mattered to another

accountVars == <<users, login, tasks, answers, form, salts, clicks, failures, believed, doubt, renamed>>

hash_password(password, salt) == [password |-> password, salt |-> salt]

Named(name) == {id \in DOMAIN users : users[id].username = name}
TheOne(ids) == CHOOSE id \in ids : TRUE

\* A request with what it does not need left blank; object and id are the
\* handler's, once it has read a row.
Request(op) == [op |-> op, stage |-> "new", name |-> "", password |-> "", hash |-> NULL, old |-> NULL,
                salt |-> NULL, migrates |-> FALSE, object |-> BlankUser, id |-> 0]

Result(op, ok) == [op |-> op, ok |-> ok, salt |-> NULL, id |-> 0, name |-> ""]

-----------------------------------------------------------------------------
Holding(c) == {i \in DOMAIN tasks[c] : tasks[c][i].stage # "new"}
Shares(task) == task.op \in {"GetMySalt", "ChangePassword"}

\* A request whose turn it is: it has its session's lock, or gets it now.
Turn(c, i, op, stage) ==
    /\ tasks[c][i].op = op /\ tasks[c][i].stage = stage
    /\ stage = "new" =>
          \A j \in Holding(c) : Shares(tasks[c][i]) /\ Shares(tasks[c][j])

Answer(c, i, answer) ==
    /\ tasks' = [tasks EXCEPT ![c] = RemoveAt(@, i)]
    /\ answers' = [answers EXCEPT ![c] = Append(@, answer)]

Deny(c, i)  == Answer(c, i, Result(tasks[c][i].op, FALSE))
Grant(c, i) == Answer(c, i, Result(tasks[c][i].op, TRUE))

Proceed(c, i, stage, object, id) ==
    /\ tasks' = [tasks EXCEPT ![c][i] = [@ EXCEPT !.stage = stage, !.object = object, !.id = id]]
    /\ UNCHANGED answers

Status(c, status) == login' = [login EXCEPT ![c].status = status]
NewUser(c, status, name) ==
    login' = [login EXCEPT ![c] = [status |-> status, id |-> 0, name |-> name, listed |-> @.listed]]

\* Stages in which an account's name was read, or is being changed.
Reading(id)  == \E c \in Line : \E i \in Holding(c) : tasks[c][i].op = "Auth" /\ tasks[c][i].id = id
Renaming(id) == \E c \in Line : \E i \in Holding(c) : tasks[c][i].op = "ChangeUsername" /\ tasks[c][i].id = id
Migrating(id) == \E c \in Line : \E i \in DOMAIN tasks[c] : tasks[c][i].stage = "migrate" /\ tasks[c][i].id = id

\* What was done takes effect and is reported; or it is reported to have failed.
WithTransaction(table, Ok, Fail) ==
    \/ users' = table /\ Ok /\ UNCHANGED failures
    \/ /\ failures < MaxFailures /\ failures' = failures + 1
       /\ users' \in {users, table} /\ Fail

-----------------------------------------------------------------------------
handleAuthInitial(c, i) ==
    LET found == Named(tasks[c][i].name)
    IN  /\ Turn(c, i, "InitialAuth", "new")
        /\ IF found = {} THEN Deny(c, i) /\ UNCHANGED login
           ELSE /\ NewUser(c, "Authenticating", tasks[c][i].name)
                /\ Answer(c, i, [Result("InitialAuth", TRUE) EXCEPT !.salt = users[TheOne(found)].salt])
        /\ UNCHANGED <<users, failures, believed, renamed>>

handleRegisterInitial(c, i) ==
    /\ Turn(c, i, "InitialRegister", "new")
    /\ IF Named(tasks[c][i].name) # {} THEN Deny(c, i) /\ UNCHANGED login
       ELSE /\ NewUser(c, "Registering", tasks[c][i].name)
            /\ Grant(c, i)
    /\ UNCHANGED <<users, failures, believed, renamed>>

\* handleAuth up to its first write; a request with a password migrates a
\* legacy account, which has no salt and keeps the password itself.
AuthRead(c, i) ==
    LET task  == tasks[c][i]
        found == Named(login[c].name)
        id    == TheOne(found)
        user  == Users(users[id])
        legacy == user.values.salt = NULL
        migrated == setSalt(setHashPassword(user, task.hash), task.salt)
    IN  /\ Turn(c, i, "Auth", "new")
        /\ IF login[c].status # "Authenticating"
           THEN Deny(c, i) /\ UNCHANGED <<login, renamed>>
           ELSE IF found = {}
           THEN Deny(c, i) /\ Status(c, "Unauthenticated") /\ UNCHANGED renamed
           ELSE /\ UNCHANGED login
                /\ IF legacy # task.migrates
                      \/ user.values.hash_password # (IF legacy THEN hash_password(task.password, NULL) ELSE task.hash)
                   THEN Deny(c, i) /\ UNCHANGED renamed
                   ELSE /\ Proceed(c, i, IF legacy THEN "migrate" ELSE "login", IF legacy THEN migrated ELSE user, id)
                        /\ renamed' = renamed \cup (IF Renaming(id) THEN {id} ELSE {})
        /\ UNCHANGED <<users, failures, believed>>

AuthMigrate(c, i) ==
    LET task == tasks[c][i]
    IN  /\ Turn(c, i, "Auth", "migrate")
        /\ WithTransaction([users EXCEPT ![task.id] = UpdateUsers(@, task.object)],
               Proceed(c, i, "login", task.object, task.id) /\ UNCHANGED login,
               Deny(c, i) /\ Status(c, "Unauthenticated"))
        /\ UNCHANGED <<believed, renamed>>

\* The session is registered with the room service, then the answer is sent.
AuthLogin(c, i) ==
    LET task == tasks[c][i]
    IN  /\ Turn(c, i, "Auth", "login")
        /\ login' = [login EXCEPT ![c] = [@ EXCEPT !.status = "Authenticated", !.id = task.id, !.listed = TRUE]]
        /\ Proceed(c, i, "answer", task.object, task.id)
        /\ UNCHANGED <<users, failures, believed, renamed>>

AuthAnswer(c, i) ==
    /\ Turn(c, i, "Auth", "answer")
    /\ Answer(c, i, [Result("Auth", TRUE) EXCEPT !.id = tasks[c][i].id, !.name = tasks[c][i].object.values.username])
    /\ UNCHANGED <<users, login, failures, believed, renamed>>

\* The unique index has the last word on the name.
handleRegister(c, i) ==
    LET task == tasks[c][i]
        user == setSalt(setHashPassword(setUsername(BlankUser, login[c].name), task.hash), task.salt)
    IN  /\ Turn(c, i, "Register", "new")
        /\ IF login[c].status # "Registering"
           THEN Deny(c, i) /\ UNCHANGED <<users, login, failures, believed>>
           ELSE /\ Status(c, "Unauthenticated")
                /\ IF Named(login[c].name) # {}
                   THEN Deny(c, i) /\ UNCHANGED <<users, failures, believed>>
                   ELSE /\ WithTransaction(Append(users, InsertUsers(user)), Grant(c, i), Deny(c, i))
                        /\ believed' = IF users' = users THEN believed ELSE Append(believed, {task.hash.password})
        /\ UNCHANGED renamed

UsernameCheck(c, i) ==
    LET id == login[c].id
    IN  /\ Turn(c, i, "ChangeUsername", "new")
        /\ IF login[c].status # "Authenticated" \/ Named(tasks[c][i].name) # {}
           THEN Deny(c, i) /\ UNCHANGED renamed
           ELSE /\ Proceed(c, i, "update", setUsername(Users(users[id]), tasks[c][i].name), id)
                /\ renamed' = renamed \cup (IF Renaming(id) \/ Reading(id) THEN {id} ELSE {})
        /\ UNCHANGED <<users, login, failures, believed>>

\* A commit that is reported to have failed and has not leaves the old name
\* in the session and with the clients.
UsernameUpdate(c, i) ==
    LET task == tasks[c][i]
    IN  /\ Turn(c, i, "ChangeUsername", "update")
        /\ IF Named(task.name) # {}
           THEN Deny(c, i) /\ UNCHANGED <<users, failures, renamed>>
           ELSE /\ WithTransaction([users EXCEPT ![task.id] = UpdateUsers(@, task.object)],
                       Proceed(c, i, "tell", task.object, task.id), Deny(c, i))
                /\ renamed' = IF failures' # failures THEN renamed \cup {task.id} ELSE renamed
        /\ UNCHANGED <<login, believed>>

NameNotice(task) == [Result("UsernameChanged", TRUE) EXCEPT !.id = task.id, !.name = task.name]

\* (mutation: only the connection that asked for the new name hears of it)
TellOneself(c, i) ==
    LET task == tasks[c][i]
    IN  /\ Turn(c, i, "ChangeUsername", "tell")
        /\ login' = [login EXCEPT ![c].name = task.name]
        /\ tasks' = [tasks EXCEPT ![c] = RemoveAt(@, i)]
        /\ answers' = [answers EXCEPT ![c] = @ \o <<NameNotice(task), Result("ChangeUsername", TRUE)>>]
        /\ UNCHANGED <<users, failures, believed, renamed>>

UsernameTell(c, i) ==
    LET task == tasks[c][i]
    IN  /\ Turn(c, i, "ChangeUsername", "tell")
        /\ login' = [login EXCEPT ![c].name = task.name]
        /\ tasks' = [tasks EXCEPT ![c] = RemoveAt(@, i)]
        /\ answers' = [d \in Line |-> answers[d]
               \o (IF login[d].listed THEN <<NameNotice(task)>> ELSE <<>>)
               \o (IF d = c THEN <<Result("ChangeUsername", TRUE)>> ELSE <<>>)]
        /\ UNCHANGED <<users, failures, believed, renamed>>

handleGetSalt(c, i) ==
    /\ Turn(c, i, "GetMySalt", "new")
    /\ IF login[c].status # "Authenticated" \/ users[login[c].id].salt = NULL THEN Deny(c, i)
       ELSE Answer(c, i, [Result("GetMySalt", TRUE) EXCEPT !.salt = users[login[c].id].salt])
    /\ UNCHANGED <<users, login, failures, believed, renamed>>

PasswordCheck(c, i) ==
    LET task == tasks[c][i]
        user == Users(users[login[c].id])
    IN  /\ Turn(c, i, "ChangePassword", "new")
        /\ IF login[c].status # "Authenticated" THEN Deny(c, i)
           ELSE IF user.values.salt = NULL \/ user.values.hash_password # task.old THEN Deny(c, i)
           ELSE Proceed(c, i, "update", setSalt(setHashPassword(user, task.hash), task.salt), login[c].id)
        /\ UNCHANGED <<users, login, failures, believed, renamed>>

\* The answer that it failed leaves the user with two passwords to try.
PasswordUpdate(c, i) ==
    LET task == tasks[c][i]
        new  == {task.hash.password}
    IN  /\ Turn(c, i, "ChangePassword", "update")
        /\ WithTransaction([users EXCEPT ![task.id] = UpdateUsers(@, task.object)],
               Grant(c, i), Deny(c, i))
        /\ believed' = [believed EXCEPT ![task.id] = IF failures' = failures THEN new ELSE @ \cup new]
        /\ UNCHANGED <<login, renamed>>

Handle(c) ==
    /\ \E i \in DOMAIN tasks[c] :
          \/ handleAuthInitial(c, i) \/ AuthRead(c, i) \/ AuthMigrate(c, i) \/ AuthLogin(c, i) \/ AuthAnswer(c, i)
          \/ handleRegisterInitial(c, i) \/ handleRegister(c, i)
          \/ UsernameCheck(c, i) \/ UsernameUpdate(c, i) \/ UsernameTell(c, i)
          \/ handleGetSalt(c, i) \/ PasswordCheck(c, i) \/ PasswordUpdate(c, i)
    /\ doubt' = doubt \cup {id \in DOMAIN believed : believed'[id] # believed[id] /\ Migrating(id)}
    /\ UNCHANGED <<form, salts, clicks>>

-----------------------------------------------------------------------------
\* The client.
Send(c, request) == tasks' = [tasks EXCEPT ![c] = Append(@, request)]

Click(c, request) ==
    /\ clicks < MaxClicks /\ clicks' = clicks + 1
    /\ Send(c, request)
    /\ UNCHANGED <<users, login, answers, salts, failures, believed, renamed>>

OnLogin(c, name, password) ==
    /\ form[c].panel = "auth"
    /\ Click(c, [Request("InitialAuth") EXCEPT !.name = name])
    /\ form' = [form EXCEPT ![c].password = password]
    /\ UNCHANGED doubt

OnRegister(c, name, password) ==
    /\ form[c].panel = "auth" /\ password # ""
    /\ Click(c, [Request("InitialRegister") EXCEPT !.name = name])
    /\ form' = [form EXCEPT ![c].password = password]
    /\ UNCHANGED doubt

OnChangeUsername(c, name) ==
    /\ form[c].panel = "rooms" /\ ~form[c].busy /\ name # form[c].name
    /\ Click(c, [Request("ChangeUsername") EXCEPT !.name = name])
    /\ UNCHANGED <<form, doubt>>

OnChangePassword(c, old, new) ==
    /\ form[c].panel = "rooms" /\ ~form[c].busy
    /\ Click(c, Request("GetMySalt"))
    /\ form' = [form EXCEPT ![c] = [@ EXCEPT !.old = old, !.new = new, !.busy = TRUE]]
    /\ UNCHANGED doubt

HandleAuthContinue(c, salt) ==
    LET mine == IF salt = NULL THEN salts + 1 ELSE salt
    IN  /\ Send(c, [Request("Auth") EXCEPT !.password = form[c].password, !.migrates = salt = NULL, !.salt = mine,
                                           !.hash = hash_password(form[c].password, mine)])
        /\ salts' = IF salt = NULL THEN salts + 1 ELSE salts
        /\ form' = [form EXCEPT ![c].password = ""]

HandleRegisterContinue(c) ==
    /\ Send(c, [Request("Register") EXCEPT !.hash = hash_password(form[c].password, salts + 1), !.salt = salts + 1])
    /\ salts' = salts + 1
    /\ form' = [form EXCEPT ![c].password = ""]

OnPasswordChangeContinue(c, salt) ==
    /\ Send(c, [Request("ChangePassword") EXCEPT !.old = hash_password(form[c].old, salt),
                !.hash = hash_password(form[c].new, salts + 1), !.salt = salts + 1])
    /\ salts' = salts + 1
    /\ form' = [form EXCEPT ![c] = [@ EXCEPT !.old = "", !.new = "", !.busy = FALSE]]

Show(c, fields) == form' = [form EXCEPT ![c] = fields] /\ UNCHANGED <<tasks, salts>>

\* handleMessage; what is not listed only tells the user.
Receive(c) ==
    LET answer == Head(answers[c])
    IN  /\ answers[c] # <<>>
        /\ answers' = [answers EXCEPT ![c] = Tail(@)]
        /\ CASE answer.op = "InitialAuth" /\ answer.ok     -> HandleAuthContinue(c, answer.salt)
             [] answer.op = "InitialRegister" /\ answer.ok -> HandleRegisterContinue(c)
             [] answer.op = "Auth" /\ answer.ok ->
                    Show(c, [form[c] EXCEPT !.panel = "rooms", !.id = answer.id, !.name = answer.name])
             [] answer.op = "UsernameChanged" ->
                    Show(c, IF answer.id = form[c].id THEN [form[c] EXCEPT !.name = answer.name] ELSE form[c])
             [] answer.op = "GetMySalt" /\ answer.ok       -> OnPasswordChangeContinue(c, answer.salt)
             [] answer.op = "GetMySalt" /\ ~answer.ok      -> Show(c, [form[c] EXCEPT !.busy = FALSE])
             [] OTHER -> Show(c, form[c])
        /\ UNCHANGED <<users, login, clicks, failures, believed, doubt, renamed>>

Use(c) ==
    \/ \E name \in Name, password \in Password : OnLogin(c, name, password) \/ OnRegister(c, name, password)
    \/ \E name \in Name : OnChangeUsername(c, name)
    \/ \E old, new \in Password : OnChangePassword(c, old, new)

NextAccounts == \E c \in Line : Handle(c) \/ Use(c) \/ Receive(c)

-----------------------------------------------------------------------------
\* The client of somebody who is logged in as id, or, with 0, of nobody yet.
Fields(id, name) == [panel |-> IF id = 0 THEN "auth" ELSE "rooms", id |-> id, name |-> name,
                     password |-> "", old |-> "", new |-> "", busy |-> FALSE]

Hash    == [password : Password \cup {""}, salt : Nat \cup {NULL}]
Account == [username : Name, hash_password : Hash, salt : Nat \cup {NULL}]

\* Some accounts, some of which may be legacy accounts and some in use.
InitAccounts ==
    /\ users \in Seq(Account)
    /\ \A id, other \in DOMAIN users : users[id].username = users[other].username => id = other
    /\ \A id \in DOMAIN users : users[id].hash_password.salt = users[id].salt
    /\ \A c \in Line :
          \/ login[c] = [status |-> "Unauthenticated", id |-> 0, name |-> "", listed |-> FALSE]
          \/ \E id \in DOMAIN users :
                /\ users[id].salt # NULL
                /\ login[c] = [status |-> "Authenticated", id |-> id, name |-> users[id].username, listed |-> TRUE]
    /\ login = [c \in Line |-> login[c]]
    /\ form = [c \in Line |-> Fields(login[c].id, login[c].name)]
    /\ tasks = [c \in Line |-> <<>>] /\ answers = [c \in Line |-> <<>>]
    /\ salts = 0 /\ clicks = 0 /\ failures = 0
    /\ believed = [id \in DOMAIN users |-> {users[id].hash_password.password}]
    /\ doubt = {} /\ renamed = {}

SpecAccounts == InitAccounts /\ [][NextAccounts]_accountVars

-----------------------------------------------------------------------------
(***************************************************************************)
(* A user's account opens with the password that the server accepted last, *)
(* or, after a change that was reported to have failed, with one of the    *)
(* two: neither a rename nor a log in that read the account before writes  *)
(* an older one back, nor a salt that does not belong to the hash.  In     *)
(* doubt are only legacy accounts that two log ins migrate at once, if the *)
(* password is changed through the first before the second has written.    *)
(***************************************************************************)
PasswordsHold ==
    \A id \in DOMAIN users \ doubt :
        /\ users[id].hash_password.password \in believed[id]
        /\ users[id].hash_password.salt = users[id].salt

(***************************************************************************)
(* No two accounts ever have the same name, however the checks of several  *)
(* registrations and renames interleave, and a client that is logged in    *)
(* and has heard everything shows its account's name.  Excepted are those  *)
(* of whom two renames, or a rename and a log in, overlapped, and those    *)
(* one of whose renames was reported to have failed: it may be committed,  *)
(* and nobody is told.                                                     *)
(***************************************************************************)
NamesAreTrue ==
    /\ \A id, other \in DOMAIN users : users[id].username = users[other].username => id = other
    /\ \A c \in Line :
          form[c].panel = "rooms" /\ answers[c] = <<>> /\ form[c].id \notin renamed =>
              form[c].name = users[form[c].id].username \/ Renaming(form[c].id)

=============================================================================
