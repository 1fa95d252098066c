----------------------------- MODULE IdpAccounts -----------------------------
(***************************************************************************)
(* The identity provider's accounts and sessions (idp/app.py): sign-in,    *)
(* the change of one's own password, a superuser's administration of       *)
(* accounts, the end of sessions, the gateway's question who a browser is, *)
(* and the first start that makes the initial superuser.                   *)
(*                                                                         *)
(* Handlers run on the threads of the server's pool without a lock of      *)
(* their own.  Each database helper is one transaction, so a handler is a  *)
(* sequence of steps, each reading or writing one table, and other         *)
(* handlers' steps come between.  A handler can die at any step (the       *)
(* database stays locked too long), and so can the process.                *)
(*                                                                         *)
(* Passwords are compared, never looked into: a stored hash is the password *)
(* it accepts.  Tokens of forms, pages and the throttle of failed sign-ins *)
(* are left out.  Sessions that agree in everything but their token are    *)
(* one element of the table here, so a step that ends one of them may      *)
(* leave the element: that is a stuttering step.  An expired session is as *)
(* good as ended, since every reader checks.                               *)
(***************************************************************************)
EXTENDS Naturals, FiniteSets

CONSTANTS
    Thread,       \* threads that serve requests
    User,         \* usernames
    Admin,        \* SLOP_ADMIN_USER
    Role,         \* ROLES
    NoRole,       \* what a form may send that is no role
    Password,
    Generated,    \* the password of the first start, which nobody chose
    NoAccount,    \* no row in users
    MaxSessions   \* bound: different sessions at once

Account == [pw : Password, role : Role, must : BOOLEAN]

ASSUME AccountsAssumption ==
    /\ Admin \in User
    /\ "superuser" \in Role /\ NoRole \notin Role
    /\ Generated \in Password
    /\ NoAccount \notin Account
    /\ MaxSessions \in Nat

VARIABLES
    users,      \* table users
    sessions,   \* table sessions, and what became of them, see Session
    th,         \* the threads
    service,    \* "starting", "created" or "serving"
    told,       \* whether the generated password was put where it can be read
    writtenBack \* whether a handler has overwritten a change it had not seen

vars == <<users, sessions, th, service, told, writtenBack>>

\* pw is the password a session was opened with.  It is overtaken when its
\* account was changed while it was being opened, or by a change that did not
\* come to dropping it.
Session == [user : User, role : Role, pw : Password, overtaken : BOOLEAN]

\* The sessions when changes of the accounts us will not drop theirs.
Overtake(us) == {[s EXCEPT !.overtaken = @ \/ s.user \in us] : s \in sessions}

Op == {"login", "password", "add", "reset", "role", "delete", "verify"}

\* role is the one to be written, minted or asserted.  fresh: no other step has
\* written the account since this thread read it.
Resting == [pc |-> "idle", op |-> "login", user |-> Admin, role |-> "superuser",
            pw |-> Generated, fresh |-> FALSE]

Init ==
    /\ users = [u \in User |-> NoAccount]
    /\ sessions = {}
    /\ th = [t \in Thread |-> Resting]
    /\ service = "starting"
    /\ told = FALSE
    /\ writtenBack = FALSE

Exists(u) == users[u] # NoAccount

IsSuper(u) == Exists(u) /\ users[u].role = "superuser"

\* Thread t has written the account u and goes on as next; what other threads
\* have read of u is no longer fresh.
Wrote(t, u, next) ==
    th' = [v \in Thread |-> IF v = t THEN next
                            ELSE IF th[v].user = u THEN [th[v] EXCEPT !.fresh = FALSE]
                            ELSE th[v]]

\* About to drop u's sessions.
Dropping(op, u) == [Resting EXCEPT !.pc = "drop", !.op = op, !.user = u]

Rest(t) == th' = [th EXCEPT ![t] = Resting]

-----------------------------------------------------------------------------
(* The first start.                                                         *)

\* _startup, _bootstrap_admin: an empty table gets the initial superuser ...
Bootstrap ==
    /\ service = "starting"
    /\ IF \A u \in User : ~ Exists(u)
       THEN /\ users' = [users EXCEPT ![Admin] =
                           [pw |-> Generated, role |-> "superuser", must |-> TRUE]]
            /\ service' = "created"
       ELSE /\ service' = "serving"
            /\ UNCHANGED users
    /\ UNCHANGED <<sessions, th, told, writtenBack>>

\* ... whose generated password then goes to a file, or failing that, the log.
WriteInitialPassword ==
    /\ service = "created"
    /\ told' = TRUE
    /\ service' = "serving"
    /\ UNCHANGED <<users, sessions, th, writtenBack>>

-----------------------------------------------------------------------------
(* Signing in and out.                                                      *)

Idle(t) == service = "serving" /\ th[t].pc = "idle"

\* login_post: the account is read and the password checked against it.
LoginPost(t, u, pw) ==
    /\ Idle(t)
    /\ Exists(u) /\ users[u].pw = pw
    /\ pw = Generated => told
    /\ th' = [th EXCEPT ![t] = [pc |-> "mint", op |-> "login", user |-> u,
                                role |-> users[u].role, pw |-> pw, fresh |-> TRUE]]
    /\ UNCHANGED <<users, sessions, service, told, writtenBack>>

\* _new_session: the role is the one read with the account.
NewSession(t) ==
    /\ th[t].pc = "mint"
    /\ Cardinality(sessions) < MaxSessions
    /\ sessions' = sessions \cup {[user |-> th[t].user, role |-> th[t].role,
                                   pw |-> th[t].pw, overtaken |-> ~ th[t].fresh]}
    /\ Rest(t)
    /\ UNCHANGED <<users, service, told, writtenBack>>

\* logout_post, and a session's expiry.
EndSession(s) ==
    /\ sessions' = sessions \ {s}
    /\ UNCHANGED <<users, th, service, told, writtenBack>>

-----------------------------------------------------------------------------
(* Requests of somebody signed in.                                          *)

ValidRole(r) == r \in Role

\* _resolve_session and the checks made before the account is read.  A form
\* names an account, a role and a password where its handler takes them.
Enter(t, s, op, u, r, pw) ==
    /\ Idle(t)
    /\ CASE op \in {"password", "verify"} -> u = s.user
         [] op = "delete"                 -> s.role = "superuser" /\ u # s.user
         [] OTHER                         -> s.role = "superuser"
    /\ IF op \in {"add", "role"} THEN ValidRole(r) ELSE r = s.role
    /\ (op \notin {"password", "add", "reset"}) <=> pw = Generated
    /\ th' = [th EXCEPT ![t] = [pc |-> "entered", op |-> op, user |-> u, role |-> r,
                                pw |-> pw, fresh |-> FALSE]]
    /\ UNCHANGED <<users, sessions, service, told, writtenBack>>

\* _get_user, and the checks made on the account: admin_add needs there to be
\* none, the others one, and a new password has to be new.  The two handlers
\* that write a whole row keep the role they read.
GetUser(t) ==
    LET u == th[t].user
        role == IF th[t].op \in {"password", "reset"} THEN users[u].role ELSE th[t].role
    IN  /\ th[t].pc = "entered" /\ th[t].op # "verify"
        /\ IF \/ th[t].op = "add" /\ ~ Exists(u)
              \/ th[t].op = "password" /\ Exists(u) /\ users[u].pw # th[t].pw
              \/ th[t].op \in {"reset", "role", "delete"} /\ Exists(u)
           THEN th' = [th EXCEPT ![t].pc = "read", ![t].role = role, 
                                  ![t].fresh = th[t].op \in {"password", "add", "reset"}]
           ELSE Rest(t)
        /\ UNCHANGED <<users, sessions, service, told, writtenBack>>

\* _upsert_user: the whole row, whatever has become of it since it was read.
UpsertUser(t, must) ==
    /\ users' = [users EXCEPT ![th[t].user] =
                   [pw |-> th[t].pw, role |-> th[t].role, must |-> must]]
    /\ writtenBack' = (writtenBack \/ ~ th[t].fresh)

At(t, op) == th[t].pc = "read" /\ th[t].op = op

\* account_password
AccountPassword(t) ==
    /\ At(t, "password")
    /\ UpsertUser(t, FALSE)
    /\ Wrote(t, th[t].user, [th[t] EXCEPT !.pc = "drop", !.fresh = TRUE])
    /\ UNCHANGED <<sessions, service, told>>

\* admin_add
AdminAdd(t) ==
    /\ At(t, "add")
    /\ UpsertUser(t, TRUE)
    /\ Wrote(t, th[t].user, Resting)
    /\ sessions' = IF th[t].fresh THEN sessions ELSE Overtake({th[t].user})
    /\ UNCHANGED <<service, told>>

BugAdminReset(t) ==
    /\ At(t, "reset")
    /\ UpsertUser(t, TRUE)
    /\ Wrote(t, th[t].user, Resting)
    /\ UNCHANGED <<sessions, service, told>>

\* admin_reset
AdminReset(t) ==
    /\ At(t, "reset")
    /\ UpsertUser(t, TRUE)
    /\ Wrote(t, th[t].user, Dropping("reset", th[t].user))
    /\ UNCHANGED <<sessions, service, told>>

BugNotTheLast(u) == ~ IsSuper(u) \/ \E v \in User : IsSuper(v)

\* The condition of the UPDATE and of the DELETE: more than one superuser.
NotTheLast(u) == ~ IsSuper(u) \/ \E v \in User \ {u} : IsSuper(v)

\* admin_role: the role alone, in place.
AdminRole(t) ==
    LET u == th[t].user
    IN  /\ At(t, "role")
        /\ IF Exists(u) /\ (th[t].role = "superuser" \/ NotTheLast(u))
           THEN /\ users' = [users EXCEPT ![u].role = th[t].role]
                /\ Wrote(t, u, Dropping("role", u))
           ELSE Rest(t) /\ UNCHANGED users
        /\ UNCHANGED <<sessions, service, told, writtenBack>>

\* admin_delete
AdminDelete(t) ==
    LET u == th[t].user
    IN  /\ At(t, "delete")
        /\ IF Exists(u) /\ NotTheLast(u)
           THEN /\ users' = [users EXCEPT ![u] = NoAccount]
                /\ Wrote(t, u, Dropping("delete", u))
           ELSE Rest(t) /\ UNCHANGED users
        /\ UNCHANGED <<sessions, service, told, writtenBack>>

\* _drop_user_sessions; who changed his own password then gets a new session.
DropUserSessions(t) ==
    /\ th[t].pc = "drop"
    /\ sessions' = {s \in sessions : s.user # th[t].user}
    /\ IF th[t].op = "password" THEN th' = [th EXCEPT ![t].pc = "mint"] ELSE Rest(t)
    /\ UNCHANGED <<users, service, told, writtenBack>>

\* auth_verify, once it has resolved the session: the gateway is told the role
\* the account has now.
AuthVerify(t) ==
    LET u == th[t].user
    IN  /\ th[t].pc = "entered" /\ th[t].op = "verify"
        /\ IF Exists(u) /\ ~ users[u].must
           THEN th' = [th EXCEPT ![t].pc = "asserted", ![t].role = users[u].role]
           ELSE Rest(t)
        /\ UNCHANGED <<users, sessions, service, told, writtenBack>>

Respond(t) ==
    /\ th[t].pc = "asserted"
    /\ Rest(t)
    /\ UNCHANGED <<users, sessions, service, told, writtenBack>>

-----------------------------------------------------------------------------
(* Failures.                                                                *)

\* Handlers end before they have dropped the sessions of what they changed.
CutShort(ts) ==
    sessions' = Overtake({th[t].user : t \in {v \in ts : th[v].pc = "drop"}})

\* A database call gives up and the handler with it.
HandlerFails(t) ==
    /\ th[t].pc # "idle"
    /\ CutShort({t})
    /\ Rest(t)
    /\ UNCHANGED <<users, service, told, writtenBack>>

\* The process ends, at any point, and is started again.
Restart ==
    /\ service' = "starting"
    /\ th' = [t \in Thread |-> Resting]
    /\ CutShort(Thread)
    /\ UNCHANGED <<users, told, writtenBack>>

Next ==
    \/ Bootstrap
    \/ WriteInitialPassword
    \/ \E t \in Thread, u \in User, pw \in Password : LoginPost(t, u, pw)
    \/ \E t \in Thread : NewSession(t)
    \/ \E s \in sessions : EndSession(s)
    \/ \E t \in Thread, s \in sessions, op \in Op \ {"login"}, u \in User,
          r \in Role \cup {NoRole}, pw \in Password : Enter(t, s, op, u, r, pw)
    \/ \E t \in Thread : GetUser(t)
    \/ \E t \in Thread : AccountPassword(t)
    \/ \E t \in Thread : AdminAdd(t)
    \/ \E t \in Thread : AdminReset(t)
    \/ \E t \in Thread : AdminRole(t)
    \/ \E t \in Thread : AdminDelete(t)
    \/ \E t \in Thread : DropUserSessions(t)
    \/ \E t \in Thread : AuthVerify(t)
    \/ \E t \in Thread : Respond(t)
    \/ \E t \in Thread : HandlerFails(t)
    \/ Restart

Spec == Init /\ [][Next]_vars

-----------------------------------------------------------------------------
(* Properties.                                                              *)

\* Tables and threads keep their types.
TypeOK ==
    /\ users \in [User -> Account \cup {NoAccount}]
    /\ sessions \subseteq Session
    /\ th \in [Thread -> [pc : {"idle", "entered", "read", "drop", "mint", "asserted"},
                          op : Op, user : User, role : Role, pw : Password,
                          fresh : BOOLEAN]]
    /\ service \in {"starting", "created", "serving"}
    /\ told \in BOOLEAN
    /\ writtenBack \in BOOLEAN

\* Once there was a first start there is always a superuser, whatever
\* demotions, deletions, resets and additions of several superusers come
\* between each other's steps; only a handler that overwrites an account with what
\* it had read before another changed it can lose the last.
SuperuserRemains ==
    \/ service = "starting" /\ \A u \in User : ~ Exists(u)
    \/ \E u \in User : IsSuper(u)
    \/ writtenBack

\* A session carries the role its account has, and was opened with the password
\* it has, except while a change of the account is between its write and its
\* dropping of sessions, and except for an overtaken session.  So a change that
\* is over is in force for everybody who was signed in before it.
SessionsFollowAccounts ==
    \A s \in sessions :
        \/ Exists(s.user) /\ users[s.user].role = s.role /\ users[s.user].pw = s.pw
        \/ \E t \in Thread : th[t].pc = "drop" /\ th[t].user = s.user
        \/ s.overtaken

\* "A credential change takes effect immediately everywhere" (_drop_user_sessions): a
\* session follows its account unless a handler is just about to drop it.  One that was
\* being opened meanwhile, or that nobody came to dropping, does not.
ChangesAreImmediate ==
    \A s \in sessions :
        \/ Exists(s.user) /\ users[s.user].role = s.role /\ users[s.user].pw = s.pw
        \/ \E t \in Thread : th[t].pc = "drop" /\ th[t].user = s.user

\* A deletion cannot be undone: a deleted account comes back only when a
\* superuser adds it again.
DeletionStands ==
    [][\A u \in User : (~ Exists(u) /\ users'[u] # NoAccount) =>
        \/ service = "starting"
        \/ \E t \in Thread : At(t, "add") /\ th[t].user = u]_vars

\* A fresh install has a way in: once the service is up, either the generated
\* password can be found or it is not the only one.
WayIn ==
    service = "serving" =>
        told \/ \E u \in User : Exists(u) /\ users[u].pw # Generated

=============================================================================
