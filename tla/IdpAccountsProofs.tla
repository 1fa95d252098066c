-------------------------- MODULE IdpAccountsProofs --------------------------
(***************************************************************************)
(* Proofs about IdpAccounts for any threads, users, roles and passwords,   *)
(* and any bound on sessions.                                              *)
(*                                                                         *)
(* That a superuser remains and that sessions follow their accounts rest   *)
(* on FreshIsTrue: as long as nobody has written the account a handler     *)
(* read, what the handler remembers of it still holds.                     *)
(***************************************************************************)
EXTENDS IdpAccounts, TLAPS

\* A row of th.
ThreadRow == [pc : {"idle", "entered", "read", "drop", "mint", "asserted"},
              op : Op, user : User, role : Role, pw : Password, fresh : BOOLEAN]

\* What a handler remembers of an account, if still fresh, is so in us.
Knows(row, us) ==
    row.fresh =>
      /\ row.pc = "read" =>
           IF row.op = "add" THEN us[row.user] = NoAccount
           ELSE us[row.user] # NoAccount /\ us[row.user].role = row.role
      /\ row.pc \in {"drop", "mint"} =>
           /\ us[row.user] # NoAccount
           /\ us[row.user].role = row.role
           /\ us[row.user].pw = row.pw

FreshIsTrue == \A t \in Thread : Knows(th[t], users)

\* Before the service is up no handler runs.
QuietAtStart == service # "serving" => \A t \in Thread : th[t].pc = "idle"

-----------------------------------------------------------------------------
(* Threads.                                                                 *)

\* A thread at rest, and one about to drop sessions, are rows of th that
\* remember nothing.
LEMMA Rows ==
    /\ Resting \in ThreadRow /\ Resting.pc = "idle" /\ ~ Resting.fresh
    /\ \A op \in Op, u \in User :
         /\ Dropping(op, u) \in ThreadRow
         /\ Dropping(op, u).pc = "drop" /\ Dropping(op, u).user = u
         /\ ~ Dropping(op, u).fresh
<1>1. Resting \in ThreadRow /\ Resting.pc = "idle" /\ ~ Resting.fresh
    BY AccountsAssumption DEF Resting, ThreadRow, Op
<1>2. ASSUME NEW op \in Op, NEW u \in User
      PROVE  /\ Dropping(op, u) \in ThreadRow
             /\ Dropping(op, u).pc = "drop" /\ Dropping(op, u).user = u
             /\ ~ Dropping(op, u).fresh
    BY <1>1 DEF Dropping, ThreadRow
<1>3. QED
    BY <1>1, <1>2

\* Writing an account moves the writer on and takes freshness from the others
\* who have read it; nothing else of them changes.
LEMMA WroteThreads ==
    ASSUME th \in [Thread -> ThreadRow],
           NEW t \in Thread, NEW u \in User, NEW next \in ThreadRow,
           Wrote(t, u, next)
    PROVE  /\ th' \in [Thread -> ThreadRow]
           /\ th'[t] = next
           /\ \A v \in Thread \ {t} :
                /\ th'[v].pc = th[v].pc /\ th'[v].op = th[v].op
                /\ th'[v].user = th[v].user /\ th'[v].role = th[v].role
                /\ th'[v].pw = th[v].pw
                /\ th'[v].fresh = (th[v].fresh /\ th[v].user # u)
<1>1. ASSUME NEW v \in Thread \ {t}
      PROVE  /\ th'[v] \in ThreadRow
             /\ th'[v].pc = th[v].pc /\ th'[v].op = th[v].op
             /\ th'[v].user = th[v].user /\ th'[v].role = th[v].role
             /\ th'[v].pw = th[v].pw
             /\ th'[v].fresh = (th[v].fresh /\ th[v].user # u)
    <2>1. th[v] \in ThreadRow
        OBVIOUS
    <2>2. CASE th[v].user = u
        <3>1. th'[v] = [th[v] EXCEPT !.fresh = FALSE]
            BY <2>2 DEF Wrote
        <3>2. QED
            BY <2>1, <2>2, <3>1 DEF ThreadRow
    <2>3. CASE th[v].user # u
        <3>1. th'[v] = th[v]
            BY <2>3 DEF Wrote
        <3>2. QED
            BY <2>1, <2>3, <3>1 DEF ThreadRow
    <2>4. QED
        BY <2>2, <2>3
<1>2. th'[t] = next
    BY DEF Wrote
<1>3. th' \in [Thread -> ThreadRow]
    <2>1. \A v \in Thread : th'[v] \in ThreadRow
        BY <1>1, <1>2
    <2>2. th' = [v \in Thread |-> th'[v]]
        BY DEF Wrote
    <2>3. QED
        BY <2>1, <2>2
<1>4. QED
    BY <1>1, <1>2, <1>3

-----------------------------------------------------------------------------
(* Types.                                                                   *)

\* Init establishes the types.
LEMMA TypeInit == Init => TypeOK
<1>1. ASSUME Init PROVE TypeOK
    <2>1. th \in [Thread -> ThreadRow]
        BY <1>1, Rows DEF Init
    <2>2. QED
        BY <1>1, <2>1 DEF Init, TypeOK, ThreadRow
<1>2. QED
    BY <1>1

\* Every step keeps them.
LEMMA TypeStep == TypeOK /\ [Next]_vars => TypeOK'
<1> SUFFICES ASSUME TypeOK, [Next]_vars PROVE TypeOK'
    OBVIOUS
<1>0. /\ th \in [Thread -> ThreadRow]
      /\ users \in [User -> Account \cup {NoAccount}]
      /\ sessions \subseteq Session
    BY DEF TypeOK, ThreadRow
<1>a. \A u \in User : Exists(u) => users[u] \in Account
    BY <1>0 DEF Exists
<1>b. ASSUME NEW t \in Thread, Rest(t) PROVE th' \in [Thread -> ThreadRow]
    BY <1>0, <1>b, Rows DEF Rest
<1>c. ASSUME NEW t \in Thread, NEW must \in BOOLEAN, UpsertUser(t, must)
      PROVE  users' \in [User -> Account \cup {NoAccount}] /\ writtenBack' \in BOOLEAN
    <2>1. th[t] \in ThreadRow
        BY <1>0
    <2>2. [pw |-> th[t].pw, role |-> th[t].role, must |-> must] \in Account
        BY <2>1 DEF ThreadRow, Account
    <2>3. users' \in [User -> Account \cup {NoAccount}]
        BY <1>0, <1>c, <2>2 DEF UpsertUser
    <2>4. QED
        BY <1>c, <2>3 DEF UpsertUser, TypeOK
<1>d. ASSUME NEW us PROVE Overtake(us) \subseteq Session
    BY <1>0 DEF Overtake, Session
<1>1. CASE Bootstrap
    <2>1. [pw |-> Generated, role |-> "superuser", must |-> TRUE] \in Account
        BY AccountsAssumption DEF Account
    <2>2. users' \in [User -> Account \cup {NoAccount}]
        BY <1>0, <1>1, <2>1 DEF Bootstrap
    <2>3. service' \in {"starting", "created", "serving"}
        BY <1>1 DEF Bootstrap
    <2>4. QED
        BY <1>1, <2>2, <2>3 DEF Bootstrap, TypeOK
<1>2. CASE WriteInitialPassword
    BY <1>2 DEF WriteInitialPassword, TypeOK
<1>3. ASSUME NEW t \in Thread, NEW u \in User, NEW pw \in Password, LoginPost(t, u, pw)
      PROVE  TypeOK'
    <2>1. users[u].role \in Role
        BY <1>3, <1>a DEF LoginPost, Account
    <2>2. th' \in [Thread -> ThreadRow]
        <3> DEFINE row == [pc |-> "mint", op |-> "login", user |-> u,
                           role |-> users[u].role, pw |-> pw, fresh |-> TRUE]
        <3>1. row \in ThreadRow
            BY <2>1 DEF ThreadRow, Op
        <3>2. th' = [th EXCEPT ![t] = row]
            BY <1>3 DEF LoginPost
        <3> HIDE DEF row
        <3>3. QED
            BY <1>0, <3>1, <3>2
    <2>3. QED
        BY <1>3, <2>2 DEF LoginPost, TypeOK, ThreadRow
<1>4. ASSUME NEW t \in Thread, NewSession(t) PROVE TypeOK'
    <2>1. th[t] \in ThreadRow
        BY <1>0
    <2>2. sessions' \subseteq Session
        <3> DEFINE row == [user |-> th[t].user, role |-> th[t].role,
                           pw |-> th[t].pw, overtaken |-> ~ th[t].fresh]
        <3>1. row \in Session
            BY <2>1 DEF Session, ThreadRow
        <3>2. sessions' = sessions \cup {row}
            BY <1>4 DEF NewSession
        <3> HIDE DEF row
        <3>3. QED
            BY <1>0, <3>1, <3>2
    <2>3. th' \in [Thread -> ThreadRow]
        BY <1>4, <1>b DEF NewSession
    <2>4. QED
        BY <1>4, <2>2, <2>3 DEF NewSession, TypeOK, ThreadRow
<1>5. ASSUME NEW s \in sessions, EndSession(s) PROVE TypeOK'
    BY <1>5 DEF EndSession, TypeOK
<1>6. ASSUME NEW t \in Thread, NEW s \in sessions, NEW op \in Op \ {"login"},
             NEW u \in User, NEW r \in Role \cup {NoRole}, NEW pw \in Password,
             Enter(t, s, op, u, r, pw)
      PROVE  TypeOK'
    <2>1. r \in Role
        BY <1>0, <1>6 DEF Enter, ValidRole, Session
    <2>2. th' \in [Thread -> ThreadRow]
        <3> DEFINE row == [pc |-> "entered", op |-> op, user |-> u, role |-> r,
                           pw |-> pw, fresh |-> FALSE]
        <3>1. row \in ThreadRow
            BY <2>1 DEF ThreadRow
        <3>2. th' = [th EXCEPT ![t] = row]
            BY <1>6 DEF Enter
        <3> HIDE DEF row
        <3>3. QED
            BY <1>0, <3>1, <3>2
    <2>3. QED
        BY <1>6, <2>2 DEF Enter, TypeOK, ThreadRow
<1>7. ASSUME NEW t \in Thread, GetUser(t) PROVE TypeOK'
    <2>1. th' \in [Thread -> ThreadRow]
        <3> DEFINE u == th[t].user
                   role == IF th[t].op \in {"password", "reset"} THEN users[u].role
                           ELSE th[t].role
                   f == th[t].op \in {"password", "add", "reset"}
        <3>0. th[t] \in ThreadRow
            BY <1>0
        <3>1. CASE Rest(t)
            BY <3>1, <1>b
        <3>2. CASE /\ \/ th[t].op = "add" /\ ~ Exists(u)
                      \/ th[t].op = "password" /\ Exists(u) /\ users[u].pw # th[t].pw
                      \/ th[t].op \in {"reset", "role", "delete"} /\ Exists(u)
                   /\ th' = [th EXCEPT ![t].pc = "read", ![t].role = role,
                                       ![t].fresh = f]
            <4>1. role \in Role
                BY <3>0, <3>2, <1>a DEF ThreadRow, Account
            <4>2. f \in BOOLEAN
                OBVIOUS
            <4>3. [th[t] EXCEPT !.pc = "read", !.role = role, !.fresh = f] \in ThreadRow
                <5> HIDE DEF role, f
                <5>1. QED
                    BY <3>0, <4>1, <4>2 DEF ThreadRow
            <4>4. th' = [th EXCEPT ![t] = [th[t] EXCEPT !.pc = "read", !.role = role,
                                                        !.fresh = f]]
                BY <3>2, <1>0
            <4> HIDE DEF role, f
            <4>5. QED
                BY <1>0, <4>3, <4>4
        <3>3. QED
            BY <1>7, <3>1, <3>2 DEF GetUser
    <2>2. QED
        BY <1>7, <2>1 DEF GetUser, TypeOK, ThreadRow
<1>8. ASSUME NEW t \in Thread, AccountPassword(t) PROVE TypeOK'
    <2>1. th[t].user \in User /\ [th[t] EXCEPT !.pc = "drop", !.fresh = TRUE] \in ThreadRow
        BY <1>0 DEF ThreadRow
    <2>2. th' \in [Thread -> ThreadRow]
        BY <1>0, <1>8, <2>1, WroteThreads DEF AccountPassword
    <2>3. QED
        BY <1>8, <1>c, <2>2 DEF AccountPassword, TypeOK, ThreadRow
<1>9. ASSUME NEW t \in Thread, AdminAdd(t) PROVE TypeOK'
    <2>1. th[t].user \in User
        BY <1>0 DEF ThreadRow
    <2>2. th' \in [Thread -> ThreadRow]
        BY <1>0, <1>9, <2>1, Rows, WroteThreads DEF AdminAdd
    <2>3. sessions' \subseteq Session
        BY <1>0, <1>9, <1>d DEF AdminAdd
    <2>4. QED
        BY <1>9, <1>c, <2>2, <2>3 DEF AdminAdd, TypeOK, ThreadRow
<1>10. ASSUME NEW t \in Thread, AdminReset(t) PROVE TypeOK'
    <2>1. th[t].user \in User /\ Dropping("reset", th[t].user) \in ThreadRow
        BY <1>0, Rows DEF ThreadRow, Op
    <2>2. th' \in [Thread -> ThreadRow]
        BY <1>0, <1>10, <2>1, WroteThreads DEF AdminReset
    <2>3. QED
        BY <1>10, <1>c, <2>2 DEF AdminReset, TypeOK, ThreadRow
<1>11. ASSUME NEW t \in Thread, AdminRole(t) PROVE TypeOK'
    <2> DEFINE u == th[t].user
    <2>1. u \in User /\ th[t].role \in Role /\ Dropping("role", u) \in ThreadRow
        BY <1>0, Rows DEF ThreadRow, Op
    <2>2. CASE Rest(t) /\ UNCHANGED users
        BY <1>11, <1>b, <2>2 DEF AdminRole, TypeOK, ThreadRow
    <2>3. CASE /\ Exists(u)
               /\ users' = [users EXCEPT ![u].role = th[t].role]
               /\ Wrote(t, u, Dropping("role", u))
        <3>1. th' \in [Thread -> ThreadRow]
            BY <1>0, <2>1, <2>3, WroteThreads
        <3>2. [users[u] EXCEPT !.role = th[t].role] \in Account
            BY <1>a, <2>1, <2>3 DEF Account
        <3>3. users' \in [User -> Account \cup {NoAccount}]
            BY <1>0, <2>3, <3>2
        <3>4. QED
            BY <1>11, <3>1, <3>3 DEF AdminRole, TypeOK, ThreadRow
    <2>4. QED
        BY <1>11, <2>2, <2>3 DEF AdminRole
<1>12. ASSUME NEW t \in Thread, AdminDelete(t) PROVE TypeOK'
    <2> DEFINE u == th[t].user
    <2>1. u \in User /\ Dropping("delete", u) \in ThreadRow
        BY <1>0, Rows DEF ThreadRow, Op
    <2>2. CASE Rest(t) /\ UNCHANGED users
        BY <1>12, <1>b, <2>2 DEF AdminDelete, TypeOK, ThreadRow
    <2>3. CASE /\ users' = [users EXCEPT ![u] = NoAccount]
               /\ Wrote(t, u, Dropping("delete", u))
        <3>1. th' \in [Thread -> ThreadRow]
            BY <1>0, <2>1, <2>3, WroteThreads
        <3>2. users' \in [User -> Account \cup {NoAccount}]
            BY <1>0, <2>3
        <3>3. QED
            BY <1>12, <3>1, <3>2 DEF AdminDelete, TypeOK, ThreadRow
    <2>4. QED
        BY <1>12, <2>2, <2>3 DEF AdminDelete
<1>13. ASSUME NEW t \in Thread, DropUserSessions(t) PROVE TypeOK'
    <2>1. \/ th' = [th EXCEPT ![t].pc = "mint"]
          \/ Rest(t)
        BY <1>13 DEF DropUserSessions
    <2>2. th' \in [Thread -> ThreadRow]
        BY <1>0, <1>b, <2>1 DEF ThreadRow
    <2>3. QED
        BY <1>13, <2>2 DEF DropUserSessions, TypeOK, ThreadRow
<1>14. ASSUME NEW t \in Thread, AuthVerify(t) PROVE TypeOK'
    <2> DEFINE u == th[t].user
    <2>1. \/ /\ Exists(u)
             /\ th' = [th EXCEPT ![t].pc = "asserted", ![t].role = users[u].role]
          \/ Rest(t)
        BY <1>14 DEF AuthVerify
    <2>2. Exists(u) => users[u].role \in Role
        BY <1>0, <1>a DEF ThreadRow, Account
    <2>3. th' \in [Thread -> ThreadRow]
        BY <1>0, <1>b, <2>1, <2>2 DEF ThreadRow
    <2>4. QED
        BY <1>14, <2>3 DEF AuthVerify, TypeOK, ThreadRow
<1>15. ASSUME NEW t \in Thread, Respond(t) PROVE TypeOK'
    BY <1>15, <1>b DEF Respond, TypeOK, ThreadRow
<1>16. ASSUME NEW t \in Thread, HandlerFails(t) PROVE TypeOK'
    BY <1>16, <1>b, <1>d DEF HandlerFails, CutShort, TypeOK, ThreadRow
<1>17. CASE Restart
    <2>1. th' \in [Thread -> ThreadRow]
        BY <1>17, Rows DEF Restart
    <2>2. QED
        BY <1>17, <1>d, <2>1 DEF Restart, CutShort, TypeOK, ThreadRow
<1>18. CASE UNCHANGED vars
    BY <1>18 DEF vars, TypeOK
<1>19. QED
    BY <1>1, <1>2, <1>3, <1>4, <1>5, <1>6, <1>7, <1>8, <1>9, <1>10, <1>11, <1>12,
       <1>13, <1>14, <1>15, <1>16, <1>17, <1>18 DEF Next

\* Tables and threads keep their types.
THEOREM AccountsTypeCorrect == Spec => []TypeOK
<1>1. QED
    BY TypeInit, TypeStep, PTL DEF Spec

-----------------------------------------------------------------------------
(* Freshness.                                                               *)

\* No thread runs at first.
LEMMA FreshInit == Init => FreshIsTrue /\ QuietAtStart
BY Rows DEF Init, FreshIsTrue, QuietAtStart, Knows

\* Writing an account keeps what others remember of the other accounts, and
\* what they remember of this one is no longer fresh.
LEMMA FreshWrite ==
    ASSUME TypeOK, FreshIsTrue,
           NEW t \in Thread, NEW u \in User, NEW next \in ThreadRow,
           Wrote(t, u, next),
           \A v \in User \ {u} : users'[v] = users[v],
           Knows(next, users')
    PROVE  FreshIsTrue'
<1>0. th \in [Thread -> ThreadRow]
    BY DEF TypeOK, ThreadRow
<1>1. /\ th'[t] = next
      /\ \A v \in Thread \ {t} :
           /\ th'[v].pc = th[v].pc /\ th'[v].op = th[v].op
           /\ th'[v].user = th[v].user /\ th'[v].role = th[v].role
           /\ th'[v].pw = th[v].pw
           /\ th'[v].fresh = (th[v].fresh /\ th[v].user # u)
    BY <1>0, WroteThreads
<1>2. ASSUME NEW v \in Thread \ {t} PROVE Knows(th'[v], users')
    <2>1. Knows(th[v], users) /\ th[v].user \in User
        BY <1>0 DEF FreshIsTrue, ThreadRow
    <2>2. th[v].user # u => users'[th[v].user] = users[th[v].user]
        BY <2>1
    <2>3. QED
        BY <1>1, <2>1, <2>2 DEF Knows
<1>3. QED
    BY <1>1, <1>2 DEF FreshIsTrue

\* A step that leaves the accounts alone and moves one thread keeps freshness
\* if it keeps it for that thread.
LEMMA FreshMove ==
    ASSUME TypeOK, FreshIsTrue, users' = users,
           NEW t \in Thread, NEW next \in ThreadRow,
           th' = [th EXCEPT ![t] = next],
           Knows(next, users)
    PROVE  FreshIsTrue'
<1>1. ASSUME NEW v \in Thread PROVE th'[v] = IF v = t THEN next ELSE th[v]
    BY DEF TypeOK
<1>2. QED
    BY <1>1 DEF FreshIsTrue

\* Every step keeps what is fresh true, and the start quiet.
LEMMA FreshStep ==
    TypeOK /\ FreshIsTrue /\ QuietAtStart /\ [Next]_vars => FreshIsTrue' /\ QuietAtStart'
<1> SUFFICES ASSUME TypeOK, FreshIsTrue, QuietAtStart, [Next]_vars
             PROVE  FreshIsTrue' /\ QuietAtStart'
    OBVIOUS
<1>0. /\ th \in [Thread -> ThreadRow]
      /\ users \in [User -> Account \cup {NoAccount}]
    BY DEF TypeOK, ThreadRow
<1>a. ASSUME NEW t \in Thread, Rest(t), users' = users PROVE FreshIsTrue'
    <2>1. th' = [th EXCEPT ![t] = Resting] /\ Knows(Resting, users)
        BY <1>a, Rows DEF Rest, Knows
    <2>2. QED
        BY <1>a, <2>1, Rows, FreshMove
<1>b. ASSUME users' = users, th' = th PROVE FreshIsTrue'
    BY <1>b DEF FreshIsTrue
<1>c. ASSUME NEW t \in Thread, th[t].pc # "idle", service' = service PROVE QuietAtStart'
    BY <1>c DEF QuietAtStart
<1>d. ASSUME NEW t \in Thread, Idle(t), service' = service PROVE QuietAtStart'
    BY <1>d DEF QuietAtStart, Idle
<1>e. ASSUME NEW t \in Thread, NEW must, UpsertUser(t, must), th[t].user \in User
      PROVE  /\ \A v \in User \ {th[t].user} : users'[v] = users[v]
             /\ users'[th[t].user] = [pw |-> th[t].pw, role |-> th[t].role, must |-> must]
    BY <1>0, <1>e DEF UpsertUser
<1>1. CASE Bootstrap
    <2>1. FreshIsTrue'
        <3>1. \A t \in Thread : th'[t].fresh => th'[t].pc = "idle"
            BY <1>1 DEF Bootstrap, QuietAtStart
        <3>2. QED
            BY <3>1 DEF FreshIsTrue, Knows
    <2>2. QuietAtStart'
        BY <1>1 DEF Bootstrap, QuietAtStart
    <2>3. QED
        BY <2>1, <2>2
<1>2. CASE WriteInitialPassword
    BY <1>2, <1>b DEF WriteInitialPassword, QuietAtStart
<1>3. ASSUME NEW t \in Thread, NEW u \in User, NEW pw \in Password, LoginPost(t, u, pw)
      PROVE  FreshIsTrue' /\ QuietAtStart'
    <2> DEFINE row == [pc |-> "mint", op |-> "login", user |-> u,
                       role |-> users[u].role, pw |-> pw, fresh |-> TRUE]
    <2>1. Exists(u) /\ users[u].pw = pw /\ users' = users /\ th' = [th EXCEPT ![t] = row]
        BY <1>3 DEF LoginPost
    <2>2. row \in ThreadRow
        BY <1>0, <2>1 DEF ThreadRow, Op, Account, Exists
    <2>3. /\ row.pc = "mint" /\ row.user = u
          /\ row.role = users[u].role /\ row.pw = pw
        OBVIOUS
    <2> HIDE DEF row
    <2>4. Knows(row, users)
        BY <2>1, <2>3 DEF Knows, Exists
    <2>5. FreshIsTrue'
        BY <2>1, <2>2, <2>4, FreshMove
    <2>6. QED
        BY <1>3, <1>d, <2>5 DEF LoginPost
<1>4. ASSUME NEW t \in Thread, NewSession(t) PROVE FreshIsTrue' /\ QuietAtStart'
    BY <1>4, <1>a, <1>c DEF NewSession
<1>5. ASSUME NEW s \in sessions, EndSession(s) PROVE FreshIsTrue' /\ QuietAtStart'
    BY <1>5, <1>b DEF EndSession, QuietAtStart
<1>6. ASSUME NEW t \in Thread, NEW s \in sessions, NEW op \in Op \ {"login"},
             NEW u \in User, NEW r \in Role \cup {NoRole}, NEW pw \in Password,
             Enter(t, s, op, u, r, pw)
      PROVE  FreshIsTrue' /\ QuietAtStart'
    <2> DEFINE row == [pc |-> "entered", op |-> op, user |-> u, role |-> r,
                       pw |-> pw, fresh |-> FALSE]
    <2>1. r \in Role
        BY <1>6 DEF Enter, ValidRole, Session, TypeOK
    <2>2. row \in ThreadRow /\ ~ row.fresh
        BY <2>1 DEF ThreadRow
    <2>3. users' = users /\ th' = [th EXCEPT ![t] = row]
        BY <1>6 DEF Enter
    <2> HIDE DEF row
    <2>4. FreshIsTrue'
        BY <2>2, <2>3, FreshMove DEF Knows
    <2>5. QED
        BY <1>6, <1>d, <2>4 DEF Enter
<1>7. ASSUME NEW t \in Thread, GetUser(t) PROVE FreshIsTrue' /\ QuietAtStart'
    <2> DEFINE u == th[t].user
               role == IF th[t].op \in {"password", "reset"} THEN users[u].role
                       ELSE th[t].role
               f == th[t].op \in {"password", "add", "reset"}
               next == [th[t] EXCEPT !.pc = "read", !.role = role, !.fresh = f]
    <2>0. th[t] \in ThreadRow
        BY <1>0
    <2>1. CASE Rest(t)
        BY <1>7, <1>a, <1>c, <2>1 DEF GetUser
    <2>2. CASE /\ \/ th[t].op = "add" /\ ~ Exists(u)
                  \/ th[t].op = "password" /\ Exists(u) /\ users[u].pw # th[t].pw
                  \/ th[t].op \in {"reset", "role", "delete"} /\ Exists(u)
               /\ th' = [th EXCEPT ![t].pc = "read", ![t].role = role, ![t].fresh = f]
        <3>1. Exists(u) => users[u].role \in Role
            BY <1>0, <2>0 DEF Exists, ThreadRow, Account
        <3>2. role \in Role /\ f \in BOOLEAN
            BY <2>0, <2>2, <3>1 DEF ThreadRow
        <3>3. /\ next.pc = "read" /\ next.op = th[t].op /\ next.user = u
              /\ next.role = role /\ next.fresh = f
            BY <2>0 DEF ThreadRow
        <3>4. next \in ThreadRow
            <4> HIDE DEF role, f
            <4>1. QED
                BY <2>0, <3>2 DEF ThreadRow
        <3>5. Knows(next, users)
            <4> HIDE DEF next
            <4>1. QED
                BY <2>2, <3>3 DEF Knows, Exists
        <3>6. th' = [th EXCEPT ![t] = next] /\ users' = users
            BY <1>0, <1>7, <2>2 DEF GetUser
        <3> HIDE DEF next
        <3>7. FreshIsTrue'
            BY <3>4, <3>5, <3>6, FreshMove
        <3>8. QED
            BY <1>7, <1>c, <3>7 DEF GetUser
    <2>3. QED
        BY <1>7, <2>1, <2>2 DEF GetUser
<1>8. ASSUME NEW t \in Thread, AccountPassword(t) PROVE FreshIsTrue' /\ QuietAtStart'
    <2> DEFINE u == th[t].user
               next == [th[t] EXCEPT !.pc = "drop", !.fresh = TRUE]
    <2>0. th[t] \in ThreadRow /\ u \in User
        BY <1>0 DEF ThreadRow
    <2>1. /\ next \in ThreadRow /\ next.pc = "drop" /\ next.user = u
          /\ next.role = th[t].role /\ next.pw = th[t].pw
        BY <2>0 DEF ThreadRow
    <2>2. /\ \A v \in User \ {u} : users'[v] = users[v]
          /\ users'[u] = [pw |-> th[t].pw, role |-> th[t].role, must |-> FALSE]
        BY <1>8, <1>e, <2>0 DEF AccountPassword
    <2>3. users'[u] \in Account
        BY <2>0, <2>2 DEF ThreadRow, Account
    <2>4. Wrote(t, u, next)
        BY <1>8 DEF AccountPassword
    <2> HIDE DEF next
    <2>5. Knows(next, users')
        <3>1. users'[u] # NoAccount
            BY <2>3, AccountsAssumption
        <3>2. users'[u].role = th[t].role /\ users'[u].pw = th[t].pw
            BY <2>2
        <3>3. QED
            BY <2>1, <3>1, <3>2 DEF Knows
    <2>6. FreshIsTrue'
        BY <2>0, <2>1, <2>2, <2>4, <2>5, FreshWrite
    <2>7. QED
        BY <1>8, <1>c, <2>6 DEF AccountPassword, At
<1>9. ASSUME NEW t \in Thread, AdminAdd(t) PROVE FreshIsTrue' /\ QuietAtStart'
    <2>0. th[t].user \in User
        BY <1>0 DEF ThreadRow
    <2>1. Wrote(t, th[t].user, Resting) /\ Knows(Resting, users')
        BY <1>9, Rows DEF AdminAdd, Knows
    <2>2. FreshIsTrue'
        BY <1>9, <1>e, <2>0, <2>1, Rows, FreshWrite DEF AdminAdd
    <2>3. QED
        BY <1>9, <1>c, <2>2 DEF AdminAdd, At
<1>10. ASSUME NEW t \in Thread, AdminReset(t) PROVE FreshIsTrue' /\ QuietAtStart'
    <2> DEFINE next == Dropping("reset", th[t].user)
    <2>0. th[t].user \in User /\ next \in ThreadRow /\ Knows(next, users')
        BY <1>0, Rows DEF ThreadRow, Op, Knows
    <2>1. Wrote(t, th[t].user, next)
        BY <1>10 DEF AdminReset
    <2> HIDE DEF next
    <2>2. FreshIsTrue'
        BY <1>10, <1>e, <2>0, <2>1, FreshWrite DEF AdminReset
    <2>3. QED
        BY <1>10, <1>c, <2>2 DEF AdminReset, At
<1>11. ASSUME NEW t \in Thread, AdminRole(t) PROVE FreshIsTrue' /\ QuietAtStart'
    <2> DEFINE u == th[t].user
               next == Dropping("role", u)
    <2>0. u \in User /\ next \in ThreadRow /\ Knows(next, users')
        BY <1>0, Rows DEF ThreadRow, Op, Knows
    <2>1. CASE Rest(t) /\ UNCHANGED users
        BY <1>11, <1>a, <1>c, <2>1 DEF AdminRole, At
    <2>2. CASE users' = [users EXCEPT ![u].role = th[t].role] /\ Wrote(t, u, next)
        <3>1. \A v \in User \ {u} : users'[v] = users[v]
            BY <1>0, <2>2
        <3> HIDE DEF next
        <3>2. FreshIsTrue'
            BY <2>0, <2>2, <3>1, FreshWrite
        <3>3. QED
            BY <1>11, <1>c, <3>2 DEF AdminRole, At
    <2>3. QED
        BY <1>11, <2>1, <2>2 DEF AdminRole
<1>12. ASSUME NEW t \in Thread, AdminDelete(t) PROVE FreshIsTrue' /\ QuietAtStart'
    <2> DEFINE u == th[t].user
               next == Dropping("delete", u)
    <2>0. u \in User /\ next \in ThreadRow /\ Knows(next, users')
        BY <1>0, Rows DEF ThreadRow, Op, Knows
    <2>1. CASE Rest(t) /\ UNCHANGED users
        BY <1>12, <1>a, <1>c, <2>1 DEF AdminDelete, At
    <2>2. CASE users' = [users EXCEPT ![u] = NoAccount] /\ Wrote(t, u, next)
        <3>1. \A v \in User \ {u} : users'[v] = users[v]
            BY <1>0, <2>2
        <3> HIDE DEF next
        <3>2. FreshIsTrue'
            BY <2>0, <2>2, <3>1, FreshWrite
        <3>3. QED
            BY <1>12, <1>c, <3>2 DEF AdminDelete, At
    <2>3. QED
        BY <1>12, <2>1, <2>2 DEF AdminDelete
<1>13. ASSUME NEW t \in Thread, DropUserSessions(t) PROVE FreshIsTrue' /\ QuietAtStart'
    <2>1. CASE Rest(t)
        BY <1>13, <1>a, <1>c, <2>1 DEF DropUserSessions
    <2>2. CASE th' = [th EXCEPT ![t].pc = "mint"]
        <3> DEFINE next == [th[t] EXCEPT !.pc = "mint"]
        <3>0. th[t] \in ThreadRow
            BY <1>0
        <3>1. /\ next \in ThreadRow /\ next.pc = "mint" /\ next.user = th[t].user
              /\ next.role = th[t].role /\ next.pw = th[t].pw /\ next.fresh = th[t].fresh
            BY <3>0 DEF ThreadRow
        <3>2. th' = [th EXCEPT ![t] = next] /\ users' = users
            BY <1>0, <1>13, <2>2 DEF DropUserSessions
        <3>3. Knows(next, users)
            <4> HIDE DEF next
            <4>1. QED
                BY <1>13, <3>1 DEF DropUserSessions, FreshIsTrue, Knows
        <3> HIDE DEF next
        <3>4. FreshIsTrue'
            BY <3>1, <3>2, <3>3, FreshMove
        <3>5. QED
            BY <1>13, <1>c, <3>4 DEF DropUserSessions
    <2>3. QED
        BY <1>13, <2>1, <2>2 DEF DropUserSessions
<1>14. ASSUME NEW t \in Thread, AuthVerify(t) PROVE FreshIsTrue' /\ QuietAtStart'
    <2> DEFINE u == th[t].user
    <2>1. CASE Rest(t)
        BY <1>14, <1>a, <1>c, <2>1 DEF AuthVerify
    <2>2. CASE /\ Exists(u)
               /\ th' = [th EXCEPT ![t].pc = "asserted", ![t].role = users[u].role]
        <3> DEFINE next == [th[t] EXCEPT !.pc = "asserted", !.role = users[u].role]
        <3>0. th[t] \in ThreadRow
            BY <1>0
        <3>1. users[u].role \in Role
            BY <1>0, <2>2, <3>0 DEF Exists, ThreadRow, Account
        <3>2. next \in ThreadRow /\ next.pc = "asserted"
            BY <3>0, <3>1 DEF ThreadRow
        <3>3. th' = [th EXCEPT ![t] = next] /\ users' = users
            BY <1>0, <1>14, <2>2 DEF AuthVerify
        <3> HIDE DEF next
        <3>4. FreshIsTrue'
            BY <3>2, <3>3, FreshMove DEF Knows
        <3>5. QED
            BY <1>14, <1>c, <3>4 DEF AuthVerify
    <2>3. QED
        BY <1>14, <2>1, <2>2 DEF AuthVerify
<1>15. ASSUME NEW t \in Thread, Respond(t) PROVE FreshIsTrue' /\ QuietAtStart'
    BY <1>15, <1>a, <1>c DEF Respond
<1>16. ASSUME NEW t \in Thread, HandlerFails(t) PROVE FreshIsTrue' /\ QuietAtStart'
    BY <1>16, <1>a, <1>c DEF HandlerFails
<1>17. CASE Restart
    <2>1. \A t \in Thread : th'[t] = Resting
        BY <1>17 DEF Restart
    <2>2. QED
        BY <2>1, Rows DEF FreshIsTrue, QuietAtStart, Knows
<1>18. CASE UNCHANGED vars
    BY <1>18, <1>b DEF vars, QuietAtStart
<1>19. QED
    BY <1>1, <1>2, <1>3, <1>4, <1>5, <1>6, <1>7, <1>8, <1>9, <1>10, <1>11, <1>12,
       <1>13, <1>14, <1>15, <1>16, <1>17, <1>18 DEF Next

-----------------------------------------------------------------------------
(* A superuser remains.                                                     *)

\* A step that changes no account, and leaves "starting" only to stay there.
LEMMA SuperSame ==
    ASSUME SuperuserRemains, users' = users, writtenBack' = writtenBack,
           service = "starting" => service' = "starting"
    PROVE  SuperuserRemains'
BY DEF SuperuserRemains, IsSuper, Exists

\* Who is a superuser and not the one written stays one.
LEMMA SuperElsewhere ==
    ASSUME NEW u \in User, NEW w \in User \ {u}, IsSuper(w), users'[w] = users[w]
    PROVE  SuperuserRemains'
BY DEF SuperuserRemains, IsSuper, Exists

\* Writing a whole row keeps a superuser, unless it writes back what has
\* changed meanwhile.
LEMMA SuperUpsert ==
    ASSUME TypeOK, FreshIsTrue, QuietAtStart, SuperuserRemains,
           NEW t \in Thread, NEW must \in BOOLEAN, th[t].pc = "read",
           UpsertUser(t, must)
    PROVE  SuperuserRemains'
<1> DEFINE u == th[t].user
<1>0. /\ th[t] \in ThreadRow /\ u \in User
      /\ users \in [User -> Account \cup {NoAccount}]
    BY DEF TypeOK, ThreadRow
<1>1. /\ \A v \in User \ {u} : users'[v] = users[v]
      /\ users'[u] = [pw |-> th[t].pw, role |-> th[t].role, must |-> must]
      /\ writtenBack' = (writtenBack \/ ~ th[t].fresh)
    BY <1>0 DEF UpsertUser
<1>2. users'[u] # NoAccount /\ users'[u].role = th[t].role
    <2>1. users'[u] \in Account
        BY <1>0, <1>1 DEF ThreadRow, Account
    <2>2. QED
        BY <1>1, <2>1, AccountsAssumption
<1>3. CASE writtenBack \/ ~ th[t].fresh
    BY <1>1, <1>3 DEF SuperuserRemains
<1>4. CASE ~ writtenBack /\ th[t].fresh
    <2>1. PICK w \in User : IsSuper(w)
        BY <1>4 DEF SuperuserRemains, QuietAtStart
    <2>2. CASE w # u
        BY <1>0, <1>1, <2>1, <2>2, SuperElsewhere
    <2>3. CASE w = u
        <3>1. users[u] # NoAccount /\ users[u].role = "superuser"
            BY <2>1, <2>3 DEF IsSuper, Exists
        <3>2. th[t].role = "superuser"
            BY <1>4, <3>1 DEF FreshIsTrue, Knows
        <3>3. QED
            BY <1>0, <1>2, <3>2 DEF SuperuserRemains, IsSuper, Exists
    <2>4. QED
        BY <2>2, <2>3
<1>5. QED
    BY <1>3, <1>4

\* If u is not the last superuser, a change of u alone leaves one.
LEMMA SuperBeside ==
    ASSUME TypeOK, QuietAtStart, SuperuserRemains, NEW u \in User, NotTheLast(u),
           NEW t \in Thread, th[t].pc = "read",
           \A v \in User \ {u} : users'[v] = users[v], writtenBack' = writtenBack
    PROVE  SuperuserRemains'
<1>1. CASE writtenBack
    BY <1>1 DEF SuperuserRemains
<1>2. CASE ~ writtenBack
    <2>1. PICK w \in User : IsSuper(w)
        BY <1>2 DEF SuperuserRemains, QuietAtStart
    <2>2. PICK v \in User \ {u} : IsSuper(v)
        BY <2>1 DEF NotTheLast
    <2>3. QED
        BY <2>2, SuperElsewhere
<1>3. QED
    BY <1>1, <1>2

\* Every step keeps a superuser.
LEMMA SuperStep ==
    TypeOK /\ FreshIsTrue /\ QuietAtStart /\ SuperuserRemains /\ [Next]_vars
        => SuperuserRemains'
<1> SUFFICES ASSUME TypeOK, FreshIsTrue, QuietAtStart, SuperuserRemains, [Next]_vars
             PROVE  SuperuserRemains'
    OBVIOUS
<1>0. /\ th \in [Thread -> ThreadRow]
      /\ users \in [User -> Account \cup {NoAccount}]
    BY DEF TypeOK, ThreadRow
<1>1. CASE Bootstrap
    <2>1. CASE \A u \in User : ~ Exists(u)
        <3> DEFINE first == [pw |-> Generated, role |-> "superuser", must |-> TRUE]
        <3>1. first \in Account /\ first.role = "superuser"
            BY AccountsAssumption DEF Account
        <3>2. Admin \in User /\ users'[Admin] = first
            BY <1>0, <1>1, <2>1, AccountsAssumption DEF Bootstrap
        <3> HIDE DEF first
        <3>3. QED
            BY <3>1, <3>2, AccountsAssumption DEF SuperuserRemains, IsSuper, Exists
    <2>2. CASE ~ \A u \in User : ~ Exists(u)
        BY <1>1, <2>2 DEF Bootstrap, SuperuserRemains, IsSuper, Exists
    <2>3. QED
        BY <2>1, <2>2
<1>2. CASE WriteInitialPassword
    BY <1>2, SuperSame DEF WriteInitialPassword
<1>3. ASSUME NEW t \in Thread, NEW u \in User, NEW pw \in Password, LoginPost(t, u, pw)
      PROVE  SuperuserRemains'
    BY <1>3, SuperSame DEF LoginPost
<1>4. ASSUME NEW t \in Thread, NewSession(t) PROVE SuperuserRemains'
    BY <1>4, SuperSame DEF NewSession
<1>5. ASSUME NEW s \in sessions, EndSession(s) PROVE SuperuserRemains'
    BY <1>5, SuperSame DEF EndSession
<1>6. ASSUME NEW t \in Thread, NEW s \in sessions, NEW op \in Op \ {"login"},
             NEW u \in User, NEW r \in Role \cup {NoRole}, NEW pw \in Password,
             Enter(t, s, op, u, r, pw)
      PROVE  SuperuserRemains'
    BY <1>6, SuperSame DEF Enter
<1>7. ASSUME NEW t \in Thread, GetUser(t) PROVE SuperuserRemains'
    BY <1>7, SuperSame DEF GetUser
<1>8. ASSUME NEW t \in Thread, AccountPassword(t) PROVE SuperuserRemains'
    BY <1>8, SuperUpsert DEF AccountPassword, At
<1>9. ASSUME NEW t \in Thread, AdminAdd(t) PROVE SuperuserRemains'
    BY <1>9, SuperUpsert DEF AdminAdd, At
<1>10. ASSUME NEW t \in Thread, AdminReset(t) PROVE SuperuserRemains'
    BY <1>10, SuperUpsert DEF AdminReset, At
<1>11. ASSUME NEW t \in Thread, AdminRole(t) PROVE SuperuserRemains'
    <2> DEFINE u == th[t].user
    <2>0. u \in User /\ th[t].role \in Role
        BY <1>0 DEF ThreadRow
    <2>1. CASE UNCHANGED users
        BY <1>11, <2>1, SuperSame DEF AdminRole
    <2>2. CASE /\ Exists(u)
               /\ th[t].role = "superuser"
               /\ users' = [users EXCEPT ![u].role = th[t].role]
        <3>1. users'[u] = [users[u] EXCEPT !.role = th[t].role] /\ users[u] \in Account
            BY <1>0, <2>0, <2>2 DEF Exists
        <3>2. users'[u] \in Account /\ users'[u].role = "superuser"
            BY <2>0, <2>2, <3>1 DEF Account
        <3>3. QED
            BY <2>0, <3>2, AccountsAssumption DEF SuperuserRemains, IsSuper, Exists
    <2>3. CASE /\ NotTheLast(u)
               /\ users' = [users EXCEPT ![u].role = th[t].role]
        <3>1. \A v \in User \ {u} : users'[v] = users[v]
            BY <1>0, <2>3
        <3>2. QED
            BY <1>11, <2>0, <2>3, <3>1, SuperBeside DEF AdminRole, At
    <2>4. QED
        BY <1>11, <2>1, <2>2, <2>3 DEF AdminRole
<1>12. ASSUME NEW t \in Thread, AdminDelete(t) PROVE SuperuserRemains'
    <2> DEFINE u == th[t].user
    <2>0. u \in User
        BY <1>0 DEF ThreadRow
    <2>1. CASE UNCHANGED users
        BY <1>12, <2>1, SuperSame DEF AdminDelete
    <2>2. CASE NotTheLast(u) /\ users' = [users EXCEPT ![u] = NoAccount]
        <3>1. \A v \in User \ {u} : users'[v] = users[v]
            BY <1>0, <2>2
        <3>2. QED
            BY <1>12, <2>0, <2>2, <3>1, SuperBeside DEF AdminDelete, At
    <2>3. QED
        BY <1>12, <2>1, <2>2 DEF AdminDelete
<1>13. ASSUME NEW t \in Thread, DropUserSessions(t) PROVE SuperuserRemains'
    BY <1>13, SuperSame DEF DropUserSessions
<1>14. ASSUME NEW t \in Thread, AuthVerify(t) PROVE SuperuserRemains'
    BY <1>14, SuperSame DEF AuthVerify
<1>15. ASSUME NEW t \in Thread, Respond(t) PROVE SuperuserRemains'
    BY <1>15, SuperSame DEF Respond
<1>16. ASSUME NEW t \in Thread, HandlerFails(t) PROVE SuperuserRemains'
    BY <1>16, SuperSame DEF HandlerFails
<1>17. CASE Restart
    BY <1>17, SuperSame DEF Restart
<1>18. CASE UNCHANGED vars
    BY <1>18, SuperSame DEF vars
<1>19. QED
    BY <1>1, <1>2, <1>3, <1>4, <1>5, <1>6, <1>7, <1>8, <1>9, <1>10, <1>11, <1>12,
       <1>13, <1>14, <1>15, <1>16, <1>17, <1>18 DEF Next

\* Once there was a first start there is a superuser, whatever several
\* superusers do to each other at once, unless a handler overwrote an account
\* another had changed under it.
THEOREM SuperuserStays == Spec => []SuperuserRemains
<1>1. Init => SuperuserRemains
    BY DEF Init, SuperuserRemains, Exists
<1>2. QED
    BY TypeInit, TypeStep, FreshInit, FreshStep, <1>1, SuperStep, PTL DEF Spec

-----------------------------------------------------------------------------
(* Sessions follow accounts.                                                *)

\* What SessionsFollowAccounts says of one session: of what the account is,
Matches(s, us) ==
    us[s.user] # NoAccount /\ us[s.user].role = s.role /\ us[s.user].pw = s.pw

\* or of a thread about to drop it.
Doomed(s, row) == \E t \in Thread : row[t].pc = "drop" /\ row[t].user = s.user

LEMMA OneSession ==
    SessionsFollowAccounts <=>
        \A s \in sessions : Matches(s, users) \/ Doomed(s, th) \/ s.overtaken
BY DEF SessionsFollowAccounts, Matches, Doomed, Exists

LEMMA OneSessionNext ==
    SessionsFollowAccounts' <=>
        \A s \in sessions' : Matches(s, users') \/ Doomed(s, th') \/ s.overtaken
BY DEF SessionsFollowAccounts, Matches, Doomed, Exists

\* A step that changes no account, opens no session and ends no drop.
LEMMA SessionsSame ==
    ASSUME SessionsFollowAccounts, users' = users, sessions' \subseteq sessions,
           \A t \in Thread : th[t].pc = "drop" => th'[t].pc = "drop" /\ th'[t].user = th[t].user
    PROVE  SessionsFollowAccounts'
<1>1. ASSUME NEW s \in sessions' PROVE Matches(s, users') \/ Doomed(s, th') \/ s.overtaken
    <2>1. Matches(s, users) \/ Doomed(s, th) \/ s.overtaken
        BY OneSession
    <2>2. Doomed(s, th) => Doomed(s, th')
        BY DEF Doomed
    <2>3. QED
        BY <2>1, <2>2
<1>2. QED
    BY <1>1, OneSessionNext

\* A step of one thread that is not dropping changes nothing for the others.
LEMMA SessionsMove ==
    ASSUME TypeOK, SessionsFollowAccounts, users' = users, sessions' \subseteq sessions,
           NEW t \in Thread, th[t].pc # "drop", NEW next, th' = [th EXCEPT ![t] = next]
    PROVE  SessionsFollowAccounts'
<1>1. \A v \in Thread \ {t} : th'[v] = th[v]
    BY DEF TypeOK
<1>2. QED
    BY <1>1, SessionsSame

\* Who writes an account and goes on to drop its sessions answers for them.
LEMMA SessionsWrite ==
    ASSUME TypeOK, SessionsFollowAccounts, sessions' = sessions,
           NEW t \in Thread, NEW u \in User, NEW next \in ThreadRow,
           th[t].pc = "read", Wrote(t, u, next), next.pc = "drop", next.user = u,
           \A v \in User \ {u} : users'[v] = users[v]
    PROVE  SessionsFollowAccounts'
<1>0. th \in [Thread -> ThreadRow] /\ sessions \subseteq Session
    BY DEF TypeOK, ThreadRow
<1>1. /\ th'[t] = next
      /\ \A v \in Thread \ {t} : th'[v].pc = th[v].pc /\ th'[v].user = th[v].user
    BY <1>0, WroteThreads
<1>2. ASSUME NEW s \in sessions PROVE Matches(s, users') \/ Doomed(s, th') \/ s.overtaken
    <2>0. s.user \in User
        BY <1>0 DEF Session
    <2>1. CASE s.user = u
        BY <1>1, <2>1 DEF Doomed
    <2>2. CASE s.user # u
        <3>1. Matches(s, users) \/ Doomed(s, th) \/ s.overtaken
            BY OneSession
        <3>2. Matches(s, users) => Matches(s, users')
            BY <2>0, <2>2 DEF Matches
        <3>3. Doomed(s, th) => Doomed(s, th')
            BY <1>1 DEF Doomed
        <3>4. QED
            BY <3>1, <3>2, <3>3
    <2>3. QED
        BY <2>1, <2>2
<1>3. QED
    BY <1>2, OneSessionNext

\* Overtaking marks the sessions of the accounts it names and keeps the rest of
\* every session.
LEMMA OvertakeMarks ==
    ASSUME TypeOK, NEW us
    PROVE  \A s \in Overtake(us) : \E o \in sessions :
             /\ s.user = o.user /\ s.role = o.role /\ s.pw = o.pw
             /\ s.overtaken = (o.overtaken \/ o.user \in us)
<1>1. ASSUME NEW s \in Overtake(us)
      PROVE  \E o \in sessions :
               /\ s.user = o.user /\ s.role = o.role /\ s.pw = o.pw
               /\ s.overtaken = (o.overtaken \/ o.user \in us)
    <2>1. PICK o \in sessions : s = [o EXCEPT !.overtaken = o.overtaken \/ o.user \in us]
        BY DEF Overtake
    <2>2. o \in Session
        BY DEF TypeOK
    <2>3. QED
        BY <2>1, <2>2 DEF Session
<1>2. QED
    BY <1>1

\* Handlers that end marked the sessions they were about to drop.
LEMMA SessionsCutShort ==
    ASSUME TypeOK, SessionsFollowAccounts, users' = users,
           NEW ts \in SUBSET Thread, CutShort(ts),
           \A v \in Thread \ ts : th'[v] = th[v]
    PROVE  SessionsFollowAccounts'
<1> DEFINE us == {th[t].user : t \in {v \in ts : th[v].pc = "drop"}}
<1>1. ASSUME NEW s \in sessions' PROVE Matches(s, users') \/ Doomed(s, th') \/ s.overtaken
    <2>1. s \in Overtake(us)
        BY DEF CutShort
    <2>2. PICK o \in sessions : /\ s.user = o.user /\ s.role = o.role /\ s.pw = o.pw
                                /\ s.overtaken = (o.overtaken \/ o.user \in us)
        <3> HIDE DEF us
        <3>1. QED
            BY <2>1, OvertakeMarks
    <2>3. Matches(o, users) \/ Doomed(o, th) \/ o.overtaken
        BY OneSession
    <2>4. CASE Matches(o, users)
        BY <2>2, <2>4 DEF Matches
    <2>5. CASE Doomed(o, th)
        <3>1. PICK v \in Thread : th[v].pc = "drop" /\ th[v].user = o.user
            BY <2>5 DEF Doomed
        <3>2. CASE v \in ts
            <4>1. o.user \in us
                BY <3>1, <3>2
            <4>2. QED
                BY <2>2, <4>1
        <3>3. CASE v \notin ts
            BY <2>2, <3>1, <3>3 DEF Doomed
        <3>4. QED
            BY <3>2, <3>3
    <2>6. QED
        BY <2>2, <2>3, <2>4, <2>5
<1>2. QED
    BY <1>1, OneSessionNext

\* Every step keeps sessions following their accounts.
LEMMA SessionStep ==
    TypeOK /\ FreshIsTrue /\ QuietAtStart /\ SessionsFollowAccounts /\ [Next]_vars
        => SessionsFollowAccounts'
<1> SUFFICES ASSUME TypeOK, FreshIsTrue, QuietAtStart, SessionsFollowAccounts, [Next]_vars
             PROVE  SessionsFollowAccounts'
    OBVIOUS
<1>0. /\ th \in [Thread -> ThreadRow]
      /\ users \in [User -> Account \cup {NoAccount}]
      /\ sessions \subseteq Session
    BY DEF TypeOK, ThreadRow
<1>a. ASSUME NEW t \in Thread, NEW must, UpsertUser(t, must), th[t].user \in User
      PROVE  \A v \in User \ {th[t].user} : users'[v] = users[v]
    BY <1>0, <1>a DEF UpsertUser
<1>1. CASE Bootstrap
    <2>1. CASE users' = users
        BY <1>1, <2>1, SessionsSame DEF Bootstrap
    <2>2. CASE \A u \in User : ~ Exists(u)
        <3>1. ASSUME NEW s \in sessions PROVE s.overtaken
            <4>1. s.user \in User
                BY <1>0 DEF Session
            <4>2. ~ Matches(s, users)
                BY <2>2, <4>1 DEF Matches, Exists
            <4>3. ~ Doomed(s, th)
                BY <1>1 DEF Bootstrap, QuietAtStart, Doomed
            <4>4. QED
                BY <4>2, <4>3, OneSession
        <3>2. QED
            BY <1>1, <3>1, OneSessionNext DEF Bootstrap
    <2>3. QED
        BY <1>1, <2>1, <2>2 DEF Bootstrap
<1>2. CASE WriteInitialPassword
    BY <1>2, SessionsSame DEF WriteInitialPassword
<1>3. ASSUME NEW t \in Thread, NEW u \in User, NEW pw \in Password, LoginPost(t, u, pw)
      PROVE  SessionsFollowAccounts'
    BY <1>3, SessionsMove DEF LoginPost, Idle
<1>4. ASSUME NEW t \in Thread, NewSession(t) PROVE SessionsFollowAccounts'
    <2> DEFINE row == [user |-> th[t].user, role |-> th[t].role,
                       pw |-> th[t].pw, overtaken |-> ~ th[t].fresh]
    <2>1. /\ row.user = th[t].user /\ row.role = th[t].role
          /\ row.pw = th[t].pw /\ row.overtaken = (~ th[t].fresh)
        OBVIOUS
    <2>2. sessions' = sessions \cup {row} /\ users' = users /\ th[t].pc = "mint"
        BY <1>4 DEF NewSession
    <2> HIDE DEF row
    <2>3. Matches(row, users') \/ row.overtaken
        BY <2>1, <2>2 DEF FreshIsTrue, Knows, Matches
    <2>4. ASSUME NEW s \in sessions
          PROVE  Matches(s, users') \/ Doomed(s, th') \/ s.overtaken
        <3>1. \A v \in Thread \ {t} : th'[v] = th[v]
            BY <1>0, <1>4 DEF NewSession, Rest
        <3>2. Doomed(s, th) => Doomed(s, th')
            BY <2>2, <3>1 DEF Doomed
        <3>3. QED
            BY <2>2, <3>2, OneSession
    <2>5. QED
        BY <2>2, <2>3, <2>4, OneSessionNext
<1>5. ASSUME NEW s \in sessions, EndSession(s) PROVE SessionsFollowAccounts'
    BY <1>5, SessionsSame DEF EndSession
<1>6. ASSUME NEW t \in Thread, NEW s \in sessions, NEW op \in Op \ {"login"},
             NEW u \in User, NEW r \in Role \cup {NoRole}, NEW pw \in Password,
             Enter(t, s, op, u, r, pw)
      PROVE  SessionsFollowAccounts'
    BY <1>6, SessionsMove DEF Enter, Idle
<1>7. ASSUME NEW t \in Thread, GetUser(t) PROVE SessionsFollowAccounts'
    <2>1. \A v \in Thread \ {t} : th'[v] = th[v]
        BY <1>0, <1>7 DEF GetUser, Rest
    <2>2. th[t].pc # "drop"
        BY <1>7 DEF GetUser
    <2>3. QED
        BY <1>7, <2>1, <2>2, SessionsSame DEF GetUser
<1>8. ASSUME NEW t \in Thread, AccountPassword(t) PROVE SessionsFollowAccounts'
    <2> DEFINE next == [th[t] EXCEPT !.pc = "drop", !.fresh = TRUE]
    <2>1. /\ th[t].user \in User /\ next \in ThreadRow
          /\ next.pc = "drop" /\ next.user = th[t].user
        BY <1>0 DEF ThreadRow
    <2>2. Wrote(t, th[t].user, next) /\ sessions' = sessions /\ th[t].pc = "read"
        BY <1>8 DEF AccountPassword, At
    <2>3. \A v \in User \ {th[t].user} : users'[v] = users[v]
        BY <1>8, <1>a, <2>1 DEF AccountPassword
    <2> HIDE DEF next
    <2>4. QED
        BY <2>1, <2>2, <2>3, SessionsWrite
<1>9. ASSUME NEW t \in Thread, AdminAdd(t) PROVE SessionsFollowAccounts'
    <2> DEFINE u == th[t].user
    <2>0. th[t] \in ThreadRow /\ u \in User
        BY <1>0 DEF ThreadRow
    <2>1. \A v \in Thread \ {t} : th'[v].pc = th[v].pc /\ th'[v].user = th[v].user
        BY <1>0, <1>9, <2>0, Rows, WroteThreads DEF AdminAdd
    <2>2. th[t].pc = "read" /\ th[t].op = "add"
        BY <1>9 DEF AdminAdd, At
    <2>3. \A v \in User \ {u} : users'[v] = users[v]
        BY <1>9, <1>a, <2>0 DEF AdminAdd
    <2>4. ASSUME NEW o \in sessions
          PROVE  /\ Doomed(o, th) => Doomed(o, th')
                 /\ Matches(o, users) /\ o.user # u => Matches(o, users')
        <3>1. o.user \in User
            BY <1>0 DEF Session
        <3>2. QED
            BY <2>1, <2>2, <2>3, <3>1 DEF Doomed, Matches
    <2>5. CASE th[t].fresh
        <3>1. users[u] = NoAccount
            BY <2>2, <2>5 DEF FreshIsTrue, Knows
        <3>2. ASSUME NEW s \in sessions, Matches(s, users) PROVE s.user # u
            BY <3>1, <3>2 DEF Matches
        <3>3. sessions' = sessions
            BY <1>9, <2>5 DEF AdminAdd
        <3>4. QED
            BY <2>4, <3>2, <3>3, OneSession, OneSessionNext
    <2>6. CASE ~ th[t].fresh
        <3>1. sessions' = Overtake({u})
            BY <1>9, <2>6 DEF AdminAdd
        <3>2. ASSUME NEW s \in sessions'
              PROVE  Matches(s, users') \/ Doomed(s, th') \/ s.overtaken
            <4>1. PICK o \in sessions :
                    /\ s.user = o.user /\ s.role = o.role /\ s.pw = o.pw
                    /\ s.overtaken = (o.overtaken \/ o.user \in {u})
                BY <3>1, OvertakeMarks
            <4>2. Matches(o, users) \/ Doomed(o, th) \/ o.overtaken
                BY OneSession
            <4>3. /\ Matches(o, users') => Matches(s, users')
                  /\ Doomed(o, th') => Doomed(s, th')
                BY <4>1 DEF Matches, Doomed
            <4>4. QED
                BY <2>4, <4>1, <4>2, <4>3
        <3>3. QED
            BY <3>2, OneSessionNext
    <2>7. QED
        BY <2>5, <2>6
<1>10. ASSUME NEW t \in Thread, AdminReset(t) PROVE SessionsFollowAccounts'
    <2> DEFINE next == Dropping("reset", th[t].user)
    <2>1. /\ th[t].user \in User /\ next \in ThreadRow
          /\ next.pc = "drop" /\ next.user = th[t].user
        BY <1>0, Rows DEF ThreadRow, Op
    <2>2. Wrote(t, th[t].user, next) /\ sessions' = sessions /\ th[t].pc = "read"
        BY <1>10 DEF AdminReset, At
    <2>3. \A v \in User \ {th[t].user} : users'[v] = users[v]
        BY <1>10, <1>a, <2>1 DEF AdminReset
    <2> HIDE DEF next
    <2>4. QED
        BY <2>1, <2>2, <2>3, SessionsWrite
<1>11. ASSUME NEW t \in Thread, AdminRole(t) PROVE SessionsFollowAccounts'
    <2> DEFINE u == th[t].user
               next == Dropping("role", u)
    <2>1. u \in User /\ next \in ThreadRow /\ next.pc = "drop" /\ next.user = u
        BY <1>0, Rows DEF ThreadRow, Op
    <2>2. th[t].pc = "read" /\ sessions' = sessions
        BY <1>11 DEF AdminRole, At
    <2>3. CASE Rest(t) /\ UNCHANGED users
        BY <2>2, <2>3, SessionsMove DEF Rest
    <2>4. CASE users' = [users EXCEPT ![u].role = th[t].role] /\ Wrote(t, u, next)
        <3>1. \A v \in User \ {u} : users'[v] = users[v]
            BY <1>0, <2>4
        <3> HIDE DEF next
        <3>2. QED
            BY <2>1, <2>2, <2>4, <3>1, SessionsWrite
    <2>5. QED
        BY <1>11, <2>3, <2>4 DEF AdminRole
<1>12. ASSUME NEW t \in Thread, AdminDelete(t) PROVE SessionsFollowAccounts'
    <2> DEFINE u == th[t].user
               next == Dropping("delete", u)
    <2>1. u \in User /\ next \in ThreadRow /\ next.pc = "drop" /\ next.user = u
        BY <1>0, Rows DEF ThreadRow, Op
    <2>2. th[t].pc = "read" /\ sessions' = sessions
        BY <1>12 DEF AdminDelete, At
    <2>3. CASE Rest(t) /\ UNCHANGED users
        BY <2>2, <2>3, SessionsMove DEF Rest
    <2>4. CASE users' = [users EXCEPT ![u] = NoAccount] /\ Wrote(t, u, next)
        <3>1. \A v \in User \ {u} : users'[v] = users[v]
            BY <1>0, <2>4
        <3> HIDE DEF next
        <3>2. QED
            BY <2>1, <2>2, <2>4, <3>1, SessionsWrite
    <2>5. QED
        BY <1>12, <2>3, <2>4 DEF AdminDelete
<1>13. ASSUME NEW t \in Thread, DropUserSessions(t) PROVE SessionsFollowAccounts'
    <2>1. \A v \in Thread \ {t} : th'[v] = th[v]
        BY <1>0, <1>13 DEF DropUserSessions, Rest
    <2>2. ASSUME NEW s \in sessions'
          PROVE  Matches(s, users') \/ Doomed(s, th') \/ s.overtaken
        <3>1. s \in sessions /\ s.user # th[t].user /\ users' = users
            BY <1>13 DEF DropUserSessions
        <3>2. Doomed(s, th) => Doomed(s, th')
            BY <2>1, <3>1 DEF Doomed
        <3>3. QED
            BY <3>1, <3>2, OneSession
    <2>3. QED
        BY <2>2, OneSessionNext
<1>14. ASSUME NEW t \in Thread, AuthVerify(t) PROVE SessionsFollowAccounts'
    <2>1. \A v \in Thread \ {t} : th'[v] = th[v]
        BY <1>0, <1>14 DEF AuthVerify, Rest
    <2>2. QED
        BY <1>14, <2>1, SessionsSame DEF AuthVerify
<1>15. ASSUME NEW t \in Thread, Respond(t) PROVE SessionsFollowAccounts'
    BY <1>15, SessionsMove DEF Respond, Rest
<1>16. ASSUME NEW t \in Thread, HandlerFails(t) PROVE SessionsFollowAccounts'
    <2>1. \A v \in Thread \ {t} : th'[v] = th[v]
        BY <1>0, <1>16 DEF HandlerFails, Rest
    <2>2. QED
        BY <1>16, <2>1, SessionsCutShort DEF HandlerFails
<1>17. CASE Restart
    BY <1>17, SessionsCutShort DEF Restart
<1>18. CASE UNCHANGED vars
    BY <1>18, SessionsSame DEF vars
<1>19. QED
    BY <1>1, <1>2, <1>3, <1>4, <1>5, <1>6, <1>7, <1>8, <1>9, <1>10, <1>11, <1>12,
       <1>13, <1>14, <1>15, <1>16, <1>17, <1>18 DEF Next

\* No session outlives the change of role or password, or the deletion, of its
\* account, except between the write and the dropping, and except for a session
\* overtaken by the change.
THEOREM SessionsFollow == Spec => []SessionsFollowAccounts
<1>1. Init => SessionsFollowAccounts
    BY DEF Init, SessionsFollowAccounts
<1>2. QED
    BY TypeInit, TypeStep, FreshInit, FreshStep, <1>1, SessionStep, PTL DEF Spec

=============================================================================
