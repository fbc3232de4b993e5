-------------------------------- MODULE Auth --------------------------------
(***************************************************************************)
(* Sign-in and the tables auth.users and auth.sessions                     *)
(* (crates/server/src/auth).  better-auth keeps users and sessions in an   *)
(* SQLite file of its own; /api/auth/* is handed to it, the call of a      *)
(* pipeline needs a session of its, and a query over the two tables reads  *)
(* it while the plan is made: the users at once, their sessions user by    *)
(* user.                                                                   *)
(***************************************************************************)
EXTENDS Integers, Sequences

CONSTANTS Person,   \* users
          Ticket,   \* tokens of sessions
          NoTicket, \* no token
          Visit,    \* calls of a pipeline: its tables, and the tokens in the header and the cookie
          Persisted, \* what a server may find in the file: users and sessions
          MaxActs   \* bound on the changes of users and sessions

VARIABLES
    enabled,   \* AUTH_MODE
    users,     \* user to the state of the profile, 0 for no such user
    sessions,  \* token to its session
    acts,      \* changes so far
    visit,     \* the call of a pipeline, how far it is and what it has read
    witnessed  \* history: what was there at some time, and all the time, since the call arrived

authVars == <<enabled, users, sessions, acts, visit, witnessed>>

\* is: "none" before the sign-in, "open", "closed" once revoked, "gone".
NoSession == [is |-> "none", of |-> "nobody", late |-> FALSE]
NoVisit   == [at |-> "idle", call |-> "none", reads |-> <<>>, todo |-> {}, users |-> {}, sessions |-> {}]

SessionRecord == [is: {"none", "open", "closed", "gone"}, of: Person \cup {"nobody"}, late: BOOLEAN]

\* Pipelines read the two tables, a table as often as they like; the file a server finds is one
\* better-auth has left: the owner of an open session is a user.
ASSUME AuthAssumption ==
    /\ \A call \in Visit : call.reads \in Seq({"users", "sessions"})
    /\ \A file \in Persisted :
          /\ file.users \in [Person -> 0..2] /\ file.sessions \in [Ticket -> SessionRecord]
          /\ \A t \in Ticket : file.sessions[t].is = "open" =>
                file.sessions[t].of \in Person /\ file.users[file.sessions[t].of] # 0

Users         == {u \in Person : users[u] # 0}
Tickets(kind) == {t \in Ticket : sessions[t].is \in kind}

\* AuthUserRow and AuthSessionRow: whether a session has been revoked is not shown.
UserRows(us)      == {[user |-> u, profile |-> us[u]] : u \in {v \in Person : us[v] # 0}}
SessionRow(ss, t) == [token |-> t, user |-> ss[t].of]
SessionRows(ss, kind) == {SessionRow(ss, t) : t \in {k \in Ticket : ss[k].is \in kind}}
Standing(ss)      == {t \in Ticket : ss[t].is = "open" /\ ~ss[t].late}

AuthInit ==
    /\ enabled \in BOOLEAN
    /\ \E file \in Persisted : users = file.users /\ sessions = file.sessions
    /\ acts = 0 /\ visit = NoVisit
    /\ witnessed = [users |-> {}, always |-> {}, sessions |-> {}, open |-> {}, standing |-> {}]

-----------------------------------------------------------------------------
(* better-auth.                                                             *)

SignUp(u) ==
    /\ u \notin Users
    /\ users' = [users EXCEPT ![u] = 1]
    /\ UNCHANGED sessions

SignIn(u, t) ==
    /\ u \in Users /\ sessions[t].is = "none"
    /\ sessions' = [sessions EXCEPT ![t] = [is |-> "open", of |-> u, late |-> FALSE]]
    /\ UNCHANGED users

SignOut(t) ==
    /\ sessions[t].is = "open"
    /\ \E is \in {"closed", "gone"} : sessions' = [sessions EXCEPT ![t].is = is]
    /\ UNCHANGED users

UpdateUser(u) ==
    /\ users[u] = 1
    /\ users' = [users EXCEPT ![u] = 2]
    /\ UNCHANGED sessions

DeleteUser(u) ==
    /\ u \in Users
    /\ users' = [users EXCEPT ![u] = 0]
    /\ sessions' = [t \in Ticket |->
                      IF sessions[t].of = u THEN [sessions[t] EXCEPT !.is = "gone"] ELSE sessions[t]]

Act ==
    \/ \E u \in Person : SignUp(u) \/ UpdateUser(u) \/ DeleteUser(u) \/ \E t \in Ticket : SignIn(u, t)
    \/ \E t \in Ticket : SignOut(t)

Done == {"idle", "ok", "refused", "failed"}

Witness ==
    witnessed' = IF visit.at \in Done THEN witnessed
                 ELSE [users    |-> witnessed.users \cup UserRows(users'),
                       always   |-> witnessed.always \cap UserRows(users'),
                       sessions |-> witnessed.sessions \cup SessionRows(sessions', {"open", "closed"}),
                       open     |-> witnessed.open \cap SessionRows(sessions', {"open"}),
                       standing |-> witnessed.standing \cup Standing(sessions')]

-----------------------------------------------------------------------------
(* The routes.                                                              *)

\* auth_handler: where there is no auth, or the method or the body cannot be handed on, nothing
\* is done; an answer of better-auth, an error too, may come after all or a part of what was asked.
AuthCall ==
    /\ enabled /\ acts < MaxActs
    /\ Act /\ acts' = acts + 1
    /\ UNCHANGED <<enabled, visit>>
    /\ Witness

\* A session expires.
Lapse(t) ==
    /\ sessions[t].is = "open" /\ ~sessions[t].late
    /\ sessions' = [sessions EXCEPT ![t].late = TRUE]
    /\ UNCHANGED <<enabled, users, acts, visit>>
    /\ Witness

ToVisit == UNCHANGED <<enabled, users, sessions, acts>>
Ends(how) == visit' = [visit EXCEPT !.at = how] /\ UNCHANGED witnessed

\* A pipeline over the tables is only loaded if there are any.  One call is looked at, since calls
\* change nothing here.
Visited(call) ==
    /\ visit.at = "idle"
    /\ enabled \/ call.reads = <<>>
    /\ visit' = [NoVisit EXCEPT !.at = "verify", !.call = call, !.reads = call.reads]
    /\ witnessed' = [users |-> UserRows(users), always |-> UserRows(users),
                     sessions |-> SessionRows(sessions, {"open", "closed"}),
                     open |-> SessionRows(sessions, {"open"}), standing |-> Standing(sessions)]
    /\ ToVisit

\* The cookie counts if there is no bearer token, not if there is a wrong one.
Presented == IF visit.call.bearer # NoTicket THEN visit.call.bearer ELSE visit.call.cookie

\* verify_session: a session that cannot be read is no session.
VerifySession ==
    /\ visit.at = "verify"
    /\ \/ /\ enabled => Presented \in Standing(sessions)
          /\ visit' = [visit EXCEPT !.at = "plan"] /\ UNCHANGED witnessed
       \/ enabled /\ Ends("refused")
    /\ ToVisit

-----------------------------------------------------------------------------
(* The tables.                                                              *)

\* AuthUsersTable::scan and the first half of AuthSessionsTable::scan.
ListUsers ==
    /\ visit.at = "plan" /\ visit.reads # <<>>
    /\ \/ /\ Head(visit.reads) = "users"
          /\ visit' = [visit EXCEPT !.users = UserRows(users),
                                    !.reads = Tail(@)]
          /\ UNCHANGED witnessed
       \/ /\ Head(visit.reads) = "sessions"
          /\ visit' = [visit EXCEPT !.at = "sessions", !.todo = Users]
          /\ UNCHANGED witnessed
    /\ ToVisit

\* Mutant: the sessions of the last user only.
GatheredLast(rows, more) == more

Gathered(rows, more) == rows \cup more

\* get_user_sessions: the open ones and, as the library pleases, those that are revoked.
ReadSessions(u) ==
    /\ visit.at = "sessions" /\ u \in visit.todo
    /\ \E revoked \in SUBSET Tickets({"closed"}) :
          LET found == {t \in Tickets({"open"}) \cup revoked : sessions[t].of = u}
          IN  visit' = [visit EXCEPT !.sessions = Gathered(@, {SessionRow(sessions, t) : t \in found}),
                                     !.todo = @ \ {u}]
    /\ UNCHANGED witnessed /\ ToVisit

SessionsRead ==
    /\ visit.at = "sessions" /\ visit.todo = {}
    /\ visit' = [visit EXCEPT !.at = "plan", !.reads = Tail(@)]
    /\ UNCHANGED witnessed /\ ToVisit

\* The database of better-auth cannot be read.
ReadFails ==
    /\ \/ visit.at = "sessions" /\ visit.todo # {}
       \/ visit.at = "plan" /\ visit.reads # <<>>
    /\ Ends("failed")
    /\ ToVisit

\* The rows are in memory by now.
Show ==
    /\ visit.at = "plan" /\ visit.reads = <<>>
    /\ Ends("ok")
    /\ ToVisit

AuthNext ==
    \/ AuthCall \/ \E t \in Ticket : Lapse(t)
    \/ \E call \in Visit : Visited(call)
    \/ VerifySession \/ ListUsers \/ SessionsRead \/ ReadFails \/ Show
    \/ \E u \in Person : ReadSessions(u)

AuthSpec == AuthInit /\ [][AuthNext]_authVars

-----------------------------------------------------------------------------
(* Properties.                                                              *)

\* A pipeline answers a caller whose session was open and in time at a moment of the call, and
\* the two tables are live ones: what they show was there during the call, and what was there all
\* the time of it is shown, although users and sessions come and go between one read and the next.
AuthTablesLive ==
    visit.at = "ok" =>
        LET read == {visit.call.reads[i] : i \in DOMAIN visit.call.reads}
        IN  /\ enabled => Presented \in witnessed.standing
            /\ visit.users \subseteq witnessed.users
            /\ visit.sessions \subseteq witnessed.sessions
            /\ "users" \in read => witnessed.always \subseteq visit.users
            /\ "sessions" \in read => witnessed.open \subseteq visit.sessions
=============================================================================
