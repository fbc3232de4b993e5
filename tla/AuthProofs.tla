----------------------------- MODULE AuthProofs -----------------------------
(***************************************************************************)
(* Proofs about Auth, for any people, tokens, calls and files, and any     *)
(* number of changes: the tables auth.users and auth.sessions are live.    *)
(***************************************************************************)
EXTENDS Auth, TLAPS

(* The rows the two tables are made of, and the calls not yet answered. *)
UserRecord == [user: Person, profile: 0..2]
TokenRecord == [token: Ticket, user: Person \cup {"nobody"}]
Running    == {"verify", "plan", "sessions"}
Known      == {"users", "sessions"}

(* The tables a call has still to read, and those it has read. *)
Left == {visit.reads[i] : i \in DOMAIN visit.reads}
Asked == {visit.call.reads[i] : i \in DOMAIN visit.call.reads}

AuthTypeOK ==
    /\ enabled \in BOOLEAN
    /\ users \in [Person -> 0..2]
    /\ sessions \in [Ticket -> SessionRecord]
    /\ visit \in [at: Running \cup Done, call: Visit \cup {"none"}, reads: Seq(Known),
                  todo: SUBSET Person, users: SUBSET UserRecord, sessions: SUBSET TokenRecord]
    /\ witnessed \in [users: SUBSET UserRecord, always: SUBSET UserRecord,
                      sessions: SUBSET TokenRecord, open: SUBSET TokenRecord,
                      standing: SUBSET Ticket]
    /\ visit.at # "idle" => visit.call \in Visit

(* An open session is a user's. *)
Owned == \A t \in Ticket : sessions[t].is = "open" => sessions[t].of \in Users

(* The history holds what is there now, and nothing has been there all the time that is not. *)
Followed ==
    visit.at \in Running =>
        /\ UserRows(users) \subseteq witnessed.users
        /\ witnessed.always \subseteq UserRows(users)
        /\ SessionRows(sessions, {"open", "closed"}) \subseteq witnessed.sessions
        /\ witnessed.open \subseteq SessionRows(sessions, {"open"})
        /\ Standing(sessions) \subseteq witnessed.standing

(* How far the call is. *)
Progress ==
    /\ visit.at = "verify" => visit.reads = visit.call.reads
    /\ visit.at = "sessions" => visit.reads # <<>> /\ Head(visit.reads) = "sessions"
    /\ visit.at = "ok" => visit.reads = <<>>
    /\ enabled /\ visit.at \in {"plan", "sessions", "ok"} => Presented \in witnessed.standing

(* What it has read was there; a table it has finished is complete, and one it is reading is   *)
(* complete for the users whose sessions have been asked for.                                   *)
Complete ==
    visit.at \in Running \cup {"ok"} =>
        /\ visit.users \subseteq witnessed.users
        /\ visit.sessions \subseteq witnessed.sessions
        /\ "users" \in Asked \ Left => witnessed.always \subseteq visit.users
        /\ "sessions" \in Asked \ Left => witnessed.open \subseteq visit.sessions
        /\ visit.at = "sessions" =>
              \A row \in witnessed.open : row.user \notin visit.todo => row \in visit.sessions

AuthInv == AuthTypeOK /\ Owned /\ Followed /\ Progress /\ Complete

(* What is left of a sequence after its first element has been taken. *)
LEMMA TailElements ==
    ASSUME NEW S, NEW s \in Seq(S), s # <<>>
    PROVE  /\ Tail(s) \in Seq(S) /\ Head(s) \in S
           /\ {s[i] : i \in DOMAIN s} = {Tail(s)[i] : i \in DOMAIN Tail(s)} \cup {Head(s)}
<1>1. Len(s) \in Nat /\ Len(s) > 0 /\ DOMAIN s = 1..Len(s)
  OBVIOUS
<1>2. Tail(s) \in Seq(S) /\ Head(s) \in S /\ Head(s) = s[1]
  BY <1>1
<1>3. Len(Tail(s)) = Len(s) - 1 /\ DOMAIN Tail(s) = 1..(Len(s) - 1)
  BY <1>1, <1>2
<1>4. \A i \in 1..(Len(s) - 1) : Tail(s)[i] = s[i + 1]
  BY <1>1, <1>3
<1>5. \A i \in DOMAIN s : i = 1 \/ (i - 1 \in DOMAIN Tail(s) /\ s[i] = Tail(s)[i - 1])
  BY <1>1, <1>3, <1>4
<1>6. \A i \in DOMAIN Tail(s) : i + 1 \in DOMAIN s /\ Tail(s)[i] = s[i + 1]
  BY <1>1, <1>3, <1>4
<1>7. {s[i] : i \in DOMAIN s} \subseteq {Tail(s)[i] : i \in DOMAIN Tail(s)} \cup {Head(s)}
  <2> SUFFICES ASSUME NEW i \in DOMAIN s
               PROVE  s[i] \in {Tail(s)[j] : j \in DOMAIN Tail(s)} \cup {Head(s)}
    OBVIOUS
  <2>1. CASE i = 1
    BY <1>2, <2>1
  <2>2. CASE i # 1
    BY <1>5, <2>2
  <2> QED
    BY <2>1, <2>2
<1>8. {Tail(s)[i] : i \in DOMAIN Tail(s)} \cup {Head(s)} \subseteq {s[i] : i \in DOMAIN s}
  BY <1>1, <1>2, <1>6
<1> QED
  BY <1>2, <1>7, <1>8

(* The rows shown are rows. *)
LEMMA RowTypes ==
    ASSUME AuthTypeOK
    PROVE  /\ Users \subseteq Person
           /\ UserRows(users) \subseteq UserRecord
           /\ Standing(sessions) \subseteq Ticket
           /\ \A kind : SessionRows(sessions, kind) \subseteq TokenRecord
           /\ \A t \in Ticket : SessionRow(sessions, t) \in TokenRecord
BY DEF AuthTypeOK, Users, UserRows, UserRecord, Standing, SessionRows, SessionRow, TokenRecord, SessionRecord

LEMMA AuthInitially == AuthInit => AuthInv
<1> SUFFICES ASSUME AuthInit PROVE AuthInv
  OBVIOUS
<1> USE DEF AuthInit, NoVisit, Running, Done
<1>1. PICK file \in Persisted : users = file.users /\ sessions = file.sessions
  OBVIOUS
<1>2. <<>> \in Seq(Known)
  OBVIOUS
<1>3. AuthTypeOK
  BY <1>1, <1>2, AuthAssumption DEF AuthTypeOK
<1>4. Owned
  BY <1>1, AuthAssumption DEF Owned, Users
<1>5. Followed /\ Progress /\ Complete
  BY DEF Followed, Progress, Complete
<1> QED
  BY <1>3, <1>4, <1>5 DEF AuthInv

(* What better-auth does to the file keeps it a file whose open sessions are users'. *)
LEMMA ActKeeps ==
    ASSUME AuthTypeOK, Owned, Act
    PROVE  /\ users' \in [Person -> 0..2] /\ sessions' \in [Ticket -> SessionRecord]
           /\ \A t \in Ticket : sessions'[t].is = "open" =>
                 sessions'[t].of \in Person /\ users'[sessions'[t].of] # 0
<1> USE DEF AuthTypeOK, Owned, Users, SessionRecord
<1>1. ASSUME NEW u \in Person, SignUp(u) \/ UpdateUser(u)
      PROVE  /\ users' \in [Person -> 0..2] /\ sessions' = sessions
             /\ \A v \in Person : users[v] # 0 => users'[v] # 0
  BY <1>1 DEF SignUp, UpdateUser
<1>2. ASSUME NEW u \in Person, NEW t \in Ticket, SignIn(u, t)
      PROVE  /\ sessions' \in [Ticket -> SessionRecord] /\ users' = users
             /\ \A k \in Ticket : sessions'[k].is = "open" =>
                   sessions'[k].of \in Person /\ users[sessions'[k].of] # 0
  BY <1>2 DEF SignIn
<1>3. ASSUME NEW t \in Ticket, SignOut(t)
      PROVE  /\ sessions' \in [Ticket -> SessionRecord] /\ users' = users
             /\ \A k \in Ticket : sessions'[k].is = "open" =>
                   sessions[k].is = "open" /\ sessions'[k].of = sessions[k].of
  <2>1. PICK is \in {"closed", "gone"} : sessions' = [sessions EXCEPT ![t].is = is]
    BY <1>3 DEF SignOut
  <2>2. sessions' = [sessions EXCEPT ![t] = [sessions[t] EXCEPT !.is = is]]
    BY <2>1
  <2>3. \A k \in Ticket : sessions'[k] = IF k = t THEN [sessions[t] EXCEPT !.is = is] ELSE sessions[k]
    BY <2>2
  <2> QED
    BY <1>3, <2>1, <2>2, <2>3 DEF SignOut
<1>4. ASSUME NEW u \in Person, DeleteUser(u)
      PROVE  /\ users' \in [Person -> 0..2] /\ sessions' \in [Ticket -> SessionRecord]
             /\ \A k \in Ticket : sessions'[k].is = "open" =>
                   sessions[k].is = "open" /\ sessions'[k].of = sessions[k].of /\ sessions[k].of # u
             /\ \A v \in Person \ {u} : users'[v] = users[v]
  BY <1>4 DEF DeleteUser
<1> QED
  BY <1>1, <1>2, <1>3, <1>4 DEF Act

(* The file changes while a call runs: the history follows, and what the call has read stays   *)
(* within it.                                                                                   *)
LEMMA FileChanges ==
    ASSUME AuthInv, Witness, UNCHANGED <<enabled, visit>>,
           users' \in [Person -> 0..2], sessions' \in [Ticket -> SessionRecord],
           \A t \in Ticket : sessions'[t].is = "open" =>
                sessions'[t].of \in Person /\ users'[sessions'[t].of] # 0
    PROVE  AuthInv'
<1> USE DEF AuthInv
<1>1. /\ UserRows(users') \subseteq UserRecord /\ Standing(sessions') \subseteq Ticket
      /\ \A kind : SessionRows(sessions', kind) \subseteq TokenRecord
  BY DEF UserRows, UserRecord, Standing, SessionRows, SessionRow, TokenRecord, SessionRecord
<1>2. /\ witnessed.users \subseteq witnessed'.users /\ witnessed'.always \subseteq witnessed.always
      /\ witnessed.sessions \subseteq witnessed'.sessions /\ witnessed'.open \subseteq witnessed.open
      /\ witnessed.standing \subseteq witnessed'.standing
  BY DEF Witness
<1>3. AuthTypeOK'
  BY <1>1 DEF Witness, AuthTypeOK
<1>4. Owned'
  BY DEF Owned, Users
<1>5. Followed'
  BY DEF Followed, Witness, Running, Done
<1>6. Progress'
  BY <1>2 DEF Progress, Presented
<1>7. Complete'
  BY <1>2 DEF Complete, Asked, Left
<1> QED
  BY <1>3, <1>4, <1>5, <1>6, <1>7

LEMMA VisitedKeeps ==
    ASSUME AuthInv, NEW call \in Visit, Visited(call) PROVE AuthInv'
<1> USE DEF AuthInv
<1>1. /\ visit' = [at |-> "verify", call |-> call, reads |-> call.reads, todo |-> {}, users |-> {}, sessions |-> {}]
      /\ UNCHANGED <<enabled, users, sessions, acts>>
  BY DEF Visited, ToVisit, NoVisit
<1>2. call.reads \in Seq(Known)
  BY AuthAssumption DEF Known
<1>3. AuthTypeOK'
  <2>1. visit'.at # "idle" => visit'.call \in Visit
    BY <1>1
  <2>2. visit' \in [at: Running \cup Done, call: Visit \cup {"none"}, reads: Seq(Known),
                    todo: SUBSET Person, users: SUBSET UserRecord, sessions: SUBSET TokenRecord]
    BY <1>1, <1>2 DEF Running
  <2>3. witnessed' \in [users: SUBSET UserRecord, always: SUBSET UserRecord, sessions: SUBSET TokenRecord,
                        open: SUBSET TokenRecord, standing: SUBSET Ticket]
    BY RowTypes DEF Visited
  <2> QED
    BY <1>1, <2>1, <2>2, <2>3 DEF AuthTypeOK
<1>4. Owned'
  BY <1>1 DEF Owned, Users
<1>5. Followed'
  BY <1>1 DEF Followed, Visited
<1>6. Progress'
  BY <1>1 DEF Progress
<1>7. Complete'
  BY <1>1 DEF Complete, Asked, Left
<1> QED
  BY <1>3, <1>4, <1>5, <1>6, <1>7

(* A step of the call alone leaves the file and the history. *)
LEMMA CallKeeps ==
    ASSUME AuthInv, ToVisit, UNCHANGED witnessed, AuthTypeOK', Progress', Complete',
           visit'.at \in Running => visit.at \in Running
    PROVE  AuthInv'
BY DEF AuthInv, ToVisit, Owned, Users, Followed

LEMMA EndsKeeps ==
    ASSUME AuthInv, ToVisit, NEW how \in {"ok", "refused", "failed"}, Ends(how), visit.at \in Running,
           how = "ok" => visit.at = "plan" /\ visit.reads = <<>>
    PROVE  AuthInv'
<1> USE DEF AuthInv
<1>1. visit' = [visit EXCEPT !.at = how] /\ UNCHANGED <<witnessed, enabled, users, sessions>>
  BY DEF Ends, ToVisit
<1>2. AuthTypeOK'
  BY <1>1 DEF AuthTypeOK, Done, Running
<1>3. Progress'
  BY <1>1 DEF Progress, Presented, AuthTypeOK
<1>4. Complete'
  BY <1>1 DEF Complete, Asked, Left, AuthTypeOK, Running
<1> QED
  BY <1>1, <1>2, <1>3, <1>4, CallKeeps DEF Running

LEMMA VerifyKeeps == ASSUME AuthInv, VerifySession PROVE AuthInv'
<1> USE DEF AuthInv
<1>1. CASE /\ enabled => Presented \in Standing(sessions)
           /\ visit' = [visit EXCEPT !.at = "plan"] /\ UNCHANGED witnessed
  <2>1. visit.at = "verify" /\ UNCHANGED <<enabled, users, sessions, acts>>
    BY DEF VerifySession, ToVisit
  <2>2. AuthTypeOK'
    BY <1>1, <2>1 DEF AuthTypeOK, Running
  <2>3. enabled => Presented \in witnessed.standing
    BY <1>1, <2>1 DEF Followed, Running
  <2>4. Progress'
    BY <1>1, <2>1, <2>3 DEF Progress, Presented, AuthTypeOK
  <2>5. Complete'
    BY <1>1, <2>1 DEF Complete, Asked, Left, AuthTypeOK, Running
  <2> QED
    BY <1>1, <2>1, <2>2, <2>4, <2>5, CallKeeps DEF ToVisit, Running
<1>2. CASE enabled /\ Ends("refused")
  BY <1>2, EndsKeeps DEF VerifySession, Running
<1> QED
  BY <1>1, <1>2 DEF VerifySession

LEMMA ListUsersKeeps == ASSUME AuthInv, ListUsers PROVE AuthInv'
<1> USE DEF AuthInv
<1>1. visit.at = "plan" /\ visit.reads # <<>> /\ UNCHANGED <<enabled, users, sessions, acts, witnessed>>
  BY DEF ListUsers, ToVisit
<1>2. /\ Tail(visit.reads) \in Seq(Known) /\ Head(visit.reads) \in Known
      /\ Left = {Tail(visit.reads)[i] : i \in DOMAIN Tail(visit.reads)} \cup {Head(visit.reads)}
  BY <1>1, TailElements DEF AuthTypeOK, Left
<1>3. CASE /\ Head(visit.reads) = "users"
           /\ visit' = [visit EXCEPT !.users = UserRows(users), !.reads = Tail(@)]
  <2>1. AuthTypeOK'
    BY <1>1, <1>2, <1>3, RowTypes DEF AuthTypeOK
  <2>2. Progress'
    BY <1>1, <1>3 DEF Progress, Presented, AuthTypeOK
  <2>3. /\ visit'.at = "plan" /\ visit'.users = UserRows(users) /\ visit'.sessions = visit.sessions
        /\ Asked' = Asked /\ Left \subseteq Left' \cup {"users"}
    BY <1>1, <1>2, <1>3 DEF AuthTypeOK, Asked, Left
  <2>4. /\ UserRows(users) \subseteq witnessed.users /\ witnessed.always \subseteq UserRows(users)
        /\ visit.sessions \subseteq witnessed.sessions
        /\ "sessions" \in Asked \ Left => witnessed.open \subseteq visit.sessions
    BY <1>1 DEF Followed, Complete, Running
  <2>5. Complete'
    BY <1>1, <2>3, <2>4 DEF Complete
  <2> QED
    BY <1>1, <2>1, <2>2, <2>5, CallKeeps DEF ListUsers, Running
<1>4. CASE /\ Head(visit.reads) = "sessions"
           /\ visit' = [visit EXCEPT !.at = "sessions", !.todo = Users]
  <2>1. AuthTypeOK'
    BY <1>1, <1>4, RowTypes DEF AuthTypeOK, Running
  <2>2. Progress'
    BY <1>1, <1>4 DEF Progress, Presented, AuthTypeOK
  <2>3. /\ visit'.at = "sessions" /\ visit'.users = visit.users /\ visit'.sessions = visit.sessions
        /\ visit'.todo = Users /\ Asked' = Asked /\ Left' = Left
    BY <1>1, <1>4 DEF AuthTypeOK, Asked, Left
  <2>4. \A row \in witnessed.open : row.user \in Users
    BY <1>1 DEF Followed, Running, SessionRows, SessionRow, Owned
  <2>5. Complete'
    BY <1>1, <2>3, <2>4 DEF Complete, Running
  <2> QED
    BY <1>1, <2>1, <2>2, <2>5, CallKeeps DEF ListUsers, Running
<1> QED
  BY <1>3, <1>4 DEF ListUsers

LEMMA ReadSessionsKeeps == ASSUME AuthInv, NEW u \in Person, ReadSessions(u) PROVE AuthInv'
<1> USE DEF AuthInv
<1>1. visit.at = "sessions" /\ u \in visit.todo /\ UNCHANGED <<enabled, users, sessions, acts, witnessed>>
  BY DEF ReadSessions, ToVisit
<1>2. PICK revoked \in SUBSET Tickets({"closed"}) :
         visit' = [visit EXCEPT
            !.sessions = @ \cup {SessionRow(sessions, t) :
                                   t \in {k \in Tickets({"open"}) \cup revoked : sessions[k].of = u}},
            !.todo = @ \ {u}]
  BY DEF ReadSessions, Gathered
<1> DEFINE more == {SessionRow(sessions, t) : t \in {k \in Tickets({"open"}) \cup revoked : sessions[k].of = u}}
<1>3. more \subseteq SessionRows(sessions, {"open", "closed"})
  BY DEF SessionRows, Tickets
<1>4. \A row \in SessionRows(sessions, {"open"}) : row.user = u => row \in more
  BY DEF SessionRows, SessionRow, Tickets
<1>5. /\ visit'.at = "sessions" /\ visit'.users = visit.users /\ visit'.sessions = visit.sessions \cup more
      /\ visit'.todo = visit.todo \ {u} /\ visit'.reads = visit.reads /\ visit'.call = visit.call
      /\ Asked' = Asked /\ Left' = Left
  BY <1>1, <1>2 DEF AuthTypeOK, Asked, Left
<1> HIDE DEF more
<1>6. more \subseteq TokenRecord
  BY <1>3, RowTypes
<1>7. AuthTypeOK'
  <2>1. visit' \in [at: Running \cup Done, call: Visit \cup {"none"}, reads: Seq(Known),
                    todo: SUBSET Person, users: SUBSET UserRecord, sessions: SUBSET TokenRecord]
    BY <1>2, <1>6 DEF AuthTypeOK, more
  <2> QED
    BY <1>1, <1>5, <2>1 DEF AuthTypeOK
<1>8. Progress'
  BY <1>1, <1>5 DEF Progress, Presented
<1>9. Complete'
  BY <1>1, <1>3, <1>4, <1>5 DEF Complete, Followed, Running
<1> QED
  BY <1>1, <1>7, <1>8, <1>9, CallKeeps DEF ReadSessions, Running

LEMMA SessionsReadKeeps == ASSUME AuthInv, SessionsRead PROVE AuthInv'
<1> USE DEF AuthInv
<1>1. visit.at = "sessions" /\ visit.todo = {} /\ UNCHANGED <<enabled, users, sessions, acts, witnessed>>
  BY DEF SessionsRead, ToVisit
<1>2. visit.reads # <<>> /\ Head(visit.reads) = "sessions"
  BY <1>1 DEF Progress
<1>3. /\ Tail(visit.reads) \in Seq(Known)
      /\ Left = {Tail(visit.reads)[i] : i \in DOMAIN Tail(visit.reads)} \cup {"sessions"}
  BY <1>2, TailElements DEF AuthTypeOK, Left
<1>4. visit' = [visit EXCEPT !.at = "plan", !.reads = Tail(@)]
  BY DEF SessionsRead
<1>5. /\ visit'.at = "plan" /\ visit'.users = visit.users /\ visit'.sessions = visit.sessions
      /\ Asked' = Asked /\ Left \subseteq Left' \cup {"sessions"}
  BY <1>3, <1>4 DEF AuthTypeOK, Asked, Left
<1>6. AuthTypeOK'
  BY <1>1, <1>3, <1>4 DEF AuthTypeOK, Running
<1>7. Progress'
  BY <1>1, <1>4 DEF Progress, Presented, AuthTypeOK
<1>8. witnessed.open \subseteq visit.sessions
  BY <1>1 DEF Complete, Running, AuthTypeOK
<1>9. Complete'
  BY <1>1, <1>5, <1>8 DEF Complete, Running
<1> QED
  BY <1>1, <1>6, <1>7, <1>9, CallKeeps DEF SessionsRead, Running

LEMMA AuthStep == AuthInv /\ [AuthNext]_authVars => AuthInv'
<1> SUFFICES ASSUME AuthInv, [AuthNext]_authVars PROVE AuthInv'
  OBVIOUS
<1>1. CASE AuthCall
  BY <1>1, FileChanges, ActKeeps DEF AuthCall, AuthInv
<1>2. ASSUME NEW t \in Ticket, Lapse(t) PROVE AuthInv'
  <2>1. /\ sessions' \in [Ticket -> SessionRecord] /\ users' = users
        /\ \A k \in Ticket : sessions'[k].is = sessions[k].is /\ sessions'[k].of = sessions[k].of
    BY <1>2 DEF Lapse, AuthInv, AuthTypeOK, SessionRecord
  <2> QED
    BY <1>2, <2>1, FileChanges DEF Lapse, AuthInv, AuthTypeOK, Owned, Users
<1>3. ASSUME NEW call \in Visit, Visited(call) PROVE AuthInv'
  BY <1>3, VisitedKeeps
<1>4. CASE VerifySession
  BY <1>4, VerifyKeeps
<1>5. CASE ListUsers
  BY <1>5, ListUsersKeeps
<1>6. CASE SessionsRead
  BY <1>6, SessionsReadKeeps
<1>7. CASE ReadFails
  BY <1>7, EndsKeeps DEF ReadFails, Running
<1>8. CASE Show
  BY <1>8, EndsKeeps DEF Show, Running
<1>9. ASSUME NEW u \in Person, ReadSessions(u) PROVE AuthInv'
  BY <1>9, ReadSessionsKeeps
<1>10. CASE UNCHANGED authVars
  BY <1>10 DEF authVars, AuthInv, AuthTypeOK, Owned, Users, Followed, Progress, Presented, Complete, Asked, Left
<1> QED
  BY <1>1, <1>2, <1>3, <1>4, <1>5, <1>6, <1>7, <1>8, <1>9, <1>10 DEF AuthNext

(* However users and sessions come and go while a call of a pipeline is planned - signed up,   *)
(* renamed, deleted, signed in, signed out, expired, between the reads of one table and of the *)
(* other and between one user's sessions and the next's -, an answered call presented a        *)
(* session that was open and in time at a moment of the call, the rows it shows were there     *)
(* during the call, and a table it reads shows every row that was there throughout             *)
(* (AuthUsersTable::scan, AuthSessionsTable::scan, verify_session).                            *)
THEOREM TablesLive == AuthSpec => []AuthTablesLive
<1>1. AuthInv => AuthTablesLive
  <2> SUFFICES ASSUME AuthInv, visit.at = "ok" PROVE AuthTablesLive
    BY DEF AuthTablesLive
  <2>1. Left = {}
    BY DEF AuthInv, Progress, Left
  <2> QED
    BY <2>1 DEF AuthInv, AuthTablesLive, Progress, Complete, Asked
<1> QED
  BY <1>1, AuthInitially, AuthStep, PTL DEF AuthSpec
=============================================================================
