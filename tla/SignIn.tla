------------------------------- MODULE SignIn -------------------------------
(***************************************************************************)
(* Signing in and staying signed in: a password and then a one-time code   *)
(* open a session, refreshes pass it on from token to token, a logout, a   *)
(* changed password and a deactivation end sessions; what is tried is kept *)
(* in Login_Attempts, and too many failures bar an identifier for a while. *)
(*                                                                         *)
(* Codes are in the memory of the process, everything else in the          *)
(* database.  Every await is a step boundary; a flush is one step, taken   *)
(* when the row lock it needs is free; what is flushed is kept in txn      *)
(* until it is committed.  Time is not counted: a code or a token may grow *)
(* old, and a failure leave the lockout's window, at any moment before a   *)
(* request looks at it.  Two codes are never the same digits.              *)
(***************************************************************************)
EXTENDS Integers, FiniteSets, FiniteSetsExt

CONSTANTS
  Req,          \* requests that may arrive; also the id of what each makes
  OldUsers, OldTokens, OldAttempts,   \* ids of rows that may be on record before
  Before,       \* the maker of a code that was pending before
  Idents,       \* e-mail addresses and display names
  Passwords,
  None,
  MaxFailures,  \* login_lockout_max_failures
  MaxGuesses,   \* OTP_MAX_ATTEMPTS
  Asks,         \* what clients may send
  Databases,    \* what may be on record before the requests arrive
  Loads         \* which kinds of request arrive together: functions of Req

UserIds == OldUsers \cup Req
TokenIds == OldTokens \cup Req
CodeIds == Req \cup {Before}
Kinds == {"login", "verify", "refresh", "logout", "change", "create", "update", "deactivate", "none"}

User == [email : Idents, name : Idents, password : Passwords, active : BOOLEAN]
\* "from" is the code or the token that was given for it.
Token == [user : UserIds, revoked : BOOLEAN, age : {"fresh", "idle", "expired"},
          from : CodeIds \cup TokenIds]
Code == [id : CodeIds, attempts : 0 .. MaxGuesses, expired : BOOLEAN]
\* "code" is history: the one an answer was compared with.
Attempt == [who : Idents \cup UserIds, action : {"login", "verify_otp", "change_password"},
            success : BOOLEAN, recent : BOOLEAN, code : CodeIds \cup {None}]

\* What a request brings with it.
Ask ==
  [kind : {"login"}, ident : Idents, password : Passwords]
  \cup [kind : {"verify"}, user : UserIds, code : CodeIds \cup {None}]
  \cup [kind : {"refresh", "logout"}, token : TokenIds \cup {None}]
  \cup [kind : {"change"}, user : UserIds, password : Passwords, new : Passwords]
  \cup [kind : {"create"}, email : Idents, name : Idents, password : Passwords]
  \cup [kind : {"update"}, user : UserIds, field : {"name"}, value : Idents]
  \cup [kind : {"update"}, user : UserIds, field : {"active"}, value : BOOLEAN]
  \cup [kind : {"deactivate"}, user : UserIds]

\* Why a request is refused only after its attempt is on record, or its token revoked.
Reasons == {"locked_out", "wrong_current_password", "no_such_user", "account_deactivated",
            "wrong_password", "wrong_otp", "idle"}

ASSUME LimitsArePositive == MaxFailures \in Nat \ {0} /\ MaxGuesses \in Nat \ {0}

ASSUME IdsAreDistinct ==
  /\ Req \cap (OldUsers \cup OldTokens \cup OldAttempts \cup {Before}) = {}
  /\ None \notin UserIds \cup TokenIds \cup CodeIds \cup Reasons
  /\ None \notin User \cup Token \cup Code \cup Attempt

ASSUME IdsAreFinite == IsFiniteSet(Req) /\ IsFiniteSet(OldAttempts)

ASSUME InputsTyped ==
  /\ Asks \subseteq Ask
  /\ Loads \subseteq [Req -> Kinds]
  /\ \A d \in Databases :
       /\ d.users \in [UserIds -> User \cup {None}]
       /\ d.tokens \in [TokenIds -> Token \cup {None}]
       /\ d.attempts \in [OldAttempts \cup Req -> Attempt \cup {None}]
       /\ d.codes \in [UserIds -> Code \cup {None}]
       /\ \A r \in Req : d.users[r] = None /\ d.tokens[r] = None /\ d.attempts[r] = None
       /\ \A a \in OldAttempts : d.attempts[a] # None => d.attempts[a].code = None
       /\ \A u \in UserIds : d.codes[u] # None => d.codes[u].id = Before

VARIABLES
  users,        \* Users
  tokens,       \* Refresh_Tokens
  attempts,     \* Login_Attempts
  otp_store,    \* the pending code of each user
  \* one per request
  kind,         \* what it asks for
  pc,           \* the statement it is at
  job,          \* what it was sent
  seen,         \* the user it loaded, the tokens it has yet to revoke, why it will refuse,
                \* the code it compared
  txn,          \* what it has flushed and not committed
  holds,        \* its row locks
  met           \* history: the rows on record when it arrived, until it is answered

committed == <<users, tokens, attempts>>
vars == <<committed, otp_store, kind, pc, job, seen, txn, holds, met>>

OnRecord(table) == {i \in DOMAIN table : table[i] # None}
Running(r) == pc[r] \notin {"idle", "done", "refused", "failed"}
NothingSeen == [user |-> None, left |-> {}, reason |-> None, code |-> None]
NothingWritten == [made |-> None, set |-> {}, revoked |-> {}, token |-> None]
NothingMet == [failures |-> {}, spent |-> {}, open |-> {}]
-----------------------------------------------------------------------------
Init ==
  /\ \E d \in Databases :
       users = d.users /\ tokens = d.tokens /\ attempts = d.attempts /\ otp_store = d.codes
  /\ kind \in Loads
  /\ pc = [r \in Req |-> "idle"]
  /\ job = [r \in Req |-> None]
  /\ seen = [r \in Req |-> NothingSeen]
  /\ txn = [r \in Req |-> NothingWritten]
  /\ holds = [r \in Req |-> {}]
  /\ met = [r \in Req |-> NothingMet]

Goto(r, at) == pc' = [pc EXCEPT ![r] = at] /\ UNCHANGED <<kind, job, met>>
Look(r, field, value) ==
  seen' = CASE field = "user" -> [seen EXCEPT ![r].user = value]
            [] field = "left" -> [seen EXCEPT ![r].left = value]
            [] field = "reason" -> [seen EXCEPT ![r].reason = value]
Memory == UNCHANGED otp_store
Reads == UNCHANGED <<committed, txn, holds>>

Free(r, row) == \A q \in Req \ {r} : row \notin holds[q]
Lock(r, row) == Free(r, row) /\ holds' = [holds EXCEPT ![r] = @ \cup {row}]

\* Mutation of Close: the session is not closed, its locks stay.
CloseNothing(r, outcome) ==
  /\ pc' = [pc EXCEPT ![r] = outcome]
  /\ job' = [job EXCEPT ![r] = None]
  /\ met' = [met EXCEPT ![r] = NothingMet]
  /\ seen' = [seen EXCEPT ![r] = NothingSeen]
  /\ txn' = [txn EXCEPT ![r] = NothingWritten]
  /\ UNCHANGED <<kind, holds>>
\* get_db closes the session: what was not committed is gone.
Close(r, outcome) ==
  /\ pc' = [pc EXCEPT ![r] = outcome]
  /\ job' = [job EXCEPT ![r] = None]
  /\ met' = [met EXCEPT ![r] = NothingMet]
  /\ UNCHANGED kind
  /\ seen' = [seen EXCEPT ![r] = NothingSeen]
  /\ txn' = [txn EXCEPT ![r] = NothingWritten]
  /\ holds' = [holds EXCEPT ![r] = {}]
Refuse(r) == Close(r, "refused") /\ UNCHANGED committed

\* The rows as they are once r's transaction is committed.
CommitRows(r) ==
  LET w == txn[r] IN
  /\ users' = [u \in UserIds |->
       IF u = r /\ w.made # None THEN w.made
       ELSE IF users[u] = None THEN None
       ELSE [f \in DOMAIN users[u] |->
               IF \E c \in w.set : c.user = u /\ c.field = f
               THEN (CHOOSE c \in w.set : c.user = u /\ c.field = f).value ELSE users[u][f]]]
  /\ tokens' = [t \in TokenIds |->
       IF t = r /\ w.token # None THEN w.token
       ELSE IF t \in w.revoked THEN [tokens[t] EXCEPT !.revoked = TRUE] ELSE tokens[t]]
-----------------------------------------------------------------------------
(***************************************************************************)
(* Clients.  Reads (me, the lists of users and of attempts) change nothing *)
(* and are left out, as are the checks of role and of rate per address.    *)
(***************************************************************************)
\* A token is sent by who holds it, a user's id once there is such a user.
Sendable(j) ==
  CASE j.kind \in {"refresh", "logout"} -> j.token \in OnRecord(tokens) \cup {None}
    [] j.kind \in {"verify", "change", "update", "deactivate"} -> j.user \in OnRecord(users)
    [] OTHER -> TRUE

First(k) == CASE k = "login" -> "lockout"
              [] k = "verify" -> "answer"
              [] k \in {"refresh", "logout"} -> "loadToken"
              [] k = "create" -> "findEmail"
              [] OTHER -> "loadUser"

Refreshed == {tokens[t].from : t \in {x \in OnRecord(tokens) \cap Req : kind[x] = "refresh"}}

Send(r) ==
  /\ pc[r] = "idle"
  /\ \E j \in Asks : j.kind = kind[r] /\ Sendable(j) /\ job' = [job EXCEPT ![r] = j]
  /\ pc' = [pc EXCEPT ![r] = First(kind[r])]
  /\ met' = [met EXCEPT ![r] =
       [failures |-> {a \in OnRecord(attempts) : ~attempts[a].success},
        spent |-> {t \in OnRecord(tokens) : tokens[t].revoked \/ t \in Refreshed},
        open |-> {t \in OnRecord(tokens) : ~tokens[t].revoked}]]
  /\ UNCHANGED <<committed, otp_store, kind, seen, txn, holds>>
-----------------------------------------------------------------------------
(***************************************************************************)
(* Login attempts                                                          *)
(***************************************************************************)
Action(r) == CASE kind[r] = "login" -> "login"
               [] kind[r] = "verify" -> "verify_otp"
               [] kind[r] = "change" -> "change_password"
Identifier(r) == CASE kind[r] = "login" -> job[r].ident
                   [] kind[r] = "verify" -> job[r].user
                   [] kind[r] = "change" -> seen[r].user.email

Fails(a, who, action) ==
  /\ attempts[a] # None /\ ~attempts[a].success
  /\ attempts[a].who = who /\ attempts[a].action = action
count_recent_failures(who, action) ==
  Cardinality({a \in OnRecord(attempts) : Fails(a, who, action) /\ attempts[a].recent})

\* Mutation of LockedOut: the limit itself is still let through.
LockedOutLate(r) == count_recent_failures(Identifier(r), Action(r)) > MaxFailures
LockedOut(r) == count_recent_failures(Identifier(r), Action(r)) >= MaxFailures

\* A barred request never gets to a password; change_password compares at once.
CheckLockout(r) ==
  /\ pc[r] = "lockout"
  /\ LET reason == IF LockedOut(r) THEN "locked_out"
                   ELSE IF kind[r] = "change" /\ job[r].password # seen[r].user.password
                   THEN "wrong_current_password" ELSE None
     IN /\ Look(r, "reason", reason)
        /\ Goto(r, IF reason # None THEN "record"
                   ELSE IF kind[r] = "login" THEN "findUser" ELSE "setPassword")
  /\ Memory /\ Reads

Row(r) == [who |-> Identifier(r), action |-> Action(r), success |-> seen[r].reason = None,
           recent |-> TRUE, code |-> seen[r].code]
Recorded(r) == attempts' = [attempts EXCEPT ![r] = Row(r)]

\* The attempt and all that was flushed before it are committed here.
\* Mutation of Record: the row is flushed and not committed; a refusal rolls it back.
FlushOnly(r) ==
  /\ pc[r] = "record"
  /\ \/ seen[r].reason # None /\ Refuse(r)
     \/ /\ seen[r].reason = None
        /\ CommitRows(r) /\ Recorded(r)
        /\ IF kind[r] = "change" THEN Close(r, "done")
           ELSE /\ Goto(r, IF kind[r] = "login" THEN "code" ELSE "stamp")
                /\ txn' = [txn EXCEPT ![r] = NothingWritten]
                /\ holds' = [holds EXCEPT ![r] = {}]
                /\ UNCHANGED seen
  /\ Memory
Record(r) ==
  /\ pc[r] = "record"
  /\ CommitRows(r) /\ Recorded(r)
  /\ IF seen[r].reason # None THEN Close(r, "refused")
     ELSE IF kind[r] = "change" THEN Close(r, "done")
     ELSE /\ Goto(r, IF kind[r] = "login" THEN "code" ELSE "stamp")
          /\ txn' = [txn EXCEPT ![r] = NothingWritten]
          /\ holds' = [holds EXCEPT ![r] = {}]
          /\ UNCHANGED seen
  /\ Memory
-----------------------------------------------------------------------------
(***************************************************************************)
(* Login and the one-time code                                             *)
(***************************************************************************)
\* An e-mail address or a name, which others may have too: any of them is found.
get_by_identifier(ident) ==
  {u \in OnRecord(users) : users[u].email = ident \/ users[u].name = ident}

\* A row as the session keeps it from now on.
Snapshot(u) == IF u = None THEN None
               ELSE [f \in DOMAIN users[u] \cup {"id"} |-> IF f = "id" THEN u ELSE users[u][f]]

PendingCode(c) == [id |-> c, attempts |-> 0, expired |-> FALSE]

ReasonFor(u, password) == IF u = None THEN "no_such_user"
                          ELSE IF ~users[u].active THEN "account_deactivated"
                          ELSE IF users[u].password # password THEN "wrong_password"
                          ELSE None

Found(ident) ==
  IF get_by_identifier(ident) = {} THEN {None} ELSE get_by_identifier(ident)

\* Mutation of FindUser: the code is made before the attempt is recorded.
FindAndMakeCode(r) ==
  /\ pc[r] = "findUser"
  /\ \E u \in Found(job[r].ident) :
       LET reason == ReasonFor(u, job[r].password) IN
       /\ seen' = [seen EXCEPT ![r].user = Snapshot(u), ![r].reason = reason]
       /\ otp_store' = IF reason = None THEN [otp_store EXCEPT ![u] = PendingCode(r)] ELSE otp_store
  /\ Goto(r, "record") /\ Reads
FindUser(r) ==
  /\ pc[r] = "findUser"
  /\ \E u \in Found(job[r].ident) :
       seen' = [seen EXCEPT ![r].user = Snapshot(u), ![r].reason = ReasonFor(u, job[r].password)]
  /\ Goto(r, "record") /\ Memory /\ Reads

\* The code replaces the one before; it stays when the mail cannot be sent (502).
MailOutcomes == {"done", "failed"}
MakeCode(r) ==
  /\ pc[r] = "code"
  /\ otp_store' = [otp_store EXCEPT ![seen[r].user.id] = PendingCode(r)]
  /\ \E outcome \in MailOutcomes : Close(r, outcome)
  /\ UNCHANGED committed

\* Mutation of verify_otp: attempts are counted without a limit.
verify_without_limit(u, code) ==
  LET entry == otp_store[u]
      after(e) == [otp_store EXCEPT ![u] = e]
  IN IF entry = None THEN [ok |-> FALSE, store |-> otp_store, code |-> None]
     ELSE IF entry.expired THEN [ok |-> FALSE, store |-> after(None), code |-> None]
     ELSE IF code # entry.id
     THEN [ok |-> FALSE, store |-> after([entry EXCEPT !.attempts = @ + 1]), code |-> entry.id]
     ELSE [ok |-> TRUE, store |-> after(None), code |-> entry.id]
\* The store after an answer, whether it is accepted, and the code it was compared with.
verify_otp(u, code) ==
  LET entry == otp_store[u]
      after(e) == [otp_store EXCEPT ![u] = e]
  IN IF entry = None THEN [ok |-> FALSE, store |-> otp_store, code |-> None]
     ELSE IF entry.expired \/ entry.attempts >= MaxGuesses
     THEN [ok |-> FALSE, store |-> after(None), code |-> None]
     ELSE IF code # entry.id
     THEN [ok |-> FALSE, store |-> after([entry EXCEPT !.attempts = @ + 1]), code |-> entry.id]
     ELSE [ok |-> TRUE, store |-> after(None), code |-> entry.id]

\* Mutation of AnswerCode: the code is forgotten only once the user has been loaded.
AnswerAndKeep(r) ==
  /\ pc[r] = "answer"
  /\ LET v == verify_otp(job[r].user, job[r].code) IN
     /\ otp_store' = IF v.ok THEN otp_store ELSE v.store
     /\ seen' = [seen EXCEPT ![r].reason = IF v.ok THEN None ELSE "wrong_otp", ![r].code = v.code]
     /\ Goto(r, IF v.ok THEN "loadUser" ELSE "record")
  /\ Reads
\* Mutation of AnswerCode: a wrong answer is not counted.
AnswerUncounted(r) ==
  /\ pc[r] = "answer"
  /\ LET v == verify_otp(job[r].user, job[r].code) IN
     /\ otp_store' = IF v.ok THEN v.store ELSE otp_store
     /\ seen' = [seen EXCEPT ![r].reason = IF v.ok THEN None ELSE "wrong_otp", ![r].code = v.code]
     /\ Goto(r, IF v.ok THEN "loadUser" ELSE "record")
  /\ Reads
AnswerCode(r) ==
  /\ pc[r] = "answer"
  /\ LET v == verify_otp(job[r].user, job[r].code) IN
     /\ otp_store' = v.store
     /\ seen' = [seen EXCEPT ![r].reason = IF v.ok THEN None ELSE "wrong_otp", ![r].code = v.code]
     /\ Goto(r, IF v.ok THEN "loadUser" ELSE "record")
  /\ Reads

\* issue_tokens: a new row; the token that was refreshed is its parent.
issue_tokens(r, u, from) == [user |-> u, revoked |-> FALSE, age |-> "fresh", from |-> from]

\* last_login_at is flushed, then the session's token.
StampAndIssue(r) ==
  /\ pc[r] = "stamp"
  /\ Lock(r, <<"user", job[r].user>>)
  /\ txn' = [txn EXCEPT ![r].token = issue_tokens(r, job[r].user, job[r].code)]
  /\ Goto(r, "commit") /\ Memory /\ UNCHANGED <<committed, seen>>
-----------------------------------------------------------------------------
(***************************************************************************)
(* Refresh and logout                                                      *)
(***************************************************************************)
Usable(t) == t # None /\ ~tokens[t].revoked /\ tokens[t].age # "expired"

LoadToken(r) ==
  /\ pc[r] = "loadToken"
  /\ LET t == job[r].token IN
     CASE kind[r] = "refresh" /\ ~Usable(t) -> Refuse(r)
       [] kind[r] = "refresh" /\ Usable(t) /\ tokens[t].age = "idle" ->
            Look(r, "reason", "idle") /\ Goto(r, "spend") /\ Reads
       [] kind[r] = "refresh" /\ Usable(t) /\ tokens[t].age = "fresh" ->
            Goto(r, "loadUser") /\ Reads /\ UNCHANGED seen
       [] kind[r] = "logout" ->
            /\ UNCHANGED seen /\ Reads
            /\ Goto(r, IF t = None \/ tokens[t].revoked \/ tokens[t].age = "expired"
                       THEN "commit" ELSE "spend")
  /\ Memory

\* Revokes the token that was sent; an idle session's is rolled back by its own refusal.
\* Mutation of Spend: the token that was sent is left as it is.
SpendNothing(r) ==
  /\ pc[r] = "spend"
  /\ IF seen[r].reason = "idle" THEN Refuse(r)
     ELSE /\ txn' = [txn EXCEPT
               ![r].token = IF kind[r] = "refresh"
                            THEN issue_tokens(r, tokens[job[r].token].user, job[r].token) ELSE None]
          /\ Goto(r, "commit") /\ UNCHANGED <<committed, seen, holds>>
  /\ Memory
Spend(r) ==
  /\ pc[r] = "spend"
  /\ LET t == job[r].token IN
     IF seen[r].reason = "idle" THEN Free(r, <<"token", t>>) /\ Refuse(r)
     ELSE /\ Lock(r, <<"token", t>>)
          /\ txn' = [txn EXCEPT ![r].revoked = {t},
               ![r].token = IF kind[r] = "refresh" THEN issue_tokens(r, tokens[t].user, t) ELSE None]
          /\ Goto(r, "commit") /\ UNCHANGED <<committed, seen>>
  /\ Memory
-----------------------------------------------------------------------------
(***************************************************************************)
(* Users                                                                   *)
(***************************************************************************)
Subject(r) == CASE kind[r] \in {"verify", "change", "update", "deactivate"} -> job[r].user
                [] kind[r] = "refresh" -> tokens[job[r].token].user

NeedsActive(k) == k \in {"verify", "refresh", "change"}

LoadUser(r) ==
  /\ pc[r] = "loadUser"
  /\ LET u == Subject(r) IN
     IF users[u] = None \/ (NeedsActive(kind[r]) /\ ~users[u].active) THEN Refuse(r)
     ELSE /\ Look(r, "user", Snapshot(u))
          /\ Goto(r, CASE kind[r] = "verify" -> "record"
                       [] kind[r] = "refresh" -> "spend"
                       [] kind[r] = "change" -> "lockout"
                       [] OTHER -> "write")
          /\ Reads
  /\ Memory

\* A column is written only where it differs from what was loaded.
WriteUser(r) ==
  /\ pc[r] \in {"write", "setPassword"}
  /\ LET u == seen[r].user.id
         new == CASE kind[r] = "change" -> [user |-> u, field |-> "password", value |-> job[r].new]
                  [] kind[r] = "update" -> [user |-> u, field |-> job[r].field, value |-> job[r].value]
                  [] kind[r] = "deactivate" -> [user |-> u, field |-> "active", value |-> FALSE]
     IN IF kind[r] # "change" /\ seen[r].user[new.field] = new.value
        THEN UNCHANGED <<txn, holds>>
        ELSE /\ Lock(r, <<"user", u>>)
             /\ txn' = [txn EXCEPT ![r].set = {new}]
  /\ Goto(r, IF kind[r] = "update" THEN "commit" ELSE "readTokens")
  /\ Memory /\ UNCHANGED <<committed, seen>>

\* revoke_all_for_user reads the open sessions, then flushes them one after the other.
OpenSessions(u) == {t \in OnRecord(tokens) : tokens[t].user = u /\ ~tokens[t].revoked}

\* Mutation of ReadTokens: only the first session is taken.
ReadOneToken(r) ==
  /\ pc[r] = "readTokens"
  /\ LET open == OpenSessions(seen[r].user.id) IN
     \/ open = {} /\ Look(r, "left", {})
     \/ \E t \in open : Look(r, "left", {t})
  /\ Goto(r, "revoke") /\ Memory /\ Reads
ReadTokens(r) ==
  /\ pc[r] = "readTokens"
  /\ Look(r, "left", OpenSessions(seen[r].user.id))
  /\ Goto(r, "revoke") /\ Memory /\ Reads

RevokeNext(r) ==
  /\ pc[r] = "revoke"
  /\ IF seen[r].left = {}
     THEN /\ Goto(r, IF kind[r] = "change" THEN "record" ELSE "commit")
          /\ UNCHANGED <<seen, txn, holds>>
     ELSE \E t \in seen[r].left :
            /\ Lock(r, <<"token", t>>)
            /\ txn' = [txn EXCEPT ![r].revoked = @ \cup {t}]
            /\ Look(r, "left", seen[r].left \ {t})
            /\ Goto(r, "revoke")
  /\ Memory /\ UNCHANGED committed

FindEmail(r) ==
  /\ pc[r] = "findEmail"
  /\ IF \E u \in OnRecord(users) : users[u].email = job[r].email THEN Refuse(r)
     ELSE Goto(r, "insert") /\ Reads /\ UNCHANGED seen
  /\ Memory

\* The unique index holds the insert until another of this address is settled.
InsertUser(r) ==
  /\ pc[r] = "insert"
  /\ Free(r, <<"email", job[r].email>>)
  /\ IF \E u \in OnRecord(users) : users[u].email = job[r].email
     THEN Close(r, "failed")
     ELSE /\ Lock(r, <<"email", job[r].email>>)
          /\ txn' = [txn EXCEPT ![r].made =
               [email |-> job[r].email, name |-> job[r].name, password |-> job[r].password,
                active |-> TRUE]]
          /\ Goto(r, "commit") /\ UNCHANGED seen
  /\ Memory /\ UNCHANGED committed

Commit(r) ==
  /\ pc[r] = "commit"
  /\ CommitRows(r) /\ UNCHANGED attempts
  /\ Close(r, "done") /\ Memory
-----------------------------------------------------------------------------
(***************************************************************************)
(* Time and failures                                                       *)
(***************************************************************************)
ExpireCode(u) ==
  /\ otp_store[u] # None /\ ~otp_store[u].expired
  /\ \E r \in Req : pc[r] = "answer" /\ job[r].user = u
  /\ otp_store' = [otp_store EXCEPT ![u].expired = TRUE]
  /\ UNCHANGED <<committed, kind, pc, job, seen, txn, holds, met>>

AgeToken(t) ==
  /\ tokens[t] # None /\ tokens[t].age # "expired"
  /\ \E r \in Req : pc[r] = "loadToken" /\ job[r].token = t
  /\ tokens' = [tokens EXCEPT ![t].age = IF @ = "fresh" THEN "idle" ELSE "expired"]
  /\ UNCHANGED <<users, attempts, otp_store, kind, pc, job, seen, txn, holds, met>>

LeaveWindow(a) ==
  /\ attempts[a] # None /\ attempts[a].recent
  /\ \E r \in Req : pc[r] = "lockout" /\ Fails(a, Identifier(r), Action(r))
  /\ attempts' = [attempts EXCEPT ![a].recent = FALSE]
  /\ UNCHANGED <<users, tokens, otp_store, kind, pc, job, seen, txn, holds, met>>

\* The connection is lost.
Abort(r) == Running(r) /\ Close(r, "failed") /\ Memory /\ UNCHANGED committed

\* The process restarts: requests and codes are gone, the database is not.
Restart ==
  /\ \E r \in Req : Running(r)
  /\ otp_store' = [u \in UserIds |-> None]
  /\ pc' = [r \in Req |-> IF Running(r) THEN "failed" ELSE pc[r]]
  /\ seen' = [r \in Req |-> NothingSeen]
  /\ txn' = [r \in Req |-> NothingWritten]
  /\ holds' = [r \in Req |-> {}]
  /\ job' = [r \in Req |-> IF Running(r) THEN None ELSE job[r]]
  /\ met' = [r \in Req |-> NothingMet]
  /\ UNCHANGED <<committed, kind>>
-----------------------------------------------------------------------------
Step(r) ==
  \/ CheckLockout(r) \/ Record(r) \/ FindUser(r) \/ MakeCode(r) \/ AnswerCode(r)
  \/ StampAndIssue(r) \/ LoadToken(r) \/ Spend(r) \/ LoadUser(r) \/ WriteUser(r)
  \/ ReadTokens(r) \/ RevokeNext(r) \/ FindEmail(r) \/ InsertUser(r) \/ Commit(r)

Next ==
  \/ \E r \in Req : Send(r) \/ Step(r) \/ Abort(r)
  \/ \E u \in UserIds : ExpireCode(u)
  \/ \E t \in TokenIds : AgeToken(t)
  \/ \E a \in OldAttempts \cup Req : LeaveWindow(a)
  \/ Restart

\* The event loop and the database go on while there is a request that need not wait.
Spec == Init /\ [][Next]_vars /\ WF_vars(\E r \in Req : Step(r))
-----------------------------------------------------------------------------
\* Every variable keeps its type.
TypeOK ==
  /\ users \in [UserIds -> User \cup {None}]
  /\ tokens \in [TokenIds -> Token \cup {None}]
  /\ attempts \in [OldAttempts \cup Req -> Attempt \cup {None}]
  /\ otp_store \in [UserIds -> Code \cup {None}]
  /\ kind \in [Req -> Kinds]
  /\ \A r \in Req : seen[r].left \subseteq TokenIds /\ txn[r].revoked \subseteq TokenIds

\* A one-time code opens at most one session, however many requests answer it together
\* (otp_store.verify_otp has no await between its check and its del).
OneSessionPerCode ==
  \A s, t \in OnRecord(tokens) \cap Req :
    /\ kind[s] = "verify" /\ kind[t] = "verify"
    /\ tokens[s].user = tokens[t].user /\ tokens[s].from = tokens[t].from
    => s = t

\* A code that was answered wrongly OTP_MAX_ATTEMPTS times opens no session, before or
\* after those answers have reached the record.
FewWrongAnswers ==
  \A t \in OnRecord(tokens) \cap Req :
    kind[t] = "verify" =>
      Cardinality({a \in OnRecord(attempts) :
                     /\ Fails(a, tokens[t].user, "verify_otp")
                     /\ attempts[a].code = tokens[t].from}) < MaxGuesses

\* No password is compared for an identifier that already had the limit of failures, all
\* still in the window, when the request arrived (LoginAttemptService.check_lockout).
LockoutComesFirst ==
  \A r \in Req :
    pc[r] \in {"record", "findUser", "setPassword", "code"} /\ kind[r] \in {"login", "change"}
    /\ seen[r].reason # "locked_out" =>
      Cardinality({a \in met[r].failures :
                     Fails(a, Identifier(r), Action(r)) /\ attempts[a].recent}) < MaxFailures

\* A login refused, a change of password refused for its password or its lockout, and a
\* wrong answer to a code are on record when they are answered: get_db's rollback of the
\* refused request does not take the attempt with it.
RefusalsOnRecord ==
  [][\A r \in Req :
       pc[r] \in {"lockout", "findUser", "answer", "record"} /\ pc'[r] = "refused"
       => attempts'[r] # None /\ ~attempts'[r].success]_vars

\* A session that a code opened has both of its steps on record as successes.
SessionsOnRecord ==
  \A t \in OnRecord(tokens) \cap Req :
    kind[t] = "verify" =>
      /\ attempts[t] # None /\ attempts[t].success
      /\ tokens[t].from \in Req => attempts[tokens[t].from] # None /\ attempts[tokens[t].from].success

\* A token that was revoked, or had been given for another, before a refresh arrived gives
\* no new one.
SpentTokensStaySpent ==
  [][\A r \in Req :
       tokens[r] = None /\ tokens'[r] # None /\ kind[r] = "refresh"
       => tokens'[r].from \notin met[r].spent]_vars

\* When a change of password or a deactivation is answered, every session of that user
\* that was open when it arrived is over.
EndedSessionsAreOver ==
  [][\A r \in Req :
       Running(r) /\ pc'[r] = "done" /\ kind[r] \in {"change", "deactivate"}
       => \A t \in met[r].open : tokens[t].user = job[r].user => tokens'[t].revoked]_vars

\* All requests that have arrived come to be answered: no two wait for each other's rows.
EveryRequestIsAnswered == (\E r \in Req : Running(r)) ~> (\A r \in Req : ~Running(r))
=============================================================================
