---------------------------- MODULE SignIn_proofs ----------------------------
(***************************************************************************)
(* What signing in promises, whatever the requests, users and limits.      *)
(***************************************************************************)
EXTENDS SignIn, FiniteSetTheorems, TLAPS

Statement ==
  {"idle", "lockout", "findUser", "record", "code", "answer", "stamp", "commit", "loadToken",
   "spend", "loadUser", "write", "setPassword", "readTokens", "revoke", "findEmail", "insert",
   "done", "refused", "failed"}

\* The statements of a handler.
OnPath(k, at) ==
  CASE k = "login" -> at \in {"lockout", "findUser", "record", "code"}
    [] k = "verify" -> at \in {"answer", "loadUser", "record", "stamp", "commit"}
    [] k = "refresh" -> at \in {"loadToken", "loadUser", "spend", "commit"}
    [] k = "logout" -> at \in {"loadToken", "spend", "commit"}
    [] k = "change" -> at \in {"loadUser", "lockout", "setPassword", "readTokens", "revoke", "record"}
    [] k = "create" -> at \in {"findEmail", "insert", "commit"}
    [] k = "update" -> at \in {"loadUser", "write", "commit"}
    [] k = "deactivate" -> at \in {"loadUser", "write", "readTokens", "revoke", "commit"}
    [] OTHER -> FALSE

AttemptIds == OldAttempts \cup Req
Loaded == [email : Idents, name : Idents, password : Passwords, active : BOOLEAN, id : UserIds]
Change == [user : UserIds, field : {"name"}, value : Idents]
          \cup [user : UserIds, field : {"password"}, value : Passwords]
          \cup [user : UserIds, field : {"active"}, value : BOOLEAN]
Seen == [user : Loaded \cup {None}, left : SUBSET TokenIds, reason : Reasons \cup {None},
         code : CodeIds \cup {None}]
Written == [made : User \cup {None}, set : SUBSET Change, revoked : SUBSET TokenIds,
            token : Token \cup {None}]
Met == [failures : SUBSET AttemptIds, spent : SUBSET TokenIds, open : SUBSET TokenIds]

Tables ==
  /\ users \in [UserIds -> User \cup {None}]
  /\ tokens \in [TokenIds -> Token \cup {None}]
  /\ attempts \in [AttemptIds -> Attempt \cup {None}]
  /\ otp_store \in [UserIds -> Code \cup {None}]

Requests ==
  /\ kind \in [Req -> Kinds]
  /\ pc \in [Req -> Statement]
  /\ job \in [Req -> Ask \cup {None}]
  /\ seen \in [Req -> Seen]
  /\ txn \in [Req -> Written]
  /\ met \in [Req -> Met]

\* Its attempt is about to be recorded as a success.
Passed(r) == pc[r] = "record" /\ seen[r].reason = None
\* Its answer was the pending code.
Answered(r) == pc[r] \in {"loadUser", "stamp", "commit"} \/ Passed(r)

\* Where a request is, and what it knows there.
Underway(r) ==
  /\ job[r] \in Ask /\ job[r].kind = kind[r]
  /\ OnPath(kind[r], pc[r])
  /\ kind[r] \in {"change", "update", "deactivate"} /\ pc[r] # "loadUser"
     => seen[r].user \in Loaded /\ seen[r].user.id = job[r].user
  /\ kind[r] = "login" /\ (pc[r] = "code" \/ Passed(r)) => seen[r].user \in Loaded
  /\ kind[r] \in {"refresh", "logout"} => job[r].token \in OnRecord(tokens) \cup {None}
  /\ kind[r] = "refresh" /\ pc[r] # "loadToken" => job[r].token \in OnRecord(tokens)
  /\ pc[r] = "spend" => job[r].token \in OnRecord(tokens)
  /\ kind[r] = "verify" /\ Answered(r) => job[r].code \in CodeIds
  /\ kind[r] = "verify" /\ pc[r] = "loadUser" => seen[r].reason = None
  /\ kind[r] = "refresh" /\ pc[r] = "commit" => job[r].token \in txn[r].revoked
  /\ txn[r].token # None =>
       /\ pc[r] = "commit" /\ kind[r] \in {"verify", "refresh"}
       /\ kind[r] = "verify" => txn[r].token.user = job[r].user /\ txn[r].token.from = job[r].code
       /\ kind[r] = "refresh" => txn[r].token.from = job[r].token
  /\ seen[r].left \cup txn[r].revoked \subseteq OnRecord(tokens)

Waiting(r) == seen[r] = NothingSeen /\ txn[r] = NothingWritten

Typed ==
  /\ Tables /\ Requests
  /\ \A r \in Req : Running(r) => Underway(r)
  /\ \A r \in Req : pc[r] = "idle" => Waiting(r)

-----------------------------------------------------------------------------
LEMMA AskFields ==
  ASSUME NEW j \in Ask
  PROVE  /\ j.kind \in Kinds \ {"none"}
         /\ j.kind = "login" => j.ident \in Idents /\ j.password \in Passwords
         /\ j.kind = "verify" => j.user \in UserIds /\ j.code \in CodeIds \cup {None}
         /\ j.kind \in {"refresh", "logout"} => j.token \in TokenIds \cup {None}
         /\ j.kind = "change" => /\ j.user \in UserIds /\ j.password \in Passwords
                                 /\ j.new \in Passwords
         /\ j.kind = "create" => j.email \in Idents /\ j.name \in Idents /\ j.password \in Passwords
         /\ j.kind = "update" => /\ j.user \in UserIds
                                 /\ [user |-> j.user, field |-> j.field, value |-> j.value] \in Change
         /\ j.kind = "deactivate" => j.user \in UserIds
BY DEF Ask, Kinds, Change

LEMMA SnapshotLoaded ==
  ASSUME Tables, NEW u \in OnRecord(users)
  PROVE  Snapshot(u) \in Loaded /\ Snapshot(u).id = u
<1>1. u \in UserIds /\ users[u] \in User /\ u # None
  BY IdsAreDistinct DEF Tables, OnRecord
<1>2. DOMAIN users[u] = {"email", "name", "password", "active"}
  BY <1>1 DEF User
<1> DEFINE S == [f \in {"email", "name", "password", "active", "id"} |-> IF f = "id" THEN u ELSE users[u][f]]
<1>3. Snapshot(u) = S
  BY <1>1, <1>2 DEF Snapshot
<1>4. S = [email |-> users[u].email, name |-> users[u].name, password |-> users[u].password,
           active |-> users[u].active, id |-> u]
  OBVIOUS
<1> QED
  BY <1>1, <1>3, <1>4 DEF User, Loaded

\* A row with columns set is a row.
LEMMA SetColumns ==
  ASSUME NEW x \in User, NEW u \in UserIds, NEW set \in SUBSET Change
  PROVE  [f \in DOMAIN x |->
            IF \E c \in set : c.user = u /\ c.field = f
            THEN (CHOOSE c \in set : c.user = u /\ c.field = f).value ELSE x[f]] \in User
<1> DEFINE v(f) == IF \E c \in set : c.user = u /\ c.field = f
                   THEN (CHOOSE c \in set : c.user = u /\ c.field = f).value ELSE x[f]
<1>1. DOMAIN x = {"email", "name", "password", "active"}
  BY DEF User
<1>2. ASSUME NEW f, \E c \in set : c.user = u /\ c.field = f
      PROVE  \E c \in set : c.field = f /\ v(f) = c.value
  BY <1>2
<1>3. v("email") \in Idents
  BY <1>2 DEF User, Change
<1>4. v("name") \in Idents
  BY <1>2 DEF User, Change
<1>5. v("password") \in Passwords
  BY <1>2 DEF User, Change
<1>6. v("active") \in BOOLEAN
  BY <1>2 DEF User, Change
<1>7. [f \in DOMAIN x |-> v(f)] = [email |-> v("email"), name |-> v("name"), password |-> v("password"),
                                   active |-> v("active")]
  <2> HIDE DEF v
  <2> QED BY <1>1
<1> HIDE DEF v
<1>8. [f \in DOMAIN x |-> v(f)] \in User
  BY <1>3, <1>4, <1>5, <1>6, <1>7 DEF User
<1> QED
  BY <1>8 DEF v
-----------------------------------------------------------------------------
(***************************************************************************)
(* What any step does to the rows and to the other requests.               *)
(***************************************************************************)
\* Every other request stays where it is.
OthersStay(r) ==
  /\ kind' = kind
  /\ \A q \in Req \ {r} : /\ pc'[q] = pc[q] /\ job'[q] = job[q] /\ seen'[q] = seen[q]
                          /\ txn'[q] = txn[q] /\ met'[q] = met[q]

\* Sessions stay on record; what is revoked stays revoked.
TokensGrow ==
  \A t \in OnRecord(tokens) :
    /\ tokens'[t] # None /\ tokens'[t].user = tokens[t].user /\ tokens'[t].from = tokens[t].from
    /\ tokens[t].revoked => tokens'[t].revoked

\* An attempt stays what it was, and leaves the window but once.
AttemptsGrow ==
  \A a \in OnRecord(attempts) :
    /\ attempts'[a] # None
    /\ attempts'[a].who = attempts[a].who /\ attempts'[a].action = attempts[a].action
    /\ attempts'[a].success = attempts[a].success /\ attempts'[a].code = attempts[a].code
    /\ attempts'[a].recent => attempts[a].recent

\* Where a request has not recorded its attempt yet.
Unrecorded == {"idle", "lockout", "findUser", "answer", "loadToken", "loadUser", "write",
               "setPassword", "readTokens", "revoke", "record"}

\* What a request makes it makes once.
NotYetMade(r) ==
  /\ Running(r) \/ pc[r] = "idle" => tokens[r] = None
  /\ pc[r] \in Unrecorded => attempts[r] = None

TypeInv == Typed /\ \A r \in Req : NotYetMade(r)

LEMMA CloseEnds ==
  ASSUME Typed, NEW r \in Req, NEW outcome \in Statement, Close(r, outcome)
  PROVE  /\ Requests' /\ OthersStay(r)
         /\ pc'[r] = outcome /\ job'[r] = None /\ seen'[r] = NothingSeen
         /\ txn'[r] = NothingWritten /\ met'[r] = NothingMet
<1>1. NothingSeen \in Seen /\ NothingWritten \in Written /\ NothingMet \in Met
  BY DEF NothingSeen, NothingWritten, NothingMet, Seen, Written, Met
<1> QED
  BY <1>1 DEF Typed, Requests, Close, OthersStay

LEMMA RowsCommitted ==
  ASSUME TypeInv, NEW r \in Req, Running(r), CommitRows(r)
  PROVE  /\ users' \in [UserIds -> User \cup {None}]
         /\ tokens' \in [TokenIds -> Token \cup {None}]
         /\ TokensGrow
         /\ \A t \in TokenIds \ {r} : tokens[t] = None => tokens'[t] = None
         /\ tokens'[r] = txn[r].token
         /\ \A t \in txn[r].revoked : tokens'[t].revoked
<1> DEFINE w == txn[r]
<1>1. w \in Written /\ Tables
  BY DEF TypeInv, Typed, Requests
<1>2. tokens[r] = None /\ r \in TokenIds /\ w.revoked \subseteq OnRecord(tokens) /\ r \notin w.revoked
  BY DEF TypeInv, Typed, NotYetMade, Underway, OnRecord, TokenIds
<1>3. ASSUME NEW u \in UserIds PROVE users'[u] \in User \cup {None}
  <2>1. CASE u = r /\ w.made # None
    BY <1>1, <2>1 DEF CommitRows, Written
  <2>2. CASE ~(u = r /\ w.made # None) /\ users[u] = None
    BY <1>1, <2>2 DEF CommitRows
  <2>3. CASE ~(u = r /\ w.made # None) /\ users[u] # None
    <3>1. users[u] \in User /\ w.set \in SUBSET Change
      BY <1>1, <2>3 DEF Tables, Written
    <3>2. users'[u] = [f \in DOMAIN users[u] |->
               IF \E c \in w.set : c.user = u /\ c.field = f
               THEN (CHOOSE c \in w.set : c.user = u /\ c.field = f).value ELSE users[u][f]]
      BY <2>3 DEF CommitRows
    <3> HIDE DEF w
    <3> QED
      BY <3>1, <3>2, SetColumns
  <2> QED
    BY <2>1, <2>2, <2>3
<1>4. users' \in [UserIds -> User \cup {None}]
  BY <1>3 DEF CommitRows
<1>5. \A t \in TokenIds :
        tokens'[t] = IF t = r /\ w.token # None THEN w.token
                     ELSE IF t \in w.revoked THEN [tokens[t] EXCEPT !.revoked = TRUE] ELSE tokens[t]
  BY DEF CommitRows
<1>6. ASSUME NEW t \in TokenIds, t \in OnRecord(tokens)
      PROVE  /\ tokens'[t] \in Token /\ tokens'[t].user = tokens[t].user /\ tokens'[t].from = tokens[t].from
             /\ tokens[t].revoked \/ t \in w.revoked => tokens'[t].revoked
  <2>1. tokens[t] \in Token /\ t # r
    BY <1>1, <1>2, <1>6 DEF Tables, OnRecord
  <2> QED
    BY <1>5, <2>1 DEF Token
<1>7. \A t \in TokenIds : tokens[t] = None /\ t # r => tokens'[t] = None
  BY <1>2, <1>5 DEF OnRecord
<1>8. tokens'[r] = w.token
  BY <1>2, <1>5
<1>9. tokens' \in [TokenIds -> Token \cup {None}]
  <2>1. \A t \in TokenIds : tokens'[t] \in Token \cup {None}
    BY <1>1, <1>6, <1>7, <1>8 DEF OnRecord, Tables, Written
  <2> QED
    BY <2>1 DEF CommitRows
<1>10. None \notin Token /\ DOMAIN tokens = TokenIds
  BY <1>1, IdsAreDistinct DEF Tables
<1> QED
  BY <1>2, <1>4, <1>6, <1>7, <1>8, <1>9, <1>10 DEF TokensGrow, OnRecord
\* What a step of r has to show.
StepOf(r) ==
  /\ Tables' /\ Requests' /\ OthersStay(r)
  /\ TokensGrow /\ AttemptsGrow
  /\ \A t \in TokenIds \ {r} : tokens[t] = None => tokens'[t] = None
  /\ \A a \in AttemptIds \ {r} : attempts[a] = None => attempts'[a] = None
  /\ pc'[r] # "idle"
  /\ Running(r)' => Underway(r)'
  /\ NotYetMade(r)'

LEMMA StepKeepsTypes ==
  ASSUME TypeInv, NEW r \in Req, StepOf(r)
  PROVE  TypeInv'
<1>1. Tables' /\ Requests'
  BY DEF StepOf
<1>2. OnRecord(tokens) \subseteq OnRecord(tokens)'
  BY <1>1 DEF StepOf, TokensGrow, OnRecord, Tables, TypeInv, Typed
<1>3. ASSUME NEW q \in Req, Running(q)' PROVE Underway(q)'
  <2>1. CASE q = r
    BY <1>3, <2>1 DEF StepOf
  <2>2. CASE q # r
    <3>1. /\ pc'[q] = pc[q] /\ job'[q] = job[q] /\ seen'[q] = seen[q] /\ txn'[q] = txn[q]
          /\ kind'[q] = kind[q]
      BY <2>2 DEF StepOf, OthersStay
    <3>2. Underway(q)
      BY <1>3, <3>1 DEF TypeInv, Typed, Running
    <3> QED
      BY <1>2, <3>1, <3>2 DEF Underway, Answered, Passed
  <2> QED
    BY <2>1, <2>2
<1>5. ASSUME NEW q \in Req, pc'[q] = "idle" PROVE Waiting(q)'
  BY <1>5 DEF StepOf, OthersStay, TypeInv, Typed, Waiting
<1>4. ASSUME NEW q \in Req PROVE NotYetMade(q)'
  <2>1. CASE q = r
    BY <2>1 DEF StepOf
  <2>2. CASE q # r
    <3>1. /\ pc'[q] = pc[q]
          /\ tokens[q] = None => tokens'[q] = None
          /\ attempts[q] = None => attempts'[q] = None
      BY <2>2 DEF StepOf, OthersStay, TokenIds, AttemptIds
    <3>2. NotYetMade(q)
      BY DEF TypeInv
    <3> QED
      BY <3>1, <3>2 DEF NotYetMade, Unrecorded, Running
  <2> QED
    BY <2>1, <2>2
<1> QED
  BY <1>1, <1>3, <1>4, <1>5 DEF TypeInv, Typed

LEMMA RowsStay ==
  ASSUME TypeInv, UNCHANGED committed, NEW r \in Req
  PROVE  /\ TokensGrow /\ AttemptsGrow
         /\ \A t \in TokenIds \ {r} : tokens[t] = None => tokens'[t] = None
         /\ \A a \in AttemptIds \ {r} : attempts[a] = None => attempts'[a] = None
         /\ users' = users /\ tokens' = tokens /\ attempts' = attempts
BY DEF committed, TokensGrow, AttemptsGrow, OnRecord

\* A request is answered, or fails, and nothing is committed.
LEMMA ClosesUncommitted ==
  ASSUME TypeInv, NEW r \in Req, Running(r), NEW outcome \in {"done", "refused", "failed"},
         Close(r, outcome), UNCHANGED committed, otp_store' \in [UserIds -> Code \cup {None}]
  PROVE  StepOf(r)
<1>1. outcome \in Statement
  BY DEF Statement
<1>2. /\ Requests' /\ OthersStay(r) /\ pc'[r] = outcome
  BY <1>1, CloseEnds DEF TypeInv
<1>3. Tables'
  BY RowsStay DEF TypeInv, Typed, Tables
<1>4. ~Running(r)' /\ NotYetMade(r)' /\ pc'[r] # "idle"
  BY <1>2 DEF Running, NotYetMade, Unrecorded
<1> QED
  BY <1>2, <1>3, <1>4, RowsStay DEF StepOf

LEMMA SendTypes ==
  ASSUME TypeInv, NEW r \in Req, Send(r)
  PROVE  StepOf(r)
<1>1. PICK j \in Asks : j.kind = kind[r] /\ Sendable(j) /\ job' = [job EXCEPT ![r] = j]
  BY DEF Send
<1>2. j \in Ask
  BY InputsTyped
<1>3. pc[r] = "idle" /\ pc' = [pc EXCEPT ![r] = First(kind[r])] /\ UNCHANGED <<committed, otp_store, kind, seen, txn>>
  BY DEF Send
<1>4. kind[r] \in Kinds \ {"none"}
  BY <1>1, <1>2, AskFields
<1>5. First(kind[r]) \in Statement /\ OnPath(kind[r], First(kind[r]))
  BY <1>4 DEF First, OnPath, Kinds, Statement
<1>6. Tables'
  BY <1>3, RowsStay DEF TypeInv, Typed, Tables
<1>7. Requests' /\ OthersStay(r)
  <2>1. met' \in [Req -> Met]
    BY DEF Send, TypeInv, Typed, Requests, Tables, Met, OnRecord, AttemptIds, Refreshed
  <2>2. \A q \in Req \ {r} : met'[q] = met[q]
    BY DEF Send
  <2> QED
    BY <1>1, <1>2, <1>3, <1>5, <2>1, <2>2 DEF TypeInv, Typed, Requests, OthersStay
<1>8. pc'[r] = First(kind[r]) /\ job'[r] = j /\ kind'[r] = kind[r] /\ Waiting(r)'
  BY <1>1, <1>3 DEF TypeInv, Typed, Requests, Waiting
<1>9. First(kind[r]) \in {"lockout", "answer", "loadToken", "findEmail", "loadUser"}
      /\ (kind[r] \in {"refresh", "logout"} => First(kind[r]) = "loadToken")
      /\ (kind[r] = "verify" => First(kind[r]) = "answer")
      /\ (kind[r] \in {"change", "update", "deactivate"} => First(kind[r]) = "loadUser")
  BY <1>4 DEF First, Kinds
<1>12. kind[r] \in {"refresh", "logout"} => j.token \in OnRecord(tokens)' \cup {None}
  BY <1>1, <1>3, RowsStay DEF Sendable
<1>10. Underway(r)' /\ pc'[r] # "idle"
  BY <1>1, <1>2, <1>5, <1>8, <1>9, <1>12 DEF Underway, Answered, Passed, Waiting, NothingSeen, NothingWritten
<1>11. NotYetMade(r)'
  BY <1>3, RowsStay DEF TypeInv, NotYetMade, Unrecorded
<1> QED
  BY <1>3, <1>6, <1>7, <1>10, <1>11, RowsStay DEF StepOf

\* A step that writes nothing but r's own state.
LEMMA PrivateStep ==
  ASSUME TypeInv, NEW r \in Req, Running(r), NEW at \in Statement, at # "idle",
         Goto(r, at), UNCHANGED committed,
         otp_store' \in [UserIds -> Code \cup {None}],
         NEW s \in Seen, seen' = [seen EXCEPT ![r] = s],
         NEW w \in Written, txn' = [txn EXCEPT ![r] = w],
         Underway(r)',
         at \in Unrecorded => pc[r] \in Unrecorded
  PROVE  StepOf(r)
<1>1. Tables'
  BY RowsStay DEF TypeInv, Typed, Tables
<1>2. Requests' /\ OthersStay(r) /\ pc'[r] = at
  BY DEF Goto, TypeInv, Typed, Requests, OthersStay
<1>3. NotYetMade(r)'
  BY <1>2, RowsStay DEF TypeInv, NotYetMade, Unrecorded
<1> QED
  BY <1>1, <1>2, <1>3, RowsStay DEF StepOf
LEMMA LookAt ==
  ASSUME NEW r \in Req, NEW value
  PROVE  /\ Look(r, "user", value) => seen' = [seen EXCEPT ![r] = [@ EXCEPT !.user = value]]
         /\ Look(r, "left", value) => seen' = [seen EXCEPT ![r] = [@ EXCEPT !.left = value]]
         /\ Look(r, "reason", value) => seen' = [seen EXCEPT ![r] = [@ EXCEPT !.reason = value]]
BY DEF Look

LEMMA CheckLockoutTypes ==
  ASSUME TypeInv, NEW r \in Req, CheckLockout(r)
  PROVE  StepOf(r)
<1> DEFINE reason == IF LockedOut(r) THEN "locked_out"
                     ELSE IF kind[r] = "change" /\ job[r].password # seen[r].user.password
                     THEN "wrong_current_password" ELSE None
           at == IF reason # None THEN "record" ELSE IF kind[r] = "login" THEN "findUser" ELSE "setPassword"
           s == [seen[r] EXCEPT !.reason = reason]
<1>1. pc[r] = "lockout" /\ Running(r) /\ Underway(r) /\ kind[r] \in {"login", "change"}
  BY DEF CheckLockout, TypeInv, Typed, Requests, Running, Underway, OnPath, Kinds
<1>2. reason \in Reasons \cup {None} /\ seen[r] \in Seen
  BY DEF Reasons, TypeInv, Typed, Requests
<1>3. seen' = [seen EXCEPT ![r] = s] /\ txn' = [txn EXCEPT ![r] = txn[r]]
  <2>1. Look(r, "reason", reason)
    BY Zenon DEF CheckLockout
  <2> HIDE DEF reason
  <2>2. seen' = [seen EXCEPT ![r] = s]
    BY <2>1, LookAt
  <2> QED
    BY <2>2 DEF CheckLockout, Reads, TypeInv, Typed, Requests
<1>4. Goto(r, at) /\ UNCHANGED committed /\ otp_store' \in [UserIds -> Code \cup {None}]
  BY DEF CheckLockout, Reads, Memory, TypeInv, Typed, Tables
<1>5. s \in Seen /\ s.user = seen[r].user /\ s.left = seen[r].left /\ s.reason = reason
      /\ txn[r] \in Written
  BY <1>2 DEF Seen, TypeInv, Typed, Requests
<1>6. at \in {"record", "findUser", "setPassword"} /\ (at # "record" => reason = None)
      /\ (kind[r] = "login" => at # "setPassword") /\ (kind[r] = "change" => at # "findUser")
      /\ (at = "record" => reason # None)
  BY <1>1
<1>7. pc'[r] = at /\ seen'[r] = s /\ UNCHANGED <<job, kind, txn, tokens>>
  BY <1>3, <1>4 DEF Goto, CheckLockout, Reads, committed, TypeInv, Typed, Requests
<1> HIDE DEF reason, at, s
<1>8. Underway(r)'
  BY <1>1, <1>5, <1>6, <1>7 DEF Underway, Answered, Passed, OnPath
<1> QED
  BY <1>1, <1>3, <1>4, <1>5, <1>6, <1>8, PrivateStep DEF Statement, Unrecorded
LEMMA FindUserTypes ==
  ASSUME TypeInv, NEW r \in Req, FindUser(r)
  PROVE  StepOf(r)
<1>1. PICK u \in Found(job[r].ident) :
        seen' = [seen EXCEPT ![r].user = Snapshot(u), ![r].reason = ReasonFor(u, job[r].password)]
  BY DEF FindUser
<1> DEFINE s == [seen[r] EXCEPT !.user = Snapshot(u), !.reason = ReasonFor(u, job[r].password)]
<1>2. pc[r] = "findUser" /\ Running(r) /\ Underway(r) /\ kind[r] = "login"
  BY DEF FindUser, TypeInv, Typed, Requests, Running, Underway, OnPath, Kinds
<1>3. u = None \/ u \in OnRecord(users)
  BY DEF Found, get_by_identifier
<1>4. ReasonFor(u, job[r].password) \in Reasons \cup {None}
      /\ (ReasonFor(u, job[r].password) = None => u \in OnRecord(users))
  BY <1>3, IdsAreDistinct DEF ReasonFor, Reasons
<1>5. Snapshot(u) \in Loaded \cup {None} /\ (u \in OnRecord(users) => Snapshot(u) \in Loaded)
  BY <1>3, SnapshotLoaded DEF Snapshot, TypeInv, Typed
<1>6. seen[r] \in Seen /\ txn[r] \in Written
  BY DEF TypeInv, Typed, Requests
<1>7. s \in Seen /\ s.user = Snapshot(u) /\ s.reason = ReasonFor(u, job[r].password) /\ s.left = seen[r].left
  BY <1>4, <1>5, <1>6 DEF Seen
<1>8. seen' = [seen EXCEPT ![r] = s] /\ txn' = [txn EXCEPT ![r] = txn[r]]
  BY <1>1, <1>6 DEF FindUser, Reads, TypeInv, Typed, Requests, Seen
<1>9. Goto(r, "record") /\ UNCHANGED committed /\ otp_store' \in [UserIds -> Code \cup {None}]
  BY DEF FindUser, Reads, Memory, TypeInv, Typed, Tables
<1> HIDE DEF s
<1>10. pc'[r] = "record" /\ seen'[r] = s /\ UNCHANGED <<job, kind, txn, tokens>>
  BY <1>8, <1>9 DEF Goto, FindUser, Reads, committed, TypeInv, Typed, Requests
<1>11. Underway(r)'
  BY <1>2, <1>4, <1>5, <1>7, <1>10 DEF Underway, Answered, Passed, OnPath
<1> QED
  BY <1>2, <1>6, <1>7, <1>8, <1>9, <1>11, PrivateStep DEF Statement, Unrecorded

LEMMA MakeCodeTypes ==
  ASSUME TypeInv, NEW r \in Req, MakeCode(r)
  PROVE  StepOf(r)
<1>1. pc[r] = "code" /\ Running(r) /\ Underway(r) /\ kind[r] = "login"
  BY DEF MakeCode, TypeInv, Typed, Requests, Running, Underway, OnPath, Kinds
<1>2. seen[r].user.id \in UserIds
  BY <1>1 DEF Underway, Loaded
<1>3. PendingCode(r) \in Code
  BY LimitsArePositive DEF PendingCode, Code, CodeIds
<1>4. otp_store' \in [UserIds -> Code \cup {None}]
  BY <1>2, <1>3 DEF MakeCode, TypeInv, Typed, Tables
<1> QED
  BY <1>1, <1>4, ClosesUncommitted DEF MakeCode, MailOutcomes

LEMMA VerifyTypes ==
  ASSUME Tables, NEW u \in UserIds, NEW code \in CodeIds \cup {None}
  PROVE  LET v == verify_otp(u, code) IN
         /\ v.ok \in BOOLEAN /\ v.store \in [UserIds -> Code \cup {None}]
         /\ v.code \in CodeIds \cup {None}
         /\ v.ok => /\ code \in CodeIds /\ v.code = code
                    /\ otp_store[u] # None /\ otp_store[u].id = code
                    /\ otp_store[u].attempts < MaxGuesses
                    /\ v.store = [otp_store EXCEPT ![u] = None]
         /\ ~v.ok /\ v.code = None => v.store \in {otp_store, [otp_store EXCEPT ![u] = None]}
         /\ ~v.ok /\ v.code # None =>
              /\ otp_store[u] # None /\ otp_store[u].id = v.code
              /\ otp_store[u].attempts < MaxGuesses
              /\ v.store[u] # None /\ v.store[u].id = v.code
              /\ v.store[u].attempts = otp_store[u].attempts + 1
              /\ \A x \in UserIds \ {u} : v.store[x] = otp_store[x]
<1> DEFINE entry == otp_store[u]
           more == [entry EXCEPT !.attempts = @ + 1]
<1>1. entry \in Code \cup {None}
  BY DEF Tables
<1>2. CASE entry = None
  BY <1>2 DEF verify_otp, Tables
<1>3. CASE entry # None /\ (entry.expired \/ entry.attempts >= MaxGuesses)
  BY <1>3 DEF verify_otp, Tables
<1>4. CASE entry # None /\ ~(entry.expired \/ entry.attempts >= MaxGuesses) /\ code # entry.id
  <2>1. entry \in Code /\ entry.id \in CodeIds /\ entry.id # None /\ entry.attempts < MaxGuesses
    BY <1>1, <1>4, IdsAreDistinct, LimitsArePositive DEF Code
  <2>2. more \in Code
    BY <2>1, LimitsArePositive DEF Code
  <2>3. verify_otp(u, code) = [ok |-> FALSE, store |-> [otp_store EXCEPT ![u] = more], code |-> entry.id]
    BY <1>4 DEF verify_otp
  <2>4. more # None /\ more.id = entry.id /\ more.attempts = entry.attempts + 1
    BY <2>1, <2>2, IdsAreDistinct DEF Code
  <2> HIDE DEF more
  <2>5. [otp_store EXCEPT ![u] = more] \in [UserIds -> Code \cup {None}]
        /\ [otp_store EXCEPT ![u] = more][u] = more
        /\ \A x \in UserIds \ {u} : [otp_store EXCEPT ![u] = more][x] = otp_store[x]
    BY <2>2 DEF Tables
  <2> QED
    BY <1>4, <2>1, <2>3, <2>4, <2>5
<1>5. CASE entry # None /\ ~(entry.expired \/ entry.attempts >= MaxGuesses) /\ code = entry.id
  <2>1. entry \in Code /\ entry.id \in CodeIds /\ entry.attempts < MaxGuesses
    BY <1>1, <1>5, LimitsArePositive DEF Code
  <2>2. verify_otp(u, code) = [ok |-> TRUE, store |-> [otp_store EXCEPT ![u] = None], code |-> entry.id]
    BY <1>5 DEF verify_otp
  <2> QED
    BY <1>5, <2>1, <2>2 DEF Tables
<1> QED
  BY <1>2, <1>3, <1>4, <1>5

LEMMA AnswerCodeTypes ==
  ASSUME TypeInv, NEW r \in Req, AnswerCode(r)
  PROVE  StepOf(r)
<1> DEFINE v == verify_otp(job[r].user, job[r].code)
           s == [seen[r] EXCEPT !.reason = IF v.ok THEN None ELSE "wrong_otp", !.code = v.code]
           at == IF v.ok THEN "loadUser" ELSE "record"
<1>1. pc[r] = "answer" /\ Running(r) /\ Underway(r) /\ kind[r] = "verify"
  BY DEF AnswerCode, TypeInv, Typed, Requests, Running, Underway, OnPath, Kinds
<1>2. job[r].user \in UserIds /\ job[r].code \in CodeIds \cup {None}
  BY <1>1, AskFields DEF Underway
<1>3. seen[r] \in Seen /\ txn[r] \in Written /\ Tables
  BY DEF TypeInv, Typed, Requests
<1>4. /\ v.ok \in BOOLEAN /\ v.store \in [UserIds -> Code \cup {None}] /\ v.code \in CodeIds \cup {None}
      /\ v.ok => job[r].code \in CodeIds
  BY <1>2, <1>3, VerifyTypes
<1>5. seen' = [seen EXCEPT ![r] = s] /\ Goto(r, at) /\ otp_store' = v.store
      /\ UNCHANGED <<committed, txn>>
  BY DEF AnswerCode, Reads
<1> HIDE DEF v
<1>6. s \in Seen /\ s.left = seen[r].left /\ s.reason = IF v.ok THEN None ELSE "wrong_otp"
  BY <1>3, <1>4 DEF Seen, Reasons
<1>7. at \in {"loadUser", "record"} /\ (at = "loadUser" => v.ok) /\ (at = "record" => s.reason = "wrong_otp")
  BY <1>6
<1>8. pc'[r] = at /\ seen'[r] = s /\ UNCHANGED <<job, kind, txn, tokens>>
  BY <1>5 DEF Goto, committed, TypeInv, Typed, Requests
<1> HIDE DEF s, at
<1>9. Underway(r)'
  BY <1>1, <1>4, <1>6, <1>7, <1>8, IdsAreDistinct DEF Underway, Answered, Passed, OnPath, Reasons
<1>10. txn' = [txn EXCEPT ![r] = txn[r]]
  BY <1>5 DEF TypeInv, Typed, Requests
<1> QED
  BY <1>1, <1>3, <1>4, <1>5, <1>6, <1>7, <1>9, <1>10, PrivateStep DEF Statement, Unrecorded
\* Commits that write the rows.
LEMMA CommitTypes ==
  ASSUME TypeInv, NEW r \in Req, Commit(r)
  PROVE  StepOf(r)
<1>1. pc[r] = "commit" /\ Running(r)
  BY DEF Commit, Running
<1>2. CommitRows(r) /\ Close(r, "done") /\ attempts' = attempts /\ otp_store' = otp_store
  BY DEF Commit, Memory
<1>3. /\ Requests' /\ OthersStay(r) /\ pc'[r] = "done"
  BY <1>2, CloseEnds DEF TypeInv, Statement
<1>4. Tables' /\ TokensGrow /\ \A t \in TokenIds \ {r} : tokens[t] = None => tokens'[t] = None
  BY <1>1, <1>2, RowsCommitted DEF TypeInv, Typed, Tables, TokenIds
<1>5. AttemptsGrow /\ ~Running(r)' /\ NotYetMade(r)' /\ pc'[r] # "idle"
  BY <1>2, <1>3 DEF AttemptsGrow, OnRecord, Running, NotYetMade, Unrecorded
<1> QED
  BY <1>2, <1>3, <1>4, <1>5 DEF StepOf

LEMMA RowTyped ==
  ASSUME TypeInv, NEW r \in Req, pc[r] = "record"
  PROVE  /\ Row(r) \in Attempt /\ Row(r).recent /\ Row(r).code = seen[r].code
         /\ Row(r).who = Identifier(r) /\ Row(r).action = Action(r)
         /\ Row(r).success <=> Passed(r)
<1>1. Underway(r) /\ kind[r] \in {"login", "verify", "change"}
  BY DEF TypeInv, Typed, Requests, Running, Underway, OnPath, Kinds
<1>2. Identifier(r) \in Idents \cup UserIds
  BY <1>1, AskFields DEF Identifier, Underway, Loaded
<1>3. Action(r) \in {"login", "verify_otp", "change_password"}
  BY <1>1 DEF Action
<1>4. seen[r].code \in CodeIds \cup {None}
  BY DEF TypeInv, Typed, Requests, Seen
<1> QED
  BY <1>2, <1>3, <1>4 DEF Row, Attempt, Passed

LEMMA RecordTypes ==
  ASSUME TypeInv, NEW r \in Req, Record(r)
  PROVE  /\ StepOf(r) /\ attempts' = [attempts EXCEPT ![r] = Row(r)] /\ Row(r) \in Attempt
         /\ attempts[r] = None /\ tokens' [r] = None /\ otp_store' = otp_store
         /\ ~Passed(r) => pc'[r] = "refused"
         /\ Passed(r) =>
              /\ pc'[r] = CASE kind[r] = "change" -> "done" [] kind[r] = "login" -> "code"
                            [] kind[r] = "verify" -> "stamp"
              /\ kind[r] # "change" =>
                   job'[r] = job[r] /\ seen'[r] = seen[r] /\ txn'[r] = NothingWritten /\ met'[r] = met[r]
<1>1. pc[r] = "record" /\ Running(r) /\ Underway(r) /\ kind[r] \in {"login", "verify", "change"}
  BY DEF Record, TypeInv, Typed, Requests, Running, Underway, OnPath, Kinds
<1>2. CommitRows(r) /\ Recorded(r) /\ otp_store' = otp_store
  BY DEF Record, Memory
<1>3. Row(r) \in Attempt /\ attempts[r] = None
  BY <1>1, RowTyped DEF TypeInv, NotYetMade, Unrecorded
<1>4. attempts' = [attempts EXCEPT ![r] = Row(r)]
  BY <1>2 DEF Recorded
<1>5. attempts' \in [AttemptIds -> Attempt \cup {None}] /\ AttemptsGrow
      /\ \A a \in AttemptIds \ {r} : attempts[a] = None => attempts'[a] = None
  BY <1>3, <1>4, IdsAreDistinct DEF TypeInv, Typed, Tables, AttemptsGrow, OnRecord, AttemptIds
<1>6. txn[r].token = None
  BY <1>1 DEF Underway
<1>7. /\ users' \in [UserIds -> User \cup {None}] /\ tokens' \in [TokenIds -> Token \cup {None}]
      /\ TokensGrow /\ tokens'[r] = None
      /\ \A t \in TokenIds \ {r} : tokens[t] = None => tokens'[t] = None
  BY <1>1, <1>2, <1>6, RowsCommitted DEF TokenIds
<1>8. Tables'
  BY <1>2, <1>5, <1>7 DEF TypeInv, Typed, Tables
<1>9. CASE ~Passed(r) \/ kind[r] = "change"
  <2>1. \E outcome \in {"refused", "done"} :
          /\ Close(r, outcome) /\ (~Passed(r) => outcome = "refused") /\ (Passed(r) => outcome = "done")
    BY <1>1, <1>9 DEF Record, Passed
  <2>2. PICK outcome \in {"refused", "done"} :
          /\ Close(r, outcome) /\ (~Passed(r) => outcome = "refused") /\ (Passed(r) => outcome = "done")
    BY <2>1
  <2>3. Requests' /\ OthersStay(r) /\ pc'[r] = outcome
    BY <2>2, CloseEnds DEF TypeInv, Statement
  <2>4. ~Running(r)' /\ NotYetMade(r)' /\ pc'[r] # "idle"
    BY <2>3 DEF Running, NotYetMade, Unrecorded
  <2> QED
    BY <1>1, <1>2, <1>3, <1>4, <1>5, <1>7, <1>8, <1>9, <2>2, <2>3, <2>4 DEF StepOf
<1>10. CASE Passed(r) /\ kind[r] # "change"
  <2> DEFINE at == IF kind[r] = "login" THEN "code" ELSE "stamp"
  <2>1. Goto(r, at) /\ txn' = [txn EXCEPT ![r] = NothingWritten] /\ seen' = seen
    BY <1>10 DEF Record, Passed
  <2>2. at \in Statement
    BY DEF Statement
  <2>3. NothingWritten \in Written
    BY DEF NothingWritten, Written
  <2>4. /\ Requests' /\ OthersStay(r) /\ pc'[r] = at /\ seen'[r] = seen[r] /\ job'[r] = job[r]
        /\ txn'[r] = NothingWritten /\ met'[r] = met[r]
    BY <2>1, <2>2, <2>3 DEF Goto, TypeInv, Typed, Requests, OthersStay
  <2>5. OnRecord(tokens) \subseteq OnRecord(tokens)'
    BY <1>7, <1>8 DEF TokensGrow, OnRecord, Tables, TypeInv, Typed
  <2>6. Underway(r)'
    BY <1>1, <1>10, <2>1, <2>4, <2>5 DEF Underway, Answered, Passed, OnPath, NothingWritten, Goto
  <2>7. NotYetMade(r)' /\ pc'[r] # "idle"
    BY <1>7, <2>4 DEF NotYetMade, Unrecorded
  <2> QED
    BY <1>1, <1>2, <1>3, <1>4, <1>5, <1>7, <1>8, <1>10, <2>4, <2>6, <2>7 DEF StepOf
<1> QED
  BY <1>9, <1>10

LEMMA SpeltOut ==
  ASSUME TypeInv, NEW r \in Req
  PROVE  /\ seen[r] \in Seen /\ txn[r] \in Written /\ pc[r] \in Statement
         /\ seen = [seen EXCEPT ![r] = seen[r]] /\ txn = [txn EXCEPT ![r] = txn[r]]
         /\ otp_store \in [UserIds -> Code \cup {None}]
BY DEF TypeInv, Typed, Requests, Tables

LEMMA StampAndIssueTypes ==
  ASSUME TypeInv, NEW r \in Req, StampAndIssue(r)
  PROVE  StepOf(r)
<1> DEFINE token == issue_tokens(r, job[r].user, job[r].code)
           w == [txn[r] EXCEPT !.token = token]
<1>1. pc[r] = "stamp" /\ Running(r) /\ Underway(r) /\ kind[r] = "verify"
  BY DEF StampAndIssue, TypeInv, Typed, Requests, Running, Underway, OnPath, Kinds
<1>2. token \in Token /\ token # None /\ token.user = job[r].user /\ token.from = job[r].code
  <2>1. job[r].user \in UserIds /\ job[r].code \in CodeIds
    BY <1>1, AskFields DEF Underway, Answered
  <2>2. token \in Token /\ token.user = job[r].user /\ token.from = job[r].code
    BY <2>1 DEF issue_tokens, Token
  <2> QED
    BY <2>2, IdsAreDistinct
<1> HIDE DEF token
<1>3. /\ Goto(r, "commit") /\ UNCHANGED committed /\ seen' = seen /\ otp_store' = otp_store
      /\ txn' = [txn EXCEPT ![r] = w]
  BY SpeltOut DEF StampAndIssue, Memory, Written, token
<1>4. w \in Written /\ w.token = token /\ w.revoked = txn[r].revoked
  BY <1>2, SpeltOut DEF Written
<1> HIDE DEF w
<1>5. pc'[r] = "commit" /\ txn'[r] = w /\ UNCHANGED <<job, kind, seen, tokens>>
  BY <1>3 DEF Goto, committed, TypeInv, Typed, Requests
<1>6. Underway(r)'
  BY <1>1, <1>2, <1>4, <1>5 DEF Underway, Answered, Passed, OnPath
<1> QED
  BY <1>1, <1>3, <1>4, <1>6, SpeltOut, PrivateStep DEF Statement, Unrecorded

LEMMA LoadTokenTypes ==
  ASSUME TypeInv, NEW r \in Req, LoadToken(r)
  PROVE  StepOf(r)
<1> DEFINE t == job[r].token
<1>1. pc[r] = "loadToken" /\ Running(r) /\ Underway(r) /\ kind[r] \in {"refresh", "logout"}
  BY DEF LoadToken, TypeInv, Typed, Requests, Running, Underway, OnPath, Kinds
<1>2. t \in OnRecord(tokens) \cup {None} /\ otp_store' = otp_store
  BY <1>1 DEF Underway, LoadToken, Memory
<1>3. t # None => t \in OnRecord(tokens) /\ tokens[t] \in Token
  BY <1>2 DEF OnRecord, TypeInv, Typed, Tables
<1>4. CASE kind[r] = "refresh" /\ ~Usable(t)
  <2>1. Refuse(r)
    BY <1>4 DEF LoadToken
  <2> QED
    BY <1>1, <1>2, <2>1, ClosesUncommitted, SpeltOut DEF Refuse
<1>5. CASE kind[r] = "refresh" /\ Usable(t) /\ tokens[t].age = "idle"
  <2> DEFINE s == [seen[r] EXCEPT !.reason = "idle"]
  <2>1. Look(r, "reason", "idle") /\ Goto(r, "spend") /\ Reads
    BY <1>5 DEF LoadToken
  <2>2. seen' = [seen EXCEPT ![r] = s] /\ s \in Seen /\ s.left = seen[r].left /\ s.user = seen[r].user
    BY <2>1, LookAt, SpeltOut DEF Seen, Reasons
  <2> HIDE DEF s
  <2>3. pc'[r] = "spend" /\ seen'[r] = s /\ UNCHANGED <<job, kind, txn, tokens>>
    BY <2>1, <2>2 DEF Goto, Reads, committed, TypeInv, Typed, Requests
  <2>4. Underway(r)'
    BY <1>1, <1>3, <1>5, <2>2, <2>3 DEF Underway, Answered, Passed, OnPath, Usable
  <2> QED
    BY <1>1, <1>2, <2>1, <2>2, <2>3, <2>4, SpeltOut, PrivateStep DEF Statement, Unrecorded, Reads
<1>6. CASE kind[r] = "refresh" /\ Usable(t) /\ tokens[t].age = "fresh"
  <2>1. Goto(r, "loadUser") /\ Reads /\ UNCHANGED seen
    BY <1>6 DEF LoadToken
  <2>2. pc'[r] = "loadUser" /\ UNCHANGED <<job, kind, txn, tokens, seen>>
    BY <2>1 DEF Goto, Reads, committed, TypeInv, Typed, Requests
  <2>3. Underway(r)'
    BY <1>1, <1>3, <1>6, <2>2 DEF Underway, Answered, Passed, OnPath, Usable
  <2> QED
    BY <1>1, <1>2, <2>1, <2>2, <2>3, SpeltOut, PrivateStep DEF Statement, Unrecorded, Reads
<1>7. CASE kind[r] = "logout"
  <2> DEFINE at == IF t = None \/ tokens[t].revoked \/ tokens[t].age = "expired"
                   THEN "commit" ELSE "spend"
  <2>1. Goto(r, at) /\ Reads /\ UNCHANGED seen
    BY <1>7 DEF LoadToken
  <2>2. at \in {"commit", "spend"} /\ (at = "spend" => t # None)
    OBVIOUS
  <2> HIDE DEF at
  <2>3. pc'[r] = at /\ UNCHANGED <<job, kind, txn, tokens, seen>>
    BY <2>1, <2>2 DEF Goto, Reads, committed, TypeInv, Typed, Requests
  <2>4. Underway(r)'
    BY <1>1, <1>3, <1>7, <2>2, <2>3 DEF Underway, Answered, Passed, OnPath
  <2> QED
    BY <1>1, <1>2, <2>1, <2>2, <2>3, <2>4, SpeltOut, PrivateStep DEF Statement, Unrecorded, Reads
<1> QED
  BY <1>1, <1>3, <1>4, <1>5, <1>6, <1>7 DEF LoadToken, Usable, Token

LEMMA SpendTypes ==
  ASSUME TypeInv, NEW r \in Req, Spend(r)
  PROVE  StepOf(r)
<1> DEFINE t == job[r].token
           token == IF kind[r] = "refresh" THEN issue_tokens(r, tokens[t].user, t) ELSE None
           w == [txn[r] EXCEPT !.revoked = {t}, !.token = token]
<1>1. pc[r] = "spend" /\ Running(r) /\ Underway(r) /\ kind[r] \in {"refresh", "logout"}
  BY DEF Spend, TypeInv, Typed, Requests, Running, Underway, OnPath, Kinds
<1>2. t \in OnRecord(tokens) /\ t \in TokenIds /\ tokens[t] \in Token /\ otp_store' = otp_store
  BY <1>1 DEF Underway, OnRecord, TypeInv, Typed, Tables, Spend, Memory
<1>3. CASE seen[r].reason = "idle"
  <2>1. Refuse(r)
    BY <1>3 DEF Spend
  <2> QED
    BY <1>1, <1>2, <2>1, ClosesUncommitted, SpeltOut DEF Refuse
<1>4. CASE seen[r].reason # "idle"
  <2>1. token \in Token \cup {None} /\ (token # None => kind[r] = "refresh" /\ token.from = t)
    BY <1>2 DEF issue_tokens, Token
  <2> HIDE DEF token
  <2>2. /\ Goto(r, "commit") /\ UNCHANGED committed /\ seen' = seen
        /\ txn' = [txn EXCEPT ![r] = w]
    BY <1>4, SpeltOut DEF Spend, Written, token
  <2>3. w \in Written /\ w.token = token /\ w.revoked = {t}
    BY <1>2, <2>1, SpeltOut DEF Written
  <2> HIDE DEF w
  <2>4. pc'[r] = "commit" /\ txn'[r] = w /\ UNCHANGED <<job, kind, seen, tokens>>
    BY <2>2 DEF Goto, committed, TypeInv, Typed, Requests
  <2>5. Underway(r)'
    BY <1>1, <1>2, <2>1, <2>3, <2>4 DEF Underway, Answered, Passed, OnPath
  <2> QED
    BY <1>1, <1>2, <2>2, <2>3, <2>5, SpeltOut, PrivateStep DEF Statement, Unrecorded
<1> QED
  BY <1>3, <1>4

LEMMA LoadUserTypes ==
  ASSUME TypeInv, NEW r \in Req, LoadUser(r)
  PROVE  StepOf(r)
<1> DEFINE u == Subject(r)
           at == CASE kind[r] = "verify" -> "record"
                   [] kind[r] = "refresh" -> "spend"
                   [] kind[r] = "change" -> "lockout"
                   [] OTHER -> "write"
           s == [seen[r] EXCEPT !.user = Snapshot(u)]
<1>1. /\ pc[r] = "loadUser" /\ Running(r) /\ Underway(r)
      /\ kind[r] \in {"verify", "refresh", "change", "update", "deactivate"}
  BY DEF LoadUser, TypeInv, Typed, Requests, Running, Underway, OnPath, Kinds
<1>2. u \in UserIds /\ otp_store' = otp_store
      /\ (kind[r] \in {"verify", "change", "update", "deactivate"} => u = job[r].user)
  <2>1. CASE kind[r] = "refresh"
    <3>1. job[r].token \in TokenIds /\ tokens[job[r].token] \in Token
      BY <1>1, <2>1 DEF Underway, OnRecord, TypeInv, Typed, Tables
    <3> QED
      BY <2>1, <3>1 DEF Subject, Token, LoadUser, Memory
  <2>2. CASE kind[r] # "refresh"
    BY <1>1, <2>2, AskFields DEF Subject, Underway, LoadUser, Memory
  <2> QED
    BY <2>1, <2>2
<1>3. CASE Refuse(r)
  BY <1>1, <1>2, <1>3, ClosesUncommitted, SpeltOut DEF Refuse
<1>4. CASE users[u] # None /\ Look(r, "user", Snapshot(u)) /\ Goto(r, at) /\ Reads
  <2>1. Snapshot(u) \in Loaded /\ Snapshot(u).id = u
    BY <1>2, <1>4, SnapshotLoaded DEF OnRecord, TypeInv, Typed, Tables
  <2>2. s \in Seen /\ s.user = Snapshot(u) /\ s.left = seen[r].left /\ s.reason = seen[r].reason
    BY <2>1, SpeltOut DEF Seen
  <2>3. seen' = [seen EXCEPT ![r] = s]
    BY <1>4, LookAt
  <2> HIDE DEF s
  <2>4. /\ at \in {"record", "spend", "lockout", "write"}
        /\ OnPath(kind[r], at)
        /\ (at = "record" => kind[r] = "verify") /\ (at = "spend" => kind[r] = "refresh")
    BY <1>1 DEF OnPath
  <2> HIDE DEF at
  <2>5. pc'[r] = at /\ seen'[r] = s /\ UNCHANGED <<job, kind, txn, tokens>>
    BY <1>4, <2>3 DEF Goto, Reads, committed, TypeInv, Typed, Requests
  <2>6. Underway(r)'
    BY <1>1, <1>2, <2>1, <2>2, <2>4, <2>5 DEF Underway, Answered, Passed
  <2> QED
    BY <1>1, <1>2, <1>4, <2>2, <2>3, <2>4, <2>6, SpeltOut, PrivateStep DEF Statement, Unrecorded, Reads
<1> QED
  BY <1>3, <1>4 DEF LoadUser

LEMMA WriteUserTypes ==
  ASSUME TypeInv, NEW r \in Req, WriteUser(r)
  PROVE  StepOf(r)
<1> DEFINE u == seen[r].user.id
           new == CASE kind[r] = "change" -> [user |-> u, field |-> "password", value |-> job[r].new]
                    [] kind[r] = "update" -> [user |-> u, field |-> job[r].field, value |-> job[r].value]
                    [] kind[r] = "deactivate" -> [user |-> u, field |-> "active", value |-> FALSE]
           at == IF kind[r] = "update" THEN "commit" ELSE "readTokens"
<1>1. /\ pc[r] \in {"write", "setPassword"} /\ Running(r) /\ Underway(r)
      /\ kind[r] \in {"change", "update", "deactivate"}
  BY DEF WriteUser, TypeInv, Typed, Requests, Running, Underway, OnPath, Kinds
<1>2. u = job[r].user /\ seen[r].user \in Loaded /\ u \in UserIds
  BY <1>1 DEF Underway, Loaded
<1>3. new \in Change
  <2>1. CASE kind[r] = "change"
    BY <1>1, <1>2, <2>1, AskFields DEF Underway, Change
  <2>2. CASE kind[r] = "update"
    BY <1>1, <1>2, <2>2, AskFields DEF Underway
  <2>3. CASE kind[r] = "deactivate"
    BY <1>1, <1>2, <2>3 DEF Change
  <2> QED
    BY <1>1, <2>1, <2>2, <2>3
<1>4. Goto(r, at) /\ UNCHANGED committed /\ seen' = seen /\ otp_store' = otp_store
  BY DEF WriteUser, Memory
<1>5. \E w \in Written : txn' = [txn EXCEPT ![r] = w] /\ w.token = txn[r].token /\ w.revoked = txn[r].revoked
  <2>1. txn' = txn \/ txn' = [txn EXCEPT ![r].set = {new}]
    BY DEF WriteUser
  <2> HIDE DEF new
  <2>2. CASE txn' = txn
    BY <2>2, SpeltOut
  <2>3. CASE txn' = [txn EXCEPT ![r].set = {new}]
    <3> DEFINE w == [txn[r] EXCEPT !.set = {new}]
    <3>1. txn' = [txn EXCEPT ![r] = w] /\ w \in Written /\ w.token = txn[r].token /\ w.revoked = txn[r].revoked
      BY <1>3, <2>3, SpeltOut DEF Written
    <3> QED
      BY <3>1
  <2> QED
    BY <2>1, <2>2, <2>3
<1>6. PICK w \in Written : txn' = [txn EXCEPT ![r] = w] /\ w.token = txn[r].token /\ w.revoked = txn[r].revoked
  BY <1>5
<1>7. at \in {"commit", "readTokens"} /\ OnPath(kind[r], at) /\ (at = "commit" <=> kind[r] = "update")
  BY <1>1 DEF OnPath, Underway
<1> HIDE DEF at, new
<1>8. pc'[r] = at /\ txn'[r] = w /\ UNCHANGED <<job, kind, seen, tokens>>
  BY <1>4, <1>6 DEF Goto, committed, TypeInv, Typed, Requests
<1>9. Underway(r)'
  BY <1>1, <1>2, <1>6, <1>7, <1>8 DEF Underway, Answered, Passed
<1> QED
  BY <1>1, <1>4, <1>6, <1>7, <1>9, SpeltOut, PrivateStep DEF Statement, Unrecorded

LEMMA ReadTokensTypes ==
  ASSUME TypeInv, NEW r \in Req, ReadTokens(r)
  PROVE  StepOf(r)
<1> DEFINE open == OpenSessions(seen[r].user.id)
           s == [seen[r] EXCEPT !.left = open]
<1>1. pc[r] = "readTokens" /\ Running(r) /\ Underway(r) /\ kind[r] \in {"change", "deactivate"}
  BY DEF ReadTokens, TypeInv, Typed, Requests, Running, Underway, OnPath, Kinds
<1>2. open \subseteq OnRecord(tokens) /\ open \subseteq TokenIds
  BY DEF OpenSessions, OnRecord, TypeInv, Typed, Tables
<1>3. Look(r, "left", open) /\ Goto(r, "revoke") /\ Reads /\ otp_store' = otp_store
  BY DEF ReadTokens, Memory
<1> HIDE DEF open
<1>4. s \in Seen /\ s.left = open /\ s.user = seen[r].user
  BY <1>2, SpeltOut DEF Seen
<1>5. seen' = [seen EXCEPT ![r] = s]
  BY <1>3, LookAt
<1> HIDE DEF s
<1>6. pc'[r] = "revoke" /\ seen'[r] = s /\ UNCHANGED <<job, kind, txn, tokens>>
  BY <1>3, <1>5 DEF Goto, Reads, committed, TypeInv, Typed, Requests
<1>7. Underway(r)'
  BY <1>1, <1>2, <1>4, <1>6 DEF Underway, Answered, Passed, OnPath
<1> QED
  BY <1>1, <1>3, <1>4, <1>5, <1>7, SpeltOut, PrivateStep DEF Statement, Unrecorded, Reads

LEMMA RevokeNextTypes ==
  ASSUME TypeInv, NEW r \in Req, RevokeNext(r)
  PROVE  StepOf(r)
<1>1. pc[r] = "revoke" /\ Running(r) /\ Underway(r) /\ kind[r] \in {"change", "deactivate"}
  BY DEF RevokeNext, TypeInv, Typed, Requests, Running, Underway, OnPath, Kinds
<1>2. UNCHANGED committed /\ otp_store' = otp_store
  BY DEF RevokeNext, Memory
<1>3. CASE seen[r].left = {}
  <2> DEFINE at == IF kind[r] = "change" THEN "record" ELSE "commit"
  <2>1. Goto(r, at) /\ UNCHANGED <<seen, txn>>
    BY <1>3 DEF RevokeNext
  <2>2. at \in {"record", "commit"} /\ OnPath(kind[r], at)
    BY <1>1 DEF OnPath
  <2> HIDE DEF at
  <2>3. pc'[r] = at /\ UNCHANGED <<job, kind, txn, tokens, seen>>
    BY <1>2, <2>1 DEF Goto, committed, TypeInv, Typed, Requests
  <2>4. Underway(r)'
    BY <1>1, <2>2, <2>3 DEF Underway, Answered, Passed
  <2> QED
    BY <1>1, <1>2, <2>1, <2>2, <2>4, SpeltOut, PrivateStep DEF Statement, Unrecorded
<1>4. CASE seen[r].left # {}
  <2>1. PICK t \in seen[r].left :
          /\ txn' = [txn EXCEPT ![r].revoked = @ \cup {t}]
          /\ Look(r, "left", seen[r].left \ {t}) /\ Goto(r, "revoke")
    BY <1>4 DEF RevokeNext
  <2> DEFINE s == [seen[r] EXCEPT !.left = @ \ {t}]
             w == [txn[r] EXCEPT !.revoked = @ \cup {t}]
  <2>2. t \in OnRecord(tokens) /\ t \in TokenIds
    BY <1>1 DEF Underway, OnRecord, TypeInv, Typed, Tables
  <2>3. s \in Seen /\ s.left = seen[r].left \ {t} /\ s.user = seen[r].user
    BY SpeltOut DEF Seen
  <2>4. w \in Written /\ w.revoked = txn[r].revoked \cup {t} /\ w.token = txn[r].token
    BY <2>2, SpeltOut DEF Written
  <2>5. seen' = [seen EXCEPT ![r] = s] /\ txn' = [txn EXCEPT ![r] = w]
    BY <2>1, LookAt, SpeltOut DEF Seen, Written
  <2> HIDE DEF s, w
  <2>6. pc'[r] = "revoke" /\ seen'[r] = s /\ txn'[r] = w /\ UNCHANGED <<job, kind, tokens>>
    BY <1>2, <2>1, <2>5 DEF Goto, committed, TypeInv, Typed, Requests
  <2>7. Underway(r)'
    BY <1>1, <2>2, <2>3, <2>4, <2>6 DEF Underway, Answered, Passed, OnPath
  <2> QED
    BY <1>1, <1>2, <2>1, <2>3, <2>4, <2>5, <2>7, SpeltOut, PrivateStep DEF Statement, Unrecorded
<1> QED
  BY <1>3, <1>4

LEMMA FindEmailTypes ==
  ASSUME TypeInv, NEW r \in Req, FindEmail(r)
  PROVE  StepOf(r)
<1>1. pc[r] = "findEmail" /\ Running(r) /\ Underway(r) /\ kind[r] = "create" /\ otp_store' = otp_store
  BY DEF FindEmail, Memory, TypeInv, Typed, Requests, Running, Underway, OnPath, Kinds
<1>2. CASE Refuse(r)
  BY <1>1, <1>2, ClosesUncommitted, SpeltOut DEF Refuse
<1>3. CASE Goto(r, "insert") /\ Reads /\ UNCHANGED seen
  <2>1. pc'[r] = "insert" /\ UNCHANGED <<job, kind, txn, tokens, seen>>
    BY <1>3 DEF Goto, Reads, committed, TypeInv, Typed, Requests
  <2>2. Underway(r)'
    BY <1>1, <2>1 DEF Underway, Answered, Passed, OnPath
  <2> QED
    BY <1>1, <1>3, <2>2, SpeltOut, PrivateStep DEF Statement, Unrecorded, Reads
<1> QED
  BY <1>2, <1>3 DEF FindEmail

LEMMA InsertUserTypes ==
  ASSUME TypeInv, NEW r \in Req, InsertUser(r)
  PROVE  StepOf(r)
<1> DEFINE row == [email |-> job[r].email, name |-> job[r].name, password |-> job[r].password,
                   active |-> TRUE]
           w == [txn[r] EXCEPT !.made = row]
<1>1. /\ pc[r] = "insert" /\ Running(r) /\ Underway(r) /\ kind[r] = "create"
      /\ otp_store' = otp_store /\ UNCHANGED committed
  BY DEF InsertUser, Memory, TypeInv, Typed, Requests, Running, Underway, OnPath, Kinds
<1>2. CASE Close(r, "failed")
  BY <1>1, <1>2, ClosesUncommitted, SpeltOut
<1>3. CASE txn' = [txn EXCEPT ![r].made = row] /\ Goto(r, "commit") /\ UNCHANGED seen
  <2>1. row \in User
    BY <1>1, AskFields DEF Underway, User
  <2> HIDE DEF row
  <2>2. w \in Written /\ w.token = txn[r].token /\ w.revoked = txn[r].revoked
        /\ txn' = [txn EXCEPT ![r] = w]
    BY <1>3, <2>1, SpeltOut DEF Written
  <2> HIDE DEF w
  <2>3. pc'[r] = "commit" /\ txn'[r] = w /\ UNCHANGED <<job, kind, tokens, seen>>
    BY <1>1, <1>3, <2>2 DEF Goto, committed, TypeInv, Typed, Requests
  <2>4. Underway(r)'
    BY <1>1, <2>2, <2>3 DEF Underway, Answered, Passed, OnPath
  <2> QED
    BY <1>1, <1>3, <2>2, <2>4, SpeltOut, PrivateStep DEF Statement, Unrecorded
<1> QED
  BY <1>2, <1>3 DEF InsertUser

LEMMA RequestStep ==
  ASSUME TypeInv, NEW r \in Req, Send(r) \/ Step(r) \/ Abort(r)
  PROVE  StepOf(r)
<1>1. ASSUME Abort(r) PROVE StepOf(r)
  BY <1>1, ClosesUncommitted, SpeltOut DEF Abort, Memory
<1> QED
  BY <1>1, SendTypes, CheckLockoutTypes, RecordTypes, FindUserTypes, MakeCodeTypes, AnswerCodeTypes,
     StampAndIssueTypes, LoadTokenTypes, SpendTypes, LoadUserTypes, WriteUserTypes, ReadTokensTypes,
     RevokeNextTypes, FindEmailTypes, InsertUserTypes, CommitTypes DEF Step
-----------------------------------------------------------------------------
(***************************************************************************)
(* Steps of no request: time passes, or the process restarts.              *)
(***************************************************************************)
\* Codes and tokens grow old and failures leave the window: nothing else is different.
TimePasses ==
  /\ UNCHANGED <<users, kind, pc, job, seen, txn, met>>
  /\ TokensGrow /\ AttemptsGrow
  /\ \A t \in TokenIds : tokens[t] = None => tokens'[t] = None
  /\ \A t \in OnRecord(tokens) : tokens'[t].revoked = tokens[t].revoked
  /\ \A a \in AttemptIds : attempts[a] = None => attempts'[a] = None
  /\ \A u \in UserIds :
       /\ otp_store[u] = None => otp_store'[u] = None
       /\ otp_store[u] # None => /\ otp_store'[u] # None /\ otp_store'[u].id = otp_store[u].id
                                 /\ otp_store'[u].attempts = otp_store[u].attempts

LEMMA ExpireCodeTypes ==
  ASSUME TypeInv, NEW u \in UserIds, ExpireCode(u)
  PROVE  Tables' /\ TimePasses
<1>1. otp_store[u] \in Code /\ otp_store' = [otp_store EXCEPT ![u] = [@ EXCEPT !.expired = TRUE]]
  BY DEF ExpireCode, TypeInv, Typed, Tables
<1>2. [otp_store[u] EXCEPT !.expired = TRUE] \in Code
      /\ [otp_store[u] EXCEPT !.expired = TRUE].id = otp_store[u].id
      /\ [otp_store[u] EXCEPT !.expired = TRUE].attempts = otp_store[u].attempts
  BY <1>1 DEF Code
<1>3. None \notin Code
  BY IdsAreDistinct
<1>4. UNCHANGED <<users, tokens, attempts, kind, pc, job, seen, txn, met>>
  BY DEF ExpireCode, committed
<1> QED
  BY <1>1, <1>2, <1>3, <1>4 DEF TypeInv, Typed, Tables, TimePasses, TokensGrow, AttemptsGrow, OnRecord

LEMMA AgeTokenTypes ==
  ASSUME TypeInv, NEW t \in TokenIds, AgeToken(t)
  PROVE  Tables' /\ TimePasses
<1> DEFINE age == IF tokens[t].age = "fresh" THEN "idle" ELSE "expired"
           older == [tokens[t] EXCEPT !.age = age]
<1>1. tokens[t] \in Token /\ tokens' = [tokens EXCEPT ![t] = older]
  BY DEF AgeToken, TypeInv, Typed, Tables
<1>2. older \in Token /\ older.user = tokens[t].user /\ older.from = tokens[t].from
      /\ older.revoked = tokens[t].revoked
  BY <1>1 DEF Token
<1>3. None \notin Token
  BY IdsAreDistinct
<1>4. UNCHANGED <<users, otp_store, attempts, kind, pc, job, seen, txn, met>>
  BY DEF AgeToken
<1> HIDE DEF older
<1> QED
  BY <1>1, <1>2, <1>3, <1>4 DEF TypeInv, Typed, Tables, TimePasses, TokensGrow, AttemptsGrow, OnRecord

LEMMA LeaveWindowTypes ==
  ASSUME TypeInv, NEW a \in AttemptIds, LeaveWindow(a)
  PROVE  Tables' /\ TimePasses
<1> DEFINE left == [attempts[a] EXCEPT !.recent = FALSE]
<1>1. attempts[a] \in Attempt /\ attempts' = [attempts EXCEPT ![a] = left]
  BY DEF LeaveWindow, TypeInv, Typed, Tables
<1>2. /\ left \in Attempt /\ left.who = attempts[a].who /\ left.action = attempts[a].action
      /\ left.success = attempts[a].success /\ left.code = attempts[a].code /\ left.recent = FALSE
  BY <1>1 DEF Attempt
<1>3. None \notin Attempt
  BY IdsAreDistinct
<1>4. UNCHANGED <<users, otp_store, tokens, kind, pc, job, seen, txn, met>>
  BY DEF LeaveWindow
<1> HIDE DEF left
<1> QED
  BY <1>1, <1>2, <1>3, <1>4 DEF TypeInv, Typed, Tables, TimePasses, TokensGrow, AttemptsGrow, OnRecord

LEMMA StutterTypes ==
  ASSUME TypeInv, UNCHANGED vars
  PROVE  Tables' /\ TimePasses
BY DEF vars, committed, TypeInv, Typed, Tables, TimePasses, TokensGrow, AttemptsGrow, OnRecord

LEMMA TimeKeepsTypes ==
  ASSUME TypeInv, Tables', TimePasses
  PROVE  TypeInv'
<1>1. OnRecord(tokens) \subseteq OnRecord(tokens)'
  BY DEF TimePasses, TokensGrow, OnRecord, Tables, TypeInv, Typed
<1>2. UNCHANGED <<kind, pc, job, seen, txn, met>>
  BY DEF TimePasses
<1>3. Requests' /\ \A q \in Req : pc'[q] = "idle" => Waiting(q)'
  BY <1>2 DEF TypeInv, Typed, Requests, Waiting
<1>4. ASSUME NEW q \in Req, Running(q)' PROVE Underway(q)'
  <2>1. Underway(q)
    BY <1>2, <1>4 DEF TypeInv, Typed, Running
  <2> QED
    BY <1>1, <1>2, <2>1 DEF Underway, Answered, Passed
<1>5. ASSUME NEW q \in Req PROVE NotYetMade(q)'
  BY <1>2 DEF TypeInv, NotYetMade, Running, TimePasses, TokenIds, AttemptIds
<1> QED
  BY <1>3, <1>4, <1>5 DEF TypeInv, Typed

\* Every request that was running fails; the database stays, the pending codes do not.
LEMMA RestartTypes ==
  ASSUME TypeInv, Restart
  PROVE  /\ TypeInv' /\ UNCHANGED <<committed, kind>> /\ TokensGrow /\ AttemptsGrow
         /\ \A u \in UserIds : otp_store'[u] = None
         /\ \A r \in Req : /\ ~Running(r)' /\ (pc'[r] = "idle" <=> pc[r] = "idle")
                           /\ seen'[r] = NothingSeen /\ txn'[r] = NothingWritten
                           /\ pc'[r] = IF Running(r) THEN "failed" ELSE pc[r]
<1>1. NothingSeen \in Seen /\ NothingWritten \in Written /\ NothingMet \in Met
  BY DEF NothingSeen, NothingWritten, NothingMet, Seen, Written, Met
<1>2. pc' = [r \in Req |-> IF Running(r) THEN "failed" ELSE pc[r]] /\ UNCHANGED <<committed, kind>>
      /\ otp_store' = [u \in UserIds |-> None]
      /\ seen' = [r \in Req |-> NothingSeen] /\ txn' = [r \in Req |-> NothingWritten]
  BY DEF Restart
<1>3. Requests'
  BY <1>1, <1>2 DEF Restart, TypeInv, Typed, Requests, Statement
<1>4. Tables' /\ TokensGrow /\ AttemptsGrow
  BY <1>2 DEF TypeInv, Typed, Tables, committed, TokensGrow, AttemptsGrow, OnRecord
<1>5. \A r \in Req : /\ ~Running(r)' /\ (pc'[r] = "idle" <=> pc[r] = "idle")
                     /\ seen'[r] = NothingSeen /\ txn'[r] = NothingWritten
  BY <1>2 DEF Running
<1>6. ASSUME NEW r \in Req PROVE NotYetMade(r)'
  <2>1. pc'[r] \in Unrecorded => pc'[r] = "idle"
    BY <1>5 DEF Running, Unrecorded
  <2> QED
    BY <1>2, <1>5, <2>1 DEF TypeInv, NotYetMade, Unrecorded, committed
<1> QED
  BY <1>2, <1>3, <1>4, <1>5, <1>6 DEF TypeInv, Typed, Waiting

\* The three sorts of step.
LEMMA StepSorts ==
  ASSUME TypeInv, [Next]_vars
  PROVE  \/ \E r \in Req : Send(r) \/ Step(r) \/ Abort(r)
         \/ Tables' /\ TimePasses
         \/ Restart
BY ExpireCodeTypes, AgeTokenTypes, LeaveWindowTypes, StutterTypes DEF Next, AttemptIds

LEMMA InitTypes ==
  ASSUME Init
  PROVE  TypeInv
<1>1. PICK d \in Databases :
        users = d.users /\ tokens = d.tokens /\ attempts = d.attempts /\ otp_store = d.codes
  BY DEF Init
<1>2. Tables
  BY <1>1, InputsTyped DEF Tables, AttemptIds
<1>3. NothingSeen \in Seen /\ NothingWritten \in Written /\ NothingMet \in Met
  BY DEF NothingSeen, NothingWritten, NothingMet, Seen, Written, Met
<1>4. kind \in [Req -> Kinds]
  BY InputsTyped DEF Init
<1>5. Requests
  BY <1>3, <1>4 DEF Init, Requests, Statement
<1>6. \A r \in Req : ~Running(r) /\ Waiting(r) /\ NotYetMade(r)
  BY <1>1, InputsTyped DEF Init, Running, Waiting, NotYetMade, Unrecorded
<1> QED
  BY <1>2, <1>5, <1>6 DEF TypeInv, Typed

LEMMA NextTypes ==
  ASSUME TypeInv, [Next]_vars
  PROVE  TypeInv' /\ TokensGrow /\ AttemptsGrow
<1>1. ASSUME NEW r \in Req, Send(r) \/ Step(r) \/ Abort(r) PROVE TypeInv' /\ TokensGrow /\ AttemptsGrow
  BY <1>1, RequestStep, StepKeepsTypes DEF StepOf
<1> QED
  BY <1>1, StepSorts, TimeKeepsTypes, RestartTypes DEF TimePasses

\* Every variable keeps its type, and every request knows what its next statement needs:
\* no handler reads a row, a job or a loaded user that is not there.
THEOREM Types == Spec => []TypeInv
<1>1. TypeInv /\ [Next]_vars => TypeInv'
  BY NextTypes
<1> QED
  BY <1>1, InitTypes, PTL DEF Spec

THEOREM TypesHold == Spec => []TypeOK
<1>1. TypeInv => TypeOK
  BY DEF TypeInv, Typed, Tables, Requests, TypeOK, Seen, Written, AttemptIds
<1> QED
  BY <1>1, Types, PTL

-----------------------------------------------------------------------------
(***************************************************************************)
(* Which sessions a code, a refresh or a refusal may leave behind, and     *)
(* what a request keeps to until it is answered: the safety properties of  *)
(* signing in, for every number of requests.                               *)
(***************************************************************************)
Succeeded(a) == attempts[a] # None /\ attempts[a].success

\* The login that made the code is over: it makes no other.
MadeCode(c) == c = Before \/ (c \in Req /\ kind[c] = "login" /\ pc[c] \in {"done", "failed"})

\* The request has answered the code of the user, or opened a session with it.
Opened(r, u, c) ==
  /\ kind[r] = "verify"
  /\ \/ Running(r) /\ Answered(r) /\ job[r].user = u /\ job[r].code = c
     \/ tokens[r] # None /\ tokens[r].user = u /\ tokens[r].from = c

\* What a token may have been given for.
Origins == CodeIds \cup TokenIds

Pending(u, c) == otp_store[u] # None /\ otp_store[u].id = c

\* Its two steps are recorded as they are taken.
StepsRecorded(r) ==
  /\ kind[r] = "login" /\ pc[r] = "code" => Succeeded(r)
  /\ kind[r] = "verify" /\ (pc[r] \in {"stamp", "commit"} \/ tokens[r] # None) => Succeeded(r)

CodesAreKnown(c) == c \in CodeIds /\ MadeCode(c) /\ (c \in Req => Succeeded(c))

SessionInv ==
  /\ \A r \in Req : StepsRecorded(r)
  /\ \A u \in UserIds : otp_store[u] # None => CodesAreKnown(otp_store[u].id)
  /\ \A r \in Req, u \in UserIds, c \in Origins : Opened(r, u, c) => CodesAreKnown(c) /\ ~Pending(u, c)
  /\ \A q, r \in Req, u \in UserIds, c \in Origins : Opened(q, u, c) /\ Opened(r, u, c) => q = r

\* The wrong answers to a code of a user that are on record or about to be.
Wrong(a, u, c) ==
  \/ Fails(a, u, "verify_otp") /\ attempts[a].code = c
  \/ /\ a \in Req /\ kind[a] = "verify" /\ pc[a] = "record" /\ seen[a].reason # None
     /\ job[a].user = u /\ seen[a].code = c
Wrongs(u, c) == {a \in AttemptIds : Wrong(a, u, c)}

GuessInv ==
  /\ \A u \in UserIds, c \in CodeIds : Wrongs(u, c) # {} => MadeCode(c)
  /\ \A u \in UserIds :
       otp_store[u] # None => Cardinality(Wrongs(u, otp_store[u].id)) <= otp_store[u].attempts
  /\ \A r \in Req, u \in UserIds, c \in CodeIds :
       Opened(r, u, c) => Cardinality(Wrongs(u, c)) < MaxGuesses
-----------------------------------------------------------------------------
(***************************************************************************)
(* The steps that neither write a table nor touch a code.                  *)
(***************************************************************************)
\* The session of r is closed and nothing of it committed.
Ends(r) == pc'[r] \in {"refused", "failed"} /\ UNCHANGED <<committed, otp_store>>
\* It goes on to another statement.
GoesOn(r) ==
  /\ UNCHANGED <<committed, otp_store>> /\ job'[r] = job[r] /\ met'[r] = met[r]
  /\ pc'[r] \notin {"done", "code"}
  /\ kind[r] = "verify" /\ Answered(r)' => Answered(r)
  /\ kind[r] = "verify" /\ pc'[r] \in {"stamp", "commit"} => pc[r] = "stamp"
  /\ kind[r] = "verify" /\ pc'[r] = "record" => seen'[r].reason = None

LEMMA ClosesEnds ==
  ASSUME TypeInv, NEW r \in Req, NEW outcome \in {"refused", "failed"},
         Close(r, outcome), UNCHANGED committed, Memory
  PROVE  Ends(r)
BY DEF Close, Ends, Memory, TypeInv, Typed, Requests

LEMMA RunningHere ==
  ASSUME TypeInv, NEW r \in Req, Running(r)
  PROVE  /\ Underway(r) /\ seen[r] \in Seen /\ kind[r] \in Kinds /\ pc[r] \in Statement
         /\ \A at : Goto(r, at) => /\ pc'[r] = at /\ job'[r] = job[r] /\ met'[r] = met[r]
                                   /\ kind' = kind
BY DEF TypeInv, Typed, Requests, Goto

LEMMA CheckLockoutGoesOn ==
  ASSUME TypeInv, NEW r \in Req, CheckLockout(r)
  PROVE  GoesOn(r)
<1>1. pc[r] = "lockout" /\ Running(r) /\ kind[r] # "verify"
  BY DEF CheckLockout, TypeInv, Typed, Running, Underway, OnPath
<1> QED
  BY <1>1, RunningHere DEF CheckLockout, GoesOn, Reads, Memory

LEMMA FindUserGoesOn ==
  ASSUME TypeInv, NEW r \in Req, FindUser(r)
  PROVE  GoesOn(r)
<1>1. pc[r] = "findUser" /\ Running(r) /\ kind[r] # "verify"
  BY DEF FindUser, TypeInv, Typed, Running, Underway, OnPath
<1> QED
  BY <1>1, RunningHere DEF FindUser, GoesOn, Reads, Memory

LEMMA StampAndIssueGoesOn ==
  ASSUME TypeInv, NEW r \in Req, StampAndIssue(r)
  PROVE  GoesOn(r)
<1>1. pc[r] = "stamp" /\ Running(r)
  BY DEF StampAndIssue, Running
<1> QED
  BY <1>1, RunningHere DEF StampAndIssue, GoesOn, Memory, Answered

LEMMA LoadTokenGoesOn ==
  ASSUME TypeInv, NEW r \in Req, LoadToken(r)
  PROVE  GoesOn(r) \/ Ends(r)
<1>1. pc[r] = "loadToken" /\ Running(r) /\ kind[r] \in {"refresh", "logout"} /\ job[r].token \in OnRecord(tokens) \cup {None}
  BY DEF LoadToken, TypeInv, Typed, Requests, Running, Underway, OnPath, Kinds
<1>2. CASE Refuse(r)
  BY <1>2, ClosesEnds DEF Refuse, LoadToken
<1>3. CASE Reads /\ \E at \in {"spend", "loadUser", "commit"} : Goto(r, at)
  BY <1>1, <1>3, RunningHere DEF LoadToken, GoesOn, Reads, Memory
<1>4. job[r].token # None => tokens[job[r].token] \in Token
  BY <1>1 DEF OnRecord, TypeInv, Typed, Tables
<1> QED
  BY <1>1, <1>2, <1>3, <1>4 DEF LoadToken, Usable, Token

LEMMA SpendGoesOn ==
  ASSUME TypeInv, NEW r \in Req, Spend(r)
  PROVE  GoesOn(r) \/ Ends(r)
<1>1. pc[r] = "spend" /\ Running(r) /\ kind[r] # "verify"
  BY DEF Spend, TypeInv, Typed, Running, Underway, OnPath
<1>2. CASE Refuse(r)
  BY <1>2, ClosesEnds DEF Refuse, Spend
<1>3. CASE Goto(r, "commit") /\ UNCHANGED committed
  BY <1>1, <1>3, RunningHere DEF Spend, GoesOn, Memory
<1> QED
  BY <1>2, <1>3 DEF Spend

LEMMA LoadUserGoesOn ==
  ASSUME TypeInv, NEW r \in Req, LoadUser(r)
  PROVE  GoesOn(r) \/ Ends(r)
<1>1. pc[r] = "loadUser" /\ Running(r) /\ Underway(r)
  BY DEF LoadUser, TypeInv, Typed, Running
<1>2. CASE Refuse(r)
  BY <1>2, ClosesEnds DEF Refuse, LoadUser
<1>3. CASE ~Refuse(r)
  <2> DEFINE at == CASE kind[r] = "verify" -> "record"
                     [] kind[r] = "refresh" -> "spend"
                     [] kind[r] = "change" -> "lockout"
                     [] OTHER -> "write"
             s == [seen[r] EXCEPT !.user = Snapshot(Subject(r))]
  <2>1. Look(r, "user", Snapshot(Subject(r))) /\ Goto(r, at) /\ Reads /\ Memory
    BY <1>3 DEF LoadUser
  <2>2. seen' = [seen EXCEPT ![r] = s] /\ s.reason = seen[r].reason
    BY <1>1, <2>1, LookAt, RunningHere DEF Seen
  <2> HIDE DEF s
  <2>3. seen'[r] = s
    BY <2>2 DEF TypeInv, Typed, Requests
  <2>4. pc'[r] = at
    BY <1>1, <2>1, RunningHere
  <2>5. at \in {"record", "spend", "lockout", "write"} /\ (kind[r] = "verify" => at = "record")
    OBVIOUS
  <2> HIDE DEF at
  <2> QED
    BY <1>1, <2>1, <2>2, <2>3, <2>4, <2>5, RunningHere DEF GoesOn, Reads, Memory, Answered, Underway
<1> QED
  BY <1>2, <1>3

LEMMA WriteUserGoesOn ==
  ASSUME TypeInv, NEW r \in Req, WriteUser(r)
  PROVE  GoesOn(r)
<1>1. pc[r] \in {"write", "setPassword"} /\ Running(r) /\ kind[r] # "verify"
  BY DEF WriteUser, TypeInv, Typed, Running, Underway, OnPath
<1>2. (Goto(r, "commit") \/ Goto(r, "readTokens")) /\ UNCHANGED committed /\ Memory
  BY DEF WriteUser
<1> QED
  BY <1>1, <1>2, RunningHere DEF GoesOn, Memory

LEMMA ReadTokensGoesOn ==
  ASSUME TypeInv, NEW r \in Req, ReadTokens(r)
  PROVE  GoesOn(r)
<1>1. pc[r] = "readTokens" /\ Running(r) /\ kind[r] # "verify"
  BY DEF ReadTokens, TypeInv, Typed, Running, Underway, OnPath
<1> QED
  BY <1>1, RunningHere DEF ReadTokens, GoesOn, Reads, Memory

LEMMA RevokeNextGoesOn ==
  ASSUME TypeInv, NEW r \in Req, RevokeNext(r)
  PROVE  GoesOn(r)
<1>1. pc[r] = "revoke" /\ Running(r) /\ kind[r] # "verify"
  BY DEF RevokeNext, TypeInv, Typed, Running, Underway, OnPath
<1>2. /\ Goto(r, "commit") \/ Goto(r, "record") \/ Goto(r, "revoke")
      /\ UNCHANGED committed /\ Memory
  BY DEF RevokeNext
<1> QED
  BY <1>1, <1>2, RunningHere DEF GoesOn, Memory

LEMMA FindEmailGoesOn ==
  ASSUME TypeInv, NEW r \in Req, FindEmail(r)
  PROVE  GoesOn(r) \/ Ends(r)
<1>1. pc[r] = "findEmail" /\ Running(r) /\ kind[r] # "verify"
  BY DEF FindEmail, TypeInv, Typed, Running, Underway, OnPath
<1>2. CASE Refuse(r)
  BY <1>2, ClosesEnds DEF Refuse, FindEmail
<1>3. CASE Goto(r, "insert") /\ Reads
  BY <1>1, <1>3, RunningHere DEF FindEmail, GoesOn, Reads, Memory
<1> QED
  BY <1>2, <1>3 DEF FindEmail

LEMMA InsertUserGoesOn ==
  ASSUME TypeInv, NEW r \in Req, InsertUser(r)
  PROVE  GoesOn(r) \/ Ends(r)
<1>1. pc[r] = "insert" /\ Running(r) /\ kind[r] # "verify"
  BY DEF InsertUser, TypeInv, Typed, Running, Underway, OnPath
<1>2. CASE Close(r, "failed")
  BY <1>2, ClosesEnds DEF InsertUser
<1>3. CASE Goto(r, "commit")
  BY <1>1, <1>3, RunningHere DEF InsertUser, GoesOn, Memory
<1> QED
  BY <1>2, <1>3 DEF InsertUser

\* What a step of a request can be, to the tables and the codes.
Quiet(r) == Running(r) /\ (GoesOn(r) \/ Ends(r))

LEMMA QuietSteps ==
  ASSUME TypeInv, NEW r \in Req, Step(r) \/ Abort(r)
  PROVE  Quiet(r) \/ MakeCode(r) \/ AnswerCode(r) \/ Record(r) \/ Commit(r)
<1>1. ASSUME Abort(r) PROVE Ends(r)
  BY <1>1, ClosesEnds DEF Abort
<1>2. Running(r)
  BY DEF Step, Abort, Running, CheckLockout, Record, FindUser, MakeCode, AnswerCode, StampAndIssue,
         LoadToken, Spend, LoadUser, WriteUser, ReadTokens, RevokeNext, FindEmail, InsertUser, Commit
<1> QED
  BY <1>1, <1>2, CheckLockoutGoesOn, FindUserGoesOn, StampAndIssueGoesOn, LoadTokenGoesOn, SpendGoesOn,
     LoadUserGoesOn, WriteUserGoesOn, ReadTokensGoesOn, RevokeNextGoesOn, FindEmailGoesOn,
     InsertUserGoesOn DEF Step, Quiet

-----------------------------------------------------------------------------
(***************************************************************************)
(* One session for a code, and both of its steps on record.                *)
(***************************************************************************)
LEMMA SucceededStays ==
  ASSUME TypeInv, AttemptsGrow, NEW a \in AttemptIds, Succeeded(a)
  PROVE  Succeeded(a)'
BY DEF TypeInv, Typed, Tables, AttemptsGrow, OnRecord, Succeeded

LEMMA KnownStays ==
  ASSUME TypeInv, NEW r \in Req, StepOf(r), Running(r) \/ pc[r] = "idle", NEW c, CodesAreKnown(c)
  PROVE  CodesAreKnown(c)'
<1>1. MadeCode(c)'
  BY DEF CodesAreKnown, MadeCode, StepOf, OthersStay, Running
<1>2. c \in Req => Succeeded(c)'
  BY SucceededStays DEF CodesAreKnown, StepOf, AttemptIds
<1> QED
  BY <1>1, <1>2 DEF CodesAreKnown

LEMMA OpenedBefore ==
  ASSUME TypeInv, NEW r \in Req, StepOf(r), NEW q \in Req \ {r}, NEW u, NEW c, Opened(q, u, c)'
  PROVE  Opened(q, u, c)
<1>1. /\ pc'[q] = pc[q] /\ job'[q] = job[q] /\ seen'[q] = seen[q] /\ kind'[q] = kind[q]
      /\ tokens[q] = None => tokens'[q] = None
  BY DEF StepOf, OthersStay, TokenIds
<1>2. tokens[q] # None => tokens'[q].user = tokens[q].user /\ tokens'[q].from = tokens[q].from
  BY DEF StepOf, TokensGrow, OnRecord, TypeInv, Typed, Tables, TokenIds
<1> QED
  BY <1>1, <1>2 DEF Opened, Running, Answered, Passed

\* What keeps the invariant: no new code, no new answer.
LEMMA SessionStays ==
  ASSUME TypeInv, SessionInv, NEW r \in Req, StepOf(r), Running(r) \/ pc[r] = "idle",
         StepsRecorded(r)',
         \A u \in UserIds, c \in Origins : Opened(r, u, c)' => Opened(r, u, c),
         \A u \in UserIds : otp_store'[u] # None
           => otp_store[u] # None /\ otp_store'[u].id = otp_store[u].id
  PROVE  SessionInv'
<1>1. ASSUME NEW q \in Req, q # r PROVE StepsRecorded(q)'
  <2>1. /\ pc'[q] = pc[q] /\ kind'[q] = kind[q] /\ (tokens[q] = None => tokens'[q] = None)
    BY <1>1 DEF StepOf, OthersStay, TokenIds
  <2>2. Succeeded(q) => Succeeded(q)'
    BY SucceededStays DEF StepOf, AttemptIds
  <2> QED
    BY <2>1, <2>2 DEF SessionInv, StepsRecorded
<1>2. ASSUME NEW u \in UserIds, otp_store'[u] # None PROVE CodesAreKnown(otp_store[u].id)'
  <2>1. CodesAreKnown(otp_store[u].id)
    BY <1>2 DEF SessionInv
  <2>2. otp_store'[u].id = otp_store[u].id
    BY <1>2
  <2> QED
    BY <2>1, <2>2, KnownStays DEF CodesAreKnown, MadeCode, Succeeded
<1>3. ASSUME NEW q \in Req, NEW u \in UserIds, NEW c \in Origins, Opened(q, u, c)'
      PROVE  Opened(q, u, c)
  BY <1>3, OpenedBefore
<1>4. ASSUME NEW q \in Req, NEW u \in UserIds, NEW c \in Origins, Opened(q, u, c)'
      PROVE  CodesAreKnown(c)' /\ ~Pending(u, c)'
  BY <1>3, <1>4, KnownStays DEF SessionInv, Pending
<1> QED
  BY <1>1, <1>2, <1>3, <1>4 DEF SessionInv

LEMMA SessionSend ==
  ASSUME TypeInv, SessionInv, NEW r \in Req, Send(r)
  PROVE  SessionInv'
<1>1. StepOf(r) /\ pc[r] = "idle" /\ UNCHANGED <<tokens, otp_store, kind>>
  BY SendTypes DEF Send, committed
<1>2. tokens[r] = None /\ pc'[r] = First(kind[r])
  BY <1>1 DEF TypeInv, NotYetMade, Typed, Requests, Send
<1>3. kind[r] \in {"login", "verify"} => pc'[r] \in {"lockout", "answer"}
  BY <1>2 DEF First
<1> QED
  BY <1>1, <1>2, <1>3, SessionStays DEF StepsRecorded, Opened, Answered, Passed

LEMMA SessionQuiet ==
  ASSUME TypeInv, SessionInv, NEW r \in Req, StepOf(r), Quiet(r)
  PROVE  SessionInv'
<1>1. UNCHANGED <<tokens, attempts, otp_store, kind>> /\ Running(r)
  BY DEF Quiet, GoesOn, Ends, committed, StepOf, OthersStay
<1>2. tokens[r] = None
  BY <1>1 DEF TypeInv, NotYetMade
<1>3. StepsRecorded(r)'
  <2>1. StepsRecorded(r)
    BY DEF SessionInv
  <2> QED
    BY <1>1, <1>2, <2>1 DEF StepsRecorded, Quiet, GoesOn, Ends, Succeeded
<1>4. \A u \in UserIds, c \in Origins : Opened(r, u, c)' => Opened(r, u, c)
  BY <1>1, <1>2 DEF Opened, Quiet, GoesOn, Ends, Running
<1> QED
  BY <1>1, <1>3, <1>4, SessionStays

LEMMA SessionRecord ==
  ASSUME TypeInv, SessionInv, NEW r \in Req, Record(r)
  PROVE  SessionInv'
<1>1. /\ StepOf(r) /\ attempts' = [attempts EXCEPT ![r] = Row(r)] /\ Row(r) \in Attempt
      /\ tokens'[r] = None /\ otp_store' = otp_store /\ pc[r] = "record" /\ Running(r)
  BY RecordTypes DEF Record, Running
<1>2. kind' = kind /\ kind[r] \in {"login", "verify", "change"}
  BY <1>1 DEF StepOf, OthersStay, TypeInv, Typed, Requests, Underway, OnPath, Kinds
<1>3. Passed(r) => Succeeded(r)'
  BY <1>1, RowTyped, IdsAreDistinct DEF Succeeded, TypeInv, Typed, Tables, AttemptIds
<1>4. CASE Passed(r)
  <2>1. StepsRecorded(r)'
    BY <1>1, <1>3, <1>4 DEF StepsRecorded
  <2>2. \A u \in UserIds, c \in Origins : Opened(r, u, c)' => Opened(r, u, c)
    BY <1>1, <1>2, <1>4, RecordTypes DEF Opened, Answered
  <2> QED
    BY <1>1, <2>1, <2>2, SessionStays
<1>5. CASE ~Passed(r)
  <2>1. pc'[r] = "refused"
    BY <1>5, RecordTypes
  <2>2. StepsRecorded(r)' /\ \A u \in UserIds, c \in Origins : ~Opened(r, u, c)'
    BY <1>1, <2>1 DEF StepsRecorded, Opened, Running
  <2> QED
    BY <1>1, <2>2, SessionStays
<1> QED
  BY <1>4, <1>5

LEMMA SessionCommit ==
  ASSUME TypeInv, SessionInv, NEW r \in Req, Commit(r)
  PROVE  SessionInv'
<1>1. /\ StepOf(r) /\ pc[r] = "commit" /\ Running(r) /\ UNCHANGED <<attempts, otp_store>>
      /\ CommitRows(r) /\ pc'[r] = "done" /\ kind' = kind
  BY CommitTypes DEF Commit, Memory, Running, Close, TypeInv, Typed, Requests
<1>2. tokens'[r] = txn[r].token /\ Underway(r)
  BY <1>1, RowsCommitted DEF TypeInv, Typed
<1>3. StepsRecorded(r)'
  <2>1. StepsRecorded(r)
    BY DEF SessionInv
  <2> QED
    BY <1>1, <2>1 DEF StepsRecorded, Succeeded
<1>4. \A u \in UserIds, c \in Origins : Opened(r, u, c)' => Opened(r, u, c)
  BY <1>1, <1>2 DEF Opened, Underway, Answered, Running
<1> QED
  BY <1>1, <1>3, <1>4, SessionStays

LEMMA SessionMakeCode ==
  ASSUME TypeInv, SessionInv, NEW r \in Req, MakeCode(r)
  PROVE  SessionInv'
<1> DEFINE x == seen[r].user.id
<1>1. /\ StepOf(r) /\ pc[r] = "code" /\ Running(r) /\ kind' = kind /\ kind[r] = "login"
      /\ UNCHANGED <<tokens, attempts>> /\ pc'[r] \in {"done", "failed"}
      /\ otp_store' = [otp_store EXCEPT ![x] = PendingCode(r)]
  BY MakeCodeTypes DEF MakeCode, MailOutcomes, committed, Close, Running, TypeInv, Typed, Requests,
     Underway, OnPath, Kinds
<1>2. PendingCode(r) # None /\ PendingCode(r).id = r
  <2>1. PendingCode(r) \in Code
    BY LimitsArePositive DEF PendingCode, Code, CodeIds
  <2> QED
    BY <2>1, IdsAreDistinct DEF PendingCode
<1>3. Succeeded(r) /\ Succeeded(r)'
  BY <1>1 DEF SessionInv, StepsRecorded, Succeeded
<1>4. CodesAreKnown(r)' /\ ~MadeCode(r)
  BY <1>1, <1>3, IdsAreDistinct DEF CodesAreKnown, MadeCode, CodeIds
<1>5. ASSUME NEW u \in UserIds, otp_store'[u] # None
      PROVE  CodesAreKnown(otp_store[u].id)' /\ (otp_store'[u] = otp_store[u] \/ otp_store'[u].id = r)
  <2>1. otp_store'[u] = IF u = x THEN PendingCode(r) ELSE otp_store[u]
    BY <1>1 DEF TypeInv, Typed, Tables
  <2>2. CASE u = x
    BY <1>2, <1>4, <2>1, <2>2
  <2>3. CASE u # x
    BY <1>1, <1>5, <2>1, <2>3, KnownStays DEF SessionInv
  <2> QED
    BY <2>2, <2>3
<1>6. ASSUME NEW q \in Req PROVE StepsRecorded(q)'
  <2>1. CASE q = r
    BY <1>1, <2>1 DEF StepsRecorded
  <2>2. CASE q # r
    <3>1. pc'[q] = pc[q] /\ StepsRecorded(q)
      BY <1>1, <2>2 DEF StepOf, OthersStay, SessionInv
    <3> QED
      BY <1>1, <3>1 DEF StepsRecorded, Succeeded
  <2> QED
    BY <2>1, <2>2
<1>7. ASSUME NEW q \in Req, NEW u \in UserIds, NEW c \in Origins, Opened(q, u, c)'
      PROVE  Opened(q, u, c) /\ c # r
  <2>1. q # r
    BY <1>1, <1>7 DEF Opened
  <2>2. Opened(q, u, c)
    BY <1>1, <1>7, <2>1, OpenedBefore
  <2> QED
    BY <1>4, <2>2 DEF SessionInv, CodesAreKnown
<1>8. ASSUME NEW q \in Req, NEW u \in UserIds, NEW c \in Origins, Opened(q, u, c)'
      PROVE  CodesAreKnown(c)' /\ ~Pending(u, c)'
  <2>1. Opened(q, u, c) /\ c # r
    BY <1>7, <1>8
  <2>2. CodesAreKnown(c) /\ ~Pending(u, c)
    BY <2>1 DEF SessionInv
  <2> QED
    BY <1>1, <1>5, <2>1, <2>2, KnownStays DEF Pending
<1>9. \A q, p \in Req, u \in UserIds, c \in Origins : Opened(q, u, c)' /\ Opened(p, u, c)' => q = p
  BY <1>7 DEF SessionInv
<1> QED
  BY <1>5, <1>6, <1>8, <1>9 DEF SessionInv

\* What an answer does: it is accepted, and the code is gone; or it is counted; or no code
\* was pending that still counts.
Accepted(r) ==
  LET u == job[r].user c == job[r].code IN
  /\ c \in CodeIds /\ Pending(u, c) /\ otp_store[u].attempts < MaxGuesses
  /\ otp_store' = [otp_store EXCEPT ![u] = None]
  /\ pc'[r] = "loadUser" /\ seen'[r].reason = None
CountedWrong(r) ==
  LET u == job[r].user c == otp_store[u].id IN
  /\ otp_store[u] # None /\ otp_store[u].attempts < MaxGuesses
  /\ pc'[r] = "record" /\ seen'[r].reason = "wrong_otp" /\ seen'[r].code = c
  /\ otp_store'[u] # None /\ otp_store'[u].id = c
  /\ otp_store'[u].attempts = otp_store[u].attempts + 1
  /\ \A x \in UserIds \ {u} : otp_store'[x] = otp_store[x]
Uncompared(r) ==
  /\ otp_store' \in {otp_store, [otp_store EXCEPT ![job[r].user] = None]}
  /\ pc'[r] = "record" /\ seen'[r].reason = "wrong_otp" /\ seen'[r].code = None

LEMMA AnswerEffects ==
  ASSUME TypeInv, NEW r \in Req, AnswerCode(r)
  PROVE  /\ StepOf(r) /\ pc[r] = "answer" /\ kind[r] = "verify" /\ Running(r)
         /\ job[r].user \in UserIds /\ UNCHANGED <<committed, kind, job, met>>
         /\ Accepted(r) \/ CountedWrong(r) \/ Uncompared(r)
<1> DEFINE u == job[r].user
           v == verify_otp(u, job[r].code)
           s == [seen[r] EXCEPT !.reason = IF v.ok THEN None ELSE "wrong_otp", !.code = v.code]
<1>1. pc[r] = "answer" /\ Running(r) /\ Underway(r) /\ kind[r] = "verify"
  BY DEF AnswerCode, TypeInv, Typed, Requests, Running, Underway, OnPath, Kinds
<1>2. u \in UserIds /\ job[r].code \in CodeIds \cup {None}
  BY <1>1, AskFields DEF Underway
<1>3. Goto(r, IF v.ok THEN "loadUser" ELSE "record") /\ otp_store' = v.store /\ seen' = [seen EXCEPT ![r] = s]
      /\ UNCHANGED committed
  BY DEF AnswerCode, Reads
<1>4. pc'[r] = IF v.ok THEN "loadUser" ELSE "record"
  BY <1>1, <1>3, RunningHere
<1>5. /\ v.ok \in BOOLEAN
      /\ v.ok => /\ job[r].code \in CodeIds /\ Pending(u, job[r].code)
                 /\ otp_store[u].attempts < MaxGuesses
                 /\ v.store = [otp_store EXCEPT ![u] = None]
      /\ ~v.ok /\ v.code = None => v.store \in {otp_store, [otp_store EXCEPT ![u] = None]}
      /\ ~v.ok /\ v.code # None =>
           /\ otp_store[u] # None /\ otp_store[u].id = v.code /\ otp_store[u].attempts < MaxGuesses
           /\ v.store[u] # None /\ v.store[u].id = v.code
           /\ v.store[u].attempts = otp_store[u].attempts + 1
           /\ \A x \in UserIds \ {u} : v.store[x] = otp_store[x]
  BY <1>2, VerifyTypes DEF TypeInv, Typed, Pending
<1> HIDE DEF v
<1>6. seen'[r] = s /\ s.reason = (IF v.ok THEN None ELSE "wrong_otp") /\ s.code = v.code
  BY <1>1, <1>3, RunningHere DEF Seen, TypeInv, Typed, Requests
<1> HIDE DEF s
<1>7. UNCHANGED <<kind, job, met>>
  BY <1>3 DEF Goto
<1>8. ASSUME v.ok PROVE Accepted(r)
  BY <1>3, <1>4, <1>5, <1>6, <1>8 DEF Accepted
<1>9. ASSUME ~v.ok /\ v.code = None PROVE Uncompared(r)
  BY <1>3, <1>4, <1>5, <1>6, <1>9 DEF Uncompared
<1>10. ASSUME ~v.ok /\ v.code # None PROVE CountedWrong(r)
  BY <1>3, <1>4, <1>5, <1>6, <1>10 DEF CountedWrong
<1> QED
  BY <1>1, <1>2, <1>3, <1>7, <1>8, <1>9, <1>10, AnswerCodeTypes

LEMMA SessionAnswer ==
  ASSUME TypeInv, SessionInv, NEW r \in Req, AnswerCode(r)
  PROVE  SessionInv'
<1> DEFINE u == job[r].user
<1>1. /\ StepOf(r) /\ pc[r] = "answer" /\ kind[r] = "verify" /\ Running(r) /\ u \in UserIds
      /\ UNCHANGED <<tokens, attempts, kind, job>>
  BY AnswerEffects DEF committed
<1>2. tokens[r] = None /\ \A x, c : ~Opened(r, x, c)
  BY <1>1 DEF TypeInv, NotYetMade, Opened, Answered, Passed
<1>3. CASE CountedWrong(r) \/ Uncompared(r)
  <2>1. ~Answered(r)' /\ pc'[r] = "record"
    BY <1>3, IdsAreDistinct DEF CountedWrong, Uncompared, Answered, Passed, Reasons
  <2>2. StepsRecorded(r)' /\ \A x \in UserIds, c \in Origins : ~Opened(r, x, c)'
    BY <1>1, <1>2, <2>1 DEF StepsRecorded, Opened
  <2>3. \A x \in UserIds : otp_store'[x] # None
          => otp_store[x] # None /\ otp_store'[x].id = otp_store[x].id
    BY <1>1, <1>3 DEF CountedWrong, Uncompared, TypeInv, Typed, Tables
  <2> QED
    BY <1>1, <2>2, <2>3, SessionStays
<1>4. CASE Accepted(r)
  <2> DEFINE c == job[r].code
  <2>1. /\ c \in CodeIds /\ Pending(u, c) /\ pc'[r] = "loadUser"
        /\ \A x \in UserIds : otp_store'[x] = IF x = u THEN None ELSE otp_store[x]
    BY <1>4 DEF Accepted, TypeInv, Typed, Tables
  <2>2. ASSUME NEW q \in Req PROVE StepsRecorded(q)'
    <3>1. CASE q = r
      BY <1>1, <1>2, <2>1, <3>1 DEF StepsRecorded
    <3>2. CASE q # r
      <4>1. pc'[q] = pc[q] /\ StepsRecorded(q)
        BY <1>1, <3>2 DEF StepOf, OthersStay, SessionInv
      <4> QED
        BY <1>1, <4>1 DEF StepsRecorded, Succeeded
    <3> QED
      BY <3>1, <3>2
  <2>3. ASSUME NEW x \in UserIds, otp_store'[x] # None PROVE CodesAreKnown(otp_store[x].id)'
    <3>1. otp_store'[x] = otp_store[x]
      BY <2>1, <2>3
    <3>2. CodesAreKnown(otp_store[x].id)
      BY <2>3, <3>1 DEF SessionInv
    <3> QED
      BY <1>1, <3>1, <3>2, KnownStays
  <2>4. ASSUME NEW q \in Req, NEW x \in UserIds, NEW d \in Origins, Opened(q, x, d)'
        PROVE  (q = r /\ x = u /\ d = c) \/ (q # r /\ Opened(q, x, d))
    <3>1. CASE q = r
      BY <1>1, <1>2, <2>4, <3>1 DEF Opened
    <3>2. CASE q # r
      BY <1>1, <2>4, <3>2, OpenedBefore
    <3> QED
      BY <3>1, <3>2
  <2>5. CodesAreKnown(c)
    BY <1>1, <2>1 DEF SessionInv, Pending
  <2>6. ASSUME NEW q \in Req, NEW x \in UserIds, NEW d \in Origins, Opened(q, x, d)'
        PROVE  CodesAreKnown(d)' /\ ~Pending(x, d)'
    <3>1. CASE q = r /\ x = u /\ d = c
      BY <1>1, <2>1, <2>5, <3>1, KnownStays DEF Pending
    <3>2. CASE q # r /\ Opened(q, x, d)
      <4>1. CodesAreKnown(d) /\ ~Pending(x, d)
        BY <3>2 DEF SessionInv
      <4> QED
        BY <1>1, <2>1, <4>1, KnownStays DEF Pending
    <3> QED
      BY <2>4, <2>6, <3>1, <3>2
  \* Whoever opened a session with this code left it pending for nobody.
  <2>7. \A q \in Req : ~Opened(q, u, c)
    BY <1>1, <2>1 DEF SessionInv, Origins
  <2>8. ASSUME NEW q \in Req, NEW p \in Req, NEW x \in UserIds, NEW d \in Origins,
               Opened(q, x, d)', Opened(p, x, d)'
        PROVE  q = p
    <3>1. (q = r /\ x = u /\ d = c) \/ (q # r /\ Opened(q, x, d))
      BY <2>4, <2>8
    <3>2. (p = r /\ x = u /\ d = c) \/ (p # r /\ Opened(p, x, d))
      BY <2>4, <2>8
    <3> QED
      BY <2>7, <3>1, <3>2 DEF SessionInv
  <2> QED
    BY <2>2, <2>3, <2>6, <2>8 DEF SessionInv
<1> QED
  BY <1>3, <1>4, AnswerEffects

LEMMA SessionTime ==
  ASSUME TypeInv, SessionInv, Tables', TimePasses
  PROVE  SessionInv'
<1>1. UNCHANGED <<kind, pc, job, seen>> /\ AttemptsGrow
  BY DEF TimePasses
<1>2. \A q \in Req : Succeeded(q) => Succeeded(q)'
  BY <1>1, SucceededStays DEF AttemptIds
<1>3. \A c : CodesAreKnown(c) => CodesAreKnown(c)'
  BY <1>1, <1>2 DEF CodesAreKnown, MadeCode
<1>4. \A t \in TokenIds : (tokens[t] = None => tokens'[t] = None)
        /\ (tokens[t] # None => tokens'[t].user = tokens[t].user /\ tokens'[t].from = tokens[t].from)
  BY DEF TimePasses, TokensGrow, OnRecord, TypeInv, Typed, Tables
<1>5. \A q \in Req : \A u, c : Opened(q, u, c)' => Opened(q, u, c)
  BY <1>1, <1>4 DEF Opened, Running, Answered, Passed, TokenIds
<1>6. \A u \in UserIds : otp_store'[u] # None => otp_store[u] # None /\ otp_store'[u].id = otp_store[u].id
  BY DEF TimePasses
<1>7. ASSUME NEW q \in Req PROVE StepsRecorded(q)'
  <2>1. StepsRecorded(q)
    BY DEF SessionInv
  <2> QED
    BY <1>1, <1>2, <1>4, <2>1 DEF StepsRecorded, TokenIds
<1>8. ASSUME NEW u \in UserIds, otp_store'[u] # None PROVE CodesAreKnown(otp_store[u].id)'
  <2>1. CodesAreKnown(otp_store[u].id) /\ otp_store'[u].id = otp_store[u].id
    BY <1>6, <1>8 DEF SessionInv
  <2> QED
    BY <1>3, <2>1 DEF CodesAreKnown, MadeCode, Succeeded
<1>9. ASSUME NEW q \in Req, NEW u \in UserIds, NEW c \in Origins, Opened(q, u, c)'
      PROVE  CodesAreKnown(c)' /\ ~Pending(u, c)'
  <2>1. CodesAreKnown(c) /\ ~Pending(u, c)
    BY <1>5, <1>9 DEF SessionInv
  <2> QED
    BY <1>3, <1>6, <2>1 DEF Pending
<1>10. \A q, p \in Req, u \in UserIds, c \in Origins : Opened(q, u, c)' /\ Opened(p, u, c)' => q = p
  BY <1>5 DEF SessionInv
<1> QED
  BY <1>7, <1>8, <1>9, <1>10 DEF SessionInv

LEMMA SessionRestart ==
  ASSUME TypeInv, SessionInv, Restart
  PROVE  SessionInv'
<1>1. /\ UNCHANGED <<tokens, attempts, kind>> /\ \A u \in UserIds : otp_store'[u] = None
      /\ \A r \in Req : ~Running(r)' /\ pc'[r] = IF Running(r) THEN "failed" ELSE pc[r]
  BY RestartTypes DEF committed
<1>2. \A q \in Req : \A u, c : Opened(q, u, c)' => Opened(q, u, c)
  BY <1>1 DEF Opened
<1>3. ASSUME NEW c, CodesAreKnown(c) PROVE CodesAreKnown(c)'
  BY <1>1, <1>3 DEF CodesAreKnown, MadeCode, Succeeded, Running
<1>4. ASSUME NEW q \in Req PROVE StepsRecorded(q)'
  <2>1. pc'[q] \notin {"code", "stamp", "commit"} /\ StepsRecorded(q)
    BY <1>1 DEF Running, SessionInv
  <2> QED
    BY <1>1, <2>1 DEF StepsRecorded, Succeeded
<1>5. ASSUME NEW q \in Req, NEW u \in UserIds, NEW c \in Origins, Opened(q, u, c)'
      PROVE  CodesAreKnown(c)' /\ ~Pending(u, c)'
  BY <1>1, <1>2, <1>3, <1>5 DEF SessionInv, Pending
<1>6. \A q, p \in Req, u \in UserIds, c \in Origins : Opened(q, u, c)' /\ Opened(p, u, c)' => q = p
  BY <1>2 DEF SessionInv
<1> QED
  BY <1>1, <1>4, <1>5, <1>6 DEF SessionInv

LEMMA SessionInit ==
  ASSUME Init
  PROVE  SessionInv
<1>1. TypeInv /\ \A r \in Req : pc[r] = "idle" /\ tokens[r] = None
  BY InitTypes DEF Init, TypeInv, NotYetMade
<1>2. \A r \in Req : StepsRecorded(r) /\ \A u, c : ~Opened(r, u, c)
  BY <1>1 DEF StepsRecorded, Opened, Running
<1>3. \A u \in UserIds : otp_store[u] # None => otp_store[u].id = Before
  BY InputsTyped DEF Init
<1>4. Before \notin Req
  BY IdsAreDistinct
<1> QED
  BY <1>2, <1>3, <1>4 DEF SessionInv, CodesAreKnown, MadeCode, CodeIds

LEMMA SessionNext ==
  ASSUME TypeInv, SessionInv, [Next]_vars
  PROVE  SessionInv'
<1>1. ASSUME NEW r \in Req, Step(r) \/ Abort(r) PROVE SessionInv'
  BY <1>1, QuietSteps, RequestStep, SessionQuiet, SessionMakeCode, SessionAnswer, SessionRecord,
     SessionCommit
<1> QED
  BY <1>1, StepSorts, SessionSend, SessionTime, SessionRestart

\* What a request knows of its code, its ticket and its session stays true of the record
\* while it waits, whatever the requests beside it commit.
THEOREM Sessions == Spec => [](TypeInv /\ SessionInv)
<1>1. Init => TypeInv /\ SessionInv
  BY InitTypes, SessionInit
<1>2. TypeInv /\ SessionInv /\ [Next]_vars => (TypeInv /\ SessionInv)'
  BY NextTypes, SessionNext
<1> QED
  BY <1>1, <1>2, PTL DEF Spec

\* A one-time code opens at most one session, however many requests answer it together:
\* whoever has answered it has taken it from otp_store in the same step.
THEOREM OneSessionPerCodeHolds == Spec => []OneSessionPerCode
<1>1. TypeInv /\ SessionInv => OneSessionPerCode
  <2> SUFFICES ASSUME TypeInv, SessionInv,
                      NEW s \in OnRecord(tokens) \cap Req, NEW t \in OnRecord(tokens) \cap Req,
                      kind[s] = "verify", kind[t] = "verify",
                      tokens[s].user = tokens[t].user, tokens[s].from = tokens[t].from
               PROVE  s = t
    BY DEF OneSessionPerCode
  <2>1. tokens[s] \in Token /\ tokens[s] # None /\ tokens[t] # None
    BY DEF TypeInv, Typed, Tables, OnRecord
  <2>2. Opened(s, tokens[s].user, tokens[s].from) /\ Opened(t, tokens[s].user, tokens[s].from)
    BY <2>1 DEF Opened
  <2>3. tokens[s].user \in UserIds /\ tokens[s].from \in Origins
    BY <2>1 DEF Token, Origins
  <2> QED
    BY <2>2, <2>3 DEF SessionInv
<1> QED
  BY <1>1, Sessions, PTL

\* A session that a code opened has its login and its answer on record as successes.
THEOREM SessionsOnRecordHolds == Spec => []SessionsOnRecord
<1>1. TypeInv /\ SessionInv => SessionsOnRecord
  <2> SUFFICES ASSUME TypeInv, SessionInv, NEW t \in OnRecord(tokens) \cap Req, kind[t] = "verify"
               PROVE  /\ Succeeded(t)
                      /\ tokens[t].from \in Req => Succeeded(tokens[t].from)
    BY DEF SessionsOnRecord, Succeeded
  <2>1. tokens[t] \in Token /\ tokens[t] # None
    BY DEF TypeInv, Typed, Tables, OnRecord
  <2>2. Opened(t, tokens[t].user, tokens[t].from)
    BY <2>1 DEF Opened
  <2>3. tokens[t].user \in UserIds /\ tokens[t].from \in Origins
    BY <2>1 DEF Token, Origins
  <2> QED
    BY <2>1, <2>2, <2>3 DEF SessionInv, StepsRecorded, CodesAreKnown
<1> QED
  BY <1>1, Sessions, PTL
-----------------------------------------------------------------------------
(***************************************************************************)
(* Few wrong answers.                                                      *)
(***************************************************************************)
LEMMA WrongsFinite ==
  ASSUME NEW u, NEW c
  PROVE  IsFiniteSet(Wrongs(u, c)) /\ Cardinality(Wrongs(u, c)) \in Nat
         /\ Wrongs(u, c) \subseteq AttemptIds
<1>1. IsFiniteSet(AttemptIds)
  BY IdsAreFinite, FS_Union DEF AttemptIds
<1>2. Wrongs(u, c) \subseteq AttemptIds
  BY DEF Wrongs
<1> QED
  BY <1>1, <1>2, FS_Subset, FS_CardinalityType

\* A failure on record was there before, unless r has just recorded it.
LEMMA WrongBefore ==
  ASSUME TypeInv, NEW r \in Req, StepOf(r), NEW a \in AttemptIds, a # r, NEW u, NEW c, Wrong(a, u, c)'
  PROVE  Wrong(a, u, c)
<1>1. /\ a \in Req => pc'[a] = pc[a] /\ job'[a] = job[a] /\ seen'[a] = seen[a] /\ kind'[a] = kind[a]
      /\ attempts[a] = None => attempts'[a] = None
  BY DEF StepOf, OthersStay
<1>2. CASE Fails(a, u, "verify_otp")' /\ attempts'[a].code = c
  BY <1>1, <1>2 DEF StepOf, AttemptsGrow, OnRecord, TypeInv, Typed, Tables, Fails, Wrong
<1>3. CASE ~(Fails(a, u, "verify_otp")' /\ attempts'[a].code = c)
  BY <1>1, <1>3 DEF Wrong
<1> QED
  BY <1>2, <1>3

LEMMA WrongsBefore ==
  ASSUME TypeInv, NEW r \in Req, StepOf(r), NEW u, NEW c,
         Wrong(r, u, c)' => Wrong(r, u, c)
  PROVE  /\ Wrongs(u, c)' \subseteq Wrongs(u, c)
         /\ Cardinality(Wrongs(u, c)') \in Nat /\ Cardinality(Wrongs(u, c)) \in Nat
         /\ Cardinality(Wrongs(u, c)') <= Cardinality(Wrongs(u, c))
<1>1. Wrongs(u, c)' \subseteq Wrongs(u, c)
  BY WrongBefore DEF Wrongs
<1>2. IsFiniteSet(Wrongs(u, c)) /\ Cardinality(Wrongs(u, c)) \in Nat
  BY WrongsFinite
<1> QED
  BY <1>1, <1>2, FS_Subset, FS_CardinalityType

LEMMA PendingCodes ==
  ASSUME TypeInv, NEW u \in UserIds, otp_store[u] # None
  PROVE  otp_store[u].id \in CodeIds /\ otp_store[u].attempts \in Nat
BY LimitsArePositive DEF TypeInv, Typed, Tables, Code

\* What keeps the invariant: no new failure of this request, no new code, no new answer.
LEMMA GuessStays ==
  ASSUME TypeInv, TypeInv', GuessInv, NEW r \in Req, StepOf(r), Running(r) \/ pc[r] = "idle",
         \A u \in UserIds, c \in CodeIds : Wrong(r, u, c)' => Wrong(r, u, c),
         \A u \in UserIds, c \in CodeIds : Opened(r, u, c)' => Opened(r, u, c),
         \A u \in UserIds : otp_store'[u] # None
           => /\ otp_store[u] # None /\ otp_store'[u].id = otp_store[u].id
              /\ otp_store'[u].attempts = otp_store[u].attempts
  PROVE  GuessInv'
<1>1. \A u \in UserIds, c \in CodeIds :
        /\ Wrongs(u, c)' \subseteq Wrongs(u, c)
        /\ Cardinality(Wrongs(u, c)') \in Nat /\ Cardinality(Wrongs(u, c)) \in Nat
        /\ Cardinality(Wrongs(u, c)') <= Cardinality(Wrongs(u, c))
  BY WrongsBefore
<1>2. \A c : MadeCode(c) => MadeCode(c)'
  BY DEF MadeCode, StepOf, OthersStay, Running
<1>3. ASSUME NEW u \in UserIds, NEW c \in CodeIds, Wrongs(u, c)' # {} PROVE MadeCode(c)'
  BY <1>1, <1>2, <1>3 DEF GuessInv
<1>4. ASSUME NEW u \in UserIds, otp_store'[u] # None
      PROVE  Cardinality(Wrongs(u, otp_store[u].id)') <= otp_store'[u].attempts
  <2> DEFINE c == otp_store[u].id
  <2>1. otp_store[u] # None /\ otp_store'[u].id = c /\ otp_store'[u].attempts = otp_store[u].attempts
    BY <1>4
  <2>2. c \in CodeIds /\ otp_store[u].attempts \in Nat
    BY <2>1, PendingCodes
  <2>3. Cardinality(Wrongs(u, c)) <= otp_store[u].attempts
    BY <2>1 DEF GuessInv
  <2>4. \A d : d = c => Cardinality(Wrongs(u, d)') <= otp_store'[u].attempts
    BY <1>1, <2>1, <2>2, <2>3
  <2> QED
    BY <2>1, <2>4 DEF Wrongs, Wrong, Fails
<1>5. ASSUME NEW q \in Req, NEW u \in UserIds, NEW c \in CodeIds, Opened(q, u, c)'
      PROVE  Cardinality(Wrongs(u, c)') < MaxGuesses
  <2>1. Opened(q, u, c)
    BY <1>5, OpenedBefore
  <2>2. Cardinality(Wrongs(u, c)) < MaxGuesses
    BY <2>1 DEF GuessInv
  <2> QED
    BY <1>1, <2>2, LimitsArePositive
<1> QED
  BY <1>3, <1>4, <1>5 DEF GuessInv

LEMMA GuessSend ==
  ASSUME TypeInv, GuessInv, NEW r \in Req, Send(r)
  PROVE  GuessInv'
<1>1. StepOf(r) /\ pc[r] = "idle" /\ UNCHANGED <<tokens, otp_store, kind, attempts>> /\ TypeInv'
  BY SendTypes, StepKeepsTypes DEF Send, committed
<1>2. tokens[r] = None /\ attempts[r] = None /\ pc'[r] = First(kind[r])
  BY <1>1 DEF TypeInv, NotYetMade, Unrecorded, Typed, Requests, Send
<1>3. pc'[r] \in {"lockout", "answer", "loadToken", "findEmail", "loadUser"}
      /\ (kind[r] = "verify" => pc'[r] = "answer")
  BY <1>2 DEF First
<1>4. \A u, c : ~Wrong(r, u, c)' /\ ~Opened(r, u, c)'
  BY <1>1, <1>2, <1>3 DEF Wrong, Fails, Opened, Answered, Passed
<1> QED
  BY <1>1, <1>4, GuessStays

LEMMA GuessQuiet ==
  ASSUME TypeInv, GuessInv, NEW r \in Req, StepOf(r), Quiet(r)
  PROVE  GuessInv'
<1>1. UNCHANGED <<tokens, attempts, otp_store, kind>> /\ Running(r) /\ TypeInv'
  BY StepKeepsTypes DEF Quiet, GoesOn, Ends, committed, StepOf, OthersStay
<1>2. tokens[r] = None
  BY <1>1 DEF TypeInv, NotYetMade
<1>3. \A u, c : Wrong(r, u, c)' => Wrong(r, u, c)
  BY <1>1 DEF Wrong, Fails, Quiet, GoesOn, Ends
<1>4. \A u \in UserIds, c \in CodeIds : Opened(r, u, c)' => Opened(r, u, c)
  BY <1>1, <1>2 DEF Opened, Quiet, GoesOn, Ends, Running
<1> QED
  BY <1>1, <1>3, <1>4, GuessStays

LEMMA GuessRecord ==
  ASSUME TypeInv, GuessInv, NEW r \in Req, Record(r)
  PROVE  GuessInv'
<1>1. /\ StepOf(r) /\ attempts' = [attempts EXCEPT ![r] = Row(r)] /\ TypeInv'
      /\ tokens'[r] = None /\ otp_store' = otp_store /\ pc[r] = "record" /\ Running(r)
  BY RecordTypes, StepKeepsTypes DEF Record, Running
<1>2. kind' = kind /\ kind[r] \in {"login", "verify", "change"}
  BY <1>1 DEF StepOf, OthersStay, TypeInv, Typed, Requests, Underway, OnPath, Kinds
<1>3. attempts'[r] = Row(r)
  BY <1>1 DEF TypeInv, Typed, Tables, AttemptIds
<1>4. pc'[r] # "record"
  BY <1>2, RecordTypes
<1>5. \A u, c : Wrong(r, u, c)' => Wrong(r, u, c)
  BY <1>1, <1>2, <1>3, <1>4, RowTyped DEF Wrong, Fails, Passed, Action, Identifier
<1>6. ASSUME NEW u, NEW c, Opened(r, u, c)' PROVE Opened(r, u, c)
  <2>1. Running(r)' /\ job'[r].user = u /\ job'[r].code = c /\ kind[r] = "verify"
    BY <1>1, <1>2, <1>6 DEF Opened
  <2>2. Passed(r)
    BY <2>1, RecordTypes DEF Running
  <2> QED
    BY <1>1, <2>1, <2>2, RecordTypes DEF Opened, Answered
<1> QED
  BY <1>1, <1>5, <1>6, GuessStays

LEMMA GuessCommit ==
  ASSUME TypeInv, GuessInv, NEW r \in Req, Commit(r)
  PROVE  GuessInv'
<1>1. /\ StepOf(r) /\ pc[r] = "commit" /\ Running(r) /\ UNCHANGED <<attempts, otp_store>>
      /\ CommitRows(r) /\ pc'[r] = "done" /\ kind' = kind /\ TypeInv'
  BY CommitTypes, StepKeepsTypes DEF Commit, Memory, Running, Close, TypeInv, Typed, Requests
<1>2. tokens'[r] = txn[r].token /\ Underway(r)
  BY <1>1, RowsCommitted DEF TypeInv, Typed
<1>3. \A u, c : Wrong(r, u, c)' => Wrong(r, u, c)
  BY <1>1 DEF Wrong, Fails
<1>4. \A u, c : Opened(r, u, c)' => Opened(r, u, c)
  BY <1>1, <1>2 DEF Opened, Underway, Answered, Running
<1> QED
  BY <1>1, <1>3, <1>4, GuessStays

LEMMA NoWrongs ==
  ASSUME NEW u, NEW c, Wrongs(u, c) = {}
  PROVE  Cardinality(Wrongs(u, c)) = 0
BY FS_EmptySet

LEMMA GuessMakeCode ==
  ASSUME TypeInv, GuessInv, NEW r \in Req, MakeCode(r)
  PROVE  GuessInv'
<1> DEFINE x == seen[r].user.id
<1>1. /\ StepOf(r) /\ pc[r] = "code" /\ Running(r) /\ kind' = kind /\ kind[r] = "login"
      /\ UNCHANGED <<tokens, attempts>> /\ pc'[r] \in {"done", "failed"}
      /\ otp_store' = [otp_store EXCEPT ![x] = PendingCode(r)]
  BY MakeCodeTypes DEF MakeCode, MailOutcomes, committed, Close, Running, TypeInv, Typed, Requests,
     Underway, OnPath, Kinds
<1>2. PendingCode(r).id = r /\ PendingCode(r).attempts = 0
  BY DEF PendingCode
<1>3. \A u, c : Wrong(r, u, c)' => Wrong(r, u, c)
  BY <1>1 DEF Wrong, Fails
<1>4. \A u, c : ~Opened(r, u, c)'
  BY <1>1 DEF Opened
<1>5. \A u \in UserIds, c \in CodeIds :
        /\ Wrongs(u, c)' \subseteq Wrongs(u, c)
        /\ Cardinality(Wrongs(u, c)') \in Nat /\ Cardinality(Wrongs(u, c)) \in Nat
        /\ Cardinality(Wrongs(u, c)') <= Cardinality(Wrongs(u, c))
  BY <1>1, <1>3, WrongsBefore
<1>6. \A c : MadeCode(c) => MadeCode(c)'
  BY <1>1 DEF MadeCode, StepOf, OthersStay
<1>7. ~MadeCode(r) /\ r \in CodeIds
  BY <1>1, IdsAreDistinct DEF MadeCode, CodeIds
<1>8. ASSUME NEW u \in UserIds, NEW c \in CodeIds, Wrongs(u, c)' # {} PROVE MadeCode(c)'
  BY <1>5, <1>6, <1>8 DEF GuessInv
<1>9. ASSUME NEW u \in UserIds, otp_store'[u] # None
      PROVE  Cardinality(Wrongs(u, otp_store[u].id)') <= otp_store'[u].attempts
  <2>1. otp_store'[u] = IF u = x THEN PendingCode(r) ELSE otp_store[u]
    BY <1>1 DEF TypeInv, Typed, Tables
  <2>2. ASSUME u = x PROVE \A d : d = r => Cardinality(Wrongs(u, d)') <= otp_store'[u].attempts
    <3>1. Wrongs(u, r) = {}
      BY <1>7 DEF GuessInv
    <3>2. Wrongs(u, r)' = {}
      BY <1>5, <1>7, <3>1
    <3>3. Cardinality(Wrongs(u, r)') = 0
      BY <3>2, FS_EmptySet
    <3> QED
      BY <1>2, <2>1, <2>2, <3>3
  <2>3. CASE u = x
    <3>1. otp_store'[u].id = r
      BY <1>2, <2>1, <2>3
    <3> QED
      BY <2>2, <2>3, <3>1 DEF Wrongs, Wrong, Fails
  <2>4. CASE u # x
    <3> DEFINE c == otp_store[u].id
    <3>1. otp_store'[u] = otp_store[u] /\ otp_store[u] # None
      BY <1>9, <2>1, <2>4
    <3>2. c \in CodeIds /\ otp_store[u].attempts \in Nat
      BY <3>1, PendingCodes
    <3>3. Cardinality(Wrongs(u, c)) <= otp_store[u].attempts
      BY <3>1 DEF GuessInv
    <3>4. \A d : d = c => Cardinality(Wrongs(u, d)') <= otp_store'[u].attempts
      BY <1>5, <3>1, <3>2, <3>3
    <3> QED
      BY <3>1, <3>4 DEF Wrongs, Wrong, Fails
  <2> QED
    BY <2>3, <2>4
<1>10. ASSUME NEW q \in Req, NEW u \in UserIds, NEW c \in CodeIds, Opened(q, u, c)'
       PROVE  Cardinality(Wrongs(u, c)') < MaxGuesses
  <2>1. Opened(q, u, c)
    BY <1>1, <1>4, <1>10, OpenedBefore
  <2>2. Cardinality(Wrongs(u, c)) < MaxGuesses
    BY <2>1 DEF GuessInv
  <2> QED
    BY <1>5, <2>2, LimitsArePositive
<1> QED
  BY <1>8, <1>9, <1>10 DEF GuessInv

LEMMA GuessAnswer ==
  ASSUME TypeInv, SessionInv, GuessInv, NEW r \in Req, AnswerCode(r)
  PROVE  GuessInv'
<1> DEFINE u == job[r].user
<1>1. /\ StepOf(r) /\ pc[r] = "answer" /\ kind[r] = "verify" /\ Running(r) /\ u \in UserIds
      /\ UNCHANGED <<tokens, attempts, kind, job>> /\ TypeInv'
  BY AnswerEffects, StepKeepsTypes DEF committed
<1>2. tokens[r] = None /\ attempts[r] = None /\ \A x, c : ~Opened(r, x, c)
  BY <1>1 DEF TypeInv, NotYetMade, Unrecorded, Opened, Answered, Passed
<1>3. CASE Uncompared(r)
  <2>1. ~Answered(r)' /\ pc'[r] = "record" /\ seen'[r].code = None
    BY <1>3, IdsAreDistinct DEF Uncompared, Answered, Passed, Reasons
  <2>2. \A x, c : ~Opened(r, x, c)'
    BY <1>1, <1>2, <2>1 DEF Opened
  <2>3. \A x, c : c \in CodeIds => ~Wrong(r, x, c)'
    BY <1>1, <1>2, <2>1, IdsAreDistinct DEF Wrong, Fails
  <2>4. \A x \in UserIds : otp_store'[x] # None => otp_store'[x] = otp_store[x]
    BY <1>1, <1>3 DEF Uncompared, TypeInv, Typed, Tables
  <2> QED
    BY <1>1, <2>2, <2>3, <2>4, GuessStays
<1>4. CASE Accepted(r)
  <2> DEFINE c == job[r].code
  <2>1. /\ c \in CodeIds /\ Pending(u, c) /\ otp_store[u].attempts < MaxGuesses /\ pc'[r] = "loadUser"
        /\ \A x \in UserIds : otp_store'[x] = IF x = u THEN None ELSE otp_store[x]
    BY <1>4 DEF Accepted, TypeInv, Typed, Tables
  <2>2. \A x, d : ~Wrong(r, x, d)'
    BY <1>1, <1>2, <2>1 DEF Wrong, Fails
  <2>3. \A x \in UserIds, d \in CodeIds :
          /\ Wrongs(x, d)' \subseteq Wrongs(x, d)
          /\ Cardinality(Wrongs(x, d)') \in Nat /\ Cardinality(Wrongs(x, d)) \in Nat
          /\ Cardinality(Wrongs(x, d)') <= Cardinality(Wrongs(x, d))
    BY <1>1, <2>2, WrongsBefore
  <2>4. \A d : MadeCode(d) => MadeCode(d)'
    BY <1>1 DEF MadeCode, StepOf, OthersStay, Running
  <2>5. ASSUME NEW x \in UserIds, NEW d \in CodeIds, Wrongs(x, d)' # {} PROVE MadeCode(d)'
    BY <2>3, <2>4, <2>5 DEF GuessInv
  <2>6. ASSUME NEW x \in UserIds, otp_store'[x] # None
        PROVE  Cardinality(Wrongs(x, otp_store[x].id)') <= otp_store'[x].attempts
    <3> DEFINE d == otp_store[x].id
    <3>1. otp_store'[x] = otp_store[x] /\ otp_store[x] # None
      BY <2>1, <2>6
    <3>2. d \in CodeIds /\ otp_store[x].attempts \in Nat
      BY <3>1, PendingCodes
    <3>3. Cardinality(Wrongs(x, d)) <= otp_store[x].attempts
      BY <3>1 DEF GuessInv
    <3>4. \A e : e = d => Cardinality(Wrongs(x, e)') <= otp_store'[x].attempts
      BY <2>3, <3>1, <3>2, <3>3
    <3> QED
      BY <3>1, <3>4 DEF Wrongs, Wrong, Fails
  \* The code was pending with fewer attempts than the limit, each wrong answer one of them.
  <2>7. Cardinality(Wrongs(u, c)) < MaxGuesses
    <3>1. Cardinality(Wrongs(u, c)) <= otp_store[u].attempts /\ otp_store[u].attempts \in Nat
      BY <1>1, <2>1, PendingCodes DEF Pending, GuessInv
    <3> QED
      BY <1>1, <2>1, <2>3, <3>1, LimitsArePositive
  <2>8. ASSUME NEW q \in Req, NEW x \in UserIds, NEW d \in CodeIds, Opened(q, x, d)'
        PROVE  Cardinality(Wrongs(x, d)') < MaxGuesses
    <3>1. (x = u /\ d = c) \/ Opened(q, x, d)
      <4>1. CASE q = r
        BY <1>1, <1>2, <2>8, <4>1 DEF Opened
      <4>2. CASE q # r
        BY <1>1, <2>8, <4>2, OpenedBefore
      <4> QED
        BY <4>1, <4>2
    <3>2. Cardinality(Wrongs(x, d)) < MaxGuesses
      BY <2>7, <3>1 DEF GuessInv
    <3> QED
      BY <2>3, <3>2, LimitsArePositive
  <2> QED
    BY <2>5, <2>6, <2>8 DEF GuessInv
<1>5. CASE CountedWrong(r)
  <2> DEFINE c == otp_store[u].id
  <2>1. /\ otp_store[u] # None /\ c \in CodeIds /\ otp_store[u].attempts \in Nat
        /\ pc'[r] = "record" /\ seen'[r].reason = "wrong_otp" /\ seen'[r].code = c
        /\ otp_store'[u] # None /\ otp_store'[u].id = c
        /\ otp_store'[u].attempts = otp_store[u].attempts + 1
        /\ \A x \in UserIds \ {u} : otp_store'[x] = otp_store[x]
    BY <1>1, <1>5, PendingCodes DEF CountedWrong
  <2>2. \A x, d : Wrong(r, x, d)' => x = u /\ d = c
    BY <1>1, <1>2, <2>1 DEF Wrong, Fails
  <2>3. \A x, d : ~(x = u /\ d = c) =>
          /\ Wrongs(x, d)' \subseteq Wrongs(x, d)
          /\ Cardinality(Wrongs(x, d)') \in Nat /\ Cardinality(Wrongs(x, d)) \in Nat
          /\ Cardinality(Wrongs(x, d)') <= Cardinality(Wrongs(x, d))
    BY <1>1, <2>2, WrongsBefore
  <2>4. \A x, d : /\ Cardinality(Wrongs(x, d)) \in Nat /\ Cardinality(Wrongs(x, d)') \in Nat
                  /\ Cardinality(Wrongs(x, d)') <= Cardinality(Wrongs(x, d)) + 1
    <3> SUFFICES ASSUME NEW x, NEW d
                 PROVE  /\ Cardinality(Wrongs(x, d)) \in Nat /\ Cardinality(Wrongs(x, d)') \in Nat
                        /\ Cardinality(Wrongs(x, d)') <= Cardinality(Wrongs(x, d)) + 1
      OBVIOUS
    <3>1. Wrongs(x, d)' \subseteq Wrongs(x, d) \cup {r}
      BY <1>1, WrongBefore DEF Wrongs
    <3>2. IsFiniteSet(Wrongs(x, d)) /\ Cardinality(Wrongs(x, d)) \in Nat
      BY WrongsFinite
    <3>3. /\ IsFiniteSet(Wrongs(x, d) \cup {r})
          /\ Cardinality(Wrongs(x, d) \cup {r}) <= Cardinality(Wrongs(x, d)) + 1
      <4> DEFINE T == Wrongs(x, d)
      <4>1. /\ IsFiniteSet(T \cup {r})
            /\ Cardinality(T \cup {r}) = IF r \in T THEN Cardinality(T) ELSE Cardinality(T) + 1
        BY <3>2, FS_AddElement, Zenon
      <4> HIDE DEF T
      <4>2. Cardinality(T) \in Nat
        BY <3>2 DEF T
      <4>3. IsFiniteSet(T \cup {r}) /\ Cardinality(T \cup {r}) <= Cardinality(T) + 1
        BY <4>1, <4>2
      <4> QED
        BY <4>3 DEF T
    <3>4. /\ Cardinality(Wrongs(x, d)') <= Cardinality(Wrongs(x, d) \cup {r})
          /\ Cardinality(Wrongs(x, d)') \in Nat /\ Cardinality(Wrongs(x, d) \cup {r}) \in Nat
      BY <3>1, <3>3, FS_Subset, FS_CardinalityType
    <3> QED
      BY <3>2, <3>3, <3>4
  <2>5. \A d : MadeCode(d) => MadeCode(d)'
    BY <1>1 DEF MadeCode, StepOf, OthersStay, Running
  <2>6. MadeCode(c)
    BY <1>1, <2>1 DEF SessionInv, CodesAreKnown
  <2>7. ASSUME NEW x \in UserIds, NEW d \in CodeIds, Wrongs(x, d)' # {} PROVE MadeCode(d)'
    BY <2>3, <2>5, <2>6, <2>7 DEF GuessInv
  <2>8. ASSUME NEW x \in UserIds, otp_store'[x] # None
        PROVE  Cardinality(Wrongs(x, otp_store[x].id)') <= otp_store'[x].attempts
    <3> DEFINE e == otp_store[x].id
    <3>1. otp_store[x] # None /\ otp_store'[x].id = e /\ e \in CodeIds /\ otp_store[x].attempts \in Nat
      BY <2>1, <2>8, PendingCodes
    <3>2. Cardinality(Wrongs(x, e)) <= otp_store[x].attempts
      BY <3>1 DEF GuessInv
    <3>3. \A d : d = e => Cardinality(Wrongs(x, d)') <= otp_store'[x].attempts
      <4> SUFFICES ASSUME NEW d, d = e PROVE Cardinality(Wrongs(x, d)') <= otp_store'[x].attempts
        OBVIOUS
      <4>1. CASE x = u
        <5>1. d = c /\ otp_store'[x].attempts = otp_store[x].attempts + 1
          BY <2>1, <4>1
        <5>2. /\ Cardinality(Wrongs(x, d)) \in Nat /\ Cardinality(Wrongs(x, d)') \in Nat
              /\ Cardinality(Wrongs(x, d)') <= Cardinality(Wrongs(x, d)) + 1
          BY <2>4, <4>1, <5>1
        <5> QED
          BY <3>1, <3>2, <5>1, <5>2
      <4>2. CASE x # u
        <5>1. otp_store'[x].attempts = otp_store[x].attempts
          BY <2>1, <4>2
        <5> QED
          BY <2>3, <3>1, <3>2, <4>2, <5>1
      <4> QED
        BY <4>1, <4>2
    <3> QED
      BY <3>1, <3>3 DEF Wrongs, Wrong, Fails
  <2>9. ASSUME NEW q \in Req, NEW x \in UserIds, NEW d \in CodeIds, Opened(q, x, d)'
        PROVE  Cardinality(Wrongs(x, d)') < MaxGuesses
    <3>1. q # r
      BY <1>1, <1>2, <2>1, <2>9, IdsAreDistinct DEF Opened, Answered, Passed, Reasons
    <3>2. Opened(q, x, d)
      BY <1>1, <2>9, <3>1, OpenedBefore
    <3>3. ~(x = u /\ d = c) /\ Cardinality(Wrongs(x, d)) < MaxGuesses
      BY <2>1, <3>2 DEF SessionInv, GuessInv, Pending, Origins
    <3> QED
      BY <2>3, <3>3, LimitsArePositive
  <2> QED
    BY <2>7, <2>8, <2>9 DEF GuessInv
<1> QED
  BY <1>3, <1>4, <1>5, AnswerEffects

LEMMA WrongsSubset ==
  ASSUME NEW u, NEW c, Wrongs(u, c)' \subseteq Wrongs(u, c)
  PROVE  /\ Cardinality(Wrongs(u, c)') \in Nat /\ Cardinality(Wrongs(u, c)) \in Nat
         /\ Cardinality(Wrongs(u, c)') <= Cardinality(Wrongs(u, c))
BY WrongsFinite, FS_Subset, FS_CardinalityType

\* Neither time nor a restart adds a failure, and nobody answers meanwhile.
LEMMA GuessIdle ==
  ASSUME TypeInv, GuessInv,
         \A u, c : Wrongs(u, c)' \subseteq Wrongs(u, c),
         \A c : MadeCode(c) => MadeCode(c)',
         \A q \in Req : \A u, c : Opened(q, u, c)' => Opened(q, u, c),
         \A u \in UserIds : otp_store'[u] # None
           => /\ otp_store[u] # None /\ otp_store'[u].id = otp_store[u].id
              /\ otp_store'[u].attempts = otp_store[u].attempts
  PROVE  GuessInv'
<1>1. \A u, c : /\ Cardinality(Wrongs(u, c)') \in Nat /\ Cardinality(Wrongs(u, c)) \in Nat
                /\ Cardinality(Wrongs(u, c)') <= Cardinality(Wrongs(u, c))
  BY WrongsSubset
<1>2. ASSUME NEW u \in UserIds, NEW c \in CodeIds, Wrongs(u, c)' # {} PROVE MadeCode(c)'
  BY <1>2 DEF GuessInv
<1>3. ASSUME NEW u \in UserIds, otp_store'[u] # None
      PROVE  Cardinality(Wrongs(u, otp_store[u].id)') <= otp_store'[u].attempts
  <2> DEFINE c == otp_store[u].id
  <2>1. otp_store[u] # None /\ otp_store'[u].id = c /\ otp_store'[u].attempts = otp_store[u].attempts
    BY <1>3
  <2>2. otp_store[u].attempts \in Nat
    BY <2>1, PendingCodes
  <2>3. Cardinality(Wrongs(u, c)) <= otp_store[u].attempts
    BY <2>1 DEF GuessInv
  <2>4. \A d : d = c => Cardinality(Wrongs(u, d)') <= otp_store'[u].attempts
    BY <1>1, <2>1, <2>2, <2>3
  <2> QED
    BY <2>1, <2>4 DEF Wrongs, Wrong, Fails
<1>4. ASSUME NEW q \in Req, NEW u \in UserIds, NEW c \in CodeIds, Opened(q, u, c)'
      PROVE  Cardinality(Wrongs(u, c)') < MaxGuesses
  <2>1. Cardinality(Wrongs(u, c)) < MaxGuesses
    BY <1>4 DEF GuessInv
  <2> QED
    BY <1>1, <2>1, LimitsArePositive
<1> QED
  BY <1>2, <1>3, <1>4 DEF GuessInv

LEMMA GuessTime ==
  ASSUME TypeInv, GuessInv, Tables', TimePasses
  PROVE  GuessInv'
<1>1. UNCHANGED <<kind, pc, job, seen>> /\ AttemptsGrow
  BY DEF TimePasses
<1>2. \A a \in AttemptIds : attempts[a] = None => attempts'[a] = None
  BY DEF TimePasses
<1>3. \A a \in AttemptIds : \A u, c : Wrong(a, u, c)' => Wrong(a, u, c)
  BY <1>1, <1>2 DEF Wrong, Fails, AttemptsGrow, OnRecord, TypeInv, Typed, Tables
<1>4. \A u, c : Wrongs(u, c)' \subseteq Wrongs(u, c)
  BY <1>3 DEF Wrongs
<1>5. \A t \in TokenIds : (tokens[t] = None => tokens'[t] = None)
        /\ (tokens[t] # None => tokens'[t].user = tokens[t].user /\ tokens'[t].from = tokens[t].from)
  BY DEF TimePasses, TokensGrow, OnRecord, TypeInv, Typed, Tables
<1>6. \A q \in Req : \A u, c : Opened(q, u, c)' => Opened(q, u, c)
  BY <1>1, <1>5 DEF Opened, Running, Answered, Passed, TokenIds
<1>7. \A c : MadeCode(c) => MadeCode(c)'
  BY <1>1 DEF MadeCode
<1>8. \A u \in UserIds : otp_store'[u] # None
        => /\ otp_store[u] # None /\ otp_store'[u].id = otp_store[u].id
           /\ otp_store'[u].attempts = otp_store[u].attempts
  BY DEF TimePasses
<1> QED
  BY <1>4, <1>6, <1>7, <1>8, GuessIdle

LEMMA GuessRestart ==
  ASSUME TypeInv, GuessInv, Restart
  PROVE  GuessInv'
<1>1. /\ UNCHANGED <<tokens, attempts, kind>> /\ \A u \in UserIds : otp_store'[u] = None
      /\ \A r \in Req : ~Running(r)' /\ pc'[r] = IF Running(r) THEN "failed" ELSE pc[r]
  BY RestartTypes DEF committed
<1>2. \A a, u, c : Wrong(a, u, c)' => Wrong(a, u, c)
  BY <1>1 DEF Wrong, Fails, Running
<1>3. \A u, c : Wrongs(u, c)' \subseteq Wrongs(u, c)
  BY <1>2 DEF Wrongs
<1>4. \A q \in Req : \A u, c : Opened(q, u, c)' => Opened(q, u, c)
  BY <1>1 DEF Opened
<1>5. \A c : MadeCode(c) => MadeCode(c)'
  BY <1>1 DEF MadeCode, Running
<1> QED
  BY <1>1, <1>3, <1>4, <1>5, GuessIdle

LEMMA GuessInit ==
  ASSUME Init
  PROVE  GuessInv
<1>1. /\ TypeInv
      /\ \A r \in Req : pc[r] = "idle" /\ tokens[r] = None /\ attempts[r] = None
      /\ \A a \in OldAttempts : attempts[a] # None => attempts[a].code = None
  BY InitTypes, InputsTyped DEF Init
<1>2. \A r \in Req : \A u, c : ~Opened(r, u, c)
  BY <1>1 DEF Opened, Running
<1>3. \A a \in AttemptIds : \A u, c : c \in CodeIds => ~Wrong(a, u, c)
  BY <1>1, IdsAreDistinct DEF Wrong, Fails, AttemptIds
<1>4. \A u, c : c \in CodeIds => Wrongs(u, c) = {} /\ Cardinality(Wrongs(u, c)) = 0
  BY <1>3, NoWrongs DEF Wrongs
<1>5. \A u \in UserIds : otp_store[u] # None => otp_store[u].id \in CodeIds /\ otp_store[u].attempts \in Nat
  BY <1>1, PendingCodes
<1> QED
  BY <1>2, <1>4, <1>5 DEF GuessInv

LEMMA GuessNext ==
  ASSUME TypeInv, SessionInv, GuessInv, [Next]_vars
  PROVE  GuessInv'
<1>1. ASSUME NEW r \in Req, Step(r) \/ Abort(r) PROVE GuessInv'
  BY <1>1, QuietSteps, RequestStep, GuessQuiet, GuessMakeCode, GuessAnswer, GuessRecord, GuessCommit
<1> QED
  BY <1>1, StepSorts, GuessSend, GuessTime, GuessRestart

\* A code that was answered wrongly OTP_MAX_ATTEMPTS times opens no session: an answer is
\* counted with the code while it is pending, before it reaches the record, and an accepted
\* answer takes the code away with fewer.
THEOREM FewWrongAnswersHolds == Spec => []FewWrongAnswers
<1>1. Init => GuessInv
  BY GuessInit
<1>2. TypeInv /\ SessionInv /\ GuessInv /\ [Next]_vars => GuessInv'
  BY GuessNext
<1>3. TypeInv /\ GuessInv /\ SessionInv => FewWrongAnswers
  <2> SUFFICES ASSUME TypeInv, GuessInv, SessionInv, NEW t \in OnRecord(tokens) \cap Req, kind[t] = "verify"
               PROVE  Cardinality({a \in OnRecord(attempts) :
                                     /\ Fails(a, tokens[t].user, "verify_otp")
                                     /\ attempts[a].code = tokens[t].from}) < MaxGuesses
    BY DEF FewWrongAnswers
  <2> DEFINE u == tokens[t].user
             c == tokens[t].from
             F == {a \in OnRecord(attempts) : Fails(a, u, "verify_otp") /\ attempts[a].code = c}
  <2>1. tokens[t] \in Token /\ tokens[t] # None
    BY DEF TypeInv, Typed, Tables, OnRecord
  <2>2. Opened(t, u, c) /\ u \in UserIds /\ c \in Origins
    BY <2>1 DEF Opened, Token, Origins
  <2>3. c \in CodeIds
    BY <2>2 DEF SessionInv, CodesAreKnown
  <2>4. Cardinality(Wrongs(u, c)) < MaxGuesses
    BY <2>2, <2>3 DEF GuessInv
  <2>5. F \subseteq Wrongs(u, c)
    BY DEF Wrongs, Wrong, OnRecord, TypeInv, Typed, Tables
  <2>6. /\ IsFiniteSet(Wrongs(u, c)) /\ Cardinality(Wrongs(u, c)) \in Nat
        /\ Cardinality(F) \in Nat /\ Cardinality(F) <= Cardinality(Wrongs(u, c))
    BY <2>5, WrongsFinite, FS_Subset, FS_CardinalityType
  <2> HIDE DEF F
  <2>7. Cardinality(F) < MaxGuesses
    BY <2>4, <2>6, LimitsArePositive
  <2> QED
    BY <2>7 DEF F
<1> QED
  BY <1>1, <1>2, <1>3, Sessions, PTL DEF Spec
-----------------------------------------------------------------------------
(***************************************************************************)
(* What a request of signing in keeps to from its arrival to its answer:   *)
(* the lockout, the tokens that are spent, the sessions that have to end,  *)
(* the refusals that stay on record.                                       *)
(***************************************************************************)
\* What was on record when it arrived still is, and what was spent is revoked.
Arrived(r) ==
  Running(r) =>
    /\ met[r].failures \subseteq OnRecord(attempts)
    /\ \A t \in met[r].spent : t \in OnRecord(tokens) /\ tokens[t].revoked
    /\ met[r].open \subseteq OnRecord(tokens)

\* A token that was refreshed is revoked with the same commit.
PassedOn(r) ==
  kind[r] = "refresh" /\ tokens[r] # None
  => tokens[r].from \in OnRecord(tokens) /\ tokens[tokens[r].from].revoked

\* The failures that were on record when the request arrived and still count.
Counted(r) == {a \in met[r].failures : Fails(a, Identifier(r), Action(r)) /\ attempts[a].recent}
\* It is past the lockout.
LetThrough(r) ==
  /\ kind[r] \in {"login", "change"}
  /\ \/ pc[r] \in {"findUser", "code", "setPassword", "readTokens", "revoke"}
     \/ pc[r] = "record" /\ seen[r].reason # "locked_out"
Lockout(r) == LetThrough(r) => Cardinality(Counted(r)) < MaxFailures

\* A refresh that found its token usable does not hold one that was spent before it arrived.
Unspent(r) ==
  Running(r) /\ kind[r] = "refresh" /\ pc[r] # "loadToken" => job[r].token \notin met[r].spent

\* Where a session that has to end is found.
Ending(r) ==
  Running(r) /\ kind[r] \in {"change", "deactivate"} =>
    \A t \in met[r].open : tokens[t].user = job[r].user =>
      /\ pc[r] = "revoke" => tokens[t].revoked \/ t \in seen[r].left \/ t \in txn[r].revoked
      /\ pc[r] = "commit" \/ Passed(r) => tokens[t].revoked \/ t \in txn[r].revoked

Keeps(r) == Lockout(r) /\ Unspent(r) /\ Ending(r)
RequestInv == \A r \in Req : Arrived(r) /\ PassedOn(r) /\ Keeps(r)
-----------------------------------------------------------------------------
LEMMA TablesStay ==
  ASSUME TypeInv, TypeInv', TokensGrow, AttemptsGrow
  PROVE  /\ OnRecord(attempts) \subseteq OnRecord(attempts)'
         /\ OnRecord(tokens) \subseteq OnRecord(tokens)'
BY DEF OnRecord, TokensGrow, AttemptsGrow, TypeInv, Typed, Tables

LEMMA TokenStays ==
  ASSUME TypeInv, TypeInv', TokensGrow, AttemptsGrow, NEW t \in OnRecord(tokens)
  PROVE  /\ tokens[t] # None /\ t \in TokenIds
         /\ tokens'[t] # None /\ tokens'[t].user = tokens[t].user /\ tokens'[t].from = tokens[t].from
         /\ tokens[t].revoked => tokens'[t].revoked
         /\ t \in OnRecord(tokens)'
BY DEF OnRecord, TokensGrow, TypeInv, Typed, Tables

LEMMA ArrivedStays ==
  ASSUME TypeInv, TypeInv', TokensGrow, AttemptsGrow, NEW r \in Req, Arrived(r),
         Running(r)' => Running(r) /\ met'[r] = met[r]
  PROVE  Arrived(r)'
<1>1. /\ OnRecord(attempts) \subseteq OnRecord(attempts)'
      /\ OnRecord(tokens) \subseteq OnRecord(tokens)'
  BY TablesStay
<1> QED
  BY <1>1 DEF Arrived, TokensGrow

LEMMA CountedStays ==
  ASSUME TypeInv, AttemptsGrow, NEW r \in Req, Running(r), Arrived(r),
         kind'[r] = kind[r], met'[r] = met[r], Identifier(r)' = Identifier(r),
         Cardinality(Counted(r)) < MaxFailures
  PROVE  Cardinality(Counted(r)') < MaxFailures
<1>1. Action(r)' = Action(r)
  BY DEF Action
<1>2. met[r].failures \subseteq AttemptIds /\ met[r].failures \subseteq OnRecord(attempts)
  BY DEF Arrived, TypeInv, Typed, Requests, Met
<1>3. ASSUME NEW a \in met[r].failures, Fails(a, Identifier(r), Action(r))', attempts'[a].recent
      PROVE  Fails(a, Identifier(r), Action(r)) /\ attempts[a].recent
  BY <1>1, <1>2, <1>3 DEF Fails, AttemptsGrow, OnRecord
<1>4. Counted(r)' \subseteq Counted(r)
  BY <1>3 DEF Counted
<1>5. IsFiniteSet(AttemptIds)
  BY IdsAreFinite, FS_Union DEF AttemptIds
<1>6. IsFiniteSet(Counted(r))
  BY <1>2, <1>5, FS_Subset DEF Counted
<1>7. /\ Cardinality(Counted(r)') \in Nat /\ Cardinality(Counted(r)) \in Nat
      /\ Cardinality(Counted(r)') <= Cardinality(Counted(r))
  BY <1>4, <1>6, FS_Subset, FS_CardinalityType
<1> QED
  BY <1>7, LimitsArePositive

\* Another request steps, or time passes.
LEMMA KeepsStay ==
  ASSUME TypeInv, TypeInv', RequestInv, TokensGrow, AttemptsGrow, NEW r \in Req,
         kind'[r] = kind[r], pc'[r] = pc[r], job'[r] = job[r], seen'[r] = seen[r],
         txn'[r] = txn[r], met'[r] = met[r], tokens[r] = None => tokens'[r] = None
  PROVE  Arrived(r)' /\ PassedOn(r)' /\ Keeps(r)'
<1>1. Arrived(r) /\ PassedOn(r) /\ Lockout(r) /\ Unspent(r) /\ Ending(r)
  BY DEF RequestInv, Keeps
<1>2. Arrived(r)'
  BY <1>1, ArrivedStays DEF Running
<1>3. PassedOn(r)'
  <2>1. tokens[r] # None => r \in OnRecord(tokens)
    BY DEF OnRecord, TypeInv, Typed, Tables, TokenIds
  <2>2. tokens[r] # None => tokens'[r].from = tokens[r].from
    BY <2>1, TokenStays
  <2>3. kind[r] = "refresh" /\ tokens[r] # None
        => tokens[r].from \in OnRecord(tokens)' /\ tokens'[tokens[r].from].revoked
    BY <1>1, TokenStays DEF PassedOn
  <2> QED
    BY <2>2, <2>3 DEF PassedOn
<1>4. Lockout(r)'
  <2>1. LetThrough(r)' => LetThrough(r) /\ Running(r)
    BY DEF LetThrough, Running
  <2>2. Identifier(r)' = Identifier(r)
    BY DEF Identifier
  <2> QED
    BY <1>1, <2>1, <2>2, CountedStays DEF Lockout
<1>5. Unspent(r)'
  BY <1>1 DEF Unspent, Running
<1>6. Ending(r)'
  <2>1. Running(r) => \A t \in met[r].open : tokens'[t].user = tokens[t].user
                                          /\ (tokens[t].revoked => tokens'[t].revoked)
    BY <1>1, TokenStays DEF Arrived
  <2> QED
    BY <1>1, <2>1 DEF Ending, Running, Passed
<1> QED
  BY <1>2, <1>3, <1>4, <1>5, <1>6 DEF Keeps

-----------------------------------------------------------------------------
(***************************************************************************)
(* A request's own steps.                                                  *)
(***************************************************************************)
\* Its session is closed: what it kept to is settled.
LEMMA KeepsClosed ==
  ASSUME NEW r \in Req, ~Running(r)'
  PROVE  Keeps(r)'
BY DEF Keeps, Lockout, LetThrough, Unspent, Ending, Running

LEMMA KeepsVerify ==
  ASSUME NEW r \in Req, kind'[r] \notin {"login", "change", "refresh", "deactivate"}
  PROVE  Keeps(r)'
BY DEF Keeps, Lockout, LetThrough, Unspent, Ending

LEMMA KeepsCheckLockout ==
  ASSUME TypeInv, RequestInv, NEW r \in Req, CheckLockout(r)
  PROVE  Keeps(r)'
<1> DEFINE reason == IF LockedOut(r) THEN "locked_out"
                     ELSE IF kind[r] = "change" /\ job[r].password # seen[r].user.password
                     THEN "wrong_current_password" ELSE None
           at == IF reason # None THEN "record"
                 ELSE IF kind[r] = "login" THEN "findUser" ELSE "setPassword"
           s == [seen[r] EXCEPT !.reason = reason]
<1>1. /\ pc[r] = "lockout" /\ Running(r) /\ Underway(r) /\ kind[r] \in {"login", "change"}
      /\ seen[r] \in Seen
  BY DEF CheckLockout, TypeInv, Typed, Requests, Running, Underway, OnPath, Kinds
<1>2. seen' = [seen EXCEPT ![r] = s] /\ Goto(r, at) /\ UNCHANGED <<committed, txn>>
  <2>1. Look(r, "reason", reason)
    BY Zenon DEF CheckLockout
  <2> HIDE DEF reason
  <2>2. seen' = [seen EXCEPT ![r] = s]
    BY <2>1, LookAt
  <2>3. Goto(r, at) /\ UNCHANGED <<committed, txn>>
    BY DEF CheckLockout, Reads, reason
  <2> QED
    BY <2>2, <2>3
<1>3. s.reason = reason /\ s.user = seen[r].user
  BY <1>1 DEF Seen
<1>4. /\ LockedOut(r) => reason = "locked_out" /\ at = "record"
      /\ at = "record" => reason # None
  BY IdsAreDistinct DEF Reasons
<1>5. /\ pc'[r] = at /\ seen'[r] = s /\ job'[r] = job[r] /\ met'[r] = met[r] /\ kind' = kind
      /\ attempts' = attempts
  BY <1>1, <1>2, RunningHere DEF committed, TypeInv, Typed, Requests
<1>6. at \in {"record", "findUser", "setPassword"}
  OBVIOUS
<1> HIDE DEF reason, at, s
<1>7. LetThrough(r)' => ~LockedOut(r)
  BY <1>3, <1>4, <1>5 DEF LetThrough
<1>8. ASSUME ~LockedOut(r) PROVE Cardinality(Counted(r)') < MaxFailures
  <2> DEFINE F == {a \in OnRecord(attempts) : Fails(a, Identifier(r), Action(r)) /\ attempts[a].recent}
  <2>1. met[r].failures \subseteq OnRecord(attempts)
    BY <1>1 DEF RequestInv, Arrived
  <2>2. Identifier(r)' = Identifier(r) /\ Action(r)' = Action(r)
    BY <1>1, <1>3, <1>5 DEF Identifier, Action
  <2>3. Counted(r)' \subseteq F
    BY <1>5, <2>1, <2>2 DEF Counted, Fails
  <2>4. IsFiniteSet(F)
    <3>1. IsFiniteSet(AttemptIds)
      BY IdsAreFinite, FS_Union DEF AttemptIds
    <3>2. F \subseteq AttemptIds
      BY DEF OnRecord, TypeInv, Typed, Tables
    <3> QED
      BY <3>1, <3>2, FS_Subset
  <2>5. Cardinality(F) \in Nat /\ ~(Cardinality(F) >= MaxFailures)
    BY <1>8, <2>4, FS_CardinalityType DEF LockedOut, count_recent_failures
  <2>6. Cardinality(Counted(r)') \in Nat /\ Cardinality(Counted(r)') <= Cardinality(F)
    BY <2>3, <2>4, FS_Subset, FS_CardinalityType
  <2> HIDE DEF F
  <2> QED
    BY <2>5, <2>6, LimitsArePositive
<1>9. Lockout(r)'
  BY <1>7, <1>8 DEF Lockout
<1>10. Unspent(r)' /\ Ending(r)'
  BY <1>1, <1>3, <1>4, <1>5, <1>6 DEF Unspent, Ending, Passed
<1> QED
  BY <1>9, <1>10 DEF Keeps

LEMMA KeepsFindUser ==
  ASSUME TypeInv, RequestInv, NEW r \in Req, FindUser(r), AttemptsGrow
  PROVE  Keeps(r)'
<1>1. pc[r] = "findUser" /\ Running(r) /\ kind[r] = "login"
  BY DEF FindUser, TypeInv, Typed, Requests, Running, Underway, OnPath, Kinds
<1>2. pc'[r] = "record" /\ job'[r] = job[r] /\ met'[r] = met[r] /\ kind' = kind
  BY <1>1, RunningHere DEF FindUser
<1>3. Cardinality(Counted(r)) < MaxFailures /\ Arrived(r)
  BY <1>1 DEF RequestInv, Keeps, Lockout, LetThrough
<1>4. Identifier(r)' = Identifier(r)
  BY <1>1, <1>2 DEF Identifier
<1>5. Lockout(r)'
  BY <1>1, <1>2, <1>3, <1>4, CountedStays DEF Lockout
<1> QED
  BY <1>1, <1>2, <1>5 DEF Keeps, Unspent, Ending

LEMMA KeepsRecord ==
  ASSUME TypeInv, RequestInv, NEW r \in Req, Record(r)
  PROVE  Keeps(r)'
<1>1. pc[r] = "record" /\ Running(r) /\ kind[r] \in {"login", "verify", "change"} /\ kind' = kind
      /\ AttemptsGrow
  BY RecordTypes DEF Record, TypeInv, Typed, Requests, Running, Underway, OnPath, Kinds, StepOf, OthersStay
<1>2. CASE ~Passed(r) \/ kind[r] = "change"
  <2>1. ~Running(r)'
    BY <1>2, RecordTypes DEF Running
  <2> QED
    BY <2>1, KeepsClosed
<1>3. CASE kind[r] = "verify"
  BY <1>1, <1>3, KeepsVerify
<1>4. CASE Passed(r) /\ kind[r] = "login"
  <2>1. pc'[r] = "code" /\ job'[r] = job[r] /\ met'[r] = met[r]
    BY <1>4, RecordTypes
  <2>2. seen[r].reason # "locked_out"
    BY <1>4, IdsAreDistinct DEF Passed, Reasons
  <2>3. Cardinality(Counted(r)) < MaxFailures /\ Arrived(r)
    BY <1>1, <1>4, <2>2 DEF RequestInv, Keeps, Lockout, LetThrough
  <2>4. Identifier(r)' = Identifier(r)
    BY <1>1, <1>4, <2>1 DEF Identifier
  <2>5. Lockout(r)'
    BY <1>1, <2>1, <2>3, <2>4, CountedStays DEF Lockout
  <2> QED
    BY <1>1, <1>4, <2>5 DEF Keeps, Unspent, Ending
<1> QED
  BY <1>1, <1>2, <1>3, <1>4

LEMMA KeepsLoadToken ==
  ASSUME TypeInv, RequestInv, NEW r \in Req, LoadToken(r), GoesOn(r)
  PROVE  Keeps(r)'
<1>1. pc[r] = "loadToken" /\ Running(r) /\ Underway(r) /\ kind[r] \in {"refresh", "logout"}
  BY DEF LoadToken, TypeInv, Typed, Requests, Running, Underway, OnPath, Kinds
<1>2. job'[r] = job[r] /\ met'[r] = met[r] /\ kind'[r] = kind[r]
  BY LoadTokenTypes DEF GoesOn, StepOf, OthersStay
<1>3. CASE kind[r] = "logout"
  BY <1>2, <1>3, KeepsVerify
<1>4. CASE kind[r] = "refresh" /\ Usable(job[r].token)
  <2>1. job[r].token \notin met[r].spent
    BY <1>1, <1>4 DEF RequestInv, Arrived, Usable
  <2> QED
    BY <1>2, <1>4, <2>1 DEF Keeps, Lockout, LetThrough, Unspent, Ending
<1>5. CASE kind[r] = "refresh" /\ ~Usable(job[r].token)
  <2>1. pc'[r] = "refused"
    BY <1>5 DEF LoadToken, Refuse, Close, TypeInv, Typed, Requests
  <2> QED
    BY <2>1, KeepsClosed DEF Running
<1> QED
  BY <1>1, <1>3, <1>4, <1>5

LEMMA KeepsSpend ==
  ASSUME TypeInv, RequestInv, NEW r \in Req, Spend(r), GoesOn(r)
  PROVE  Keeps(r)'
<1>1. pc[r] = "spend" /\ Running(r) /\ kind[r] \in {"refresh", "logout"}
  BY DEF Spend, TypeInv, Typed, Requests, Running, Underway, OnPath, Kinds
<1>2. job'[r] = job[r] /\ met'[r] = met[r] /\ kind'[r] = kind[r]
  BY SpendTypes DEF GoesOn, StepOf, OthersStay
<1>3. kind[r] = "refresh" => job[r].token \notin met[r].spent
  BY <1>1 DEF RequestInv, Keeps, Unspent
<1> QED
  BY <1>1, <1>2, <1>3 DEF Keeps, Lockout, LetThrough, Unspent, Ending

LEMMA KeepsLoadUser ==
  ASSUME TypeInv, RequestInv, NEW r \in Req, LoadUser(r), GoesOn(r)
  PROVE  Keeps(r)'
<1>1. /\ pc[r] = "loadUser" /\ Running(r)
      /\ kind[r] \in {"verify", "refresh", "change", "update", "deactivate"}
  BY DEF LoadUser, TypeInv, Typed, Requests, Running, Underway, OnPath, Kinds
<1>2. job'[r] = job[r] /\ met'[r] = met[r] /\ kind'[r] = kind[r]
  BY LoadUserTypes DEF GoesOn, StepOf, OthersStay
<1>3. kind[r] = "refresh" => job[r].token \notin met[r].spent
  BY <1>1 DEF RequestInv, Keeps, Unspent
<1>4. kind[r] \in {"change", "deactivate"} => ~Running(r)' \/ pc'[r] \in {"lockout", "write"}
  <2>1. CASE Refuse(r)
    BY <2>1 DEF Refuse, Close, TypeInv, Typed, Requests, Running
  <2>2. ASSUME ~Refuse(r), kind[r] \in {"change", "deactivate"}
        PROVE  Goto(r, "lockout") \/ Goto(r, "write")
    BY <2>2 DEF LoadUser
  <2> QED
    BY <1>1, <2>1, <2>2, RunningHere
<1>5. Lockout(r)' /\ Ending(r)'
  BY <1>1, <1>2, <1>4 DEF Lockout, LetThrough, Ending, Passed, Running
<1>6. Unspent(r)'
  BY <1>2, <1>3 DEF Unspent
<1> QED
  BY <1>5, <1>6 DEF Keeps

LEMMA KeepsWriteUser ==
  ASSUME TypeInv, RequestInv, NEW r \in Req, WriteUser(r), AttemptsGrow
  PROVE  Keeps(r)'
<1>1. /\ pc[r] \in {"write", "setPassword"} /\ Running(r) /\ Underway(r)
      /\ kind[r] \in {"change", "update", "deactivate"}
  BY DEF WriteUser, TypeInv, Typed, Requests, Running, Underway, OnPath, Kinds
<1>2. /\ pc'[r] = IF kind[r] = "update" THEN "commit" ELSE "readTokens"
      /\ job'[r] = job[r] /\ met'[r] = met[r] /\ kind' = kind /\ seen' = seen
  BY <1>1, RunningHere DEF WriteUser
<1>3. kind[r] = "change" => Cardinality(Counted(r)) < MaxFailures /\ Arrived(r)
  BY <1>1 DEF RequestInv, Keeps, Lockout, LetThrough, Underway, OnPath
<1>4. kind[r] = "change" => Identifier(r)' = Identifier(r)
  BY <1>2 DEF Identifier
<1>5. Lockout(r)'
  BY <1>1, <1>2, <1>3, <1>4, CountedStays DEF Lockout, LetThrough
<1> QED
  BY <1>1, <1>2, <1>5 DEF Keeps, Unspent, Ending, Passed

LEMMA KeepsReadTokens ==
  ASSUME TypeInv, RequestInv, NEW r \in Req, ReadTokens(r), AttemptsGrow
  PROVE  Keeps(r)'
<1> DEFINE open == OpenSessions(seen[r].user.id)
           s == [seen[r] EXCEPT !.left = open]
<1>1. pc[r] = "readTokens" /\ Running(r) /\ Underway(r) /\ kind[r] \in {"change", "deactivate"} /\ seen[r] \in Seen
  BY DEF ReadTokens, TypeInv, Typed, Requests, Running, Underway, OnPath, Kinds
<1>2. Look(r, "left", open) /\ tokens' = tokens
  BY DEF ReadTokens, Reads, committed
<1>3. /\ pc'[r] = "revoke" /\ job'[r] = job[r] /\ met'[r] = met[r] /\ kind' = kind
  BY <1>1, RunningHere DEF ReadTokens
<1>4. \A t \in met[r].open : tokens[t].user = job[r].user => tokens[t].revoked \/ t \in open
  BY <1>1 DEF RequestInv, Arrived, OpenSessions, Underway
<1> HIDE DEF open
<1>5. seen' = [seen EXCEPT ![r] = s] /\ s.left = open /\ s.user = seen[r].user
  BY <1>1, <1>2, LookAt DEF Seen
<1>6. seen'[r] = s
  BY <1>5 DEF TypeInv, Typed, Requests
<1> HIDE DEF s
<1>7. kind[r] = "change" => Cardinality(Counted(r)) < MaxFailures /\ Arrived(r)
  BY <1>1 DEF RequestInv, Keeps, Lockout, LetThrough
<1>8. kind[r] = "change" => Identifier(r)' = Identifier(r)
  BY <1>3, <1>5, <1>6 DEF Identifier
<1>9. Lockout(r)'
  BY <1>1, <1>3, <1>7, <1>8, CountedStays DEF Lockout, LetThrough
<1>10. Ending(r)'
  BY <1>2, <1>3, <1>4, <1>5, <1>6 DEF Ending, Passed
<1> QED
  BY <1>1, <1>3, <1>9, <1>10 DEF Keeps, Unspent

LEMMA KeepsRevokeNext ==
  ASSUME TypeInv, RequestInv, NEW r \in Req, RevokeNext(r), AttemptsGrow
  PROVE  Keeps(r)'
<1>1. pc[r] = "revoke" /\ Running(r) /\ kind[r] \in {"change", "deactivate"} /\ seen[r] \in Seen /\ txn[r] \in Written
  BY DEF RevokeNext, TypeInv, Typed, Requests, Running, Underway, OnPath, Kinds
<1>2. \A t \in met[r].open : tokens[t].user = job[r].user
        => tokens[t].revoked \/ t \in seen[r].left \/ t \in txn[r].revoked
  BY <1>1 DEF RequestInv, Keeps, Ending
<1>3. kind[r] = "change" => Cardinality(Counted(r)) < MaxFailures /\ Arrived(r)
  BY <1>1 DEF RequestInv, Keeps, Lockout, LetThrough
<1>4. /\ pc'[r] \in {"record", "commit", "revoke"} /\ job'[r] = job[r] /\ met'[r] = met[r] /\ kind' = kind
      /\ tokens' = tokens
  BY <1>1, RunningHere DEF RevokeNext, committed
<1>5. /\ seen'[r].user = seen[r].user
      /\ \A t \in met[r].open : tokens[t].user = job[r].user
           => tokens[t].revoked \/ (pc'[r] = "revoke" /\ t \in seen'[r].left) \/ t \in txn'[r].revoked
  <2>1. CASE seen[r].left = {}
    BY <1>2, <2>1 DEF RevokeNext
  <2>2. CASE seen[r].left # {}
    <3>1. PICK x \in seen[r].left :
            /\ txn' = [txn EXCEPT ![r].revoked = @ \cup {x}]
            /\ Look(r, "left", seen[r].left \ {x}) /\ Goto(r, "revoke")
      BY <2>2 DEF RevokeNext
    <3> DEFINE s == [seen[r] EXCEPT !.left = @ \ {x}]
               w == [txn[r] EXCEPT !.revoked = @ \cup {x}]
    <3>2. s.left = seen[r].left \ {x} /\ s.user = seen[r].user /\ w.revoked = txn[r].revoked \cup {x}
      BY <1>1 DEF Seen, Written
    <3>3. seen' = [seen EXCEPT ![r] = s] /\ txn' = [txn EXCEPT ![r] = w]
      BY <1>1, <3>1, LookAt DEF Seen, Written
    <3> HIDE DEF s, w
    <3>4. seen'[r] = s /\ txn'[r] = w /\ pc'[r] = "revoke"
      BY <1>1, <3>1, <3>3, RunningHere DEF TypeInv, Typed, Requests
    <3> QED
      BY <1>2, <3>2, <3>4
  <2> QED
    BY <2>1, <2>2
<1>6. kind[r] = "change" => Identifier(r)' = Identifier(r)
  BY <1>4, <1>5 DEF Identifier
<1>7. Lockout(r)'
  <2>1. kind[r] = "deactivate" => ~LetThrough(r)'
    BY <1>4 DEF LetThrough
  <2> QED
    BY <1>1, <1>3, <1>4, <1>6, <2>1, CountedStays DEF Lockout
<1>8. Ending(r)'
  BY <1>4, <1>5 DEF Ending, Passed
<1> QED
  BY <1>1, <1>4, <1>7, <1>8 DEF Keeps, Unspent

LEMMA KeepsOwn ==
  ASSUME TypeInv, RequestInv, NEW r \in Req, Step(r) \/ Abort(r)
  PROVE  Keeps(r)'
<1>1. StepOf(r) /\ AttemptsGrow /\ kind' = kind
  BY RequestStep DEF StepOf, OthersStay
<1>2. CASE StampAndIssue(r) \/ AnswerCode(r) \/ FindEmail(r) \/ InsertUser(r)
  <2>1. Running(r) /\ pc[r] \in {"stamp", "answer", "findEmail", "insert"}
    BY <1>2 DEF StampAndIssue, AnswerCode, FindEmail, InsertUser, Running
  <2>2. kind[r] \in {"verify", "create"}
    BY <2>1 DEF TypeInv, Typed, Requests, Underway, OnPath, Kinds
  <2> QED
    BY <1>1, <2>2, KeepsVerify
<1>3. CASE MakeCode(r) \/ Commit(r)
  <2>1. ~Running(r)'
    BY <1>3 DEF MakeCode, Commit, Close, MailOutcomes, Running, TypeInv, Typed, Requests
  <2> QED
    BY <2>1, KeepsClosed
<1>4. CASE Ends(r)
  BY <1>4, KeepsClosed DEF Ends, Running
<1>5. CASE Abort(r)
  <2>1. ~Running(r)'
    BY <1>5 DEF Abort, Close, Running, TypeInv, Typed, Requests
  <2> QED
    BY <2>1, KeepsClosed
<1>6. CASE LoadToken(r) \/ Spend(r) \/ LoadUser(r)
  BY <1>4, <1>6, LoadTokenGoesOn, SpendGoesOn, LoadUserGoesOn, KeepsLoadToken, KeepsSpend, KeepsLoadUser
<1> QED
  BY <1>1, <1>2, <1>3, <1>5, <1>6, KeepsCheckLockout, KeepsFindUser, KeepsRecord, KeepsWriteUser,
     KeepsReadTokens, KeepsRevokeNext DEF Step

\* Only a commit puts a token on record, and with it revokes the one it was given for.
LEMMA PassedOnOwn ==
  ASSUME TypeInv, RequestInv, NEW r \in Req, Step(r) \/ Abort(r)
  PROVE  PassedOn(r)'
<1>1. /\ StepOf(r) /\ TypeInv' /\ kind' = kind /\ TokensGrow /\ AttemptsGrow /\ Running(r)
      /\ tokens[r] = None
  <2>1. Running(r)
    BY DEF Step, Abort, Running, CheckLockout, Record, FindUser, MakeCode, AnswerCode, StampAndIssue,
         LoadToken, Spend, LoadUser, WriteUser, ReadTokens, RevokeNext, FindEmail, InsertUser, Commit
  <2> QED
    BY <2>1, RequestStep, StepKeepsTypes DEF StepOf, OthersStay, TypeInv, NotYetMade
<1>2. CASE Commit(r)
  <2>1. pc[r] = "commit" /\ CommitRows(r)
    BY <1>2 DEF Commit
  <2>2. /\ tokens'[r] = txn[r].token /\ \A t \in txn[r].revoked : tokens'[t].revoked
    BY <1>1, <2>1, RowsCommitted
  <2>3. Underway(r)
    BY <1>1 DEF TypeInv, Typed
  <2>4. kind[r] = "refresh" /\ tokens'[r] # None
        => /\ tokens'[r].from = job[r].token /\ job[r].token \in OnRecord(tokens)'
           /\ tokens'[job[r].token].revoked
    BY <1>1, <2>1, <2>2, <2>3, TablesStay DEF Underway
  <2> QED
    BY <1>1, <2>4 DEF PassedOn
<1>3. CASE Record(r)
  BY <1>3, RecordTypes DEF PassedOn
<1>4. CASE Quiet(r) \/ MakeCode(r) \/ AnswerCode(r)
  <2>1. tokens' = tokens
    BY <1>4, AnswerEffects DEF Quiet, GoesOn, Ends, MakeCode, committed
  <2> QED
    BY <1>1, <2>1 DEF PassedOn
<1> QED
  BY <1>2, <1>3, <1>4, QuietSteps

LEMMA MetStays ==
  ASSUME TypeInv, NEW r \in Req, Step(r) \/ Abort(r), Running(r)'
  PROVE  Running(r) /\ met'[r] = met[r]
<1>1. Running(r)
  BY DEF Step, Abort, Running, CheckLockout, Record, FindUser, MakeCode, AnswerCode, StampAndIssue,
         LoadToken, Spend, LoadUser, WriteUser, ReadTokens, RevokeNext, FindEmail, InsertUser, Commit
<1>2. CASE Quiet(r)
  BY <1>1, <1>2 DEF Quiet, GoesOn, Ends, Running
<1>3. CASE MakeCode(r) \/ Commit(r)
  <2>1. ~Running(r)'
    BY <1>3 DEF MakeCode, Commit, Close, MailOutcomes, Running, TypeInv, Typed, Requests
  <2> QED
    BY <2>1
<1>4. CASE AnswerCode(r)
  BY <1>1, <1>4, AnswerEffects
<1>5. CASE Record(r)
  <2>1. pc'[r] \notin {"refused", "done"}
    BY DEF Running
  <2> QED
    BY <1>1, <1>5, <2>1, RecordTypes
<1> QED
  BY <1>2, <1>3, <1>4, <1>5, QuietSteps

LEMMA RequestSteps ==
  ASSUME TypeInv, RequestInv, NEW r \in Req, Step(r) \/ Abort(r)
  PROVE  RequestInv'
<1>1. StepOf(r) /\ TypeInv' /\ TokensGrow /\ AttemptsGrow
  BY RequestStep, StepKeepsTypes DEF StepOf
<1>2. Arrived(r)' /\ PassedOn(r)' /\ Keeps(r)'
  BY <1>1, MetStays, ArrivedStays, PassedOnOwn, KeepsOwn DEF RequestInv
<1>3. ASSUME NEW q \in Req, q # r PROVE Arrived(q)' /\ PassedOn(q)' /\ Keeps(q)'
  <2>1. /\ kind'[q] = kind[q] /\ pc'[q] = pc[q] /\ job'[q] = job[q] /\ seen'[q] = seen[q]
        /\ txn'[q] = txn[q] /\ met'[q] = met[q] /\ (tokens[q] = None => tokens'[q] = None)
    BY <1>1, <1>3 DEF StepOf, OthersStay, TokenIds
  <2> QED
    BY <1>1, <2>1, KeepsStay
<1> QED
  BY <1>2, <1>3 DEF RequestInv

LEMMA RequestSend ==
  ASSUME TypeInv, RequestInv, NEW r \in Req, Send(r)
  PROVE  RequestInv'
<1>1. /\ StepOf(r) /\ TypeInv' /\ TokensGrow /\ AttemptsGrow
      /\ UNCHANGED <<tokens, attempts, kind, seen>> /\ pc[r] = "idle" /\ tokens[r] = None
      /\ pc'[r] = First(kind[r]) /\ Waiting(r)
  BY SendTypes, StepKeepsTypes DEF StepOf, Send, committed, TypeInv, Typed, Requests, NotYetMade
<1>2. met'[r] = [failures |-> {a \in OnRecord(attempts) : ~attempts[a].success},
                 spent |-> {t \in OnRecord(tokens) : tokens[t].revoked \/ t \in Refreshed},
                 open |-> {t \in OnRecord(tokens) : ~tokens[t].revoked}]
  BY DEF Send, TypeInv, Typed, Requests
<1>3. \A t \in Refreshed : tokens[t].revoked
  BY DEF Refreshed, RequestInv, PassedOn, OnRecord
<1>4. Arrived(r)'
  BY <1>1, <1>2, <1>3 DEF Arrived
<1>5. PassedOn(r)'
  BY <1>1 DEF PassedOn
<1>6. Keeps(r)'
  <2>1. /\ pc'[r] \in {"lockout", "answer", "loadToken", "findEmail", "loadUser"}
        /\ (kind[r] = "refresh" => pc'[r] = "loadToken")
    BY <1>1 DEF First
  <2> QED
    BY <1>1, <2>1 DEF Keeps, Lockout, LetThrough, Unspent, Ending, Passed
<1>7. ASSUME NEW q \in Req, q # r PROVE Arrived(q)' /\ PassedOn(q)' /\ Keeps(q)'
  <2>1. /\ kind'[q] = kind[q] /\ pc'[q] = pc[q] /\ job'[q] = job[q] /\ seen'[q] = seen[q]
        /\ txn'[q] = txn[q] /\ met'[q] = met[q] /\ (tokens[q] = None => tokens'[q] = None)
    BY <1>1, <1>7 DEF StepOf, OthersStay, TokenIds
  <2> QED
    BY <1>1, <2>1, KeepsStay
<1> QED
  BY <1>4, <1>5, <1>6, <1>7 DEF RequestInv

LEMMA RequestNext ==
  ASSUME TypeInv, RequestInv, [Next]_vars
  PROVE  RequestInv'
<1>1. TypeInv' /\ TokensGrow /\ AttemptsGrow
  BY NextTypes
<1>2. ASSUME Tables', TimePasses PROVE RequestInv'
  BY <1>1, <1>2, KeepsStay DEF TimePasses, TokenIds, RequestInv
<1>3. ASSUME Restart PROVE RequestInv'
  <2>1. /\ UNCHANGED <<committed, kind>> /\ \A q \in Req : ~Running(q)'
    BY <1>3, RestartTypes
  <2>2. ASSUME NEW q \in Req PROVE Arrived(q)' /\ PassedOn(q)'
    <3>1. PassedOn(q)
      BY DEF RequestInv
    <3> QED
      BY <2>1, <3>1 DEF Arrived, PassedOn, committed, OnRecord
  <2> QED
    BY <2>1, <2>2, KeepsClosed DEF RequestInv
<1> QED
  BY <1>2, <1>3, StepSorts, RequestSend, RequestSteps

LEMMA RequestInit ==
  ASSUME Init
  PROVE  RequestInv
<1>1. /\ \A r \in Req : pc[r] = "idle" /\ tokens[r] = None
  BY InputsTyped DEF Init
<1> QED
  BY <1>1 DEF RequestInv, Arrived, PassedOn, Keeps, Lockout, LetThrough, Unspent, Ending, Running

\* What was true of the record when a request arrived is still true of it when the request
\* is answered, as far as its answer relies on it.
THEOREM RequestsKeep == Spec => [](TypeInv /\ RequestInv)
<1>1. Init => TypeInv /\ RequestInv
  BY InitTypes, RequestInit
<1>2. TypeInv /\ RequestInv /\ [Next]_vars => (TypeInv /\ RequestInv)'
  BY NextTypes, RequestNext
<1> QED
  BY <1>1, <1>2, PTL DEF Spec

-----------------------------------------------------------------------------
\* No password is compared for an identifier that already had the limit of failures, all
\* still in the window, when the request arrived: a failure only ever leaves the window.
THEOREM LockoutComesFirstHolds == Spec => []LockoutComesFirst
<1>1. TypeInv /\ RequestInv => LockoutComesFirst
  BY DEF RequestInv, Keeps, Lockout, LetThrough, Counted, LockoutComesFirst
<1> QED
  BY <1>1, RequestsKeep, PTL

\* Whoever's statement or session is new has taken the step.
LEMMA OwnStep ==
  ASSUME TypeInv, [Next]_vars, NEW r \in Req,
         pc'[r] \notin {pc[r], "failed"} \/ (tokens[r] = None /\ tokens'[r] # None)
  PROVE  Send(r) \/ Step(r) \/ Abort(r)
<1>1. r \in TokenIds
  BY DEF TokenIds
<1>2. ASSUME Tables', TimePasses PROVE FALSE
  BY <1>1, <1>2 DEF TimePasses
<1>3. ASSUME Restart PROVE FALSE
  BY <1>3, RestartTypes DEF committed
<1>4. ASSUME NEW q \in Req, q # r, Send(q) \/ Step(q) \/ Abort(q) PROVE FALSE
  BY <1>1, <1>4, RequestStep DEF StepOf, OthersStay
<1> QED
  BY <1>2, <1>3, <1>4, StepSorts

\* A token that was revoked, or had been given for another, before a refresh arrived gives no
\* new one: whoever gave it for another revoked it in the same commit.
THEOREM SpentTokensStaySpentHolds == Spec => SpentTokensStaySpent
<1>1. ASSUME TypeInv, RequestInv, [Next]_vars, NEW r \in Req,
             tokens[r] = None, tokens'[r] # None, kind[r] = "refresh"
      PROVE  tokens'[r].from \notin met[r].spent
  <2>1. Step(r) \/ Abort(r)
    BY <1>1, OwnStep DEF Send, committed
  <2>2. Commit(r)
    <3>1. Quiet(r) \/ MakeCode(r) \/ AnswerCode(r) => tokens' = tokens
      BY AnswerEffects, <1>1 DEF Quiet, GoesOn, Ends, MakeCode, committed
    <3>2. Record(r) => tokens'[r] = None
      BY <1>1, RecordTypes
    <3> QED
      BY <1>1, <2>1, <3>1, <3>2, QuietSteps
  <2>3. pc[r] = "commit" /\ CommitRows(r) /\ Running(r)
    BY <2>2 DEF Commit, Running
  <2>4. tokens'[r] = txn[r].token /\ Underway(r)
    BY <1>1, <2>3, RowsCommitted DEF TypeInv, Typed
  <2>5. tokens'[r].from = job[r].token
    BY <1>1, <2>4 DEF Underway
  <2>6. job[r].token \notin met[r].spent
    BY <1>1, <2>3 DEF RequestInv, Keeps, Unspent
  <2> QED
    BY <2>5, <2>6
<1>2. TypeInv /\ RequestInv /\ [Next]_vars
      => [\A r \in Req : tokens[r] = None /\ tokens'[r] # None /\ kind[r] = "refresh"
            => tokens'[r].from \notin met[r].spent]_vars
  BY <1>1
<1> QED
  BY <1>2, RequestsKeep, PTL DEF Spec, SpentTokensStaySpent

\* When a change of password or a deactivation is answered, every session of that user that
\* was open when it arrived is over: it was read as open and revoked with the same commit, or
\* had ended by then.
THEOREM EndedSessionsAreOverHolds == Spec => EndedSessionsAreOver
<1>1. ASSUME TypeInv, RequestInv, [Next]_vars, NEW r \in Req,
             Running(r), pc'[r] = "done", kind[r] \in {"change", "deactivate"},
             NEW t \in met[r].open, tokens[t].user = job[r].user
      PROVE  tokens'[t].revoked
  <2>1. Step(r) \/ Abort(r)
    BY <1>1, OwnStep DEF Send, Running
  <2>2. (Record(r) /\ Passed(r)) \/ Commit(r)
    <3>1. Quiet(r) => pc'[r] # "done"
      BY DEF Quiet, GoesOn, Ends
    <3>2. ~MakeCode(r) /\ ~AnswerCode(r)
      BY <1>1 DEF MakeCode, AnswerCode, TypeInv, Typed, Underway, OnPath
    <3>3. Record(r) => Passed(r)
      BY <1>1, RecordTypes
    <3> QED
      BY <1>1, <2>1, <3>1, <3>2, <3>3, QuietSteps
  <2>3. CommitRows(r) /\ (pc[r] = "commit" \/ Passed(r))
    BY <2>2 DEF Record, Commit
  <2>4. tokens[t].revoked \/ t \in txn[r].revoked
    BY <1>1, <2>3 DEF RequestInv, Keeps, Ending
  <2>5. /\ \A x \in txn[r].revoked : tokens'[x].revoked
        /\ \A x \in OnRecord(tokens) : tokens[x].revoked => tokens'[x].revoked
    BY <1>1, <2>3, RowsCommitted DEF TokensGrow
  <2>6. t \in OnRecord(tokens)
    BY <1>1 DEF RequestInv, Arrived
  <2> QED
    BY <2>4, <2>5, <2>6
<1>2. TypeInv /\ RequestInv /\ [Next]_vars
      => [\A r \in Req : Running(r) /\ pc'[r] = "done" /\ kind[r] \in {"change", "deactivate"}
            => \A t \in met[r].open : tokens[t].user = job[r].user => tokens'[t].revoked]_vars
  BY <1>1
<1> QED
  BY <1>2, RequestsKeep, PTL DEF Spec, EndedSessionsAreOver

\* A request refused at the lockout, for a password or for a wrong answer has its failure on
\* record when it is answered: the record is committed on its own before the refusal.
THEOREM RefusalsOnRecordHolds == Spec => RefusalsOnRecord
<1>1. ASSUME TypeInv, [Next]_vars, NEW r \in Req,
             pc[r] \in {"lockout", "findUser", "answer", "record"}, pc'[r] = "refused"
      PROVE  attempts'[r] # None /\ ~attempts'[r].success
  <2>1. Step(r) \/ Abort(r)
    BY <1>1, OwnStep DEF Send
  <2>2. ~Abort(r)
    BY <1>1 DEF Abort, Close, TypeInv, Typed, Requests
  <2>3. CheckLockout(r) \/ FindUser(r) \/ AnswerCode(r) \/ Record(r)
    BY <1>1, <2>1, <2>2 DEF Step, MakeCode, StampAndIssue, LoadToken, Spend, LoadUser, WriteUser,
       ReadTokens, RevokeNext, FindEmail, InsertUser, Commit
  <2>4. Running(r)
    BY <1>1 DEF Running
  <2>5. ~CheckLockout(r)
    <3>1. CheckLockout(r) => Goto(r, "record") \/ Goto(r, "findUser") \/ Goto(r, "setPassword")
      BY DEF CheckLockout
    <3> QED
      BY <1>1, <2>4, <3>1, RunningHere
  <2>6. ~FindUser(r) /\ ~AnswerCode(r)
    <3>1. FindUser(r) \/ AnswerCode(r) => Goto(r, "record") \/ Goto(r, "loadUser")
      BY DEF FindUser, AnswerCode
    <3> QED
      BY <1>1, <2>4, <3>1, RunningHere
  <2>7. Record(r) /\ ~Passed(r)
    <3>1. Record(r)
      BY <2>3, <2>5, <2>6
    <3> QED
      BY <1>1, <2>4, <3>1, RecordTypes DEF Record, TypeInv, Typed, Underway, OnPath
  <2>8. attempts'[r] = Row(r) /\ Row(r) \in Attempt
    BY <1>1, <2>7, RecordTypes DEF TypeInv, Typed, Tables, AttemptIds
  <2> QED
    BY <1>1, <2>7, <2>8, RowTyped, IdsAreDistinct DEF Record
<1>2. TypeInv /\ [Next]_vars
      => [\A r \in Req : pc[r] \in {"lockout", "findUser", "answer", "record"} /\ pc'[r] = "refused"
            => attempts'[r] # None /\ ~attempts'[r].success]_vars
  BY <1>1
<1> QED
  BY <1>2, RequestsKeep, PTL DEF Spec, RefusalsOnRecord
=============================================================================
