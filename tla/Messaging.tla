----------------------------- MODULE Messaging -----------------------------
(***************************************************************************)
(* What leaves the station: offers to a list of recipients, reminders to   *)
(* credit customers, audit reports by mail; the delivery reports that come *)
(* back; the list of recipients and the station's profile that are read.   *)
(*                                                                         *)
(* Meta and the mail server are outside.  Meta may accept a message whose  *)
(* answer is lost.  Delivery reports are posted at any time, in any order, *)
(* more than once, several in one post, and by anyone: the webhook checks  *)
(* no signature.  Every await of a request is a step boundary; a request's *)
(* writes are seen once it commits.                                        *)
(***************************************************************************)
EXTENDS Integers, FiniteSets, SequencesExt

CONSTANTS
  Req,            \* requests that may arrive; also the id of the recipient each adds
  OldCustomers,   \* recipients on the list before
  Phones,
  None,
  MaxSelected,    \* ids a client names in one offer
  MaxReports,     \* delivery reports in one post
  KnownIds,       \* ids of messages that may be posted about
  Reported,       \* what a report may say of a message; not all of it is recognized
  Providers,      \* settings.sms_provider: "dev", "meta", or "meta" without credentials
  Asks,           \* what clients may send
  Databases,      \* what may be on record before the requests arrive
  Loads           \* which kinds of request arrive together: functions of Req

CustIds == OldCustomers \cup Req
Slots == Req \X (1 .. MaxSelected)     \* a row of an offer; also the id of its message
MsgIds == Slots
Recognized == {"sent", "delivered", "read", "failed"}
Statuses == Recognized \cup {"pending", "blocked"}
Report == [msg : MsgIds, status : Reported]

OfferCustomer == [name : STRING, phone : Phones \cup {None}, active : BOOLEAN]
\* "cust" is history: whom the row was made for.
Recipient == [cust : CustIds, phone : Phones \cup {None}, status : Statuses,
              msg : MsgIds \cup {None}]

Kinds == {"offer", "remind", "audit", "post", "create", "update", "delete", "station", "none"}

ASSUME MessagingBounds ==
  /\ Loads \subseteq [Req -> Kinds]
  /\ MaxSelected \in Nat \ {0} /\ MaxReports \in Nat \ {0}
  /\ Providers \subseteq {"dev", "meta", "unconfigured"}

\* The request schemas: what a client names is there for its kind, and typed.
ASSUME AsksTyped ==
  \A j \in Asks :
    /\ j.kind \in Kinds
    /\ j.kind = "offer" => j.ids \in Seq(CustIds) /\ Len(j.ids) <= MaxSelected
    /\ j.kind = "remind" => j.phone \in Phones \cup {None}
    /\ j.kind \in {"update", "delete"} => j.cust \in CustIds
    /\ j.kind = "create" => {"name", "phone"} \subseteq DOMAIN j.set
    /\ j.kind \in {"create", "update"} =>
         /\ "phone" \in DOMAIN j.set => j.set["phone"] \in Phones \cup {None}
         /\ "active" \in DOMAIN j.set => j.set["active"] \in BOOLEAN

ASSUME DatabasesTyped ==
  \A d \in Databases : /\ d.customers \in [CustIds -> OfferCustomer \cup {None}]
                       /\ d.stations \subseteq Req \cup OldCustomers

ASSUME NoneIsNoValue ==
  None \notin Recipient \cup OfferCustomer \cup MsgIds \cup Phones
               \cup [cust : CustIds, to : Phones \cup {None}]

VARIABLES
  customers,    \* offer_customers
  stations,     \* Stations: the makers of its rows
  rows,         \* Offer_Send_Recipients
  audits,       \* Audit_Email_Sends: the requests that made a row
  provider,
  \* outside
  accepted,     \* the messages Meta has accepted: whom they were for and where they went
  posted,       \* the reports that were posted, by Meta or by anyone else
  mails,        \* the audit reports the mail server has accepted
  \* one per request
  kind, pc, job,
  seen,         \* what it has read: recipients, a customer, or a report's row
  made,         \* rows an offer has made and not committed
  \* history
  shown         \* reports that were matched with a row

database == <<customers, stations, rows, audits>>
outside == <<accepted, posted, mails>>
vars == <<database, provider, outside, kind, pc, job, seen, made, shown>>

OnRecord(table) == {i \in DOMAIN table : table[i] # None}
Running(r) == pc[r] \notin {"idle", "done", "refused", "failed"}
-----------------------------------------------------------------------------
Init ==
  /\ \E d \in Databases : customers = d.customers /\ stations = d.stations
  /\ rows = [i \in Slots |-> None]
  /\ audits = {}
  /\ provider \in Providers
  /\ accepted = [m \in MsgIds |-> None]
  /\ posted = {} /\ mails = {} /\ shown = {}
  /\ kind \in Loads
  /\ pc = [r \in Req |-> "idle"]
  /\ job = [r \in Req |-> None]
  /\ seen = [r \in Req |-> <<>>]
  /\ made = [r \in Req |-> <<>>]

Goto(r, at) == pc' = [pc EXCEPT ![r] = at] /\ UNCHANGED <<kind, provider>>
Keep(r, what) == seen' = [seen EXCEPT ![r] = what]
\* The request is over; what it had not committed is gone.
End(r, outcome) ==
  /\ Goto(r, outcome)
  /\ seen' = [seen EXCEPT ![r] = <<>>]
  /\ made' = [made EXCEPT ![r] = <<>>]
Refuse(r) == End(r, "refused") /\ UNCHANGED <<database, outside, job, shown>>
Only == UNCHANGED <<job, shown>>

First(k) == CASE k = "offer" -> "loadRecipients"
              [] k = "remind" -> "loadStation"
              [] k = "audit" -> "mail"
              [] k = "post" -> "nextReport"
              [] k = "create" -> "checkName"
              [] k \in {"update", "delete"} -> "loadCustomer"
              [] k = "station" -> "findStation"

\* Nothing ties a post to Meta, or to a message that Meta has accepted.
Posts == UNION {[1 .. n -> {p \in Report : p.msg \in KnownIds}] : n \in 1 .. MaxReports}

\* A client's request, or a post of reports.
Send(r) ==
  /\ pc[r] = "idle" /\ kind[r] # "none"
  /\ IF kind[r] = "post"
     THEN \E p \in Posts :
            /\ job' = [job EXCEPT ![r] = p]
            /\ posted' = posted \cup ToSet(p)
     ELSE /\ \E j \in Asks : j.kind = kind[r] /\ job' = [job EXCEPT ![r] = j]
          /\ UNCHANGED posted
  /\ Goto(r, First(kind[r]))
  /\ UNCHANGED <<database, accepted, mails, seen, made, shown>>
-----------------------------------------------------------------------------
(***************************************************************************)
(* The provider: what a call of send_template may come to.  A message that *)
(* was accepted has an id; the caller learns it unless the answer is lost, *)
(* which is an error to it, or does not hold it.                           *)
(***************************************************************************)
Outcome == [accepted : BOOLEAN, ok : BOOLEAN, id : BOOLEAN]
send_template(to) ==
  CASE provider = "dev" -> {[accepted |-> FALSE, ok |-> TRUE, id |-> FALSE]}
    [] provider = "unconfigured" \/ to = None -> {[accepted |-> FALSE, ok |-> FALSE, id |-> FALSE]}
    [] OTHER -> {o \in Outcome : (o.id => o.ok) /\ (o.ok => o.accepted)}

Delivered(m, cust, to, o) ==
  accepted' = IF o.accepted THEN [accepted EXCEPT ![m] = [cust |-> cust, to |-> to]] ELSE accepted
-----------------------------------------------------------------------------
(***************************************************************************)
(* Offers                                                                  *)
(***************************************************************************)
\* list(dict.fromkeys(...)): the first of each id, in order.
\* Mutation of Distinct: an id that is named twice is sent to twice.
AsNamed(ids) == ids
Distinct(ids) ==
  FoldLeft(LAMBDA kept, c : IF c \in ToSet(kept) THEN kept ELSE Append(kept, c), <<>>, ids)

\* One SELECT: all of them have to be there.
LoadRecipients(r) ==
  /\ pc[r] = "loadRecipients"
  /\ LET ids == Distinct(job[r].ids) IN
     IF ~(ToSet(ids) \subseteq OnRecord(customers)) THEN Refuse(r)
     ELSE /\ Keep(r, [i \in DOMAIN ids |-> [cust |-> ids[i], phone |-> customers[ids[i]].phone]])
          /\ Goto(r, "loadStation") /\ Only /\ UNCHANGED <<database, outside, made>>

\* A reminder is refused first where the customer has no number.
LoadStation(r) ==
  /\ pc[r] = "loadStation"
  /\ IF stations = {} \/ (kind[r] = "remind" /\ job[r].phone = None) THEN Refuse(r)
     ELSE Goto(r, "dispatch") /\ Only /\ UNCHANGED <<database, outside, seen, made>>

NewRow(to, status, msg) == [cust |-> to.cust, phone |-> to.phone, status |-> status, msg |-> msg]

\* The next recipient: no number, or one call of the provider; an error is only noted.
Dispatch(r) ==
  /\ pc[r] = "dispatch" /\ kind[r] = "offer" /\ Len(made[r]) < Len(seen[r])
  /\ LET n == Len(made[r]) + 1
         to == seen[r][n]
     IN IF to.phone = None
        THEN /\ made' = [made EXCEPT ![r] = Append(@, NewRow(to, "blocked", None))]
             /\ UNCHANGED accepted
        ELSE \E o \in send_template(to.phone) :
               /\ Delivered(<<r, n>>, to.cust, to.phone, o)
               /\ made' = [made EXCEPT ![r] = Append(@, NewRow(to,
                    IF o.ok THEN "sent" ELSE "failed", IF o.id THEN <<r, n>> ELSE None))]
  /\ Goto(r, "dispatch") /\ Only /\ UNCHANGED <<database, posted, mails, seen>>

\* Mutation of SaveOffer: the number is read again when the rows are saved.
SaveOfferAnew(r) ==
  /\ pc[r] = "dispatch" /\ kind[r] = "offer" /\ Len(made[r]) = Len(seen[r])
  /\ rows' = [i \in Slots |->
       IF i[1] = r /\ i[2] \in DOMAIN made[r]
       THEN [made[r][i[2]] EXCEPT !.phone =
              IF customers[made[r][i[2]].cust] = None THEN None ELSE customers[made[r][i[2]].cust].phone]
       ELSE rows[i]]
  /\ End(r, "done") /\ Only /\ UNCHANGED <<customers, stations, audits, outside>>
\* All rows are committed together, once every message is out.
SaveOffer(r) ==
  /\ pc[r] = "dispatch" /\ kind[r] = "offer" /\ Len(made[r]) = Len(seen[r])
  /\ rows' = [i \in Slots |-> IF i[1] = r /\ i[2] \in DOMAIN made[r] THEN made[r][i[2]] ELSE rows[i]]
  /\ End(r, "done") /\ Only /\ UNCHANGED <<customers, stations, audits, outside>>
-----------------------------------------------------------------------------
(***************************************************************************)
(* Reminders and audit reports                                             *)
(***************************************************************************)
\* Leaves no row; an error is the answer.
Remind(r) ==
  /\ pc[r] = "dispatch" /\ kind[r] = "remind"
  /\ \E o \in send_template(job[r].phone) :
       /\ Delivered(<<r, 1>>, r, job[r].phone, o)
       /\ End(r, IF o.ok THEN "done" ELSE "refused")
  /\ Only /\ UNCHANGED <<database, posted, mails>>

\* Mutation of Mail: an error of the mail server is passed over.
MailAnyway(r) ==
  /\ pc[r] = "mail"
  /\ \E sent \in BOOLEAN :
       /\ mails' = IF sent THEN mails \cup {r} ELSE mails
       /\ Goto(r, "record") /\ UNCHANGED <<seen, made>>
  /\ Only /\ UNCHANGED <<database, accepted, posted>>
\* The server may have taken a mail whose answer is an error.
Mail(r) ==
  /\ pc[r] = "mail"
  /\ \/ mails' = mails \cup {r} /\ Goto(r, "record") /\ UNCHANGED <<seen, made>>
     \/ mails' \in {mails, mails \cup {r}} /\ End(r, "refused")
  /\ Only /\ UNCHANGED <<database, accepted, posted>>

RecordAudit(r) ==
  /\ pc[r] = "record"
  /\ audits' = audits \cup {r}
  /\ End(r, "done") /\ Only /\ UNCHANGED <<customers, stations, rows, outside>>
-----------------------------------------------------------------------------
(***************************************************************************)
(* Delivery reports                                                        *)
(***************************************************************************)
\* Mutation of Matching: a row is found by the number the message went to.
MatchingPhone(p) ==
  {i \in OnRecord(rows) :
     p.msg \in OnRecord(accepted) /\ rows[i].msg # None /\ rows[i].phone = accepted[p.msg].to}
Matching(p) == {i \in OnRecord(rows) : rows[i].msg = p.msg}
\* Mutation of Known: whatever Meta says is written down.
AnyStatus(p) == TRUE
Known(p) == p.status \in Recognized
Rest(r) == job' = [job EXCEPT ![r] = Tail(@)]

FindRow(r) ==
  /\ pc[r] = "nextReport" /\ job[r] # <<>>
  /\ LET p == Head(job[r]) IN
     IF ~Known(p) \/ Matching(p) = {}
     THEN Rest(r) /\ Goto(r, "nextReport") /\ UNCHANGED seen
     ELSE /\ \E i \in Matching(p) : Keep(r, [row |-> i, status |-> rows[i].status])
          /\ Goto(r, "writeReport") /\ UNCHANGED job
  /\ UNCHANGED <<database, outside, made, shown>>

Write(r) == [rows EXCEPT ![seen[r].row].status = Head(job[r]).status]
\* Nothing is written where the row that was read says the same.
\* Mutation of Written: only the last report of a post is written.
WrittenLast(r) == IF Len(job[r]) > 1 \/ seen[r].status = Head(job[r]).status THEN rows ELSE Write(r)
Written(r) == IF seen[r].status = Head(job[r]).status THEN rows ELSE Write(r)

\* Committed at once.
WriteReport(r) ==
  /\ pc[r] = "writeReport"
  /\ rows' = Written(r)
  /\ shown' = shown \cup {Head(job[r])}
  /\ Rest(r) /\ Keep(r, <<>>) /\ Goto(r, "nextReport")
  /\ UNCHANGED <<customers, stations, audits, outside, made>>

EndPost(r) ==
  /\ pc[r] = "nextReport" /\ job[r] = <<>>
  /\ End(r, "done") /\ Only /\ UNCHANGED <<database, outside>>
-----------------------------------------------------------------------------
(***************************************************************************)
(* The list of recipients and the station                                  *)
(***************************************************************************)
Others(r) == {c \in OnRecord(customers) : customers[c].active /\ c # job[r].cust}

LoadCustomer(r) ==
  /\ pc[r] = "loadCustomer"
  /\ IF job[r].cust \notin OnRecord(customers) THEN Refuse(r)
     ELSE /\ Keep(r, customers[job[r].cust])
          /\ Goto(r, IF kind[r] = "delete" THEN "write" ELSE "checkName")
          /\ Only /\ UNCHANGED <<database, outside, made>>

Sets(r) == DOMAIN job[r].set
CheckName(r) ==
  /\ pc[r] = "checkName"
  /\ IF "name" \in Sets(r) /\ \E c \in Others(r) : customers[c].name = job[r].set.name
     THEN Refuse(r)
     ELSE Goto(r, "checkPhone") /\ Only /\ UNCHANGED <<database, outside, seen, made>>

CheckPhone(r) ==
  /\ pc[r] = "checkPhone"
  /\ IF "phone" \in Sets(r) /\ job[r].set.phone # None
        /\ \E c \in Others(r) : customers[c].phone = job[r].set.phone
     THEN Refuse(r)
     ELSE Goto(r, "write") /\ Only /\ UNCHANGED <<database, outside, seen, made>>

\* Only what differs from what was read is written.
Put(r) ==
  IF kind[r] = "create" THEN [name |-> job[r].set.name, phone |-> job[r].set.phone, active |-> TRUE]
  ELSE LET c == customers[job[r].cust] IN
       [f \in DOMAIN c |-> IF f \in Sets(r) /\ job[r].set[f] # seen[r][f] THEN job[r].set[f] ELSE c[f]]

\* No constraint backs the checks.  To update a row that is gone is an error.
WriteCustomer(r) ==
  /\ pc[r] = "write" /\ kind[r] \in {"create", "update"}
  /\ LET c == IF kind[r] = "create" THEN r ELSE job[r].cust IN
     IF kind[r] = "update" /\ customers[c] = None THEN End(r, "failed") /\ UNCHANGED customers
     ELSE customers' = [customers EXCEPT ![c] = Put(r)] /\ End(r, "done")
  /\ Only /\ UNCHANGED <<stations, rows, audits, outside>>

\* Mutation of DeleteCustomer: the rows of past offers refer to the customer and go with it.
DeleteCascading(r) ==
  /\ pc[r] = "write" /\ kind[r] = "delete"
  /\ customers' = [customers EXCEPT ![job[r].cust] = None]
  /\ rows' = [i \in Slots |-> IF rows[i] # None /\ rows[i].cust = job[r].cust THEN None ELSE rows[i]]
  /\ End(r, "done") /\ Only /\ UNCHANGED <<stations, audits, outside>>
DeleteCustomer(r) ==
  /\ pc[r] = "write" /\ kind[r] = "delete"
  /\ customers' = [customers EXCEPT ![job[r].cust] = None]
  /\ End(r, "done") /\ Only /\ UNCHANGED <<stations, rows, audits, outside>>

FindStation(r) ==
  /\ pc[r] = "findStation"
  /\ IF stations # {} THEN Goto(r, "updateStation") /\ Only /\ UNCHANGED <<database, outside, seen, made>>
     ELSE IF ~job[r].named THEN Refuse(r)
     ELSE Goto(r, "insertStation") /\ Only /\ UNCHANGED <<database, outside, seen, made>>

\* Nothing but the search before it keeps the station single.
SaveStation(r) ==
  /\ pc[r] \in {"updateStation", "insertStation"}
  /\ stations' = IF pc[r] = "insertStation" THEN stations \cup {r} ELSE stations
  /\ End(r, "done") /\ Only /\ UNCHANGED <<customers, rows, audits, outside>>
-----------------------------------------------------------------------------
\* The database is lost to a request.  A post answers 200 and drops what is left of it.
Abort(r) ==
  /\ Running(r)
  /\ End(r, IF kind[r] = "post" THEN "done" ELSE "failed")
  /\ job' = IF kind[r] = "post" THEN [job EXCEPT ![r] = <<>>] ELSE job
  /\ UNCHANGED <<database, outside, shown>>

Step(r) ==
  \/ LoadRecipients(r) \/ LoadStation(r) \/ Dispatch(r) \/ SaveOffer(r) \/ Remind(r)
  \/ Mail(r) \/ RecordAudit(r) \/ FindRow(r) \/ WriteReport(r) \/ EndPost(r)
  \/ LoadCustomer(r) \/ CheckName(r) \/ CheckPhone(r) \/ WriteCustomer(r) \/ DeleteCustomer(r)
  \/ FindStation(r) \/ SaveStation(r)

Next == \E r \in Req : Send(r) \/ Step(r) \/ Abort(r)
Spec == Init /\ [][Next]_vars
-----------------------------------------------------------------------------
\* Every variable keeps its type.
TypeOK ==
  /\ \A c \in OnRecord(customers) : customers[c].phone \in Phones \cup {None} /\ customers[c].active \in BOOLEAN
  /\ stations \subseteq Req \cup OldCustomers /\ audits \subseteq Req /\ mails \subseteq Req
  /\ rows \in [Slots -> Recipient \cup {None}]
  /\ posted \subseteq Report /\ shown \subseteq posted
  /\ \A r \in Req : Len(made[r]) <= MaxSelected /\ ToSet(made[r]) \subseteq Recipient

\* An offer that was answered has one row for each recipient it named, whatever became of
\* the messages before; and none is sent to twice (OfferService.send).
OneOutcomeEach ==
  \A r \in Req : kind[r] = "offer" =>
    /\ pc[r] = "done" =>
         /\ {rows[i].cust : i \in {k \in OnRecord(rows) : k[1] = r}} = ToSet(job[r].ids)
         /\ \A i, k \in OnRecord(rows) : i[1] = r /\ k[1] = r /\ rows[i].cust = rows[k].cust => i = k
    /\ \A m, n \in OnRecord(accepted) :
         m[1] = r /\ n[1] = r /\ accepted[m].cust = accepted[n].cust => m = n

\* A row shows the number its message really went to, also when the recipient's number was
\* changed or the recipient deleted meanwhile; a row without a number has no message.
RowsMatchMessages ==
  \A i \in OnRecord(rows) :
    /\ rows[i].msg # None => accepted[rows[i].msg] = [cust |-> rows[i].cust, to |-> rows[i].phone]
    /\ rows[i].status = "blocked" <=> rows[i].phone = None

\* A status that the sending itself does not give was posted for this very message, by
\* whoever posted it (update_delivery_status; by Meta, as long as nobody forges posts): no
\* report of another message, delayed, repeated or beside this one, can put it there.
StatusesArePosted ==
  \A i \in OnRecord(rows) :
    rows[i].status \in {"sent", "failed", "blocked"}
    \/ [msg |-> rows[i].msg, status |-> rows[i].status] \in posted

\* Once a report has been matched with a row, the row shows what some such report said, even
\* if a later report of the same post fails (update_delivery_status commits each).
ReportsAreShown ==
  \A p \in shown : \A i \in OnRecord(rows) :
    rows[i].msg = p.msg => [msg |-> p.msg, status |-> rows[i].status] \in shown

\* An audit report on record was mailed, and one that was answered is on record.
AuditLogIsTrue ==
  audits \subseteq mails /\ {r \in Req : kind[r] = "audit" /\ pc[r] = "done"} \subseteq audits

\* What was sent stays on record as it was sent: only a report changes its status, no
\* change of the list of recipients does anything to it.
HistoryOutlivesRecipients ==
  [][\A i \in Slots : rows[i] # None =>
       \/ rows'[i] = rows[i]
       \/ rows'[i] # None /\ rows'[i] = [rows[i] EXCEPT !.status = rows'[i].status]
          /\ \E r \in Req : pc[r] = "writeReport"]_vars
=============================================================================
