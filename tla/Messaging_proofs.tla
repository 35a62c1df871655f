------------------------- MODULE Messaging_proofs --------------------------
(***************************************************************************)
(* What is on record of the audit mails is true, and what was sent is      *)
(* history, whatever the requests, recipients and bounds.                  *)
(***************************************************************************)
EXTENDS Messaging, SumTheorems

-----------------------------------------------------------------------------
Statement ==
  {"idle", "loadRecipients", "loadStation", "dispatch", "mail", "record", "nextReport", "writeReport",
   "loadCustomer", "checkName", "checkPhone", "write", "findStation", "updateStation",
   "insertStation", "done", "refused", "failed"}

\* A request for an audit mail goes its own way, and records only what was mailed.
AuditInv ==
  /\ kind \in [Req -> Kinds]
  /\ pc \in [Req -> Statement]
  /\ audits \subseteq mails
  /\ \A r \in Req : pc[r] = "record" => r \in mails
  /\ \A r \in Req : kind[r] = "audit" =>
       /\ pc[r] \in {"idle", "mail", "record", "done", "refused", "failed"}
       /\ pc[r] = "done" => r \in audits

LEMMA AuditInitially == Init => AuditInv
<1> SUFFICES ASSUME Init PROVE AuditInv
  OBVIOUS
<1>1. kind \in [Req -> Kinds]
  BY MessagingBounds DEF Init
<1>2. pc = [r \in Req |-> "idle"] /\ audits = {}
  BY DEF Init
<1> QED
  BY <1>1, <1>2 DEF AuditInv, Statement

\* What a step of r that takes it to "at" has to show.
LEMMA MoveKeeps ==
  ASSUME AuditInv, NEW r \in Req, NEW at \in Statement,
         kind' = kind, pc' = [pc EXCEPT ![r] = at],
         mails \subseteq mails', audits \subseteq audits', audits' \subseteq mails',
         at = "record" => r \in mails',
         kind[r] = "audit" => /\ at \in {"mail", "record", "done", "refused", "failed"}
                              /\ at = "done" => r \in audits'
  PROVE  AuditInv'
<1>1. \A q \in Req : pc'[q] = IF q = r THEN at ELSE pc[q]
  BY DEF AuditInv
<1>2. pc' \in [Req -> Statement] /\ kind' \in [Req -> Kinds]
  BY DEF AuditInv
<1>3. \A q \in Req : pc'[q] = "record" => q \in mails'
  BY <1>1 DEF AuditInv
<1>4. ASSUME NEW q \in Req, kind'[q] = "audit"
      PROVE  /\ pc'[q] \in {"idle", "mail", "record", "done", "refused", "failed"}
             /\ pc'[q] = "done" => q \in audits'
  <2>1. CASE q = r
    BY <1>1, <1>4, <2>1
  <2>2. CASE q # r
    BY <1>1, <1>4, <2>2 DEF AuditInv
  <2> QED
    BY <2>1, <2>2
<1> QED
  BY <1>2, <1>3, <1>4 DEF AuditInv

\* A step that leaves the mails and their record alone, takes r elsewhere than to the
\* record, and is not one of an audit mail unless it fails, keeps the invariant.
LEMMA ElsewhereKeeps ==
  ASSUME AuditInv, NEW r \in Req, NEW at \in Statement, at # "record",
         kind' = kind, pc' = [pc EXCEPT ![r] = at], mails' = mails, audits' = audits,
         kind[r] = "audit" => at \in {"mail", "refused", "failed"}
  PROVE  AuditInv'
BY MoveKeeps DEF AuditInv, Statement

LEMMA SendKeeps ==
  ASSUME AuditInv, NEW r \in Req, Send(r)
  PROVE  AuditInv'
<1>1. kind[r] \in Kinds \ {"none"}
  BY DEF AuditInv, Send
<1>2. First(kind[r]) \in Statement /\ First(kind[r]) # "record"
      /\ (kind[r] = "audit" => First(kind[r]) = "mail")
  BY <1>1 DEF First, Kinds, Statement
<1>3. kind' = kind /\ pc' = [pc EXCEPT ![r] = First(kind[r])] /\ mails' = mails /\ audits' = audits
  BY DEF Send, Goto, database
<1> QED
  BY <1>2, <1>3, ElsewhereKeeps

LEMMA MailKeeps ==
  ASSUME AuditInv, NEW r \in Req, Mail(r)
  PROVE  AuditInv'
<1>1. kind' = kind /\ audits' = audits
  BY DEF Mail, Goto, End, database
<1>2. CASE mails' = mails \cup {r} /\ pc' = [pc EXCEPT ![r] = "record"]
  BY <1>1, <1>2, MoveKeeps DEF AuditInv, Statement
<1>3. CASE mails' \in {mails, mails \cup {r}} /\ pc' = [pc EXCEPT ![r] = "refused"]
  BY <1>1, <1>3, MoveKeeps DEF AuditInv, Statement
<1> QED
  BY <1>2, <1>3 DEF Mail, Goto, End

LEMMA RecordAuditKeeps ==
  ASSUME AuditInv, NEW r \in Req, RecordAudit(r)
  PROVE  AuditInv'
<1>1. /\ kind' = kind /\ mails' = mails /\ audits' = audits \cup {r}
      /\ pc' = [pc EXCEPT ![r] = "done"] /\ pc[r] = "record"
  BY DEF RecordAudit, Goto, End, outside
<1> QED
  BY <1>1, MoveKeeps DEF AuditInv, Statement

\* The actions that mail and record nothing, and the statement each goes on to.
LEMMA OthersKeep ==
  ASSUME AuditInv, NEW r \in Req,
         \/ LoadRecipients(r) \/ LoadStation(r) \/ Dispatch(r) \/ SaveOffer(r) \/ Remind(r)
         \/ FindRow(r) \/ WriteReport(r) \/ EndPost(r)
         \/ LoadCustomer(r) \/ CheckName(r) \/ CheckPhone(r) \/ WriteCustomer(r) \/ DeleteCustomer(r)
         \/ FindStation(r) \/ SaveStation(r)
  PROVE  AuditInv'
<1>1. kind[r] # "audit"
  BY DEF AuditInv, LoadRecipients, LoadStation, Dispatch, SaveOffer, Remind, FindRow, WriteReport,
         EndPost, LoadCustomer, CheckName, CheckPhone, WriteCustomer, DeleteCustomer, FindStation,
         SaveStation
<1>2. mails' = mails /\ audits' = audits /\ kind' = kind
  BY DEF LoadRecipients, LoadStation, Dispatch, SaveOffer, Remind, FindRow, WriteReport,
         EndPost, LoadCustomer, CheckName, CheckPhone, WriteCustomer, DeleteCustomer, FindStation,
         SaveStation, Refuse, Goto, End, database, outside
<1>3. \E at \in Statement : at # "record" /\ pc' = [pc EXCEPT ![r] = at]
  BY DEF LoadRecipients, LoadStation, Dispatch, SaveOffer, Remind, FindRow, WriteReport,
         EndPost, LoadCustomer, CheckName, CheckPhone, WriteCustomer, DeleteCustomer, FindStation,
         SaveStation, Refuse, Goto, End, Statement
<1> QED
  BY <1>1, <1>2, <1>3, ElsewhereKeeps

LEMMA AbortKeeps ==
  ASSUME AuditInv, NEW r \in Req, Abort(r)
  PROVE  AuditInv'
<1>1. /\ kind' = kind /\ mails' = mails /\ audits' = audits
      /\ pc' = [pc EXCEPT ![r] = IF kind[r] = "post" THEN "done" ELSE "failed"]
  BY DEF Abort, Goto, End, database, outside
<1> QED
  BY <1>1, ElsewhereKeeps DEF Statement

LEMMA AuditStep == AuditInv /\ [Next]_vars => AuditInv'
<1> SUFFICES ASSUME AuditInv, [Next]_vars PROVE AuditInv'
  OBVIOUS
<1>1. CASE UNCHANGED vars
  BY <1>1 DEF vars, database, outside, AuditInv
<1>2. ASSUME NEW r \in Req, Send(r) \/ Step(r) \/ Abort(r) PROVE AuditInv'
  BY <1>2, SendKeeps, MailKeeps, RecordAuditKeeps, OthersKeep, AbortKeeps DEF Step
<1> QED
  BY <1>1, <1>2 DEF Next

\* An audit report on record was mailed, and one that was answered is on record
\* (send_audit_email records only after the mail server has accepted).
THEOREM AuditLogTrue == Spec => []AuditLogIsTrue
<1>1. AuditInv => AuditLogIsTrue
  BY DEF AuditInv, AuditLogIsTrue
<1> QED
  BY AuditInitially, AuditStep, <1>1, PTL DEF Spec
-----------------------------------------------------------------------------
(***************************************************************************)
(* Distinct, for every sequence of names                                   *)
(***************************************************************************)
\* The last of finitely many places is one of them.
LEMMA LastPlace ==
  ASSUME NEW T, IsFiniteSet(T), T # {}, T \subseteq Int
  PROVE  Max(T) \in T /\ \A y \in T : Max(T) >= y
<1> DEFINE B == {U \in SUBSET T : U = {} \/ \E x \in U : \A y \in U : x >= y}
<1>1. {} \in B
  OBVIOUS
<1>2. ASSUME NEW U \in SUBSET T, U # {}, \A x \in U : U \ {x} \in B
      PROVE  U \in B
  <2>1. PICK x \in U : TRUE
    BY <1>2
  <2>2. CASE U \ {x} = {}
    <3>1. \A y \in U : x >= y
      BY <2>2
    <3> QED
      BY <3>1
  <2>3. CASE U \ {x} # {}
    <3>1. PICK z \in U \ {x} : \A y \in U \ {x} : z >= y
      BY <1>2, <2>1, <2>3
    <3>2. CASE z >= x
      BY <3>1, <3>2
    <3>3. CASE ~ (z >= x)
      <4>1. \A y \in U : x >= y
        BY <3>1, <3>3
      <4> QED
        BY <4>1
    <3> QED
      BY <3>2, <3>3
  <2> QED
    BY <2>2, <2>3
<1>3. T \in B
  <2> HIDE DEF B
  <2>1. \A U \in SUBSET T : U \in B
    BY <1>1, <1>2, SubsetInduction
  <2> QED
    BY <2>1
<1>4. \E x \in T : \A y \in T : x >= y
  BY <1>3
<1> QED
  BY <1>4, Zenon DEF Max

\* One step of the fold of Distinct: the name at the last place is kept if it is new.
Keeping(ids, x, kept) == IF ids[x] \in ToSet(kept) THEN kept ELSE Append(kept, ids[x])
Sifted(ids, T, h) ==
  [s \in SUBSET T |-> IF s = {} THEN <<>> ELSE Keeping(ids, Max(s), h[s \ {Max(s)}])]

LEMMA DistinctIsFold ==
  ASSUME NEW ids
  PROVE  Distinct(ids) = (CHOOSE h : h = Sifted(ids, DOMAIN ids, h))[DOMAIN ids]
BY DEF Distinct, FoldLeft, MapThenFoldSet, Sifted, Keeping

\* Such a fold is defined for finitely many places.
LEMMA SiftedExists ==
  ASSUME NEW ids, NEW D, IsFiniteSet(D), D \subseteq Int
  PROVE  \E h : h = Sifted(ids, D, h)
<1> DEFINE B == {T \in SUBSET D : \E h : h = Sifted(ids, T, h)}
<1>1. {} \in B
  <2>1. [s \in SUBSET {} |-> <<>>] = Sifted(ids, {}, [s \in SUBSET {} |-> <<>>])
    BY DEF Sifted
  <2> QED
    BY <2>1
<1>2. ASSUME NEW T \in SUBSET D, T # {}, \A x \in T : T \ {x} \in B
      PROVE  T \in B
  <2>1. PICK m : m = Max(T)
    OBVIOUS
  <2>2. IsFiniteSet(T) /\ T \subseteq Int
    BY FS_Subset
  <2>3. m \in T /\ \A y \in T : m >= y
    BY <1>2, <2>1, <2>2, LastPlace
  <2>4. PICK h : h = Sifted(ids, T \ {m}, h)
    BY <1>2, <2>3
  <2> DEFINE g == [s \in SUBSET T |-> IF m \in s THEN Keeping(ids, m, h[s \ {m}]) ELSE h[s]]
  <2>5. ASSUME NEW s \in SUBSET T
        PROVE  g[s] = IF s = {} THEN <<>> ELSE Keeping(ids, Max(s), g[s \ {Max(s)}])
    <3>1. CASE m \in s
      <4>1. IsFiniteSet(s) /\ s \subseteq Int /\ s # {}
        BY <2>2, <3>1, FS_Subset
      <4>2. Max(s) \in s /\ Max(s) >= m /\ m >= Max(s)
        BY <2>3, <3>1, <4>1, LastPlace
      <4>3. Max(s) = m
        <5>1. PICK l : l = Max(s)
          OBVIOUS
        <5>2. l \in Int /\ m \in Int /\ l >= m /\ m >= l
          BY <2>2, <2>3, <4>1, <4>2, <5>1
        <5> QED
          BY <5>1, <5>2
      <4>4. s \ {m} \in SUBSET T /\ m \notin s \ {m}
        OBVIOUS
      <4>5. g[s \ {m}] = h[s \ {m}]
        BY <4>4
      <4>6. g[s] = Keeping(ids, m, h[s \ {m}])
        BY <3>1
      <4> QED
        BY <4>1, <4>3, <4>5, <4>6
    <3>2. CASE m \notin s
      <4>1. s \in SUBSET (T \ {m})
        BY <3>2
      <4>2. g[s] = h[s]
        BY <3>2
      <4>3. h[s] = IF s = {} THEN <<>> ELSE Keeping(ids, Max(s), h[s \ {Max(s)}])
        <5>1. Sifted(ids, T \ {m}, h)[s] = IF s = {} THEN <<>> ELSE Keeping(ids, Max(s), h[s \ {Max(s)}])
          BY <4>1 DEF Sifted
        <5> QED
          BY <2>4, <5>1
      <4>4. g[s \ {Max(s)}] = h[s \ {Max(s)}]
        BY <3>2
      <4> QED
        BY <4>2, <4>3, <4>4
    <3> QED
      BY <3>1, <3>2
  <2>6. g = Sifted(ids, T, g)
    <3>1. g = [s \in SUBSET T |-> g[s]]
      OBVIOUS
    <3> HIDE DEF g
    <3> QED
      BY <2>5, <3>1 DEF Sifted
  <2> QED
    BY <2>6
<1>3. D \in B
  <2> HIDE DEF B
  <2>1. \A T \in SUBSET D : T \in B
    BY <1>1, <1>2, SubsetInduction
  <2> QED
    BY <2>1
<1> QED
  BY <1>3

Sifting(C, ids, s, T) ==
  /\ s \in Seq(C)
  /\ Len(s) <= Cardinality(T)
  /\ ToSet(s) = {ids[i] : i \in T}
  /\ \A i, j \in DOMAIN s : i # j => s[i] # s[j]

\* dict.fromkeys: every name that was given, once, and no other.
THEOREM DistinctNames ==
  ASSUME NEW C, NEW ids \in Seq(C)
  PROVE  /\ Distinct(ids) \in Seq(C)
         /\ Len(Distinct(ids)) <= Len(ids)
         /\ ToSet(Distinct(ids)) = ToSet(ids)
         /\ \A i, j \in DOMAIN Distinct(ids) : i # j => Distinct(ids)[i] # Distinct(ids)[j]
<1> DEFINE D == DOMAIN ids
<1>1. D = 1 .. Len(ids) /\ Len(ids) \in Nat
  OBVIOUS
<1>2. IsFiniteSet(D) /\ D \subseteq Int /\ Cardinality(D) = Len(ids)
  BY <1>1, FS_Interval
<1>3. PICK h : h = CHOOSE g : g = Sifted(ids, D, g)
  OBVIOUS
<1>4. h = Sifted(ids, D, h)
  <2> HIDE DEF D
  <2>1. \E g : g = Sifted(ids, D, g)
    BY <1>2, SiftedExists
  <2> QED
    BY <1>3, <2>1, Zenon
<1>5. Distinct(ids) = h[D]
  BY <1>3, DistinctIsFold
<1> DEFINE B == {T \in SUBSET D : Sifting(C, ids, h[T], T)}
<1>6. {} \in B
  <2>1. h[{}] = <<>>
    BY <1>4 DEF Sifted
  <2>2. Cardinality({}) = 0
    BY FS_EmptySet
  <2>3. PICK e : e = <<>>
    OBVIOUS
  <2>4. e \in Seq(C) /\ Len(e) = 0 /\ DOMAIN e = {}
    BY <2>3
  <2>5. ToSet(e) = {}
    BY <2>4 DEF ToSet
  <2> QED
    <3>1. {ids[i] : i \in {}} = {}
      OBVIOUS
    <3>2. Sifting(C, ids, e, {})
      BY <2>2, <2>4, <2>5, <3>1 DEF Sifting
    <3> QED
      BY <2>1, <2>3, <3>2
<1>7. ASSUME NEW T \in SUBSET D, T # {}, \A x \in T : T \ {x} \in B
      PROVE  T \in B
  <2>1. IsFiniteSet(T) /\ T \subseteq Int
    BY <1>2, FS_Subset
  <2>2. PICK m : m = Max(T)
    OBVIOUS
  <2>3. m \in T
    BY <1>7, <2>1, <2>2, LastPlace
  <2>4. PICK k, s : k = h[T \ {m}] /\ s = h[T]
    OBVIOUS
  <2>5. Sifting(C, ids, k, T \ {m})
    BY <1>7, <2>3, <2>4
  <2>6. s = Keeping(ids, m, k)
    <3>1. Sifted(ids, D, h)[T] = Keeping(ids, Max(T), h[T \ {Max(T)}])
      BY <1>7 DEF Sifted
    <3> QED
      BY <1>4, <2>2, <2>4, <3>1
  <2>7. Cardinality(T \ {m}) = Cardinality(T) - 1 /\ Cardinality(T) \in Nat
    BY <2>1, <2>3, FS_RemoveElement, FS_CardinalityType
  <2>8. {ids[i] : i \in T} = {ids[i] : i \in T \ {m}} \cup {ids[m]} /\ ids[m] \in C
    BY <1>1, <2>3
  <2>9. /\ k \in Seq(C) /\ Len(k) <= Cardinality(T) - 1 /\ ToSet(k) = {ids[i] : i \in T \ {m}}
        /\ \A i, j \in DOMAIN k : i # j => k[i] # k[j]
    BY <2>5, <2>7 DEF Sifting
  <2>10. Sifting(C, ids, s, T)
    <3>1. CASE ids[m] \in ToSet(k)
      <4>1. s = k
        BY <2>6, <3>1 DEF Keeping
      <4>2. {ids[i] : i \in T} = {ids[i] : i \in T \ {m}}
        BY <2>8, <2>9, <3>1
      <4>3. Len(k) \in Nat /\ Len(k) <= Cardinality(T)
        BY <2>7, <2>9
      <4> QED
        BY <2>9, <4>1, <4>2, <4>3 DEF Sifting
    <3>2. CASE ids[m] \notin ToSet(k)
      <4>1. s = Append(k, ids[m])
        BY <2>6, <3>2 DEF Keeping
      <4>2. /\ s \in Seq(C) /\ Len(s) = Len(k) + 1 /\ DOMAIN s = DOMAIN k \cup {Len(k) + 1}
            /\ Len(k) \in Nat /\ DOMAIN k = 1 .. Len(k)
            /\ s[Len(k) + 1] = ids[m] /\ \A i \in DOMAIN k : s[i] = k[i]
        BY <2>8, <2>9, <4>1
      <4>3. ToSet(s) = ToSet(k) \cup {ids[m]}
        BY <4>2 DEF ToSet
      <4>4. \A i \in DOMAIN k : k[i] # ids[m]
        BY <3>2 DEF ToSet
      <4>5. \A i, j \in DOMAIN s : i # j => s[i] # s[j]
        BY <2>9, <4>2, <4>4
      <4>6. ToSet(s) = {ids[i] : i \in T}
        BY <2>8, <2>9, <4>3
      <4>7. Len(s) <= Cardinality(T)
        BY <2>7, <2>9, <4>2
      <4> QED
        BY <4>2, <4>5, <4>6, <4>7 DEF Sifting
    <3> QED
      BY <3>1, <3>2
  <2> QED
    BY <2>4, <2>10
<1>8. D \in B
  <2> HIDE DEF B, D
  <2>1. \A T \in SUBSET D : T \in B
    BY <1>2, <1>6, <1>7, SubsetInduction
  <2> QED
    BY <2>1
<1> QED
  BY <1>2, <1>5, <1>8 DEF ToSet, Sifting

-----------------------------------------------------------------------------
(***************************************************************************)
(* The invariant of the messages: what each request has read, sent and     *)
(* made, and what the rows, the messages and the reports have in common.   *)
(***************************************************************************)
Way(k) ==
  CASE k = "offer" -> {"loadRecipients", "loadStation", "dispatch", "done"}
    [] k = "remind" -> {"loadStation", "dispatch", "done"}
    [] k = "audit" -> {"mail", "record", "done"}
    [] k = "post" -> {"nextReport", "writeReport", "done"}
    [] k = "create" -> {"checkName", "checkPhone", "write", "done"}
    [] k = "update" -> {"loadCustomer", "checkName", "checkPhone", "write", "done"}
    [] k = "delete" -> {"loadCustomer", "write", "done"}
    [] k = "station" -> {"findStation", "updateStation", "insertStation", "done"}
    [] k = "none" -> {}

Fields == {"name", "phone", "active"}
CustomerFits(c) ==
  DOMAIN c = Fields /\ c["phone"] \in Phones \cup {None} /\ c["active"] \in BOOLEAN

Tables ==
  /\ DOMAIN customers = CustIds
  /\ \A c \in CustIds : customers[c] # None => CustomerFits(customers[c])
  /\ stations \subseteq Req \cup OldCustomers /\ audits \subseteq Req /\ mails \subseteq Req
  /\ rows \in [Slots -> Recipient \cup {None}]
  /\ provider \in {"dev", "meta", "unconfigured"}
  /\ accepted \in [MsgIds -> [cust : CustIds, to : Phones] \cup {None}]
  /\ posted \subseteq Report /\ shown \subseteq posted
  /\ kind \in [Req -> Kinds] /\ pc \in [Req -> Statement]
  /\ DOMAIN job = Req /\ DOMAIN seen = Req /\ made \in [Req -> Seq(Recipient)]

\* Where a request is, and what was asked of it.
Asked(r) ==
  /\ pc[r] \in Way(kind[r]) \cup {"idle", "refused", "failed"}
  /\ kind[r] = "post" => pc[r] \in Way("post") \cup {"idle"}
  /\ pc[r] # "idle" => IF kind[r] = "post" THEN job[r] \in Seq(posted)
                       ELSE job[r] \in Asks /\ job[r].kind = kind[r]

\* The recipients that an offer has read: each that was named, once.
Listed(r) ==
  kind[r] = "offer" /\ pc[r] \in {"loadStation", "dispatch"} =>
    /\ seen[r] \in Seq([cust : CustIds, phone : Phones \cup {None}])
    /\ Len(seen[r]) <= MaxSelected
    /\ {seen[r][n].cust : n \in DOMAIN seen[r]} = ToSet(job[r].ids)
    /\ \A n, k \in DOMAIN seen[r] : n # k => seen[r][n].cust # seen[r][k].cust

\* A row is about message m, if it is about any.
RowFits(row, m) ==
  /\ row.msg = None \/ (row.msg = m /\ accepted[m] = [cust |-> row.cust, to |-> row.phone])
  /\ row.status = "blocked" <=> row.phone = None

\* The rows that an offer has made, one for each of the first it has read.
Making(r) ==
  IF kind[r] = "offer" /\ pc[r] = "dispatch"
  THEN /\ Len(made[r]) <= Len(seen[r])
       /\ \A n \in DOMAIN made[r] : /\ made[r][n].cust = seen[r][n].cust
                                    /\ made[r][n].status \in {"sent", "failed", "blocked"}
                                    /\ RowFits(made[r][n], <<r, n>>)
  ELSE made[r] = <<>>

\* A message was sent by a request that has come so far, and to the recipient it is about.
Sent(r) ==
  /\ \A n \in 1 .. MaxSelected : accepted[<<r, n>>] # None =>
       \/ kind[r] = "offer" /\ pc[r] \in {"done", "failed"}
       \/ /\ kind[r] = "offer" /\ pc[r] = "dispatch"
          /\ n \in DOMAIN made[r] /\ accepted[<<r, n>>].cust = made[r][n].cust
       \/ kind[r] = "remind" /\ pc[r] \in {"done", "refused", "failed"}
  /\ kind[r] = "offer" =>
       \A n, k \in 1 .. MaxSelected :
         /\ accepted[<<r, n>>] # None /\ accepted[<<r, k>>] # None
         /\ accepted[<<r, n>>].cust = accepted[<<r, k>>].cust
         => n = k

\* The rows of a request are those of an offer that was answered.
Saved(r) ==
  /\ \A n \in 1 .. MaxSelected : rows[<<r, n>>] # None =>
       kind[r] = "offer" /\ pc[r] = "done" /\ RowFits(rows[<<r, n>>], <<r, n>>)
  /\ kind[r] = "offer" /\ pc[r] = "done" =>
       /\ \A c : c \in ToSet(job[r].ids) <=>
            \E n \in 1 .. MaxSelected : rows[<<r, n>>] # None /\ rows[<<r, n>>].cust = c
       /\ \A n, k \in 1 .. MaxSelected :
            /\ rows[<<r, n>>] # None /\ rows[<<r, k>>] # None
            /\ rows[<<r, n>>].cust = rows[<<r, k>>].cust
            => n = k

\* The row a report was matched with is still there, with the status that was read or with
\* one that another report has written since.
Reporting(r) ==
  pc[r] = "writeReport" =>
    /\ job[r] # <<>> /\ Head(job[r]).status \in Recognized
    /\ seen[r].row \in Slots /\ rows[seen[r].row] # None
    /\ rows[seen[r].row].msg = Head(job[r]).msg
    /\ \/ rows[seen[r].row].status = seen[r].status
       \/ [msg |-> rows[seen[r].row].msg, status |-> rows[seen[r].row].status] \in shown

Requests(r) ==
  Asked(r) /\ Listed(r) /\ Making(r) /\ Sent(r) /\ Saved(r) /\ Reporting(r)

ShownHaveRows == \A p \in shown : rows[p.msg] # None

IInv ==
  /\ Tables
  /\ \A r \in Req : Requests(r)
  /\ ShownHaveRows
  /\ StatusesArePosted
  /\ ReportsAreShown

-----------------------------------------------------------------------------
(***************************************************************************)
(* What a step of one request leaves to the others                         *)
(***************************************************************************)
Private(r) == <<pc[r], job[r], seen[r], made[r]>>

MessagesLast == \A m \in MsgIds : accepted[m] # None => accepted'[m] = accepted[m]

\* A row stays as it is but for a status that was posted.
RowsLast ==
  \A i \in Slots : rows[i] # None =>
    /\ rows'[i] # None /\ rows'[i].cust = rows[i].cust
    /\ rows'[i].phone = rows[i].phone /\ rows'[i].msg = rows[i].msg
    /\ \/ rows'[i].status = rows[i].status
       \/ /\ rows[i].msg # None /\ rows'[i].status \in Recognized
          /\ [msg |-> rows[i].msg, status |-> rows'[i].status] \in shown'

\* The message of a row, and where it went.
LEMMA MessageOfRow ==
  ASSUME IInv, NEW i \in Slots, rows[i] # None, rows[i].msg # None
  PROVE  /\ rows[i].msg = i /\ i \in MsgIds /\ rows[i].phone # None
         /\ accepted[i] = [cust |-> rows[i].cust, to |-> rows[i].phone] /\ accepted[i] # None
<1>1. PICK r \in Req, n \in 1 .. MaxSelected : i = <<r, n>>
  BY DEF Slots
<1>2. rows[i].msg = i /\ accepted[i] = [cust |-> rows[i].cust, to |-> rows[i].phone]
  BY <1>1 DEF IInv, Requests, Saved, RowFits
<1>3. rows[i] \in Recipient /\ accepted[i] \in [cust : CustIds, to : Phones] \cup {None} /\ i \in MsgIds
  BY DEF IInv, Tables, MsgIds
<1>4. rows[i].cust \in CustIds /\ rows[i].phone \in Phones \cup {None}
  BY <1>3 DEF Recipient
<1>5. accepted[i] # None
  BY <1>2, <1>4, NoneIsNoValue
<1>6. accepted[i].to \in Phones
  BY <1>3, <1>5
<1> QED
  BY <1>2, <1>3, <1>5, <1>6, NoneIsNoValue

LEMMA OthersStay ==
  ASSUME IInv, kind' = kind, MessagesLast, RowsLast, posted \subseteq posted', shown \subseteq shown',
         NEW q \in Req, UNCHANGED Private(q),
         \A n \in 1 .. MaxSelected : accepted[<<q, n>>] = None => accepted'[<<q, n>>] = None,
         \A n \in 1 .. MaxSelected : rows[<<q, n>>] = None => rows'[<<q, n>>] = None
  PROVE  Requests(q)'
<1>1. /\ pc'[q] = pc[q] /\ job'[q] = job[q] /\ seen'[q] = seen[q] /\ made'[q] = made[q]
      /\ kind'[q] = kind[q] /\ Requests(q) /\ Tables
  BY DEF Private, IInv
<1>2. \A n \in 1 .. MaxSelected : <<q, n>> \in Slots /\ <<q, n>> \in MsgIds
  BY DEF Slots, MsgIds
<1>3. \A n \in 1 .. MaxSelected :
        accepted'[<<q, n>>] = accepted[<<q, n>>]
  BY <1>2 DEF MessagesLast
<1>4. Asked(q)'
  <2>1. job[q] \in Seq(posted) => job[q] \in Seq(posted')
    OBVIOUS
  <2> QED
    BY <1>1, <2>1 DEF Requests, Asked
<1>5. Listed(q)'
  BY <1>1 DEF Requests, Listed
<1>6. Making(q)'
  <2>1. CASE kind[q] = "offer" /\ pc[q] = "dispatch"
    <3>1. Len(seen[q]) <= MaxSelected /\ seen[q] \in Seq([cust : CustIds, phone : Phones \cup {None}])
      BY <1>1, <2>1 DEF Requests, Listed
    <3>2. Len(made[q]) <= Len(seen[q]) /\ made[q] \in Seq(Recipient) /\ DOMAIN made[q] \subseteq 1 .. MaxSelected
      BY <1>1, <2>1, <3>1, MessagingBounds DEF Requests, Making, Tables
    <3>3. ASSUME NEW n \in DOMAIN made[q]
          PROVE  RowFits(made[q][n], <<q, n>>)'
      <4>1. RowFits(made[q][n], <<q, n>>) /\ n \in 1 .. MaxSelected
        BY <1>1, <2>1, <3>2 DEF Requests, Making
      <4> QED
        BY <1>1, <1>3, <4>1 DEF RowFits
    <3> QED
      BY <1>1, <2>1, <3>3 DEF Requests, Making
  <2>2. CASE ~ (kind[q] = "offer" /\ pc[q] = "dispatch")
    BY <1>1, <2>2 DEF Requests, Making
  <2> QED
    BY <2>1, <2>2
<1>7. Sent(q)'
  BY <1>1, <1>3 DEF Requests, Sent
<1>8. Saved(q)'
  <2>1. ASSUME NEW n \in 1 .. MaxSelected, rows'[<<q, n>>] # None
        PROVE  /\ rows[<<q, n>>] # None /\ rows'[<<q, n>>].cust = rows[<<q, n>>].cust
               /\ kind[q] = "offer" /\ pc[q] = "done" /\ RowFits(rows[<<q, n>>], <<q, n>>)'
    <3>1. PICK i : i = <<q, n>>
      OBVIOUS
    <3>2. i \in Slots /\ rows[i] # None /\ accepted'[i] = accepted[i]
      BY <1>2, <1>3, <2>1, <3>1
    <3>3. kind[q] = "offer" /\ pc[q] = "done" /\ RowFits(rows[i], i)
      BY <1>1, <3>1, <3>2 DEF Requests, Saved
    <3>4. /\ rows'[i].cust = rows[i].cust /\ rows'[i].phone = rows[i].phone /\ rows'[i].msg = rows[i].msg
          /\ \/ rows'[i].status = rows[i].status
             \/ rows[i].msg # None /\ rows'[i].status \in Recognized
      BY <3>2 DEF RowsLast
    <3>5. rows'[i].status = "blocked" <=> rows'[i].phone = None
      <4>1. CASE rows'[i].status = rows[i].status
        BY <3>3, <3>4, <4>1 DEF RowFits
      <4>2. CASE rows[i].msg # None /\ rows'[i].status \in Recognized
        <5>1. rows[i].phone # None
          BY <3>2, <4>2, MessageOfRow
        <5> QED
          BY <3>4, <4>2, <5>1 DEF Recognized
      <4> QED
        BY <3>4, <4>1, <4>2
    <3>6. RowFits(rows[i], i)'
      BY <3>2, <3>3, <3>4, <3>5 DEF RowFits
    <3> QED
      BY <3>1, <3>2, <3>3, <3>4, <3>6
  <2>2. \A n \in 1 .. MaxSelected : rows[<<q, n>>] # None => rows'[<<q, n>>] # None
    BY <1>2 DEF RowsLast
  <2>3. \A n \in 1 .. MaxSelected : rows'[<<q, n>>] # None =>
          kind'[q] = "offer" /\ pc'[q] = "done" /\ RowFits(rows[<<q, n>>], <<q, n>>)'
    BY <1>1, <2>1
  <2>4. SUFFICES ASSUME kind[q] = "offer", pc[q] = "done"
                 PROVE  Saved(q)'
    BY <1>1, <2>3 DEF Saved
  <2>5. \A c : c \in ToSet(job[q].ids) <=>
          \E n \in 1 .. MaxSelected : rows'[<<q, n>>] # None /\ rows'[<<q, n>>].cust = c
    BY <1>1, <2>1, <2>2, <2>4 DEF Requests, Saved
  <2>6. \A n, k \in 1 .. MaxSelected :
          /\ rows'[<<q, n>>] # None /\ rows'[<<q, k>>] # None
          /\ rows'[<<q, n>>].cust = rows'[<<q, k>>].cust
          => n = k
    BY <1>1, <2>1, <2>4 DEF Requests, Saved
  <2> QED
    BY <1>1, <2>3, <2>5, <2>6 DEF Saved
<1>9. Reporting(q)'
  <2>1. SUFFICES ASSUME pc[q] = "writeReport"
                 PROVE  Reporting(q)'
    BY <1>1 DEF Reporting
  <2>2. PICK i, p : i = seen[q].row /\ p = Head(job[q])
    OBVIOUS
  <2>3. /\ job[q] # <<>> /\ p.status \in Recognized /\ i \in Slots /\ rows[i] # None
        /\ rows[i].msg = p.msg
        /\ \/ rows[i].status = seen[q].status
           \/ [msg |-> rows[i].msg, status |-> rows[i].status] \in shown
    BY <1>1, <2>1, <2>2 DEF Requests, Reporting
  <2>4. /\ rows'[i] # None /\ rows'[i].msg = rows[i].msg
        /\ \/ rows'[i].status = rows[i].status
           \/ [msg |-> rows[i].msg, status |-> rows'[i].status] \in shown'
    BY <2>3 DEF RowsLast
  <2>5. \/ rows'[i].status = seen[q].status
        \/ [msg |-> rows'[i].msg, status |-> rows'[i].status] \in shown'
    <3>1. CASE rows'[i].status = rows[i].status
      BY <2>3, <2>4, <3>1
    <3>2. CASE [msg |-> rows[i].msg, status |-> rows'[i].status] \in shown'
      BY <2>4, <3>2
    <3> QED
      BY <2>4, <3>1, <3>2
  <2> QED
    BY <1>1, <2>2, <2>3, <2>4, <2>5 DEF Reporting
<1> QED
  BY <1>4, <1>5, <1>6, <1>7, <1>8, <1>9 DEF Requests

\* A step of r that touches no row, no message and no report.
LEMMA QuietKeeps ==
  ASSUME IInv, NEW r \in Req, Tables', kind' = kind,
         rows' = rows, accepted' = accepted, shown' = shown, posted \subseteq posted',
         \A q \in Req \ {r} : UNCHANGED Private(q),
         pc[r] \notin {"done", "refused", "failed"},
         kind[r] = "offer" => pc'[r] # "done",
         kind[r] = "offer" /\ pc[r] = "dispatch" => pc'[r] = "failed",
         Asked(r)', Listed(r)', Making(r)', Reporting(r)'
  PROVE  IInv'
<1>1. Requests(r) /\ Tables
  BY DEF IInv
<1>2. Sent(r)'
  <2>1. \A n \in 1 .. MaxSelected : accepted[<<r, n>>] # None => kind[r] = "offer" /\ pc[r] = "dispatch"
    BY <1>1 DEF Requests, Sent
  <2> QED
    BY <1>1, <2>1 DEF Requests, Sent
<1>3. Saved(r)'
  BY <1>1 DEF Requests, Saved
<1>4. RowsLast /\ MessagesLast
  BY DEF RowsLast, MessagesLast
<1>5. \A q \in Req \ {r} : Requests(q)'
  BY <1>4, OthersStay
<1>6. ShownHaveRows' /\ StatusesArePosted' /\ ReportsAreShown'
  BY DEF IInv, ShownHaveRows, StatusesArePosted, ReportsAreShown, OnRecord
<1> QED
  BY <1>2, <1>3, <1>5, <1>6 DEF IInv, Requests

LEMMA EndIs ==
  ASSUME Tables, NEW r \in Req, NEW outcome \in {"done", "refused", "failed"}, End(r, outcome)
  PROVE  /\ kind' = kind /\ provider' = provider
         /\ pc' \in [Req -> Statement] /\ pc'[r] = outcome
         /\ DOMAIN seen' = Req /\ made' \in [Req -> Seq(Recipient)] /\ made'[r] = <<>>
         /\ \A q \in Req \ {r} : UNCHANGED <<pc[q], seen[q], made[q]>>
<1>1. <<>> \in Seq(Recipient)
  OBVIOUS
<1>2. /\ kind' = kind /\ provider' = provider /\ pc' = [pc EXCEPT ![r] = outcome]
      /\ seen' = [seen EXCEPT ![r] = <<>>] /\ made' = [made EXCEPT ![r] = <<>>]
  BY DEF End, Goto
<1>3. pc' \in [Req -> Statement] /\ made' \in [Req -> Seq(Recipient)]
  BY <1>1, <1>2 DEF Tables, Statement
<1> QED
  BY <1>2, <1>3 DEF Tables


\* The end of a request that has committed no row of an offer.
LEMMA EndKeeps ==
  ASSUME IInv, NEW r \in Req, pc[r] \notin {"idle", "done", "refused", "failed"},
         NEW outcome \in {"done", "refused", "failed"}, End(r, outcome),
         kind[r] = "post" <=> (outcome = "done" /\ kind[r] = "post"),
         kind[r] = "offer" => outcome # "done" /\ (pc[r] = "dispatch" => outcome = "failed"),
         job' = job \/ (kind[r] = "post" /\ job' = [job EXCEPT ![r] = <<>>]),
         rows' = rows, accepted' = accepted, shown' = shown, posted' = posted,
         DOMAIN customers' = CustIds,
         \A c \in CustIds : customers'[c] # None => CustomerFits(customers'[c]),
         stations' \subseteq Req \cup OldCustomers, audits' \subseteq Req, mails' \subseteq Req
  PROVE  IInv'
<1>1. Requests(r) /\ Tables
  BY DEF IInv
<1>2. /\ kind' = kind /\ provider' = provider
      /\ pc' \in [Req -> Statement] /\ pc'[r] = outcome
      /\ DOMAIN seen' = Req /\ made' \in [Req -> Seq(Recipient)] /\ made'[r] = <<>>
      /\ \A q \in Req \ {r} : UNCHANGED <<pc[q], seen[q], made[q]>>
  BY <1>1, EndIs
<1>3. DOMAIN job' = Req /\ \A q \in Req \ {r} : job'[q] = job[q]
  BY <1>1 DEF Tables
<1>4. Tables'
  <2>1. \A c \in CustIds : customers'[c] # None => CustomerFits(customers[c])'
    BY DEF CustomerFits
  <2> QED
    BY <1>1, <1>2, <1>3, <2>1 DEF Tables
<1>5. kind[r] \in Kinds /\ kind[r] # "none" /\ "done" \in Way(kind[r])
  <2>1. kind[r] \in Kinds
    BY <1>1 DEF Tables
  <2> QED
    BY <1>1, <2>1 DEF Requests, Asked, Way, Kinds
<1>6. Asked(r)'
  <2>1. CASE kind[r] = "post"
    <3>1. job'[r] \in Seq(posted)
      <4>1. job[r] \in Seq(posted) /\ <<>> \in Seq(posted)
        BY <1>1, <2>1 DEF Requests, Asked
      <4>2. job'[r] = job[r] \/ job'[r] = <<>>
        BY <1>1 DEF Tables
      <4> QED
        BY <4>1, <4>2
    <3> QED
      BY <1>2, <1>5, <2>1, <3>1 DEF Asked
  <2>2. CASE kind[r] # "post"
    BY <1>1, <1>2, <1>5, <2>2 DEF Requests, Asked
  <2> QED
    BY <2>1, <2>2
<1>7. Listed(r)' /\ Making(r)' /\ Reporting(r)'
  BY <1>2 DEF Listed, Making, Reporting
<1>8. \A q \in Req \ {r} : UNCHANGED Private(q)
  BY <1>2, <1>3 DEF Private
<1> QED
  BY <1>2, <1>4, <1>6, <1>7, <1>8, QuietKeeps

\* A step from one statement of a request to the next.
LEMMA OnwardKeeps ==
  ASSUME IInv, NEW r \in Req, NEW at \in Statement, pc[r] \notin {"done", "refused", "failed"},
         at \in Way(kind[r]) \ {"done"}, at # "writeReport",
         kind[r] = "offer" => pc[r] # "dispatch",
         kind' = kind, provider' = provider, pc' = [pc EXCEPT ![r] = at], made' = made,
         UNCHANGED <<customers, stations, rows, audits, accepted, shown>>, mails' \subseteq Req,
         posted \subseteq posted', posted' \subseteq Report,
         DOMAIN job' = Req, DOMAIN seen' = Req,
         \A q \in Req \ {r} : UNCHANGED <<job[q], seen[q]>>,
         IF kind[r] = "post" THEN job'[r] \in Seq(posted')
         ELSE job'[r] \in Asks /\ job'[r].kind = kind[r],
         Listed(r)'
  PROVE  IInv'
<1>1. Requests(r) /\ Tables
  BY DEF IInv
<1>2. pc' \in [Req -> Statement] /\ pc'[r] = at /\ \A q \in Req \ {r} : pc'[q] = pc[q]
  BY <1>1 DEF Tables
<1>3. Tables'
  <2>1. \A c \in CustIds : customers'[c] # None => CustomerFits(customers[c])'
    BY <1>1 DEF Tables, CustomerFits
  <2> QED
    BY <1>1, <1>2, <2>1 DEF Tables
<1>4. kind[r] \in Kinds
  BY <1>1 DEF Tables
<1>5. Asked(r)'
  BY <1>2, <1>4 DEF Asked, Way, Kinds
<1>6. Making(r)'
  <2>1. made[r] = <<>>
    BY <1>1 DEF Requests, Making
  <2> QED
    <3>1. CASE kind[r] = "offer" /\ at = "dispatch"
      <4>1. seen'[r] \in Seq([cust : CustIds, phone : Phones \cup {None}])
        BY <1>2, <3>1 DEF Listed
      <4>2. PICK e, s : e = <<>> /\ e = made[r] /\ s = seen'[r]
        BY <2>1
      <4>3. Len(e) = 0 /\ DOMAIN e = {} /\ Len(s) \in Nat
        BY <4>1, <4>2
      <4>4. Len(e) <= Len(s)
        BY <4>3
      <4>5. Len(made[r])' <= Len(seen[r])' /\ \A n \in (DOMAIN made[r])' : FALSE
        BY <4>2, <4>3, <4>4
      <4> QED
        BY <1>2, <3>1, <4>5 DEF Making
    <3>2. CASE ~ (kind[r] = "offer" /\ at = "dispatch")
      BY <1>2, <2>1, <3>2 DEF Making
    <3> QED
      BY <3>1, <3>2
<1>7. Reporting(r)'
  BY <1>2 DEF Reporting
<1>8. \A q \in Req \ {r} : UNCHANGED Private(q)
  BY <1>2 DEF Private
<1>9. kind[r] = "offer" => pc'[r] # "done"
  BY <1>2
<1> QED
  BY <1>2, <1>3, <1>5, <1>6, <1>7, <1>8, <1>9, QuietKeeps

-----------------------------------------------------------------------------
(***************************************************************************)
(* The steps that touch no row of an offer, no message and no report       *)
(***************************************************************************)
\* The kind of a request by the statement it is at.
LEMMA KindAt ==
  ASSUME IInv, NEW r \in Req
  PROVE  /\ pc[r] = "loadRecipients" => kind[r] = "offer"
         /\ pc[r] \in {"loadStation", "dispatch"} => kind[r] \in {"offer", "remind"}
         /\ pc[r] \in {"mail", "record"} => kind[r] = "audit"
         /\ pc[r] \in {"nextReport", "writeReport"} => kind[r] = "post"
         /\ pc[r] = "loadCustomer" => kind[r] \in {"update", "delete"}
         /\ pc[r] \in {"checkName", "checkPhone"} => kind[r] \in {"create", "update"}
         /\ pc[r] = "write" => kind[r] \in {"create", "update", "delete"}
         /\ pc[r] \in {"findStation", "updateStation", "insertStation"} => kind[r] = "station"
         /\ pc[r] # "idle" => IF kind[r] = "post" THEN job[r] \in Seq(posted)
                              ELSE job[r] \in Asks /\ job[r].kind = kind[r]
         /\ kind[r] \in Kinds /\ kind[r] = kind[r]
         /\ pc[r] # "idle" => kind[r] # "none" \/ pc[r] \in {"refused", "failed"}
<1>1. kind[r] \in Kinds /\ Asked(r)
  BY DEF IInv, Tables, Requests
<1> QED
  BY <1>1 DEF Asked, Way, Kinds

LEMMA RefuseKeeps ==
  ASSUME IInv, NEW r \in Req, pc[r] \notin {"idle", "done", "refused", "failed", "dispatch"},
         kind[r] # "post", Refuse(r)
  PROVE  IInv'
<1>1. /\ End(r, "refused") /\ job' = job /\ shown' = shown /\ customers' = customers
      /\ stations' = stations /\ rows' = rows /\ audits' = audits
      /\ accepted' = accepted /\ posted' = posted /\ mails' = mails
  BY DEF Refuse, database, outside
<1>2. Tables
  BY DEF IInv
<1> QED
  BY <1>1, <1>2, EndKeeps DEF Tables

LEMMA SendStarts ==
  ASSUME IInv, NEW r \in Req, Send(r)
  PROVE  IInv'
<1>1. /\ pc[r] = "idle" /\ kind[r] # "none" /\ kind[r] \in Kinds /\ Tables
  BY DEF IInv, Tables, Send
<1>2. First(kind[r]) \in Way(kind[r]) \ {"done"} /\ First(kind[r]) \in Statement /\ First(kind[r]) # "writeReport"
  BY <1>1 DEF First, Way, Kinds, Statement
<1>3. /\ kind' = kind /\ provider' = provider /\ pc' = [pc EXCEPT ![r] = First(kind[r])] /\ made' = made
      /\ seen' = seen /\ customers' = customers /\ stations' = stations /\ rows' = rows
      /\ audits' = audits /\ accepted' = accepted /\ mails' = mails /\ shown' = shown
  BY DEF Send, Goto, database
<1>4. Listed(r)'
  BY <1>1, <1>3 DEF Listed, First, Tables
<1>5. CASE kind[r] = "post"
  <2>1. PICK p \in Posts : job' = [job EXCEPT ![r] = p] /\ posted' = posted \cup ToSet(p)
    BY <1>5 DEF Send
  <2>2. PICK n \in 1 .. MaxReports : p \in [1 .. n -> {x \in Report : x.msg \in KnownIds}]
    BY DEF Posts
  <2>3. n \in Nat /\ DOMAIN p = 1 .. n /\ \A i \in 1 .. n : p[i] \in Report
    BY <2>2, MessagingBounds
  <2>4. ToSet(p) \subseteq Report /\ p \in [1 .. n -> ToSet(p)]
    BY <2>2, <2>3 DEF ToSet
  <2>5. posted \subseteq posted' /\ posted' \subseteq Report /\ p \in [1 .. n -> posted']
    BY <1>1, <2>1, <2>4 DEF Tables
  <2>6. p \in Seq(posted')
    BY <2>3, <2>5
  <2>7. DOMAIN job' = Req /\ job'[r] = p /\ \A q \in Req \ {r} : job'[q] = job[q]
    BY <1>1, <2>1 DEF Tables
  <2>8. DOMAIN seen' = Req /\ mails' \subseteq Req
    BY <1>1, <1>3 DEF Tables
  <2> QED
    BY <1>1, <1>2, <1>3, <1>4, <1>5, <2>5, <2>6, <2>7, <2>8, OnwardKeeps
<1>6. CASE kind[r] # "post"
  <2>1. PICK j \in Asks : j.kind = kind[r] /\ job' = [job EXCEPT ![r] = j]
    BY <1>6 DEF Send
  <2>2. DOMAIN job' = Req /\ job'[r] = j /\ \A q \in Req \ {r} : job'[q] = job[q]
    BY <1>1, <2>1 DEF Tables
  <2>3. DOMAIN seen' = Req /\ mails' \subseteq Req /\ posted' = posted /\ posted \subseteq Report
    BY <1>1, <1>3, <1>6 DEF Tables, Send
  <2> QED
    BY <1>1, <1>2, <1>3, <1>4, <1>6, <2>1, <2>2, <2>3, OnwardKeeps
<1> QED
  BY <1>5, <1>6

\* To go on with what was asked.
LEMMA GoOn ==
  ASSUME IInv, NEW r \in Req, NEW at \in Statement, pc[r] \notin {"idle", "done", "refused", "failed"},
         at \in Way(kind[r]) \ {"done"}, at # "writeReport",
         kind[r] = "offer" => pc[r] # "dispatch", kind[r] # "post",
         Goto(r, at), made' = made,
         UNCHANGED <<customers, stations, rows, audits, accepted, posted, shown, job>>,
         mails' \subseteq Req, DOMAIN seen' = Req, \A q \in Req \ {r} : seen'[q] = seen[q],
         Listed(r)'
  PROVE  IInv'
<1>1. Tables /\ kind' = kind /\ provider' = provider /\ pc' = [pc EXCEPT ![r] = at]
  BY DEF IInv, Goto
<1>2. job[r] \in Asks /\ job[r].kind = kind[r]
  BY KindAt
<1>3. posted \subseteq Report /\ DOMAIN job = Req
  BY <1>1 DEF Tables
<1> QED
  BY <1>1, <1>2, <1>3, OnwardKeeps

LEMMA LoadRecipientsKeeps ==
  ASSUME IInv, NEW r \in Req, LoadRecipients(r)
  PROVE  IInv'
<1>1. pc[r] = "loadRecipients" /\ kind[r] = "offer" /\ job[r] \in Asks /\ job[r].kind = kind[r] /\ Tables
  BY KindAt DEF LoadRecipients, IInv
<1>2. CASE Refuse(r)
  BY <1>1, <1>2, RefuseKeeps
<1>3. CASE ~ Refuse(r)
  <2>1. PICK ids : ids = Distinct(job[r].ids)
    OBVIOUS
  <2>2. /\ ToSet(ids) \subseteq OnRecord(customers)
        /\ seen' = [seen EXCEPT ![r] =
                      [i \in DOMAIN ids |-> [cust |-> ids[i], phone |-> customers[ids[i]].phone]]]
        /\ Goto(r, "loadStation") /\ job' = job /\ shown' = shown /\ made' = made
        /\ customers' = customers /\ stations' = stations /\ rows' = rows /\ audits' = audits
        /\ accepted' = accepted /\ posted' = posted /\ mails' = mails
    BY <1>3, <2>1 DEF LoadRecipients, Keep, Only, database, outside
  <2>3. job[r].ids \in Seq(CustIds) /\ Len(job[r].ids) <= MaxSelected
    BY <1>1, AsksTyped
  <2>4. /\ ids \in Seq(CustIds) /\ Len(ids) <= Len(job[r].ids) /\ ToSet(ids) = ToSet(job[r].ids)
        /\ \A i, j \in DOMAIN ids : i # j => ids[i] # ids[j]
    BY <2>1, <2>3, DistinctNames
  <2>5. PICK s : s = [i \in DOMAIN ids |-> [cust |-> ids[i], phone |-> customers[ids[i]].phone]]
    OBVIOUS
  <2>6. seen'[r] = s /\ DOMAIN seen' = Req /\ \A q \in Req \ {r} : seen'[q] = seen[q]
    BY <1>1, <2>2, <2>5 DEF Tables
  <2>7. Len(ids) \in Nat /\ DOMAIN ids = 1 .. Len(ids) /\ Len(job[r].ids) \in Nat /\ MaxSelected \in Nat
    BY <2>3, <2>4, MessagingBounds
  <2>8. ASSUME NEW i \in DOMAIN ids
        PROVE  s[i] = [cust |-> ids[i], phone |-> customers[ids[i]].phone]
               /\ s[i] \in [cust : CustIds, phone : Phones \cup {None}] /\ s[i].cust = ids[i]
    <3>1. ids[i] \in CustIds /\ ids[i] \in ToSet(ids)
      BY <2>4 DEF ToSet
    <3>2. customers[ids[i]] # None
      BY <2>2, <3>1 DEF OnRecord
    <3>3. customers[ids[i]].phone \in Phones \cup {None}
      BY <1>1, <3>1, <3>2 DEF Tables, CustomerFits
    <3> QED
      BY <2>5, <3>1, <3>3
  <2>9. s \in Seq([cust : CustIds, phone : Phones \cup {None}]) /\ Len(s) = Len(ids) /\ DOMAIN s = DOMAIN ids
    <3>1. s = [i \in 1 .. Len(ids) |-> s[i]]
      BY <2>5, <2>7
    <3>2. PICK n, X : n = Len(ids) /\ X = [cust : CustIds, phone : Phones \cup {None}]
      OBVIOUS
    <3>3. s \in [1 .. n -> X] /\ n \in Nat /\ DOMAIN ids = 1 .. n
      BY <2>7, <2>8, <3>1, <3>2
    <3>4. s \in Seq(X) /\ Len(s) = n /\ DOMAIN s = 1 .. n
      BY <3>3
    <3> QED
      BY <3>2, <3>3, <3>4
  <2>10. Len(s) <= MaxSelected
    BY <2>3, <2>4, <2>7, <2>9
  <2>11. {s[n].cust : n \in DOMAIN s} = ToSet(job[r].ids)
    <3>1. {s[n].cust : n \in DOMAIN s} = {ids[n] : n \in DOMAIN ids}
      BY <2>8, <2>9
    <3> QED
      BY <2>4, <3>1 DEF ToSet
  <2>12. \A n, k \in DOMAIN s : n # k => s[n].cust # s[k].cust
    BY <2>4, <2>8, <2>9
  <2>13. Listed(r)'
    BY <2>2, <2>6, <2>9, <2>10, <2>11, <2>12 DEF Listed
  <2>14. "loadStation" \in Way(kind[r]) \ {"done"} /\ "loadStation" \in Statement /\ mails \subseteq Req
    BY <1>1 DEF Way, Statement, Tables
  <2> QED
    BY <1>1, <2>2, <2>6, <2>13, <2>14, GoOn
<1> QED
  BY <1>2, <1>3

LEMMA LoadStationKeeps ==
  ASSUME IInv, NEW r \in Req, LoadStation(r)
  PROVE  IInv'
<1>1. pc[r] = "loadStation" /\ kind[r] \in {"offer", "remind"} /\ Tables
  BY KindAt DEF LoadStation, IInv
<1>2. CASE Refuse(r)
  BY <1>1, <1>2, RefuseKeeps
<1>3. CASE ~ Refuse(r)
  <2>1. /\ Goto(r, "dispatch") /\ job' = job /\ shown' = shown /\ made' = made /\ seen' = seen
        /\ customers' = customers /\ stations' = stations /\ rows' = rows /\ audits' = audits
        /\ accepted' = accepted /\ posted' = posted /\ mails' = mails /\ kind' = kind
    BY <1>3 DEF LoadStation, Only, database, outside, Goto
  <2>2. Listed(r)'
    BY <1>1, <2>1 DEF IInv, Requests, Listed
  <2>3. "dispatch" \in Way(kind[r]) \ {"done"} /\ "dispatch" \in Statement
        /\ mails \subseteq Req /\ DOMAIN seen = Req
    BY <1>1 DEF Way, Statement, Tables
  <2> QED
    BY <1>1, <2>1, <2>2, <2>3, GoOn
<1> QED
  BY <1>2, <1>3

LEMMA AuditStepsKeep ==
  ASSUME IInv, NEW r \in Req, Mail(r) \/ RecordAudit(r)
  PROVE  IInv'
<1>1. pc[r] \in {"mail", "record"} /\ kind[r] = "audit" /\ Tables
  BY KindAt DEF Mail, RecordAudit, IInv
<1>2. "record" \in Way(kind[r]) \ {"done"} /\ "record" \in Statement /\ DOMAIN seen = Req
      /\ mails \subseteq Req /\ audits \subseteq Req /\ stations \subseteq Req \cup OldCustomers
      /\ DOMAIN customers = CustIds /\ \A c \in CustIds : customers[c] # None => CustomerFits(customers[c])
  BY <1>1 DEF Way, Statement, Tables
<1>3. CASE RecordAudit(r)
  <2>1. /\ End(r, "done") /\ job' = job /\ shown' = shown /\ audits' = audits \cup {r}
        /\ customers' = customers /\ stations' = stations /\ rows' = rows
        /\ accepted' = accepted /\ posted' = posted /\ mails' = mails
    BY <1>3 DEF RecordAudit, Only, outside
  <2> QED
    BY <1>1, <1>2, <2>1, EndKeeps
<1>4. CASE Mail(r)
  <2>1. /\ job' = job /\ shown' = shown /\ audits' = audits
        /\ customers' = customers /\ stations' = stations /\ rows' = rows
        /\ accepted' = accepted /\ posted' = posted /\ mails' \subseteq Req
    BY <1>2, <1>4 DEF Mail, Only, database
  <2>2. CASE Goto(r, "record") /\ UNCHANGED <<seen, made>>
    <3>1. Listed(r)'
      BY <1>1, <2>2 DEF Listed, Goto
    <3> QED
      BY <1>1, <1>2, <2>1, <2>2, <3>1, GoOn
  <2>3. CASE End(r, "refused")
    BY <1>1, <1>2, <2>1, <2>3, EndKeeps
  <2> QED
    BY <1>4, <2>2, <2>3 DEF Mail
<1> QED
  BY <1>3, <1>4

LEMMA EndPostKeeps ==
  ASSUME IInv, NEW r \in Req, EndPost(r)
  PROVE  IInv'
<1>1. pc[r] = "nextReport" /\ kind[r] = "post" /\ Tables
  BY KindAt DEF EndPost, IInv
<1>2. /\ End(r, "done") /\ job' = job /\ shown' = shown /\ audits' = audits
      /\ customers' = customers /\ stations' = stations /\ rows' = rows
      /\ accepted' = accepted /\ posted' = posted /\ mails' = mails
  BY DEF EndPost, Only, database, outside
<1> QED
  BY <1>1, <1>2, EndKeeps DEF Tables

LEMMA AbortEnds ==
  ASSUME IInv, NEW r \in Req, Abort(r)
  PROVE  IInv'
<1>1. /\ Running(r) /\ End(r, IF kind[r] = "post" THEN "done" ELSE "failed") /\ Tables
      /\ job' = (IF kind[r] = "post" THEN [job EXCEPT ![r] = <<>>] ELSE job)
      /\ shown' = shown /\ audits' = audits
      /\ customers' = customers /\ stations' = stations /\ rows' = rows
      /\ accepted' = accepted /\ posted' = posted /\ mails' = mails
  BY DEF Abort, database, outside, IInv
<1>2. PICK outcome \in {"done", "failed"} : outcome = IF kind[r] = "post" THEN "done" ELSE "failed"
  OBVIOUS
<1>3. End(r, outcome) /\ pc[r] \notin {"idle", "done", "refused", "failed"}
  BY <1>1, <1>2 DEF Running
<1>4. /\ mails \subseteq Req /\ audits \subseteq Req /\ stations \subseteq Req \cup OldCustomers
      /\ DOMAIN customers = CustIds /\ \A c \in CustIds : customers[c] # None => CustomerFits(customers[c])
  BY <1>1 DEF Tables
<1> QED
  BY <1>1, <1>2, <1>3, <1>4, EndKeeps

LEMMA CustomerStepsKeep ==
  ASSUME IInv, NEW r \in Req, LoadCustomer(r) \/ CheckName(r) \/ CheckPhone(r)
  PROVE  IInv'
<1>1. /\ pc[r] \in {"loadCustomer", "checkName", "checkPhone"}
      /\ kind[r] \in {"create", "update", "delete"} /\ Tables
      /\ pc[r] # "loadCustomer" => kind[r] # "delete"
      /\ pc[r] = "loadCustomer" => kind[r] # "create"
  BY KindAt DEF LoadCustomer, CheckName, CheckPhone, IInv
<1>2. CASE Refuse(r)
  BY <1>1, <1>2, RefuseKeeps
<1>3. CASE ~ Refuse(r)
  <2>1. PICK at \in {"checkName", "checkPhone", "write"} :
          /\ Goto(r, at)
          /\ pc[r] = "loadCustomer" => at = (IF kind[r] = "delete" THEN "write" ELSE "checkName")
          /\ pc[r] # "loadCustomer" => at # "checkName"
    BY <1>3 DEF LoadCustomer, CheckName, CheckPhone
  <2>2. /\ seen' = seen \/ seen' = [seen EXCEPT ![r] = customers[job[r].cust]]
        /\ job' = job /\ shown' = shown /\ made' = made
        /\ customers' = customers /\ stations' = stations /\ rows' = rows /\ audits' = audits
        /\ accepted' = accepted /\ posted' = posted /\ mails' = mails
    BY <1>3 DEF LoadCustomer, CheckName, CheckPhone, Keep, Only, database, outside
  <2>3. at \in Way(kind[r]) \ {"done"} /\ at \in Statement /\ mails \subseteq Req
    BY <1>1, <2>1 DEF Way, Statement, Tables
  <2>4. DOMAIN seen' = Req /\ \A q \in Req \ {r} : seen'[q] = seen[q]
    BY <1>1, <2>2 DEF Tables
  <2>5. Listed(r)'
    BY <1>1, <2>1 DEF Listed, Goto
  <2> QED
    BY <1>1, <2>1, <2>2, <2>3, <2>4, <2>5, GoOn
<1> QED
  BY <1>2, <1>3

LEMMA WriteCustomerKeeps ==
  ASSUME IInv, NEW r \in Req, WriteCustomer(r) \/ DeleteCustomer(r)
  PROVE  IInv'
<1>1. /\ pc[r] = "write" /\ kind[r] \in {"create", "update", "delete"} /\ Tables
      /\ job[r] \in Asks /\ job[r].kind = kind[r]
  BY KindAt DEF WriteCustomer, DeleteCustomer, IInv
<1>2. /\ job' = job /\ shown' = shown /\ stations' = stations /\ rows' = rows /\ audits' = audits
      /\ accepted' = accepted /\ posted' = posted /\ mails' = mails
  BY DEF WriteCustomer, DeleteCustomer, Only, outside
<1>3. PICK outcome \in {"done", "failed"} : End(r, outcome)
  BY DEF WriteCustomer, DeleteCustomer
<1>4. PICK c, x : /\ customers' = customers \/ customers' = [customers EXCEPT ![c] = x]
                  /\ x # None => CustomerFits(x)
  <2>1. CASE DeleteCustomer(r)
    <3>1. customers' = [customers EXCEPT ![job[r].cust] = None]
      BY <2>1 DEF DeleteCustomer
    <3> QED
      BY <3>1
  <2>2. CASE WriteCustomer(r) /\ kind[r] = "create"
    <3>1. customers' = [customers EXCEPT ![r] = Put(r)]
      BY <2>2 DEF WriteCustomer
    <3>2. "phone" \in DOMAIN job[r].set /\ job[r].set["phone"] \in Phones \cup {None}
      BY <1>1, <2>2, AsksTyped
    <3>3. PICK x : x = [name |-> job[r].set.name, phone |-> job[r].set.phone, active |-> TRUE]
      OBVIOUS
    <3>4. x = Put(r)
      BY <2>2, <3>3 DEF Put
    <3>5. DOMAIN x = Fields /\ x["phone"] = job[r].set["phone"] /\ x["active"] = TRUE
      BY <3>3 DEF Fields
    <3>6. CustomerFits(x)
      BY <3>2, <3>5 DEF CustomerFits
    <3> QED
      BY <3>1, <3>4, <3>6
  <2>3. CASE WriteCustomer(r) /\ kind[r] = "update"
    <3>1. job[r].cust \in CustIds
      BY <1>1, <2>3, AsksTyped
    <3>2. PICK c, s, x : /\ c = customers[job[r].cust] /\ s = job[r].set
                         /\ x = [f \in DOMAIN c |-> IF f \in DOMAIN s /\ s[f] # seen[r][f] THEN s[f] ELSE c[f]]
      OBVIOUS
    <3>3. x = Put(r)
      BY <2>3, <3>2 DEF Put, Sets
    <3>4. CASE customers[job[r].cust] = None
      <4>1. customers' = customers
        BY <2>3, <3>4 DEF WriteCustomer
      <4>2. None # None => CustomerFits(None)
        OBVIOUS
      <4> QED
        BY <4>1, <4>2
    <3>5. CASE customers[job[r].cust] # None
      <4>1. customers' = [customers EXCEPT ![job[r].cust] = x]
        BY <2>3, <3>3, <3>5 DEF WriteCustomer
      <4>2. CustomerFits(c)
        BY <1>1, <3>1, <3>2, <3>5 DEF Tables
      <4>3. /\ "phone" \in DOMAIN s => s["phone"] \in Phones \cup {None}
            /\ "active" \in DOMAIN s => s["active"] \in BOOLEAN
        BY <1>1, <2>3, <3>2, AsksTyped
      <4>4. /\ (x["phone"] = s["phone"] /\ "phone" \in DOMAIN s) \/ x["phone"] = c["phone"]
            /\ (x["active"] = s["active"] /\ "active" \in DOMAIN s) \/ x["active"] = c["active"]
            /\ DOMAIN x = DOMAIN c
        BY <3>2, <4>2 DEF CustomerFits, Fields
      <4>5. CustomerFits(x)
        BY <4>2, <4>3, <4>4 DEF CustomerFits
      <4> QED
        BY <4>1, <4>5
    <3> QED
      BY <3>4, <3>5
  <2> QED
    BY <2>1, <2>2, <2>3 DEF WriteCustomer
<1>5. DOMAIN customers' = CustIds /\ \A d \in CustIds : customers'[d] # None => CustomerFits(customers'[d])
  BY <1>1, <1>4 DEF Tables
<1>6. mails \subseteq Req /\ audits \subseteq Req /\ stations \subseteq Req \cup OldCustomers
  BY <1>1 DEF Tables
<1> QED
  BY <1>1, <1>2, <1>3, <1>5, <1>6, EndKeeps

LEMMA StationStepsKeep ==
  ASSUME IInv, NEW r \in Req, FindStation(r) \/ SaveStation(r)
  PROVE  IInv'
<1>1. pc[r] \in {"findStation", "updateStation", "insertStation"} /\ kind[r] = "station" /\ Tables
  BY KindAt DEF FindStation, SaveStation, IInv
<1>2. /\ mails \subseteq Req /\ audits \subseteq Req /\ stations \subseteq Req \cup OldCustomers
      /\ DOMAIN customers = CustIds /\ \A c \in CustIds : customers[c] # None => CustomerFits(customers[c])
      /\ DOMAIN seen = Req
      /\ \A at \in {"updateStation", "insertStation"} : at \in Way(kind[r]) \ {"done"} /\ at \in Statement
  BY <1>1 DEF Tables, Way, Statement
<1>3. CASE SaveStation(r)
  <2>1. /\ End(r, "done") /\ job' = job /\ shown' = shown /\ audits' = audits
        /\ customers' = customers /\ stations' \subseteq stations \cup {r} /\ rows' = rows
        /\ accepted' = accepted /\ posted' = posted /\ mails' = mails
    BY <1>3 DEF SaveStation, Only, outside
  <2> QED
    BY <1>1, <1>2, <2>1, EndKeeps
<1>4. CASE FindStation(r)
  <2>1. CASE Refuse(r)
    BY <1>1, <2>1, RefuseKeeps
  <2>2. CASE ~ Refuse(r)
    <3>1. PICK at \in {"updateStation", "insertStation"} : Goto(r, at)
      BY <1>4, <2>2 DEF FindStation
    <3>2. /\ job' = job /\ shown' = shown /\ made' = made /\ seen' = seen
          /\ customers' = customers /\ stations' = stations /\ rows' = rows /\ audits' = audits
          /\ accepted' = accepted /\ posted' = posted /\ mails' = mails
      BY <1>4, <2>2 DEF FindStation, Only, database, outside
    <3>3. Listed(r)'
      BY <1>1, <3>1 DEF Listed, Goto
    <3> QED
      BY <1>1, <1>2, <3>1, <3>2, <3>3, GoOn
  <2> QED
    BY <2>1, <2>2
<1> QED
  BY <1>3, <1>4

\* A report that is known and has a row is about a message of that row.
LEMMA FindRowKeeps ==
  ASSUME IInv, NEW r \in Req, FindRow(r)
  PROVE  IInv'
<1>1. /\ pc[r] = "nextReport" /\ kind[r] = "post" /\ Tables /\ job[r] \in Seq(posted) /\ job[r] # <<>>
      /\ made[r] = <<>>
  BY KindAt DEF FindRow, IInv, Requests, Making
<1>2. PICK p, rest : p = Head(job[r]) /\ rest = Tail(job[r])
  OBVIOUS
<1>3. p \in posted /\ rest \in Seq(posted)
  BY <1>1, <1>2
<1>4. /\ customers' = customers /\ stations' = stations /\ rows' = rows /\ audits' = audits
      /\ accepted' = accepted /\ posted' = posted /\ mails' = mails /\ made' = made /\ shown' = shown
  BY DEF FindRow, database, outside
<1>5. "nextReport" \in Way(kind[r]) \ {"done"} /\ "writeReport" \in Way("post") \ {"done"}
      /\ "nextReport" \in Statement /\ "writeReport" \in Statement
      /\ mails \subseteq Req /\ posted \subseteq Report /\ DOMAIN seen = Req
  BY <1>1 DEF Way, Statement, Tables
<1>6. CASE Rest(r) /\ Goto(r, "nextReport") /\ UNCHANGED seen
  <2>1. job' = [job EXCEPT ![r] = rest]
    BY <1>2, <1>6 DEF Rest
  <2>2. DOMAIN job' = Req /\ job'[r] = rest /\ \A q \in Req \ {r} : job'[q] = job[q]
    BY <1>1, <2>1 DEF Tables
  <2>3. kind' = kind /\ provider' = provider /\ pc' = [pc EXCEPT ![r] = "nextReport"]
    BY <1>6 DEF Goto
  <2>4. Listed(r)'
    BY <1>1, <2>3 DEF Listed
  <2> QED
    BY <1>1, <1>3, <1>4, <1>5, <1>6, <2>2, <2>3, <2>4, OnwardKeeps
<1>7. CASE /\ Known(p)
           /\ \E i \in Matching(p) : Keep(r, [row |-> i, status |-> rows[i].status])
           /\ Goto(r, "writeReport") /\ UNCHANGED job
  <2>1. PICK i \in Matching(p) : seen' = [seen EXCEPT ![r] = [row |-> i, status |-> rows[i].status]]
    BY <1>7 DEF Keep
  <2>2. i \in Slots /\ rows[i] # None /\ rows[i].msg = p.msg
    BY <1>1 DEF Matching, OnRecord, Tables
  <2>3. kind' = kind /\ provider' = provider /\ pc' = [pc EXCEPT ![r] = "writeReport"] /\ job' = job
    BY <1>7 DEF Goto
  <2>4. /\ pc' \in [Req -> Statement] /\ pc'[r] = "writeReport" /\ \A q \in Req \ {r} : pc'[q] = pc[q]
        /\ DOMAIN seen' = Req /\ seen'[r] = [row |-> i, status |-> rows[i].status]
        /\ \A q \in Req \ {r} : seen'[q] = seen[q]
    BY <1>1, <1>5, <2>1, <2>3 DEF Tables
  <2>5. Tables'
    <3>1. \A c \in CustIds : customers'[c] # None => CustomerFits(customers[c])'
      BY <1>1, <1>4 DEF Tables, CustomerFits
    <3> QED
      BY <1>1, <1>4, <2>3, <2>4, <3>1 DEF Tables
  <2>6. Asked(r)' /\ Listed(r)' /\ Making(r)'
    BY <1>1, <1>4, <1>5, <2>3, <2>4 DEF Asked, Listed, Making
  <2>7. Reporting(r)'
    <3>1. seen'[r].row = i /\ seen'[r].status = rows[i].status /\ p.status \in Recognized
      BY <1>7, <2>4 DEF Known
    <3> QED
      BY <1>1, <1>2, <1>4, <2>2, <2>3, <3>1 DEF Reporting
  <2>8. \A q \in Req \ {r} : UNCHANGED Private(q)
    BY <1>4, <2>3, <2>4 DEF Private
  <2> QED
    BY <1>1, <1>4, <2>3, <2>4, <2>5, <2>6, <2>7, <2>8, QuietKeeps
<1> QED
  BY <1>2, <1>6, <1>7 DEF FindRow

-----------------------------------------------------------------------------
(***************************************************************************)
(* The steps that send messages, save rows and write reports               *)
(***************************************************************************)
\* A step of r that sends message <<r, n>>, or none.
LEMMA SendingKeeps ==
  ASSUME IInv, NEW r \in Req, NEW n \in 1 .. MaxSelected, accepted[<<r, n>>] = None, NEW x,
         accepted' = accepted \/ accepted' = [accepted EXCEPT ![<<r, n>>] = x],
         kind' = kind, rows' = rows, shown' = shown, posted' = posted,
         \A q \in Req \ {r} : UNCHANGED Private(q),
         Tables', Requests(r)'
  PROVE  IInv'
<1>1. Tables /\ <<r, n>> \in MsgIds
  BY DEF IInv, MsgIds, Slots
<1>2. \A m \in MsgIds : m # <<r, n>> => accepted'[m] = accepted[m]
  BY <1>1 DEF Tables
<1>3. MessagesLast /\ RowsLast
  BY <1>2 DEF MessagesLast, RowsLast
<1>4. ASSUME NEW q \in Req \ {r}
      PROVE  Requests(q)'
  <2>1. \A k \in 1 .. MaxSelected : accepted'[<<q, k>>] = accepted[<<q, k>>]
    BY <1>2 DEF MsgIds, Slots
  <2> QED
    BY <1>3, <2>1, OthersStay
<1>5. ShownHaveRows' /\ StatusesArePosted' /\ ReportsAreShown'
  BY DEF IInv, ShownHaveRows, StatusesArePosted, ReportsAreShown, OnRecord
<1> QED
  BY <1>4, <1>5 DEF IInv

LEMMA CustomersStay ==
  ASSUME Tables, customers' = customers
  PROVE  DOMAIN customers' = CustIds /\ \A c \in CustIds : customers'[c] # None => CustomerFits(customers[c])'
BY DEF Tables, CustomerFits

LEMMA RemindKeeps ==
  ASSUME IInv, NEW r \in Req, Remind(r)
  PROVE  IInv'
<1>1. /\ pc[r] = "dispatch" /\ kind[r] = "remind" /\ Tables /\ Requests(r)
      /\ job[r] \in Asks /\ job[r].kind = kind[r]
  BY KindAt DEF Remind, IInv
<1>2. PICK o \in send_template(job[r].phone) :
        Delivered(<<r, 1>>, r, job[r].phone, o) /\ End(r, IF o.ok THEN "done" ELSE "refused")
  BY DEF Remind
<1>3. PICK outcome \in {"done", "refused"} : End(r, outcome)
  BY <1>2
<1>4. PICK to, x : to = job[r].phone /\ x = [cust |-> r, to |-> to]
  OBVIOUS
<1>5. /\ job' = job /\ shown' = shown /\ customers' = customers /\ stations' = stations /\ rows' = rows
      /\ audits' = audits /\ posted' = posted /\ mails' = mails
  BY DEF Remind, Only, database
<1>6. accepted' = accepted \/ (to # None /\ accepted' = [accepted EXCEPT ![<<r, 1>>] = x])
  <2>1. to = None => ~ o.accepted
    <3>1. CASE provider = "dev"
      BY <1>2, <1>4, <3>1 DEF send_template
    <3>2. CASE provider # "dev"
      BY <1>2, <1>4, <3>2 DEF send_template
    <3> QED
      BY <3>1, <3>2
  <2> QED
    BY <1>2, <1>4, <2>1 DEF Delivered
<1>7. 1 \in 1 .. MaxSelected /\ accepted[<<r, 1>>] = None /\ <<r, 1>> \in MsgIds
  BY <1>1, MessagingBounds DEF Requests, Sent, MsgIds, Slots
<1>8. to # None => x \in [cust : CustIds, to : Phones]
  <2>1. to \in Phones \cup {None}
    BY <1>1, <1>4, AsksTyped
  <2> QED
    BY <1>4, <2>1 DEF CustIds
<1>9. /\ kind' = kind /\ provider' = provider
      /\ pc' \in [Req -> Statement] /\ pc'[r] = outcome
      /\ DOMAIN seen' = Req /\ made' \in [Req -> Seq(Recipient)] /\ made'[r] = <<>>
      /\ \A q \in Req \ {r} : UNCHANGED <<pc[q], seen[q], made[q]>>
  BY <1>1, <1>3, EndIs
<1>10. Tables'
  <2>1. accepted' \in [MsgIds -> [cust : CustIds, to : Phones] \cup {None}]
    BY <1>1, <1>6, <1>8 DEF Tables
  <2> QED
    BY <1>1, <1>5, <1>9, <2>1, CustomersStay DEF Tables
<1>11. Requests(r)'
  <2>1. Asked(r)'
    BY <1>1, <1>5, <1>9 DEF Asked, Way
  <2>2. Listed(r)' /\ Making(r)' /\ Reporting(r)' /\ Sent(r)'
    BY <1>1, <1>9 DEF Listed, Making, Reporting, Sent
  <2>3. Saved(r)'
    BY <1>1, <1>5, <1>9 DEF Requests, Saved
  <2> QED
    BY <2>1, <2>2, <2>3 DEF Requests
<1>12. \A q \in Req \ {r} : UNCHANGED Private(q)
  BY <1>5, <1>9 DEF Private
<1> QED
  BY <1>5, <1>6, <1>7, <1>9, <1>10, <1>11, <1>12, SendingKeeps

\* The row an offer makes, and the message it may have sent.
LEMMA DispatchMakes ==
  ASSUME IInv, NEW r \in Req, Dispatch(r), NEW n, n = Len(made[r]) + 1, NEW to, to = seen[r][n]
  PROVE  /\ n \in 1 .. MaxSelected /\ n \in DOMAIN seen[r] /\ accepted[<<r, n>>] = None
         /\ \E x \in Recipient :
              /\ made' = [made EXCEPT ![r] = Append(@, x)]
              /\ x.cust = to.cust /\ x.status \in {"sent", "failed", "blocked"}
              /\ x.status = "blocked" <=> x.phone = None
              /\ \/ /\ accepted' = accepted
                    /\ x.msg = None
                 \/ /\ accepted' = [accepted EXCEPT ![<<r, n>>] = [cust |-> to.cust, to |-> to.phone]]
                    /\ x.msg \in {None, <<r, n>>} /\ x.phone = to.phone /\ to.phone # None
         /\ to.cust \in CustIds /\ to.phone \in Phones \cup {None}
<1>1. /\ pc[r] = "dispatch" /\ kind[r] = "offer" /\ Len(made[r]) < Len(seen[r]) /\ Tables /\ Requests(r)
  BY DEF Dispatch, IInv
<1>2. /\ seen[r] \in Seq([cust : CustIds, phone : Phones \cup {None}]) /\ Len(seen[r]) <= MaxSelected
      /\ made[r] \in Seq(Recipient)
  BY <1>1 DEF Requests, Listed, Tables
<1>3. n \in 1 .. MaxSelected /\ n \in DOMAIN seen[r] /\ n \notin DOMAIN made[r]
  BY <1>1, <1>2, MessagingBounds
<1>4. accepted[<<r, n>>] = None
  <2>1. Sent(r)
    BY <1>1 DEF Requests
  <2>2. accepted[<<r, n>>] # None => (kind[r] = "offer" /\ pc[r] \in {"done", "failed"})
                                     \/ n \in DOMAIN made[r] \/ kind[r] = "remind"
    BY ONLY <2>1, <1>3 DEF Sent
  <2>3. ~ (kind[r] = "offer" /\ pc[r] \in {"done", "failed"}) /\ kind[r] # "remind"
    BY <1>1
  <2> QED
    BY ONLY <2>2, <2>3, <1>3
<1>5. to \in [cust : CustIds, phone : Phones \cup {None}] /\ to.cust \in CustIds /\ to.phone \in Phones \cup {None}
  <2>1. PICK q : q = seen[r]
    OBVIOUS
  <2>2. q \in Seq([cust : CustIds, phone : Phones \cup {None}]) /\ n \in DOMAIN q /\ to = q[n]
    BY <1>2, <1>3, <2>1
  <2>3. \A S : q \in Seq(S) /\ n \in DOMAIN q => q[n] \in S
    OBVIOUS
  <2>4. to \in [cust : CustIds, phone : Phones \cup {None}]
    BY ONLY <2>2, <2>3
  <2> QED
    BY ONLY <2>4
<1>6. <<r, n>> \in MsgIds
  BY <1>3 DEF MsgIds, Slots
<1>7. CASE to.phone = None
  <2>1. PICK x : x = NewRow(to, "blocked", None)
    OBVIOUS
  <2>2. x \in Recipient /\ x.cust = to.cust /\ x.status = "blocked" /\ x.phone = None /\ x.msg = None
    BY <1>5, <1>7, <2>1 DEF NewRow, Recipient, Statuses
  <2>3. made' = [made EXCEPT ![r] = Append(@, x)] /\ accepted' = accepted
    BY <1>7, <2>1 DEF Dispatch
  <2> QED
    BY <1>3, <1>4, <1>5, <2>2, <2>3
<1>8. CASE to.phone # None
  <2>1. PICK o \in send_template(to.phone) :
          /\ Delivered(<<r, n>>, to.cust, to.phone, o)
          /\ made' = [made EXCEPT ![r] = Append(@, NewRow(to,
               IF o.ok THEN "sent" ELSE "failed", IF o.id THEN <<r, n>> ELSE None))]
    BY <1>8 DEF Dispatch
  <2>2. o.id => o.accepted
    <3>1. CASE provider = "dev"
      BY <3>1 DEF send_template
    <3>2. CASE provider = "unconfigured"
      BY <3>2 DEF send_template
    <3>3. CASE provider \notin {"dev", "unconfigured"}
      BY <1>8, <3>3 DEF send_template, Outcome
    <3> QED
      BY <3>1, <3>2, <3>3
  <2>3. PICK status, msg, x :
          /\ status = (IF o.ok THEN "sent" ELSE "failed") /\ msg = (IF o.id THEN <<r, n>> ELSE None)
          /\ x = NewRow(to, status, msg)
    OBVIOUS
  <2>4. status \in {"sent", "failed"} /\ msg \in {None, <<r, n>>} /\ (msg # None => o.accepted)
    BY <2>2, <2>3
  <2>5. x \in Recipient /\ x.cust = to.cust /\ x.status = status /\ x.phone = to.phone /\ x.msg = msg
    BY <1>5, <1>6, <2>3, <2>4 DEF NewRow, Recipient, Statuses, Recognized
  <2>6. made' = [made EXCEPT ![r] = Append(@, x)]
    BY <2>1, <2>3
  <2>7. CASE o.accepted
    <3>1. accepted' = [accepted EXCEPT ![<<r, n>>] = [cust |-> to.cust, to |-> to.phone]]
      BY <2>1, <2>7 DEF Delivered
    <3> QED
      BY <1>3, <1>4, <1>5, <1>8, <2>4, <2>5, <2>6, <3>1
  <2>8. CASE ~ o.accepted
    <3>1. accepted' = accepted /\ msg = None
      BY <2>1, <2>4, <2>8 DEF Delivered
    <3> QED
      BY <1>3, <1>4, <1>5, <1>8, <2>4, <2>5, <2>6, <3>1
  <2> QED
    BY <2>7, <2>8
<1> QED
  BY <1>7, <1>8

LEMMA DispatchKeeps ==
  ASSUME IInv, NEW r \in Req, Dispatch(r)
  PROVE  IInv'
<1>1. PICK n, to : n = Len(made[r]) + 1 /\ to = seen[r][n]
  OBVIOUS
<1>2. PICK x \in Recipient :
        /\ made' = [made EXCEPT ![r] = Append(@, x)]
        /\ x.cust = to.cust /\ x.status \in {"sent", "failed", "blocked"}
        /\ x.status = "blocked" <=> x.phone = None
        /\ \/ /\ accepted' = accepted
              /\ x.msg = None
           \/ /\ accepted' = [accepted EXCEPT ![<<r, n>>] = [cust |-> to.cust, to |-> to.phone]]
              /\ x.msg \in {None, <<r, n>>} /\ x.phone = to.phone /\ to.phone # None
  BY <1>1, DispatchMakes
<1>3. /\ n \in 1 .. MaxSelected /\ n \in DOMAIN seen[r] /\ accepted[<<r, n>>] = None
      /\ to.cust \in CustIds /\ to.phone \in Phones \cup {None}
  BY <1>1, DispatchMakes
<1>4. /\ pc[r] = "dispatch" /\ kind[r] = "offer" /\ Tables /\ Requests(r)
      /\ pc' = [pc EXCEPT ![r] = "dispatch"] /\ kind' = kind /\ provider' = provider
      /\ job' = job /\ shown' = shown /\ customers' = customers /\ stations' = stations /\ rows' = rows
      /\ audits' = audits /\ posted' = posted /\ mails' = mails /\ seen' = seen
  BY DEF Dispatch, IInv, Goto, Only, database
<1>5. pc' = pc
  BY <1>4 DEF Tables
<1>6. PICK old, new : old = made[r] /\ new = Append(old, x)
  OBVIOUS
<1>7. /\ old \in Seq(Recipient) /\ new \in Seq(Recipient) /\ Len(new) = n /\ DOMAIN new = 1 .. n
      /\ DOMAIN old = 1 .. (n - 1) /\ new[n] = x /\ \A k \in DOMAIN old : new[k] = old[k]
      /\ Len(old) = n - 1
  BY <1>1, <1>2, <1>3, <1>4, <1>6 DEF Tables
<1>8. /\ made' \in [Req -> Seq(Recipient)] /\ made'[r] = new
      /\ \A q \in Req \ {r} : made'[q] = made[q]
  BY <1>2, <1>4, <1>6, <1>7 DEF Tables
<1>9. PICK z : z = [cust |-> to.cust, to |-> to.phone]
  OBVIOUS
<1>10. accepted' = accepted \/ (z \in [cust : CustIds, to : Phones] /\ accepted' = [accepted EXCEPT ![<<r, n>>] = z])
  BY <1>2, <1>3, <1>9
<1>11. accepted' \in [MsgIds -> [cust : CustIds, to : Phones] \cup {None}]
  BY <1>4, <1>10 DEF Tables
<1>12. Tables'
  BY <1>4, <1>5, <1>8, <1>11, CustomersStay DEF Tables
<1>13. \A k \in 1 .. MaxSelected : <<r, k>> \in MsgIds /\ (k # n => accepted'[<<r, k>>] = accepted[<<r, k>>])
  BY <1>4, <1>10 DEF MsgIds, Slots, Tables
<1>14. accepted'[<<r, n>>] # None => accepted'[<<r, n>>] = z /\ z.cust = to.cust
  BY <1>3, <1>4, <1>9, <1>10, <1>13 DEF Tables
<1>15. RowFits(x, <<r, n>>)'
  <2>1. CASE x.msg = None
    BY <1>2, <2>1 DEF RowFits
  <2>2. CASE x.msg # None
    <3>1. x.msg = <<r, n>> /\ accepted' = [accepted EXCEPT ![<<r, n>>] = z] /\ x.phone = to.phone /\ x.cust = to.cust
      BY <1>2, <1>9, <2>2
    <3>2. accepted'[<<r, n>>] = z
      BY <1>3, <1>4, <1>13, <3>1 DEF Tables
    <3> QED
      BY <1>2, <1>9, <3>1, <3>2 DEF RowFits
  <2> QED
    BY <2>1, <2>2
<1>16. /\ seen[r] \in Seq([cust : CustIds, phone : Phones \cup {None}]) /\ Len(seen[r]) <= MaxSelected
       /\ \A j, k \in DOMAIN seen[r] : j # k => seen[r][j].cust # seen[r][k].cust
  BY <1>4 DEF Requests, Listed
<1>17. \A k \in DOMAIN old : /\ k \in 1 .. MaxSelected /\ k # n /\ k \in DOMAIN seen[r]
                             /\ old[k].cust = seen[r][k].cust
                             /\ old[k].status \in {"sent", "failed", "blocked"}
                             /\ RowFits(old[k], <<r, k>>)
  <2>1. Making(r)
    BY <1>4 DEF Requests
  <2>2. Len(old) <= Len(seen[r])
        /\ \A k \in DOMAIN old : /\ old[k].cust = seen[r][k].cust
                                 /\ old[k].status \in {"sent", "failed", "blocked"}
                                 /\ RowFits(old[k], <<r, k>>)
    BY ONLY <2>1, <1>4, <1>6 DEF Making
  <2>3. n - 1 <= Len(seen[r]) /\ Len(seen[r]) <= MaxSelected /\ Len(seen[r]) \in Nat
        /\ DOMAIN seen[r] = 1 .. Len(seen[r]) /\ n \in Int /\ MaxSelected \in Nat
    BY <1>3, <1>7, <1>16, <2>2, MessagingBounds
  <2>4. \A k \in DOMAIN old : k \in 1 .. MaxSelected /\ k # n /\ k \in DOMAIN seen[r]
    BY ONLY <1>7, <2>3
  <2> QED
    BY ONLY <2>2, <2>4
<1>18. Making(r)'
  <2>1. ASSUME NEW k \in DOMAIN new
        PROVE  /\ new[k].cust = seen[r][k].cust /\ new[k].status \in {"sent", "failed", "blocked"}
               /\ RowFits(new[k], <<r, k>>)'
    <3>1. CASE k = n
      BY <1>1, <1>2, <1>7, <1>15, <3>1
    <3>2. CASE k # n
      <4>1. k \in DOMAIN old
        BY <1>3, <1>7, <3>2
      <4>2. RowFits(old[k], <<r, k>>)'
        BY <1>13, <1>17, <4>1 DEF RowFits
      <4> QED
        BY <1>7, <1>17, <4>1, <4>2
    <3> QED
      BY <3>1, <3>2
  <2>2. n <= Len(seen[r])
    BY <1>3, <1>16
  <2> QED
    BY <1>4, <1>5, <1>7, <1>8, <2>1, <2>2 DEF Making
<1>19. Sent(r)'
  <2>1. ASSUME NEW k \in 1 .. MaxSelected, accepted'[<<r, k>>] # None
        PROVE  /\ k \in DOMAIN new /\ accepted'[<<r, k>>].cust = new[k].cust
               /\ k \in DOMAIN seen[r] /\ new[k].cust = seen[r][k].cust
    <3>1. CASE k = n
      BY <1>1, <1>2, <1>3, <1>7, <1>14, <2>1, <3>1
    <3>2. CASE k # n
      <4>1. accepted'[<<r, k>>] = accepted[<<r, k>>]
        BY <1>13, <3>2
      <4>2. k \in DOMAIN old /\ accepted[<<r, k>>].cust = old[k].cust
        BY <1>4, <1>6, <2>1, <4>1 DEF Requests, Sent
      <4> QED
        BY <1>3, <1>7, <1>17, <4>1, <4>2
    <3> QED
      BY <3>1, <3>2
  <2>2. \A j, k \in 1 .. MaxSelected :
          accepted'[<<r, j>>] # None /\ accepted'[<<r, k>>] # None
          /\ accepted'[<<r, j>>].cust = accepted'[<<r, k>>].cust => j = k
    BY <1>16, <2>1
  <2>3. \A k \in 1 .. MaxSelected : accepted'[<<r, k>>] # None =>
          k \in DOMAIN made'[r] /\ accepted'[<<r, k>>].cust = made'[r][k].cust
    BY <1>8, <2>1
  <2> QED
    BY <1>4, <1>5, <2>2, <2>3 DEF Sent
<1>20. Saved(r)'
  BY <1>4, <1>5 DEF Requests, Saved
<1>21. Asked(r)' /\ Listed(r)' /\ Reporting(r)'
  BY <1>4, <1>5 DEF Requests, Asked, Listed, Reporting
<1>22. Requests(r)'
  BY <1>18, <1>19, <1>20, <1>21 DEF Requests
<1>23. \A q \in Req \ {r} : UNCHANGED Private(q)
  BY <1>4, <1>5, <1>8 DEF Private
<1> QED
  BY <1>3, <1>4, <1>10, <1>12, <1>22, <1>23, SendingKeeps

\* What an offer has made is what its rows become; it had none.
LEMMA SaveOfferSaves ==
  ASSUME IInv, NEW r \in Req, SaveOffer(r)
  PROVE  /\ rows' \in [Slots -> Recipient \cup {None}]
         /\ \A i \in Slots : i[1] # r => rows'[i] = rows[i]
         /\ \A n \in 1 .. MaxSelected :
              /\ rows[<<r, n>>] = None
              /\ n \in DOMAIN seen[r] =>
                   /\ rows'[<<r, n>>] \in Recipient /\ rows'[<<r, n>>].cust = seen[r][n].cust
                   /\ rows'[<<r, n>>].status \in {"sent", "failed", "blocked"}
                   /\ RowFits(rows'[<<r, n>>], <<r, n>>)
              /\ n \notin DOMAIN seen[r] => rows'[<<r, n>>] = None
         /\ DOMAIN seen[r] \subseteq 1 .. MaxSelected
<1>1. /\ pc[r] = "dispatch" /\ kind[r] = "offer" /\ Len(made[r]) = Len(seen[r])
      /\ Tables /\ Listed(r) /\ Making(r) /\ Saved(r)
  BY DEF SaveOffer, IInv, Requests
<1>2. PICK old, s : old = made[r] /\ s = seen[r]
  OBVIOUS
<1>3. old \in Seq(Recipient) /\ s \in Seq([cust : CustIds, phone : Phones \cup {None}])
      /\ Len(s) <= MaxSelected /\ Len(old) = Len(s)
  BY <1>1, <1>2 DEF Tables, Listed
<1>4. DOMAIN old = DOMAIN s /\ DOMAIN s \subseteq 1 .. MaxSelected
      /\ \A n \in DOMAIN old : old[n] \in Recipient
  BY ONLY <1>3, MessagingBounds
<1>5. rows' = [i \in Slots |-> IF i[1] = r /\ i[2] \in DOMAIN old THEN old[i[2]] ELSE rows[i]]
  BY <1>2 DEF SaveOffer
<1>6. rows \in [Slots -> Recipient \cup {None}]
  BY <1>1 DEF Tables
<1>7. rows' \in [Slots -> Recipient \cup {None}]
  BY ONLY <1>4, <1>5, <1>6
<1>8. \A i \in Slots : i[1] # r => rows'[i] = rows[i]
  BY ONLY <1>5
<1>9. ASSUME NEW n \in 1 .. MaxSelected
      PROVE  /\ rows[<<r, n>>] = None
             /\ n \in DOMAIN s =>
                  /\ rows'[<<r, n>>] \in Recipient /\ rows'[<<r, n>>].cust = s[n].cust
                  /\ rows'[<<r, n>>].status \in {"sent", "failed", "blocked"}
                  /\ RowFits(rows'[<<r, n>>], <<r, n>>)
             /\ n \notin DOMAIN s => rows'[<<r, n>>] = None
  <2>1. PICK i : i = <<r, n>> /\ i \in Slots /\ i[1] = r /\ i[2] = n
    <3>1. <<r, n>> \in Slots
      BY DEF Slots
    <3>2. <<r, n>>[1] = r /\ <<r, n>>[2] = n
      OBVIOUS
    <3> QED
      BY ONLY <3>1, <3>2, Zenon
  <2>2. rows[i] = None
    BY <1>1, <2>1 DEF Saved
  <2>3. rows'[i] = IF n \in DOMAIN old THEN old[n] ELSE rows[i]
    BY ONLY <1>5, <2>1
  <2>4. n \in DOMAIN old => /\ old[n].cust = s[n].cust /\ old[n].status \in {"sent", "failed", "blocked"}
                            /\ RowFits(old[n], <<r, n>>)
    BY ONLY <1>1, <1>2 DEF Making
  <2> QED
    BY ONLY <1>4, <2>1, <2>2, <2>3, <2>4
<1> QED
  BY ONLY <1>2, <1>4, <1>7, <1>8, <1>9

LEMMA SaveOfferKeeps ==
  ASSUME IInv, NEW r \in Req, SaveOffer(r)
  PROVE  IInv'
<1>1. /\ pc[r] = "dispatch" /\ kind[r] = "offer" /\ Tables /\ Requests(r)
      /\ End(r, "done") /\ job' = job /\ shown' = shown
      /\ customers' = customers /\ stations' = stations /\ audits' = audits
      /\ accepted' = accepted /\ posted' = posted /\ mails' = mails
  BY DEF SaveOffer, IInv, Only, outside
<1>2. /\ kind' = kind /\ provider' = provider
      /\ pc' \in [Req -> Statement] /\ pc'[r] = "done"
      /\ DOMAIN seen' = Req /\ made' \in [Req -> Seq(Recipient)] /\ made'[r] = <<>>
      /\ \A q \in Req \ {r} : UNCHANGED <<pc[q], seen[q], made[q]>>
  BY <1>1, EndIs
<1>3. PICK s : s = seen[r]
  OBVIOUS
<1>4. rows' \in [Slots -> Recipient \cup {None}] /\ \A i \in Slots : i[1] # r => rows'[i] = rows[i]
  BY SaveOfferSaves
<1>5. \A n \in 1 .. MaxSelected : rows[<<r, n>>] = None
  BY SaveOfferSaves
<1>6. \A n \in 1 .. MaxSelected :
         /\ n \in DOMAIN s =>
              /\ rows'[<<r, n>>] \in Recipient /\ rows'[<<r, n>>].cust = s[n].cust
              /\ rows'[<<r, n>>].status \in {"sent", "failed", "blocked"}
              /\ RowFits(rows'[<<r, n>>], <<r, n>>)
         /\ n \notin DOMAIN s => rows'[<<r, n>>] = None
  BY <1>3, SaveOfferSaves
<1>7. DOMAIN s \subseteq 1 .. MaxSelected
  BY <1>3, SaveOfferSaves
<1>8. \A i \in Slots : i[1] = r => \E n \in 1 .. MaxSelected : i = <<r, n>>
  BY DEF Slots
<1>9. RowsLast /\ MessagesLast
  <2>1. \A i \in Slots : rows[i] # None => rows'[i] = rows[i]
    BY <1>4, <1>5, <1>8
  <2> QED
    BY <1>1, <2>1 DEF RowsLast, MessagesLast
<1>10. ASSUME NEW q \in Req \ {r}
       PROVE  Requests(q)'
  <2>1. \A n \in 1 .. MaxSelected : rows'[<<q, n>>] = rows[<<q, n>>]
    BY <1>4 DEF Slots
  <2>2. UNCHANGED Private(q)
    BY <1>1, <1>2 DEF Private
  <2> QED
    BY <1>1, <1>2, <1>9, <2>1, <2>2, OthersStay
<1>11. Tables'
  BY <1>1, <1>2, <1>4, CustomersStay DEF Tables
<1>12. Asked(r)' /\ Listed(r)' /\ Making(r)' /\ Reporting(r)'
  BY <1>1, <1>2 DEF Requests, Asked, Listed, Making, Reporting, Way
<1>13. Sent(r)'
  BY <1>1, <1>2 DEF Requests, Sent
<1>14. Saved(r)'
  <2>1. Listed(r)
    BY <1>1 DEF Requests
  <2>2. /\ {s[n].cust : n \in DOMAIN s} = ToSet(job[r].ids)
        /\ \A n, k \in DOMAIN s : n # k => s[n].cust # s[k].cust
    BY ONLY <1>1, <1>3, <2>1 DEF Listed
  <2>3. \A n \in 1 .. MaxSelected : rows'[<<r, n>>] # None <=> n \in DOMAIN s
    <3>1. None \notin Recipient
      BY NoneIsNoValue
    <3> QED
      BY ONLY <1>6, <3>1
  <2>4. \A n \in 1 .. MaxSelected : rows'[<<r, n>>] # None => RowFits(rows[<<r, n>>], <<r, n>>)'
    <3>1. \A n \in 1 .. MaxSelected :
            RowFits(rows'[<<r, n>>], <<r, n>>) => RowFits(rows[<<r, n>>], <<r, n>>)'
      BY <1>1 DEF RowFits
    <3> QED
      BY <1>6, <2>3, <3>1
  <2>5. \A c : c \in ToSet(job[r].ids) <=>
          \E n \in 1 .. MaxSelected : rows'[<<r, n>>] # None /\ rows'[<<r, n>>].cust = c
    <3>1. \A c : c \in ToSet(job[r].ids) <=> \E n \in DOMAIN s : s[n].cust = c
      BY ONLY <2>2, Zenon
    <3>2. \A n : n \in DOMAIN s => n \in 1 .. MaxSelected
      BY ONLY <1>7
    <3>3. ASSUME NEW c
          PROVE  (\E n \in DOMAIN s : s[n].cust = c)
                 <=> \E n \in 1 .. MaxSelected : rows'[<<r, n>>] # None /\ rows'[<<r, n>>].cust = c
      <4>1. ASSUME NEW n \in DOMAIN s, s[n].cust = c
            PROVE  \E k \in 1 .. MaxSelected : rows'[<<r, k>>] # None /\ rows'[<<r, k>>].cust = c
        <5>1. n \in 1 .. MaxSelected
          BY ONLY <4>1, <3>2
        <5>2. rows'[<<r, n>>] # None /\ rows'[<<r, n>>].cust = c
          BY ONLY <2>3, <1>6, <4>1, <5>1
        <5> QED
          BY ONLY <5>1, <5>2, Zenon
      <4>2. ASSUME NEW n \in 1 .. MaxSelected, rows'[<<r, n>>] # None, rows'[<<r, n>>].cust = c
            PROVE  \E k \in DOMAIN s : s[k].cust = c
        <5>1. n \in DOMAIN s
          BY ONLY <2>3, <4>2
        <5>2. s[n].cust = c
          BY ONLY <1>6, <4>2, <5>1
        <5> QED
          BY ONLY <5>1, <5>2, Zenon
      <4> QED
        BY ONLY <4>1, <4>2
    <3> QED
      BY ONLY <3>1, <3>3
  <2>6. \A n, k \in 1 .. MaxSelected :
          /\ rows'[<<r, n>>] # None /\ rows'[<<r, k>>] # None
          /\ rows'[<<r, n>>].cust = rows'[<<r, k>>].cust
          => n = k
    BY ONLY <1>6, <2>2, <2>3
  <2> QED
    BY <1>1, <1>2, <2>4, <2>5, <2>6 DEF Saved
<1>15. \A i \in Slots : rows'[i] = rows[i] \/ \E n \in DOMAIN s : n \in 1 .. MaxSelected /\ i = <<r, n>>
  BY <1>4, <1>5, <1>6, <1>8
<1>16. ShownHaveRows'
  BY <1>1, <1>9 DEF IInv, Tables, ShownHaveRows, RowsLast, Report, MsgIds
<1>17. StatusesArePosted'
  <2>1. SUFFICES ASSUME NEW i \in Slots, rows'[i] # None
                 PROVE  \/ rows'[i].status \in {"sent", "failed", "blocked"}
                        \/ [msg |-> rows'[i].msg, status |-> rows'[i].status] \in posted'
    BY <1>4 DEF StatusesArePosted, OnRecord
  <2>2. CASE rows'[i] = rows[i]
    BY <1>1, <2>1, <2>2 DEF IInv, StatusesArePosted, OnRecord, Tables
  <2>3. CASE rows'[i] # rows[i]
    BY <1>6, <1>15, <2>3
  <2> QED
    BY <2>2, <2>3
<1>18. ReportsAreShown'
  <2>1. SUFFICES ASSUME NEW p \in shown, NEW i \in Slots, rows'[i] # None, rows'[i].msg = p.msg
                 PROVE  [msg |-> p.msg, status |-> rows'[i].status] \in shown
    BY <1>1, <1>4 DEF ReportsAreShown, OnRecord
  <2>2. CASE rows'[i] = rows[i]
    BY <1>1, <2>1, <2>2 DEF IInv, ReportsAreShown, OnRecord, Tables
  <2>3. CASE rows'[i] # rows[i]
    <3>1. PICK n \in 1 .. MaxSelected : n \in DOMAIN s /\ i = <<r, n>>
      BY <1>15, <2>3
    <3>2. rows'[i].msg = None \/ rows'[i].msg = i
      BY <1>6, <3>1 DEF RowFits
    <3>3. p.msg \in MsgIds /\ rows[p.msg] # None
      BY <1>1, <2>1 DEF IInv, Tables, ShownHaveRows, Report
    <3>4. p.msg # None
      BY <3>3, NoneIsNoValue
    <3> QED
      BY <1>5, <2>1, <3>1, <3>2, <3>3, <3>4
  <2> QED
    BY <2>2, <2>3
<1> QED
  BY <1>10, <1>11, <1>12, <1>13, <1>14, <1>16, <1>17, <1>18 DEF IInv, Requests

\* The status that row i shows after report p.
StatusGiven(i, p) ==
  \E st \in Statuses : /\ rows'[i] = [rows[i] EXCEPT !.status = st]
                       /\ st = rows[i].status \/ st = p.status
                       /\ [msg |-> i, status |-> st] \in shown'

\* One row, the one the report is about, may be given a status; and what it then shows
\* was said by a report that was matched.
LEMMA WriteReportWrites ==
  ASSUME IInv, NEW r \in Req, WriteReport(r), NEW i, i = seen[r].row, NEW p, p = Head(job[r])
  PROVE  /\ i \in Slots /\ rows[i] # None /\ rows[i].msg = i /\ rows[i].phone # None
         /\ p \in posted /\ p.msg = i /\ p.status \in Recognized /\ shown' = shown \cup {p}
         /\ rows' \in [Slots -> Recipient \cup {None}]
         /\ \A k \in Slots \ {i} : rows'[k] = rows[k]
         /\ StatusGiven(i, p)
<1>1. /\ pc[r] = "writeReport" /\ Tables /\ Reporting(r) /\ job[r] \in Seq(posted)
  BY KindAt DEF WriteReport, IInv, Requests
<1>2. /\ i \in Slots /\ rows[i] # None /\ rows[i].msg = p.msg /\ p.status \in Recognized /\ job[r] # <<>>
      /\ \/ rows[i].status = seen[r].status
         \/ [msg |-> rows[i].msg, status |-> rows[i].status] \in shown
  BY <1>1 DEF Reporting
<1>3. p \in posted /\ p \in Report
  BY <1>1, <1>2 DEF Tables
<1>4. p = [msg |-> p.msg, status |-> p.status] /\ p.msg \in MsgIds
  BY <1>3 DEF Report
<1>5. p.msg # None
  BY <1>4, NoneIsNoValue
<1>6. rows[i].msg = i /\ rows[i].phone # None
  BY <1>2, <1>5, MessageOfRow
<1>7. shown' = shown \cup {p} /\ rows \in [Slots -> Recipient \cup {None}]
  BY <1>1 DEF WriteReport, Tables
<1>8. PICK row : row = rows[i] /\ row \in Recipient
  BY <1>2, <1>7
<1>9. row.status \in Statuses /\ row = [row EXCEPT !.status = row.status]
  BY ONLY <1>8 DEF Recipient
<1>10. p.status \in Statuses /\ [row EXCEPT !.status = p.status] \in Recipient
  BY ONLY <1>2, <1>8 DEF Recipient, Statuses
<1>11. CASE seen[r].status = p.status
  <2>1. rows' = rows
    BY <1>11 DEF WriteReport, Written
  <2>2. [msg |-> i, status |-> row.status] \in shown'
    BY ONLY <1>2, <1>4, <1>6, <1>7, <1>8, <1>11
  <2> QED
    BY ONLY <1>2, <1>3, <1>6, <1>7, <1>8, <1>9, <2>1, <2>2 DEF StatusGiven
<1>12. CASE seen[r].status # p.status
  <2>1. rows' = [rows EXCEPT ![i].status = p.status]
    BY <1>12 DEF WriteReport, Written, Write
  <2>2. rows' = [rows EXCEPT ![i] = [row EXCEPT !.status = p.status]]
    BY ONLY <1>8, <2>1
  <2>3. rows' \in [Slots -> Recipient \cup {None}] /\ \A k \in Slots \ {i} : rows'[k] = rows[k]
    BY ONLY <1>2, <1>7, <1>10, <2>2
  <2>4. rows'[i] = [row EXCEPT !.status = p.status]
    BY ONLY <1>2, <1>7, <2>2
  <2>5. [msg |-> i, status |-> p.status] \in shown'
    BY ONLY <1>2, <1>4, <1>6, <1>7
  <2> QED
    BY ONLY <1>2, <1>3, <1>6, <1>7, <1>8, <1>10, <2>3, <2>4, <2>5 DEF StatusGiven
<1> QED
  BY <1>11, <1>12

LEMMA WriteReportKeeps ==
  ASSUME IInv, NEW r \in Req, WriteReport(r)
  PROVE  IInv'
<1>1. /\ pc[r] = "writeReport" /\ kind[r] = "post" /\ Tables /\ Requests(r) /\ job[r] \in Seq(posted)
      /\ customers' = customers /\ stations' = stations /\ audits' = audits /\ made' = made
      /\ accepted' = accepted /\ posted' = posted /\ mails' = mails
      /\ kind' = kind /\ provider' = provider /\ pc' = [pc EXCEPT ![r] = "nextReport"]
      /\ seen' = [seen EXCEPT ![r] = <<>>] /\ job' = [job EXCEPT ![r] = Tail(@)]
  BY KindAt DEF WriteReport, IInv, outside, Rest, Keep, Goto
<1>2. PICK i, p : i = seen[r].row /\ p = Head(job[r])
  OBVIOUS
<1>3. /\ i \in Slots /\ rows[i] # None /\ rows[i].msg = i /\ rows[i].phone # None
      /\ p \in posted /\ p.msg = i /\ p.status \in Recognized /\ shown' = shown \cup {p}
      /\ rows' \in [Slots -> Recipient \cup {None}]
      /\ \A k \in Slots \ {i} : rows'[k] = rows[k]
  BY <1>2, WriteReportWrites
<1>4. PICK st \in Statuses : /\ rows'[i] = [rows[i] EXCEPT !.status = st]
                             /\ st = rows[i].status \/ st = p.status
                             /\ [msg |-> i, status |-> st] \in shown'
  <2>1. StatusGiven(i, p)
    BY <1>2, WriteReportWrites
  <2> QED
    BY ONLY <2>1, Zenon DEF StatusGiven
<1>5. rows[i] \in Recipient
  BY <1>1, <1>3 DEF Tables
<1>6. /\ rows'[i] # None /\ rows'[i].cust = rows[i].cust /\ rows'[i].phone = rows[i].phone
      /\ rows'[i].msg = rows[i].msg /\ rows'[i].status = st
  <2>1. rows'[i] \in Recipient
    BY ONLY <1>4, <1>5 DEF Recipient
  <2> QED
    BY <1>4, <1>5, <2>1, NoneIsNoValue DEF Recipient
<1>7. RowsLast /\ MessagesLast
  <2>1. ASSUME NEW k \in Slots, rows[k] # None
        PROVE  /\ rows'[k] # None /\ rows'[k].cust = rows[k].cust
               /\ rows'[k].phone = rows[k].phone /\ rows'[k].msg = rows[k].msg
               /\ \/ rows'[k].status = rows[k].status
                  \/ /\ rows[k].msg # None /\ rows'[k].status \in Recognized
                     /\ [msg |-> rows[k].msg, status |-> rows'[k].status] \in shown'
    <3>1. CASE k = i
      <4>1. i # None
        BY <1>3, NoneIsNoValue DEF MsgIds
      <4> QED
        BY ONLY <1>3, <1>4, <1>6, <3>1, <4>1
    <3>2. CASE k # i
      BY <1>3, <2>1, <3>2
    <3> QED
      BY <3>1, <3>2
  <2> QED
    BY <1>1, <2>1 DEF RowsLast, MessagesLast
<1>8. /\ pc' \in [Req -> Statement] /\ pc'[r] = "nextReport" /\ \A q \in Req \ {r} : pc'[q] = pc[q]
      /\ DOMAIN seen' = Req /\ \A q \in Req \ {r} : seen'[q] = seen[q]
      /\ DOMAIN job' = Req /\ job'[r] = Tail(job[r]) /\ \A q \in Req \ {r} : job'[q] = job[q]
  BY <1>1 DEF Tables, Statement
<1>9. shown \subseteq shown' /\ shown' \subseteq posted'
  BY <1>1, <1>3 DEF Tables
<1>10. ASSUME NEW q \in Req \ {r}
       PROVE  Requests(q)'
  <2>1. UNCHANGED Private(q)
    BY <1>1, <1>8 DEF Private
  <2>2. \A n \in 1 .. MaxSelected : rows[<<q, n>>] = None => rows'[<<q, n>>] = None
    BY <1>3 DEF Slots
  <2> QED
    BY <1>1, <1>7, <1>9, <2>1, <2>2, OthersStay
<1>11. Tables'
  BY <1>1, <1>3, <1>8, <1>9, CustomersStay DEF Tables
<1>12. Requests(r)'
  <2>1. job[r] # <<>>
    BY <1>1 DEF Requests, Reporting
  <2>2. job'[r] \in Seq(posted')
    BY <1>1, <1>8, <2>1
  <2>3. Asked(r)'
    BY <1>1, <1>8, <2>2 DEF Asked, Way
  <2>4. Listed(r)' /\ Making(r)' /\ Reporting(r)' /\ Sent(r)'
    BY <1>1, <1>8 DEF Requests, Listed, Making, Reporting, Sent
  <2>5. \A n \in 1 .. MaxSelected : rows'[<<r, n>>] = None
    <3>1. \A n \in 1 .. MaxSelected : rows[<<r, n>>] = None
      BY <1>1 DEF Requests, Saved
    <3> QED
      BY <1>3, <3>1 DEF Slots
  <2>6. Saved(r)'
    BY <1>1, <2>5 DEF Saved
  <2> QED
    BY <2>3, <2>4, <2>6 DEF Requests
<1>13. ShownHaveRows'
  <2>1. \A q \in shown : q.msg \in Slots /\ rows[q.msg] # None
    BY <1>1 DEF IInv, Tables, ShownHaveRows, Report, MsgIds
  <2>2. \A q \in shown' : q.msg \in Slots /\ rows[q.msg] # None
    BY <1>3, <2>1
  <2> QED
    BY <1>7, <2>2 DEF ShownHaveRows, RowsLast
<1>14. StatusesArePosted'
  <2>1. SUFFICES ASSUME NEW k \in Slots, rows'[k] # None
                 PROVE  \/ rows'[k].status \in {"sent", "failed", "blocked"}
                        \/ [msg |-> rows'[k].msg, status |-> rows'[k].status] \in posted'
    BY <1>3 DEF StatusesArePosted, OnRecord
  <2>2. CASE k # i
    BY <1>1, <1>3, <2>1, <2>2 DEF IInv, StatusesArePosted, OnRecord, Tables
  <2>3. CASE k = i
    BY <1>3, <1>4, <1>6, <1>9, <2>3
  <2> QED
    BY <2>2, <2>3
<1>15. ReportsAreShown'
  <2>1. SUFFICES ASSUME NEW q \in shown', NEW k \in Slots, rows'[k] # None, rows'[k].msg = q.msg
                 PROVE  [msg |-> q.msg, status |-> rows'[k].status] \in shown'
    BY <1>3 DEF ReportsAreShown, OnRecord
  <2>2. CASE k = i
    BY <1>3, <1>4, <1>6, <2>1, <2>2
  <2>3. CASE k # i
    <3>1. rows'[k] = rows[k] /\ rows[k] # None
      BY <1>3, <2>1, <2>3
    <3>2. CASE q = p
      <4>1. rows[k].msg # None
        BY <1>3, <2>1, <3>1, <3>2, NoneIsNoValue DEF MsgIds
      <4>2. rows[k].msg = k
        BY <3>1, <4>1, MessageOfRow
      <4> QED
        BY <1>3, <2>1, <2>3, <3>1, <3>2, <4>2
    <3>3. CASE q \in shown
      BY <1>1, <1>9, <2>1, <3>1, <3>3 DEF IInv, ReportsAreShown, OnRecord, Tables
    <3> QED
      BY <1>3, <3>2, <3>3
  <2> QED
    BY <2>2, <2>3
<1> QED
  BY <1>10, <1>11, <1>12, <1>13, <1>14, <1>15 DEF IInv

-----------------------------------------------------------------------------
(***************************************************************************)
(* The invariant, and what follows from it                                 *)
(***************************************************************************)
LEMMA InvariantInitially == Init => IInv
<1> SUFFICES ASSUME Init PROVE IInv
  OBVIOUS
<1>1. /\ rows = [i \in Slots |-> None] /\ accepted = [m \in MsgIds |-> None]
      /\ audits = {} /\ posted = {} /\ mails = {} /\ shown = {}
      /\ provider \in {"dev", "meta", "unconfigured"} /\ kind \in [Req -> Kinds]
      /\ pc = [r \in Req |-> "idle"] /\ job = [r \in Req |-> None]
      /\ seen = [r \in Req |-> <<>>] /\ made = [r \in Req |-> <<>>]
  BY MessagingBounds DEF Init
<1>2. PICK d \in Databases : customers = d.customers /\ stations = d.stations
  BY DEF Init
<1>3. customers \in [CustIds -> OfferCustomer \cup {None}] /\ stations \subseteq Req \cup OldCustomers
  BY <1>2, DatabasesTyped
<1>4. ASSUME NEW c \in OfferCustomer
      PROVE  CustomerFits(c)
  BY DEF OfferCustomer, CustomerFits, Fields
<1>5. Tables
  <2>1. <<>> \in Seq(Recipient)
    OBVIOUS
  <2>2. pc \in [Req -> Statement] /\ made \in [Req -> Seq(Recipient)]
    BY <1>1, <2>1 DEF Statement
  <2>3. DOMAIN customers = CustIds /\ \A c \in CustIds : customers[c] # None => CustomerFits(customers[c])
    BY <1>3, <1>4
  <2>4. rows \in [Slots -> Recipient \cup {None}] /\ accepted \in [MsgIds -> [cust : CustIds, to : Phones] \cup {None}]
    BY <1>1
  <2> QED
    BY <1>1, <1>3, <2>2, <2>3, <2>4 DEF Tables
<1>6. ASSUME NEW r \in Req
      PROVE  Requests(r)
  <2>1. pc[r] = "idle" /\ made[r] = <<>>
    BY <1>1
  <2>2. \A n \in 1 .. MaxSelected : rows[<<r, n>>] = None /\ accepted[<<r, n>>] = None
    BY <1>1 DEF Slots, MsgIds
  <2>3. Asked(r) /\ Listed(r) /\ Making(r) /\ Reporting(r)
    BY <2>1 DEF Asked, Listed, Making, Reporting
  <2>4. Sent(r) /\ Saved(r)
    BY <2>1, <2>2 DEF Sent, Saved
  <2> QED
    BY <2>3, <2>4 DEF Requests
<1>7. ShownHaveRows /\ StatusesArePosted /\ ReportsAreShown
  BY <1>1 DEF ShownHaveRows, StatusesArePosted, ReportsAreShown, OnRecord
<1> QED
  BY <1>5, <1>6, <1>7 DEF IInv

LEMMA InvariantStep == IInv /\ [Next]_vars => IInv'
<1> SUFFICES ASSUME IInv, [Next]_vars PROVE IInv'
  OBVIOUS
<1>1. CASE UNCHANGED vars
  <2>1. /\ rows' = rows /\ accepted' = accepted /\ shown' = shown /\ posted' = posted /\ kind' = kind
        /\ pc' = pc /\ job' = job /\ seen' = seen /\ made' = made /\ customers' = customers
        /\ stations' = stations /\ audits' = audits /\ provider' = provider /\ mails' = mails
    BY <1>1 DEF vars, database, outside
  <2>2. RowsLast /\ MessagesLast
    BY <2>1 DEF RowsLast, MessagesLast
  <2>3. \A q \in Req : Requests(q)'
    BY <2>1, <2>2, OthersStay DEF Private
  <2>4. Tables'
    BY <2>1, CustomersStay DEF IInv, Tables
  <2> QED
    BY <2>1, <2>3, <2>4 DEF IInv, ShownHaveRows, StatusesArePosted, ReportsAreShown, OnRecord
<1>2. ASSUME NEW r \in Req, Send(r) \/ Abort(r)
      PROVE  IInv'
  BY <1>2, SendStarts, AbortEnds
<1>3. ASSUME NEW r \in Req, Step(r)
      PROVE  IInv'
  <2>1. CASE LoadRecipients(r) \/ LoadStation(r) \/ Dispatch(r) \/ SaveOffer(r) \/ Remind(r)
    BY <2>1, LoadRecipientsKeeps, LoadStationKeeps, DispatchKeeps, SaveOfferKeeps, RemindKeeps
  <2>2. CASE Mail(r) \/ RecordAudit(r) \/ FindRow(r) \/ WriteReport(r) \/ EndPost(r)
    BY <2>2, AuditStepsKeep, FindRowKeeps, WriteReportKeeps, EndPostKeeps
  <2>3. CASE LoadCustomer(r) \/ CheckName(r) \/ CheckPhone(r) \/ WriteCustomer(r) \/ DeleteCustomer(r)
             \/ FindStation(r) \/ SaveStation(r)
    BY <2>3, CustomerStepsKeep, WriteCustomerKeeps, StationStepsKeep
  <2> QED
    BY <1>3, <2>1, <2>2, <2>3 DEF Step
<1> QED
  BY <1>1, <1>2, <1>3 DEF Next

LEMMA InvariantHolds == Spec => []IInv
BY InvariantInitially, InvariantStep, PTL DEF Spec

\* Every variable keeps its type; an offer never makes more rows than a client may name.
THEOREM TypesHold == Spec => []TypeOK
<1>1. IInv => TypeOK
  <2> SUFFICES ASSUME IInv PROVE TypeOK
    OBVIOUS
  <2>1. Tables
    BY DEF IInv
  <2>2. \A c \in OnRecord(customers) : customers[c].phone \in Phones \cup {None} /\ customers[c].active \in BOOLEAN
    <3>1. \A c \in OnRecord(customers) : CustomerFits(customers[c])
      BY <2>1 DEF Tables, OnRecord
    <3> QED
      BY <3>1 DEF CustomerFits
  <2>3. ASSUME NEW r \in Req
        PROVE  Len(made[r]) <= MaxSelected /\ ToSet(made[r]) \subseteq Recipient
    <3>1. Listed(r) /\ Making(r) /\ made[r] \in Seq(Recipient)
      BY <2>1 DEF IInv, Requests, Tables
    <3>2. ToSet(made[r]) \subseteq Recipient
      BY <3>1 DEF ToSet
    <3>3. CASE kind[r] = "offer" /\ pc[r] = "dispatch"
      BY <3>1, <3>2, <3>3, MessagingBounds DEF Listed, Making
    <3>4. CASE ~ (kind[r] = "offer" /\ pc[r] = "dispatch")
      BY <3>1, <3>2, <3>4, MessagingBounds DEF Making
    <3> QED
      BY <3>3, <3>4
  <2> QED
    BY <2>1, <2>2, <2>3 DEF TypeOK, Tables
<1> QED
  BY <1>1, InvariantHolds, PTL

\* An offer that was answered has one row for each recipient it named, and no recipient is
\* sent to twice, whatever became of the messages (OfferService.send).
THEOREM OneOutcomeEachHolds == Spec => []OneOutcomeEach
<1>1. IInv => OneOutcomeEach
  <2> SUFFICES ASSUME IInv, NEW r \in Req, kind[r] = "offer"
               PROVE  /\ pc[r] = "done" =>
                           /\ {rows[i].cust : i \in {k \in OnRecord(rows) : k[1] = r}} = ToSet(job[r].ids)
                           /\ \A i, k \in OnRecord(rows) :
                                i[1] = r /\ k[1] = r /\ rows[i].cust = rows[k].cust => i = k
                      /\ \A m, n \in OnRecord(accepted) :
                           m[1] = r /\ n[1] = r /\ accepted[m].cust = accepted[n].cust => m = n
    BY Zenon DEF OneOutcomeEach
  <2>1. Tables /\ Sent(r) /\ Saved(r)
    BY DEF IInv, Requests
  <2>2. \A i \in Slots : i[1] = r => \E n \in 1 .. MaxSelected : i = <<r, n>>
    BY DEF Slots
  <2>3. \A i \in OnRecord(rows) : i \in Slots /\ rows[i] # None
    BY <2>1 DEF OnRecord, Tables
  <2>4. \A i \in OnRecord(accepted) : i \in Slots /\ accepted[i] # None
    BY <2>1 DEF OnRecord, Tables, MsgIds
  <2>5. ASSUME NEW m \in OnRecord(accepted), NEW n \in OnRecord(accepted),
               m[1] = r, n[1] = r, accepted[m].cust = accepted[n].cust
        PROVE  m = n
    <3>1. PICK x \in 1 .. MaxSelected, y \in 1 .. MaxSelected : m = <<r, x>> /\ n = <<r, y>>
      BY <2>2, <2>4, <2>5
    <3> QED
      BY <2>1, <2>4, <2>5, <3>1 DEF Sent
  <2>6. SUFFICES ASSUME pc[r] = "done"
                 PROVE  /\ {rows[i].cust : i \in {k \in OnRecord(rows) : k[1] = r}} = ToSet(job[r].ids)
                        /\ \A i, k \in OnRecord(rows) :
                             i[1] = r /\ k[1] = r /\ rows[i].cust = rows[k].cust => i = k
    BY <2>5
  <2>7. ASSUME NEW i \in OnRecord(rows), NEW k \in OnRecord(rows),
               i[1] = r, k[1] = r, rows[i].cust = rows[k].cust
        PROVE  i = k
    <3>1. PICK x \in 1 .. MaxSelected, y \in 1 .. MaxSelected : i = <<r, x>> /\ k = <<r, y>>
      BY <2>2, <2>3, <2>7
    <3> QED
      BY <2>1, <2>3, <2>6, <2>7, <3>1 DEF Saved
  <2>8. \A c : c \in ToSet(job[r].ids) <=>
          \E n \in 1 .. MaxSelected : rows[<<r, n>>] # None /\ rows[<<r, n>>].cust = c
    BY <2>1, <2>6 DEF Saved
  <2>9. ASSUME NEW c
        PROVE  c \in {rows[i].cust : i \in {k \in OnRecord(rows) : k[1] = r}} <=>
               \E n \in 1 .. MaxSelected : rows[<<r, n>>] # None /\ rows[<<r, n>>].cust = c
    <3>1. ASSUME NEW i \in OnRecord(rows), i[1] = r, c = rows[i].cust
          PROVE  \E n \in 1 .. MaxSelected : rows[<<r, n>>] # None /\ rows[<<r, n>>].cust = c
      BY <2>2, <2>3, <3>1
    <3>2. ASSUME NEW n \in 1 .. MaxSelected, rows[<<r, n>>] # None, rows[<<r, n>>].cust = c
          PROVE  \E i \in OnRecord(rows) : i[1] = r /\ c = rows[i].cust
      <4>1. PICK i : i = <<r, n>>
        OBVIOUS
      <4>2. i \in Slots /\ i[1] = r
        BY <4>1 DEF Slots
      <4>3. i \in OnRecord(rows)
        BY <2>1, <3>2, <4>1, <4>2 DEF OnRecord, Tables
      <4> QED
        BY <3>2, <4>1, <4>2, <4>3
    <3> QED
      BY ONLY <3>1, <3>2
  <2>10. {rows[i].cust : i \in {k \in OnRecord(rows) : k[1] = r}} = ToSet(job[r].ids)
    BY ONLY <2>8, <2>9
  <2> QED
    BY <2>7, <2>10
<1> QED
  BY <1>1, InvariantHolds, PTL

\* A row shows the number its message went to, and a row without a number has no message,
\* whatever is done to the list of recipients meanwhile.
THEOREM RowsMatchMessagesHolds == Spec => []RowsMatchMessages
<1>1. IInv => RowsMatchMessages
  <2> SUFFICES ASSUME IInv, NEW i \in OnRecord(rows)
               PROVE  /\ rows[i].msg # None =>
                           accepted[rows[i].msg] = [cust |-> rows[i].cust, to |-> rows[i].phone]
                      /\ rows[i].status = "blocked" <=> rows[i].phone = None
    BY Zenon DEF RowsMatchMessages
  <2>1. i \in Slots /\ rows[i] # None
    BY DEF OnRecord, IInv, Tables
  <2>2. PICK r \in Req, n \in 1 .. MaxSelected : i = <<r, n>>
    BY <2>1 DEF Slots
  <2>3. RowFits(rows[i], i)
    BY <2>1, <2>2 DEF IInv, Requests, Saved
  <2> QED
    BY ONLY <2>3 DEF RowFits
<1> QED
  BY <1>1, InvariantHolds, PTL

\* A status that the sending does not give was posted for this very message
\* (update_delivery_status writes what it was told, of the row it was told about).
THEOREM StatusesArePostedHolds == Spec => []StatusesArePosted
<1>1. IInv => StatusesArePosted
  BY DEF IInv
<1> QED
  BY <1>1, InvariantHolds, PTL

\* Once a report has been matched with a row the row shows what some such report said, also
\* where another post was working on the row and where the rest of the post was lost.
THEOREM ReportsAreShownHolds == Spec => []ReportsAreShown
<1>1. IInv => ReportsAreShown
  BY DEF IInv
<1> QED
  BY <1>1, InvariantHolds, PTL

\* The steps that leave the table of rows alone.
LEMMA RowsUntouched ==
  ASSUME NEW r \in Req,
         \/ Send(r) \/ LoadRecipients(r) \/ LoadStation(r) \/ Dispatch(r) \/ Remind(r)
         \/ Mail(r) \/ RecordAudit(r) \/ FindRow(r) \/ EndPost(r)
         \/ LoadCustomer(r) \/ CheckName(r) \/ CheckPhone(r) \/ WriteCustomer(r) \/ DeleteCustomer(r)
         \/ FindStation(r) \/ SaveStation(r) \/ Abort(r)
  PROVE  rows' = rows
BY DEF Send, LoadRecipients, LoadStation, Dispatch, Remind, Mail, RecordAudit, FindRow, EndPost,
       LoadCustomer, CheckName, CheckPhone, WriteCustomer, DeleteCustomer, FindStation, SaveStation,
       Abort, Refuse, database

\* What was sent stays on record as it was sent: only a report changes its status, and no
\* change of the list of recipients does anything to it (the rows keep their own copy of
\* name and number, and the delete of a recipient does not cascade).
THEOREM HistoryOutlivesRecipientsHolds == Spec => HistoryOutlivesRecipients
<1>1. ASSUME IInv, [Next]_vars
      PROVE  [\A i \in Slots : rows[i] # None =>
                \/ rows'[i] = rows[i]
                \/ rows'[i] # None /\ rows'[i] = [rows[i] EXCEPT !.status = rows'[i].status]
                   /\ \E r \in Req : pc[r] = "writeReport"]_vars
  <2> SUFFICES ASSUME NEW r \in Req, Send(r) \/ Step(r) \/ Abort(r),
                      NEW k \in Slots, rows[k] # None
               PROVE  \/ rows'[k] = rows[k]
                      \/ rows'[k] # None /\ rows'[k] = [rows[k] EXCEPT !.status = rows'[k].status]
                         /\ \E q \in Req : pc[q] = "writeReport"
    BY <1>1 DEF Next
  <2>1. rows' = rows \/ SaveOffer(r) \/ WriteReport(r)
    <3>1. CASE Send(r) \/ Abort(r)
      BY <3>1, RowsUntouched
    <3>2. CASE Step(r)
      BY <3>2, RowsUntouched DEF Step
    <3> QED
      BY <3>1, <3>2
  <2>2. CASE rows' = rows
    BY <2>2
  <2>3. CASE SaveOffer(r)
    <3>1. k[1] # r
      BY <1>1, <2>3, SaveOfferSaves DEF Slots
    <3> QED
      BY <1>1, <2>3, <3>1, SaveOfferSaves
  <2>4. CASE WriteReport(r)
    <3>1. PICK i, p : i = seen[r].row /\ p = Head(job[r])
      OBVIOUS
    <3>2. /\ i \in Slots /\ \A j \in Slots \ {i} : rows'[j] = rows[j]
          /\ StatusGiven(i, p) /\ pc[r] = "writeReport"
      BY <1>1, <2>4, <3>1, WriteReportWrites DEF WriteReport
    <3>3. CASE k # i
      BY <3>2, <3>3
    <3>4. CASE k = i
      <4>1. PICK st \in Statuses : rows'[k] = [rows[k] EXCEPT !.status = st]
        BY <3>2, <3>4 DEF StatusGiven
      <4>2. rows[k] \in Recipient
        BY <1>1 DEF IInv, Tables
      <4>3. rows'[k] \in Recipient /\ rows'[k].status = st
        BY ONLY <4>1, <4>2 DEF Recipient
      <4>4. rows'[k] # None
        BY <4>3, NoneIsNoValue
      <4> QED
        BY <3>2, <4>1, <4>3, <4>4
    <3> QED
      BY <3>3, <3>4
  <2> QED
    BY <2>1, <2>2, <2>3, <2>4
<1> QED
  BY <1>1, InvariantHolds, PTL DEF Spec, HistoryOutlivesRecipients
=============================================================================
