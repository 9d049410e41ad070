-------------------------- MODULE UserAccountsProofs --------------------------
(***************************************************************************)
(* The safety of UserAccounts for any number of accounts, requests and     *)
(* starting processes.                                                     *)
(***************************************************************************)
EXTENDS UserAccounts, TLAPS

USE DEF Role

-------------------------------------------------------------------------------
(* Rows *)

\* Flushing well-typed columns over a row gives a row, and changes no other
\* column: the email, which no request sets, in particular.
LEMMA UpdatedRow ==
  ASSUME NEW row \in UserRow, NEW writes,
         \A f \in DOMAIN writes : f \in DOMAIN Values /\ writes[f] \in Values[f]
  PROVE  /\ Updated(row, writes) \in UserRow
         /\ \A f \in DOMAIN row : f \notin DOMAIN writes => Updated(row, writes)[f] = row[f]
         /\ Updated(row, writes).email = row.email
<1>1. "email" \notin DOMAIN writes
  BY DEF Values
<1>2. DOMAIN row = {"email", "role", "active", "password", "name"}
  BY DEF UserRow
<1>3. /\ DOMAIN Updated(row, writes) = DOMAIN row
      /\ \A f \in DOMAIN row : f \notin DOMAIN writes => Updated(row, writes)[f] = row[f]
      /\ \A f \in DOMAIN row : f \in DOMAIN writes => Updated(row, writes)[f] = writes[f]
  BY DEF Updated
<1>4. /\ Updated(row, writes).email \in Email
      /\ Updated(row, writes).role \in Role
      /\ Updated(row, writes).active \in BOOLEAN
      /\ Updated(row, writes).password \in Password
      /\ Updated(row, writes).name \in Name
  BY <1>1, <1>2, <1>3 DEF UserRow, Values
<1>5. Updated(row, writes) = [f \in DOMAIN row |-> Updated(row, writes)[f]]
  BY <1>3 DEF Updated
<1> QED BY <1>1, <1>2, <1>3, <1>4, <1>5 DEF UserRow

\* What a request writes is the column it set, or nothing.
LEMMA WrittenColumn ==
  ASSUME NEW row, NEW f, NEW v
  PROVE  \A g \in DOMAIN Written(row, f, v) : g = f /\ Written(row, f, v)[g] = v
BY DEF Written

-------------------------------------------------------------------------------
(* Frames *)

\* An answer ends the request of its worker and touches no other.
LEMMA AnswerFrame ==
  ASSUME AccountTypeOK, NEW w \in Worker, NEW result, Answer(w, result)
  PROVE  /\ DOMAIN req' = Worker
         /\ req'[w] = [pc |-> "done", op |-> req[w].op, email |-> req[w].email,
                       result |-> result]
         /\ \A v \in Worker : v # w => req'[v] = req[v]
BY DEF Answer, AccountTypeOK

\* An answered request carries nothing.
LEMMA AnsweredOK ==
  ASSUME AccountTypeOK, NEW w \in Worker, NEW result, Answer(w, result)
  PROVE  RequestOK(w)'
<1>1. req'[w].pc = "done" /\ req'[w].email = req[w].email
  BY DEF Answer, AccountTypeOK
<1>2. req[w].email \in Email
  BY DEF AccountTypeOK, RequestOK
<1> QED BY <1>1, <1>2 DEF RequestOK

\* A worker's step that ends its request, or begins a good one, and forgets no
\* account, keeps what every request carries good.
LEMMA RequestsKept ==
  ASSUME AccountTypeOK, NEW w \in Worker,
         \A v \in Worker : v # w => req'[v] = req[v],
         Stored \subseteq Stored', RequestOK(w)'
  PROVE  \A v \in Worker : RequestOK(v)'
<1> SUFFICES ASSUME NEW v \in Worker, v # w PROVE RequestOK(v)'
  OBVIOUS
<1>1. RequestOK(v) /\ req'[v] = req[v]
  BY DEF AccountTypeOK
<1> QED BY <1>1 DEF RequestOK

-------------------------------------------------------------------------------
(* Type correctness, step by step *)

LEMMA RegisterType ==
  ASSUME AccountTypeOK, NEW w \in Worker, NEW p \in Password, NEW n \in Name,
         (\E e \in Email : BeginRegister(w, e, p, n)) \/ BeginSeed(w, p, n)
  PROVE  AccountTypeOK'
<1>1. /\ account' = account /\ DOMAIN req' = Worker
      /\ \A v \in Worker : v # w => req'[v] = req[v]
  BY DEF BeginRegister, BeginSeed, AccountTypeOK
<1>2. ASSUME NEW e \in Email, NEW role \in {"member", "admin"}
      PROVE  NewAccount(e, role, p, n) \in UserRow /\ NewAccount(e, role, p, n).email = e
  BY DEF NewAccount, UserRow
<1>3. RequestOK(w)'
  <2>1. CASE \E e \in Email : BeginRegister(w, e, p, n)
    BY <1>2, <2>1 DEF BeginRegister, AccountTypeOK, RequestOK
  <2>2. CASE BeginSeed(w, p, n)
    BY <1>2, <2>2, AdminEmailAssumption DEF BeginSeed, AccountTypeOK, RequestOK
  <2> QED BY <2>1, <2>2
<1>4. Stored' = Stored
  BY <1>1 DEF Stored
<1> QED BY <1>1, <1>3, <1>4, RequestsKept DEF AccountTypeOK

LEMMA EditType ==
  ASSUME AccountTypeOK, NEW w \in Worker, NEW op \in DOMAIN ColumnOf,
         NEW u, NEW k \in Stored, NEW v \in Values[ColumnOf[op]],
         BeginEdit(w, op, u, k, ColumnOf[op], v)
  PROVE  AccountTypeOK'
<1> DEFINE writes == Written(account[k], ColumnOf[op], v)
<1>1. /\ account' = account /\ DOMAIN req' = Worker
      /\ \A x \in Worker : x # w => req'[x] = req[x]
      /\ req'[w] = [pc |-> "update", op |-> op, email |-> account[k].email,
                    by |-> u, k |-> k, writes |-> writes]
  BY DEF BeginEdit, AccountTypeOK
<1>2. account[k].email \in Email
  BY DEF AccountTypeOK, Stored, UserRow
<1>3. \A f \in DOMAIN writes : f = ColumnOf[op] /\ writes[f] \in Values[f]
  BY WrittenColumn
<1>4. Stored' = Stored
  BY <1>1 DEF Stored
<1> HIDE DEF writes
<1>5. RequestOK(w)'
  BY <1>1, <1>2, <1>3, <1>4 DEF RequestOK
<1> QED BY <1>1, <1>4, <1>5, RequestsKept DEF AccountTypeOK

LEMMA ArriveType ==
  ASSUME AccountTypeOK, NEW w \in Worker, Arrive(w) PROVE AccountTypeOK'
<1>1. CASE \E p \in Password, n \in Name :
             (\E e \in Email : BeginRegister(w, e, p, n)) \/ BeginSeed(w, p, n)
  BY <1>1, RegisterType
<1>2. CASE \E u \in AccountId, t \in AccountId, r \in Roles : BeginChangeRole(w, u, t, r)
  BY <1>2, EditType, RolesAssumption DEF BeginChangeRole, ColumnOf, Values
<1>3. CASE \E u \in AccountId, t \in AccountId : BeginDeactivate(w, u, t)
  BY <1>3, EditType DEF BeginDeactivate, ColumnOf, Values
<1>4. CASE \E u \in AccountId, p \in Password : BeginChangePassword(w, u, p)
  BY <1>4, EditType DEF BeginChangePassword, ColumnOf, Values
<1>5. CASE \E u \in AccountId, n \in Name : BeginUpdateMe(w, u, n)
  BY <1>5, EditType DEF BeginUpdateMe, ColumnOf, Values
<1> QED BY <1>1, <1>2, <1>3, <1>4, <1>5 DEF Arrive

\* What the index lets in is a good row, and nobody is forgotten.
LEMMA InsertType ==
  ASSUME AccountTypeOK, NEW w \in Worker, InsertAccount(w)
  PROVE  AccountTypeOK' /\ Stored \subseteq Stored'
<1> PICK result : Answer(w, result)
  BY DEF InsertAccount
<1>1. account' \in [AccountId -> UserRow \cup {NotYet}] /\ Stored \subseteq Stored'
  <2>1. req[w].row \in UserRow
    BY DEF InsertAccount, AccountTypeOK, RequestOK
  <2> QED BY <2>1, NotYetAssumption DEF InsertAccount, AccountTypeOK, Stored
<1>2. RequestOK(w)'
  BY AnsweredOK
<1> QED BY <1>1, <1>2, AnswerFrame, RequestsKept DEF AccountTypeOK

\* What an UPDATE makes of a row.
LEMMA UpdateStep ==
  ASSUME AccountTypeOK, NEW w \in Worker, UpdateAccount(w)
  PROVE  /\ req[w].k \in Stored
         /\ account' = [account EXCEPT ![req[w].k] = Updated(account[req[w].k], req[w].writes)]
         /\ account'[req[w].k] \in UserRow
         /\ account'[req[w].k].email = account[req[w].k].email
         /\ \A f \in DOMAIN account[req[w].k] :
              account'[req[w].k][f] # account[req[w].k][f] => f = ColumnOf[req[w].op]
         /\ Stored' = Stored
<1>1. /\ req[w].k \in Stored /\ req[w].op \in DOMAIN ColumnOf
      /\ \A f \in DOMAIN req[w].writes :
           f = ColumnOf[req[w].op] /\ req[w].writes[f] \in Values[f]
  BY DEF UpdateAccount, AccountTypeOK, RequestOK
<1>2. account[req[w].k] \in UserRow
  BY <1>1 DEF AccountTypeOK, Stored
<1>3. \A f \in DOMAIN req[w].writes : f \in DOMAIN Values
  BY <1>1 DEF ColumnOf, Values
<1>4. account' = [account EXCEPT ![req[w].k] = Updated(account[req[w].k], req[w].writes)]
  BY DEF UpdateAccount
<1>5. account'[req[w].k] = Updated(account[req[w].k], req[w].writes)
  BY <1>1, <1>4 DEF AccountTypeOK, Stored
<1>6. Stored' = Stored
  BY <1>1, <1>2, <1>3, <1>4, <1>5, UpdatedRow, NotYetAssumption DEF Stored, AccountTypeOK
<1> QED BY <1>1, <1>2, <1>3, <1>4, <1>5, <1>6, UpdatedRow

LEMMA UpdateType ==
  ASSUME AccountTypeOK, NEW w \in Worker, UpdateAccount(w) PROVE AccountTypeOK'
<1>1. account' \in [AccountId -> UserRow \cup {NotYet}]
  BY UpdateStep DEF AccountTypeOK, Stored
<1>2. Answer(w, "updated")
  BY DEF UpdateAccount
<1>3. RequestOK(w)'
  BY <1>2, AnsweredOK
<1> QED BY <1>1, <1>2, <1>3, UpdateStep, AnswerFrame, RequestsKept DEF AccountTypeOK

LEMMA FailType ==
  ASSUME AccountTypeOK, NEW w \in Worker, Fail(w) PROVE AccountTypeOK'
<1> PICK result : Answer(w, result)
  BY DEF Fail
<1>1. account' = account /\ Stored' = Stored
  BY DEF Fail, Stored
<1>2. RequestOK(w)'
  BY AnsweredOK
<1> QED BY <1>1, <1>2, AnswerFrame, RequestsKept DEF AccountTypeOK

\* The users table and the requests in flight are well typed.
THEOREM AccountsTyped == AccountSpec => []AccountTypeOK
<1>1. AccountInit => AccountTypeOK
  BY AdminEmailAssumption DEF AccountInit, AccountTypeOK, RequestOK
<1>2. ASSUME AccountTypeOK, [AccountNext]_avars PROVE AccountTypeOK'
  <2>1. CASE UNCHANGED avars
    BY <1>2, <2>1 DEF avars, AccountTypeOK, RequestOK, Stored
  <2>2. CASE AccountNext
    BY <1>2, <2>2, ArriveType, InsertType, UpdateType, FailType DEF AccountNext
  <2> QED BY <1>2, <2>1, <2>2
<1> QED BY <1>1, <1>2, PTL DEF AccountSpec

-------------------------------------------------------------------------------
(* What races cannot break *)

\* A request that arrives or fails leaves the table alone.
LEMMA OnlyCommitsWrite ==
  ASSUME NEW w \in Worker, Arrive(w) \/ Fail(w) PROVE account' = account
BY DEF Arrive, Fail, BeginRegister, BeginSeed, BeginChangeRole, BeginDeactivate,
   BeginChangePassword, BeginUpdateMe, BeginEdit

\* No two accounts have one email, however many registrations and starting
\* processes look it up before any of them inserts.
THEOREM EmailsUnique == AccountSpec => []EmailUnique
<1>1. AccountInit => EmailUnique
  BY DEF AccountInit, EmailUnique, Stored
<1>2. ASSUME AccountTypeOK, EmailUnique, [AccountNext]_avars PROVE EmailUnique'
  <2>1. CASE account' = account
    BY <1>2, <2>1 DEF EmailUnique, Stored
  <2>2. ASSUME NEW w \in Worker, InsertAccount(w) PROVE EmailUnique'
    <3>1. CASE Taken(req[w].email)
      BY <2>1, <2>2, <3>1 DEF InsertAccount
    <3>2. CASE ~Taken(req[w].email)
      <4>1. PICK k \in AccountId \ Stored : account' = [account EXCEPT ![k] = req[w].row]
        BY <2>2, <3>2 DEF InsertAccount
      <4>2. req[w].row.email = req[w].email
        BY <1>2, <2>2 DEF InsertAccount, AccountTypeOK, RequestOK
      <4>3. \A j \in Stored : account[j].email # req[w].email
        BY <3>2 DEF Taken
      <4>4. /\ Stored' \subseteq Stored \cup {k}
            /\ account'[k] = req[w].row
            /\ \A j \in Stored : account'[j] = account[j]
        BY <1>2, <4>1 DEF Stored, AccountTypeOK
      <4> QED BY <1>2, <4>2, <4>3, <4>4 DEF EmailUnique
    <3> QED BY <3>1, <3>2
  <2>3. ASSUME NEW w \in Worker, UpdateAccount(w) PROVE EmailUnique'
    <3>1. Stored' = Stored /\ \A j \in Stored : account'[j].email = account[j].email
      BY <1>2, <2>3, UpdateStep DEF Stored, AccountTypeOK
    <3> QED BY <1>2, <3>1 DEF EmailUnique
  <2> QED BY <1>2, <2>1, <2>2, <2>3, OnlyCommitsWrite DEF AccountNext, avars
<1> QED BY <1>1, <1>2, AccountsTyped, PTL DEF AccountSpec

\* Of racing changes of one account each writes its own column: a deactivation is
\* not undone, nor a role given back, by a request that loaded the row before.
THEOREM ColumnsKept == AccountSpec => OwnColumnOnly
<1>1. ASSUME AccountTypeOK, [AccountNext]_avars
      PROVE  [\A k \in Stored :
                \A f \in DOMAIN account[k] : account'[k][f] # account[k][f] =>
                  \E w \in Worker :
                    /\ req[w].pc = "update" /\ req'[w].pc = "done"
                    /\ req[w].k = k /\ f = ColumnOf[req[w].op]]_avars
  <2> SUFFICES ASSUME NEW k \in Stored, NEW f \in DOMAIN account[k],
                      account'[k][f] # account[k][f]
               PROVE  \E w \in Worker :
                        /\ req[w].pc = "update" /\ req'[w].pc = "done"
                        /\ req[w].k = k /\ f = ColumnOf[req[w].op]
    OBVIOUS
  <2>1. PICK w \in Worker : InsertAccount(w) \/ UpdateAccount(w)
    BY <1>1, OnlyCommitsWrite DEF AccountNext, avars
  <2>2. ~InsertAccount(w)
    BY <1>1 DEF InsertAccount, AccountTypeOK, Stored
  <2>3. UpdateAccount(w)
    BY <2>1, <2>2
  <2>4. req[w].k = k
    BY <1>1, <2>3, UpdateStep DEF AccountTypeOK, Stored
  <2>5. f = ColumnOf[req[w].op]
    BY <1>1, <2>3, <2>4, UpdateStep
  <2>6. req[w].pc = "update" /\ req'[w].pc = "done"
    BY <1>1, <2>3 DEF UpdateAccount, Answer, AccountTypeOK
  <2> QED BY <2>4, <2>5, <2>6
<1> QED BY <1>1, AccountsTyped, PTL DEF AccountSpec, OwnColumnOnly

-------------------------------------------------------------------------------
(* The last admin *)

Unseating == {"changeRole", "deactivate"}

\* Who takes a role or an account away is somebody else than its owner.
CallersApart ==
  \A w \in Worker :
    req[w].pc = "update" /\ req[w].op \in Unseating => req[w].by # req[w].k

\* No request that arrives takes from its own caller; the others carry what they
\* carried, or nothing.
LEMMA CallersStayApart ==
  ASSUME AccountTypeOK, CallersApart, [AccountNext]_avars
  PROVE  CallersApart'
<1> SUFFICES ASSUME NEW v \in Worker, req'[v].pc = "update", req'[v].op \in Unseating
             PROVE  req'[v].by # req'[v].k
  BY DEF CallersApart
<1>1. CASE req'[v] = req[v]
  BY <1>1 DEF CallersApart
<1>2. CASE req'[v] # req[v]
  <2>1. PICK w \in Worker : Arrive(w) \/ InsertAccount(w) \/ UpdateAccount(w) \/ Fail(w)
    BY <1>2 DEF AccountNext, avars
  <2>2. ASSUME NEW result, Answer(w, result) PROVE FALSE
    <3>1. req'[w].pc = "done" /\ \A x \in Worker : x # w => req'[x] = req[x]
      BY <2>2 DEF Answer, AccountTypeOK
    <3> QED BY <1>2, <3>1
  <2>3. Arrive(w)
    BY <2>1, <2>2 DEF InsertAccount, UpdateAccount, Fail
  <2>4. ASSUME NEW p, NEW n, (\E e \in Email : BeginRegister(w, e, p, n)) \/ BeginSeed(w, p, n)
        PROVE  FALSE
    BY <1>2, <2>4 DEF BeginRegister, BeginSeed, AccountTypeOK
  <2>5. ASSUME NEW op, NEW u, NEW k, NEW f, NEW x, BeginEdit(w, op, u, k, f, x),
               op \in Unseating => u # k
        PROVE  req'[v].by # req'[v].k
    <3>1. /\ req'[w].op = op /\ req'[w].by = u /\ req'[w].k = k
          /\ v # w => req'[v] = req[v]
      BY <2>5 DEF BeginEdit, AccountTypeOK
    <3> QED BY <1>2, <2>5, <3>1
  <2>6. ASSUME NEW u \in AccountId, NEW p, BeginChangePassword(w, u, p)
        PROVE  req'[v].by # req'[v].k
    BY <2>5, <2>6 DEF BeginChangePassword, Unseating
  <2>7. ASSUME NEW u \in AccountId, NEW n, BeginUpdateMe(w, u, n)
        PROVE  req'[v].by # req'[v].k
    BY <2>5, <2>7 DEF BeginUpdateMe, Unseating
  <2>8. ASSUME NEW u, NEW t, NEW r, BeginChangeRole(w, u, t, r) \/ BeginDeactivate(w, u, t)
        PROVE  req'[v].by # req'[v].k
    BY <2>5, <2>8 DEF BeginChangeRole, BeginDeactivate
  <2> QED BY <2>3, <2>4, <2>6, <2>7, <2>8 DEF Arrive
<1> QED BY <1>1, <1>2

\* The last admin is lost only to an admin who was unseated while taking the other
\* one's place away: the guard against doing so to oneself leaves no other way.
THEOREM AdminLostToRace == AccountSpec => AdminLostOnlyBy
<1>1. AccountInit => CallersApart
  BY DEF AccountInit, CallersApart
<1>2. ASSUME AccountTypeOK, CallersApart, [AccountNext]_avars
      PROVE  [(\E k \in AccountId : IsAdmin(k)) =>
                \/ (\E k \in AccountId : IsAdmin(k))'
                \/ \E w \in Worker :
                     /\ req[w].pc = "update" /\ req'[w].pc = "done"
                     /\ req[w].op \in {"changeRole", "deactivate"}
                     /\ IsAdmin(req[w].k) /\ ~IsAdmin(req[w].by)]_avars
  <2> SUFFICES ASSUME NEW a \in AccountId, IsAdmin(a),
                      ~\E k \in AccountId : IsAdmin(k)'
               PROVE  \E w \in Worker :
                        /\ req[w].pc = "update" /\ req'[w].pc = "done"
                        /\ req[w].op \in {"changeRole", "deactivate"}
                        /\ IsAdmin(req[w].k) /\ ~IsAdmin(req[w].by)
    OBVIOUS
  <2>1. \A k \in AccountId : IsAdmin(k) => account'[k] # account[k]
    BY DEF IsAdmin, Stored
  <2>2. PICK w \in Worker : InsertAccount(w) \/ UpdateAccount(w)
    BY <1>2, <2>1, OnlyCommitsWrite DEF AccountNext, avars
  <2>3. ~InsertAccount(w)
    BY <1>2, <2>1 DEF InsertAccount, AccountTypeOK, Stored, IsAdmin
  <2>4. UpdateAccount(w)
    BY <2>2, <2>3
  <2>5. \A k \in AccountId : IsAdmin(k) => k = req[w].k
    BY <1>2, <2>1, <2>4, UpdateStep DEF AccountTypeOK, Stored
  <2>6. req[w].k = a /\ IsAdmin(req[w].k)
    BY <2>5
  <2>7. req[w].op \in Unseating
    <3>1. req[w].op \in DOMAIN ColumnOf
      BY <1>2, <2>4 DEF UpdateAccount, AccountTypeOK, RequestOK
    <3>2. /\ account[a] \in UserRow /\ account'[a] \in UserRow /\ a \in Stored
          /\ \A f \in DOMAIN account[a] :
               account'[a][f] # account[a][f] => f = ColumnOf[req[w].op]
          /\ Stored' = Stored
      BY <1>2, <2>4, <2>6, UpdateStep DEF AccountTypeOK, Stored
    <3>3. account'[a].active # account[a].active \/ account'[a].role # account[a].role
      BY <3>2 DEF IsAdmin
    <3>4. ColumnOf[req[w].op] \in {"active", "role"}
      BY <3>2, <3>3 DEF UserRow
    <3> QED BY <3>1, <3>4 DEF ColumnOf, Unseating
  <2>8. req[w].pc = "update" /\ req'[w].pc = "done"
    BY <1>2, <2>4 DEF UpdateAccount, Answer, AccountTypeOK
  <2>9. ~IsAdmin(req[w].by)
    BY <1>2, <2>5, <2>7, <2>8 DEF CallersApart, IsAdmin, Stored
  <2> QED BY <2>6, <2>7, <2>8, <2>9 DEF Unseating
<1> QED BY <1>1, <1>2, CallersStayApart, AccountsTyped, PTL DEF AccountSpec, AdminLostOnlyBy

-------------------------------------------------------------------------------
\* Who is told that an email is stored, or stored already, finds it stored,
\* whatever raced or failed.
THEOREM AnswersReliable == AccountSpec => []AnswersHold
<1>1. AccountInit => AnswersHold
  BY DEF AccountInit, AnswersHold, Free
<1>2. ASSUME AccountTypeOK, AccountTypeOK', AnswersHold, [AccountNext]_avars
      PROVE  AnswersHold'
  <2>1. \A k \in Stored : k \in Stored' /\ account'[k].email = account[k].email
    <3>1. CASE account' = account
      BY <3>1 DEF Stored
    <3>2. ASSUME NEW w \in Worker, InsertAccount(w)
          PROVE  \A k \in Stored : k \in Stored' /\ account'[k] = account[k]
      BY <1>2, <3>2, InsertType DEF InsertAccount, AccountTypeOK, Stored
    <3>3. ASSUME NEW w \in Worker, UpdateAccount(w)
          PROVE  \A k \in Stored : k \in Stored' /\ account'[k].email = account[k].email
      BY <1>2, <3>3, UpdateStep DEF Stored, AccountTypeOK
    <3> QED BY <1>2, <3>1, <3>2, <3>3, OnlyCommitsWrite DEF AccountNext, avars
  <2> SUFFICES ASSUME NEW v \in Worker, req'[v].pc = "done",
                      req'[v].result \in {"created", "conflict", "present"}
               PROVE  \E k \in Stored' : account'[k].email = req'[v].email
    BY DEF AnswersHold, Free, Taken
  <2>2. \A e : Taken(e) => \E k \in Stored' : account'[k].email = e
    BY <2>1 DEF Taken
  <2>3. CASE req'[v] = req[v]
    BY <1>2, <2>2, <2>3 DEF AnswersHold, Free
  <2>4. ASSUME NEW w \in Worker, Arrive(w) \/ InsertAccount(w) \/ UpdateAccount(w) \/ Fail(w)
        PROVE  v # w => req'[v] = req[v]
    BY <1>2, <2>4 DEF Arrive, BeginRegister, BeginSeed, BeginChangeRole, BeginDeactivate,
       BeginChangePassword, BeginUpdateMe, BeginEdit, InsertAccount, UpdateAccount, Fail,
       Answer, AccountTypeOK
  <2>5. CASE Arrive(v)
    <3>1. \A p \in Password, n \in Name, e \in Email :
            BeginRegister(v, e, p, n) => Taken(e) /\ req'[v].email = e
      BY <1>2 DEF BeginRegister, AccountTypeOK
    <3>2. \A p \in Password, n \in Name :
            BeginSeed(v, p, n) => Taken(FIRST_ADMIN_EMAIL) /\ req'[v].email = FIRST_ADMIN_EMAIL
      BY <1>2 DEF BeginSeed, AccountTypeOK
    <3>3. ~\E op, u, k, f, x : BeginEdit(v, op, u, k, f, x)
      BY <1>2 DEF BeginEdit, AccountTypeOK
    <3> QED BY <2>2, <2>5, <3>1, <3>2, <3>3 DEF Arrive, BeginChangeRole,
           BeginDeactivate, BeginChangePassword, BeginUpdateMe
  <2>6. CASE InsertAccount(v)
    <3>1. req'[v].email = req[v].email
      BY <1>2, <2>6 DEF InsertAccount, Answer, AccountTypeOK
    <3>2. CASE Taken(req[v].email)
      BY <2>2, <3>1, <3>2
    <3>3. CASE ~Taken(req[v].email)
      <4>1. PICK k \in AccountId \ Stored : account' = [account EXCEPT ![k] = req[v].row]
        BY <2>6, <3>3 DEF InsertAccount
      <4>2. req[v].row \in UserRow /\ req[v].row.email = req[v].email
        BY <1>2, <2>6 DEF InsertAccount, AccountTypeOK, RequestOK
      <4> QED BY <1>2, <3>1, <4>1, <4>2, NotYetAssumption DEF Taken, Stored, AccountTypeOK
    <3> QED BY <3>2, <3>3
  <2>7. CASE UpdateAccount(v)
    BY <1>2, <2>7 DEF UpdateAccount, Answer, AccountTypeOK
  <2>8. CASE Fail(v)
    BY <1>2, <2>8 DEF Fail, Answer, AccountTypeOK
  <2> QED BY <1>2, <2>3, <2>4, <2>5, <2>6, <2>7, <2>8 DEF AccountNext, avars
<1> QED BY <1>1, <1>2, AccountsTyped, PTL DEF AccountSpec

=============================================================================
