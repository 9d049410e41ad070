------------------------------ MODULE UserAccounts ------------------------------
(***************************************************************************)
(* The users table and the requests that write it: registration, the seed  *)
(* of the first admin by every server process that starts, and the changes *)
(* admins make to other accounts and users make to their own.  As in       *)
(* IssueRequests a request is a read with its checks, then a commit, and   *)
(* other requests run in between; a seeding process is a worker like any.  *)
(***************************************************************************)
EXTENDS GymDomain, Naturals

CONSTANTS
  AccountId,
  Email,
  FIRST_ADMIN_EMAIL,  \* the configured admin's
  Password,
  Name,
  Roles,              \* the roles admins hand out, a subset of Role
  Worker,             \* requests and starting processes at work at once
  MayFail,            \* may the server lose a request half way?
  NotYet              \* the row has not been inserted

UserRow == [email : Email, role : Role, active : BOOLEAN,
            password : Password, name : Name]

ASSUME AdminEmailAssumption == FIRST_ADMIN_EMAIL \in Email
ASSUME RolesAssumption      == Roles \subseteq Role
ASSUME NotYetAssumption     == NotYet \notin UserRow
ASSUME MayFailAssumption    == MayFail \in BOOLEAN

VARIABLES
  account,   \* the users table
  req        \* what each worker does, or what it answered last

avars == <<account, req>>

-------------------------------------------------------------------------------
Stored == {k \in AccountId : account[k] # NotYet}

\* get_by_email
Taken(e) == \E k \in Stored : account[k].email = e

\* get_current_user and require_role(admin)
IsAdmin(k) == k \in Stored /\ account[k].active /\ account[k].role = "admin"

\* Mutant: the whole row is written back, as loaded but for the change.
WholeAccount(row, f, v) == [row EXCEPT ![f] = v]

\* The columns an ORM object flushes: the one that was set, if it differs.
Written(row, f, v) == IF row[f] = v THEN << >> ELSE [g \in {f} |-> v]

\* UPDATE ... SET of those columns.
Updated(row, writes) ==
  [f \in DOMAIN row |-> IF f \in DOMAIN writes THEN writes[f] ELSE row[f]]

\* Mutant: a role the enum does not have.
NewAccountOfUser(e, role, p, n) ==
  [email |-> e, role |-> "user", active |-> TRUE, password |-> p, name |-> n]

NewAccount(e, role, p, n) ==
  [email |-> e, role |-> role, active |-> TRUE, password |-> p, name |-> n]

Free(w) == req[w].pc = "done"

Answer(w, result) ==
  req' = [req EXCEPT ![w] = [pc |-> "done", op |-> @.op, email |-> @.email, result |-> result]]

-------------------------------------------------------------------------------
(* Requests arrive *)

\* crud/user.create: a taken email is refused before anything is inserted.
BeginRegister(w, e, p, n) ==
  /\ Free(w)
  /\ req' = [req EXCEPT ![w] =
       IF Taken(e)
         THEN [pc |-> "done", op |-> "register", email |-> e, result |-> "conflict"]
         ELSE [pc |-> "insert", op |-> "register", email |-> e,
               row |-> NewAccount(e, "member", p, n)]]
  /\ UNCHANGED account

\* A server process starts: seed_first_admin.
BeginSeed(w, p, n) ==
  /\ Free(w)
  /\ req' = [req EXCEPT ![w] =
       IF Taken(FIRST_ADMIN_EMAIL)
         THEN [pc |-> "done", op |-> "seed", email |-> FIRST_ADMIN_EMAIL, result |-> "present"]
         ELSE [pc |-> "insert", op |-> "seed", email |-> FIRST_ADMIN_EMAIL,
               row |-> NewAccount(FIRST_ADMIN_EMAIL, "admin", p, n)]]
  /\ UNCHANGED account

\* The target k of caller u was read, and one of its columns is set in the session.
BeginEdit(w, op, u, k, f, v) ==
  /\ Free(w)
  /\ req' = [req EXCEPT ![w] = [pc |-> "update", op |-> op, email |-> account[k].email,
                                by |-> u, k |-> k,
                                writes |-> Written(account[k], f, v)]]
  /\ UNCHANGED account

\* Mutant: an admin may demote themselves.
BeginChangeAnyRole(w, u, t, r) ==
  /\ IsAdmin(u)
  /\ t \in Stored
  /\ BeginEdit(w, "changeRole", u, t, "role", r)

BeginChangeRole(w, u, t, r) ==
  /\ IsAdmin(u)
  /\ t \in Stored /\ t # u
  /\ BeginEdit(w, "changeRole", u, t, "role", r)

BeginDeactivate(w, u, t) ==
  /\ IsAdmin(u)
  /\ t \in Stored /\ t # u
  /\ BeginEdit(w, "deactivate", u, t, "active", FALSE)

\* The caller knows the current password; the new one is hashed with a fresh
\* salt, so it is always a new value.
BeginChangePassword(w, u, p) ==
  /\ u \in Stored /\ account[u].active
  /\ p # account[u].password
  /\ BeginEdit(w, "changePassword", u, u, "password", p)

BeginUpdateMe(w, u, n) ==
  /\ u \in Stored /\ account[u].active
  /\ BeginEdit(w, "updateMe", u, u, "name", n)

-------------------------------------------------------------------------------
(* Requests commit *)

\* Mutant: no unique index on email.
InsertAnyAccount(w) ==
  /\ req[w].pc = "insert"
  /\ \E k \in AccountId \ Stored :
       /\ account' = [account EXCEPT ![k] = req[w].row]
       /\ Answer(w, "created")

\* The unique index on email decides: the loser of a race gets an
\* IntegrityError, which register answers as a conflict and lifespan swallows.
InsertAccount(w) ==
  /\ req[w].pc = "insert"
  /\ \/ /\ ~Taken(req[w].email)
        /\ \E k \in AccountId \ Stored :
             account' = [account EXCEPT ![k] = req[w].row]
        /\ Answer(w, "created")
     \/ /\ Taken(req[w].email)
        /\ Answer(w, IF req[w].op = "register" THEN "conflict" ELSE "skipped")
        /\ UNCHANGED account

UpdateAccount(w) ==
  /\ req[w].pc = "update"
  /\ account' = [account EXCEPT ![req[w].k] = Updated(@, req[w].writes)]
  /\ Answer(w, "updated")

\* Mutant: every failure of the commit is taken for the index's.
FailAsConflict(w) ==
  /\ MayFail
  /\ ~Free(w)
  /\ Answer(w, IF req[w].op = "register" THEN "conflict" ELSE "skipped")
  /\ UNCHANGED account

\* The database or the process fails: rolled back.  A starting process logs
\* it and serves all the same.
Fail(w) ==
  /\ MayFail
  /\ ~Free(w)
  /\ Answer(w, IF req[w].op = "seed" THEN "skipped" ELSE "failed")
  /\ UNCHANGED account

-------------------------------------------------------------------------------
Arrive(w) ==
  \/ \E p \in Password, n \in Name :
       \/ \E e \in Email : BeginRegister(w, e, p, n)
       \/ BeginSeed(w, p, n)
  \/ \E u \in AccountId :
       \/ \E t \in AccountId :
            \/ \E r \in Roles : BeginChangeRole(w, u, t, r)
            \/ BeginDeactivate(w, u, t)
       \/ \E p \in Password : BeginChangePassword(w, u, p)
       \/ \E n \in Name : BeginUpdateMe(w, u, n)

\* A fresh database, and nothing answered yet.
AccountInit ==
  /\ account = [k \in AccountId |-> NotYet]
  /\ req = [w \in Worker |->
              [pc |-> "done", op |-> "seed", email |-> FIRST_ADMIN_EMAIL, result |-> "skipped"]]

AccountNext ==
  \E w \in Worker : Arrive(w) \/ InsertAccount(w) \/ UpdateAccount(w) \/ Fail(w)

AccountSpec == AccountInit /\ [][AccountNext]_avars

-------------------------------------------------------------------------------
(* Properties *)

\* The column each request sets, and what it may hold.
ColumnOf == [changeRole |-> "role", deactivate |-> "active",
             changePassword |-> "password", updateMe |-> "name"]

Values == [role |-> Role, active |-> BOOLEAN, password |-> Password, name |-> Name]

\* What a request carries is what it may write.
RequestOK(w) ==
  /\ req[w].pc \in {"done", "insert", "update"}
  /\ req[w].email \in Email
  /\ req[w].pc = "insert" => req[w].row \in UserRow /\ req[w].row.email = req[w].email
  /\ req[w].pc = "update" =>
       /\ req[w].k \in Stored
       /\ req[w].op \in DOMAIN ColumnOf
       /\ \A f \in DOMAIN req[w].writes :
            f = ColumnOf[req[w].op] /\ req[w].writes[f] \in Values[f]

\* The rows are well typed, and so is what the requests carry.
AccountTypeOK ==
  /\ account \in [AccountId -> UserRow \cup {NotYet}]
  /\ DOMAIN req = Worker
  /\ \A w \in Worker : RequestOK(w)

\* However registrations and seeding processes race past the lookup, no two
\* accounts have one email.
EmailUnique ==
  \A j, k \in Stored : account[j].email = account[k].email => j = k

\* An answer about an email can be relied on: who was told "created", "taken" or
\* "the admin is there" finds an account with that email, whichever of the two
\* checks said so and whatever failed meanwhile.
AnswersHold ==
  \A w \in Worker :
    Free(w) /\ req[w].result \in {"created", "conflict", "present"} => Taken(req[w].email)

\* However the changes of one account race, each writes its own column only: a
\* deactivation is never undone, a demotion never taken back by a change of
\* name or password that loaded the row before, and an email never changes.
OwnColumnOnly ==
  [][\A k \in Stored :
       \A f \in DOMAIN account[k] : account'[k][f] # account[k][f] =>
         \E w \in Worker :
           /\ req[w].pc = "update" /\ req'[w].pc = "done"
           /\ req[w].k = k /\ f = ColumnOf[req[w].op]]_avars

\* The guard against demoting or deactivating oneself does this much: the last
\* admin is lost only to another admin's request, and only if that admin was
\* demoted or deactivated in turn while the request was under way.
AdminLostOnlyBy ==
  [][(\E k \in AccountId : IsAdmin(k)) =>
       \/ (\E k \in AccountId : IsAdmin(k))'
       \/ \E w \in Worker :
            /\ req[w].pc = "update" /\ req'[w].pc = "done"
            /\ req[w].op \in {"changeRole", "deactivate"}
            /\ IsAdmin(req[w].k) /\ ~IsAdmin(req[w].by)]_avars

\* Once there is an active admin there always is one: nobody can be locked out
\* of the administration.  It is not so: see the run last_admin.
AdminStays ==
  [][(\E k \in AccountId : IsAdmin(k)) => (\E k \in AccountId : IsAdmin(k))']_avars
=============================================================================
