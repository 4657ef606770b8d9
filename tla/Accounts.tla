------------------------------ MODULE Accounts ------------------------------
(***************************************************************************)
(* The accounts of the admin backend (account.service): what an operator   *)
(* does to roles, status, document keys and accounts, and what logins do.  *)
(* Every request is authorised first, against the row of its operator, and *)
(* does its work some queries later; an update reads the row of its target *)
(* again and writes all of it.  chatKey works like docKey.                 *)
(***************************************************************************)
EXTENDS Storage, Naturals, FiniteSets

CONSTANTS
  AccountIds,   \* bound: the ids of the accounts, present and future
  FirstAdmins,  \* the accounts there are at first, all of them active administrators
  UserNames,    \* the names of new accounts
  Operators,    \* requests in progress at once
  MaxKeys       \* bound: document keys ever generated

\* The seed has an administrator.
ASSUME AccountsAssumption == FirstAdmins # {} /\ FirstAdmins \subseteq AccountIds

VARIABLES
  account,      \* the rows; NoAccount where there is none
  request,      \* the handlers in progress
  keys,         \* how many keys were generated
  revoked,      \* keys that were withdrawn or replaced (history)
  torn          \* have two changes overlapped between reading and writing? (history)

accountVars == <<account, request, keys, revoked, torn>>

NoKey  == 0
NoName == "none"
NoOne  == "nobody"

Account == [name : UserNames \cup {NoName}, role : {"admin", "user"}, doc : BOOLEAN,
            status : {"active", "disabled", "absent"}, key : 0 .. MaxKeys]
NoAccount == [name |-> NoName, role |-> "user", doc |-> FALSE, status |-> "absent", key |-> NoKey]

Exists(a)      == account[a].status # "absent"
ActiveAdmins   == {a \in AccountIds : account[a].role = "admin" /\ account[a].status = "active"}

(* What a request does: change one field, or (login) nothing but the time of the last
   login; new accounts are created as users. *)
Changes == {"demote", "promote", "disable", "enable", "docOn", "docOff", "delete",
            "refresh", "login", "create"}

Request == [pc : {"idle", "read", "guard", "load", "save", "name", "insert"},
            on : AccountIds \cup {NoOne}, do : Changes, name : UserNames \cup {NoName},
            wasAdmin : BOOLEAN, newKey : BOOLEAN, row : Account]

NoRequest == [pc |-> "idle", on |-> NoOne, do |-> "login", name |-> NoName,
              wasAdmin |-> FALSE, newKey |-> FALSE, row |-> NoAccount]

AccountsTypeOK ==
  /\ account \in [AccountIds -> Account]
  /\ request \in [Operators -> Request]
  /\ keys \in 0 .. MaxKeys /\ revoked \in SUBSET (1 .. MaxKeys) /\ torn \in BOOLEAN

AccountsInit ==
  /\ account = [a \in AccountIds |->
       IF a \in FirstAdmins THEN [NoAccount EXCEPT !.role = "admin", !.status = "active"]
       ELSE NoAccount]
  /\ request = [r \in Operators |-> NoRequest]
  /\ keys = 0 /\ revoked = {} /\ torn = FALSE

-----------------------------------------------------------------------------

\* Passwords are hashed and compared by a thread of its own, whatever the driver.
Hashing(q)     == q.pc = "insert" \/ (q.pc = "read" /\ q.do = "login")
AccountTurn(r) == TurnOf(r, {s \in Operators : request[s].pc # "idle" /\ ~Hashing(request[s])})

Leave(r) == request' = [request EXCEPT ![r] = NoRequest]

\* Bound: a request that may generate a key begins only if every one under way gets its own.
KeysLeft == keys + Cardinality({s \in Operators : request[s].do \in {"docOn", "refresh"}}) < MaxKeys

\* loadUserForToken and the rights of the role: a disabled account is refused at once, and
\* all but the own key and the login takes an administrator, who may not demote, disable or
\* delete himself.  Bound: after an overlap the requests under way end, no other begins.
Authorise(r, a, b, do) ==
  /\ request[r].pc = "idle" /\ AccountTurn(r) /\ ~torn
  /\ account[a].status = "active" /\ Exists(b)
  /\ do \in {"refresh", "login"} => a = b
  /\ do \notin {"refresh", "login"} => account[a].role = "admin"
  /\ do \in {"demote", "disable", "delete"} => a # b
  /\ do \in {"docOn", "refresh"} => KeysLeft
  /\ request' = [request EXCEPT ![r] = [@ EXCEPT !.pc = "read", !.on = b, !.do = do]]
  /\ UNCHANGED <<account, keys, revoked, torn>>

\* getOrThrow; a key is refreshed only while the access is granted, and opening the access
\* keeps a key that is there.
ReadTarget(r) ==
  LET q == request[r] IN
  /\ q.pc = "read" /\ AccountTurn(r)
  /\ IF ~Exists(q.on) \/ (q.do = "refresh" /\ ~account[q.on].doc) THEN Leave(r)
     ELSE request' = [request EXCEPT ![r] = [@ EXCEPT
            !.pc = "guard", !.wasAdmin = (account[q.on].role = "admin"),
            !.newKey = (q.do = "refresh" \/ (q.do = "docOn" /\ account[q.on].key = NoKey))]]
  /\ UNCHANGED <<account, keys, revoked, torn>>

\* Does the change take an administrator away?
Removes(q) == q.wasAdmin /\ q.do \in {"demote", "disable", "delete"}

\* Faulty variant: a disabled administrator counts as well.
LastAdmin_AnyStatus(r) == Cardinality({a \in AccountIds : account[a].role = "admin"}) <= 1

\* countActiveAdmins.
LastAdmin(r) == Cardinality(ActiveAdmins) <= 1

\* One administrator at least has to stay.
GuardAdmins(r) ==
  /\ request[r].pc = "guard" /\ AccountTurn(r)
  /\ IF Removes(request[r]) /\ LastAdmin(r) THEN Leave(r)
     ELSE request' = [request EXCEPT ![r].pc = "load"]
  /\ torn' = (torn \/ (account[request[r].on].role = "admin") # request[r].wasAdmin
                   \/ \E s \in Operators \ {r} : request[s].pc \in {"load", "save"})
  /\ UNCHANGED <<account, keys, revoked>>

\* repository.update reads the row again; nothing is written if it is gone.
LoadAccount(r) ==
  /\ request[r].pc = "load" /\ AccountTurn(r)
  /\ IF Exists(request[r].on)
     THEN request' = [request EXCEPT ![r] = [@ EXCEPT !.pc = "save", !.row = account[request[r].on]]]
     ELSE Leave(r)
  /\ UNCHANGED <<account, keys, revoked, torn>>

\* The row with the change: the key goes with the access (account.service 1.9.5).
Changed(q) ==
  [q.row EXCEPT !.role   = CASE q.do = "demote" -> "user" [] q.do = "promote" -> "admin" [] OTHER -> @,
                !.status = CASE q.do = "disable" -> "disabled" [] q.do = "enable" -> "active" [] OTHER -> @,
                !.doc    = CASE q.do = "docOn" -> TRUE [] q.do = "docOff" -> FALSE [] OTHER -> @,
                !.key    = CASE q.newKey -> keys + 1 [] q.do = "docOff" -> NoKey [] OTHER -> @]

\* The write: the whole row, or its deletion.
SaveAccount(r) ==
  LET q == request[r]
      new == IF q.do = "delete" THEN NoAccount ELSE Changed(q)
  IN /\ q.pc = "save" /\ AccountTurn(r)
     /\ keys' = IF q.newKey THEN keys + 1 ELSE keys
     /\ account' = [account EXCEPT ![q.on] = new]
     /\ revoked' = IF q.do \in {"docOff", "refresh", "delete"}
                   THEN revoked \cup ({account[q.on].key} \ {NoKey}) ELSE revoked
     /\ torn' = (torn \/ account[q.on] # q.row)
     /\ Leave(r)

\* createUser: assertUsernameFree ...
CreateName(r, n) ==
  /\ request[r].pc = "idle" /\ AccountTurn(r) /\ ~torn /\ ActiveAdmins # {}
  /\ \A b \in AccountIds : account[b].name # n
  /\ request' = [request EXCEPT ![r] = [@ EXCEPT !.pc = "insert", !.do = "create", !.name = n]]
  /\ UNCHANGED <<account, keys, revoked, torn>>

\* ... and the row, once the password is hashed; MySQL has a unique index on the name.
CreateInsert(r) ==
  /\ request[r].pc = "insert" /\ AccountTurn(r)
  /\ IF driver = "mysql" /\ \E b \in AccountIds : account[b].name = request[r].name
     THEN UNCHANGED account
     ELSE \E b \in AccountIds \ FirstAdmins :
            /\ ~Exists(b)
            /\ account' = [account EXCEPT ![b] = [NoAccount EXCEPT !.name = request[r].name,
                                                                   !.status = "active"]]
  /\ Leave(r)
  /\ UNCHANGED <<keys, revoked, torn>>

AccountsNext ==
  \E r \in Operators :
    \/ \E a, b \in AccountIds, do \in Changes \ {"create"} : Authorise(r, a, b, do)
    \/ ReadTarget(r) \/ GuardAdmins(r) \/ LoadAccount(r) \/ SaveAccount(r)
    \/ \E n \in UserNames : CreateName(r, n)
    \/ CreateInsert(r)

AccountsSpec ==
  StorageTypeOK /\ AccountsInit /\ [][AccountsNext /\ UNCHANGED driver]_<<driver, accountVars>>

-----------------------------------------------------------------------------
(* Properties of the code *)

\* An administrator who can log in is always left, although requests go on after their
\* operator has been demoted, disabled or deleted: as long as no two changes overlap
\* between what they read and what they write.
AdminRemains == torn \/ ActiveAdmins # {}

\* With the memory driver a key that was withdrawn or replaced opens nothing any more.
RevokedKeyDead ==
  driver = "memory" => \A a \in AccountIds : account[a].doc => account[a].key \notin revoked

\* Access is guarded in both directions: changes of accounts that overlap with one another and with
\* the requests of the accounts they change neither lock everybody out nor let a withdrawn key in.
AccountsGuarded == AdminRemains /\ RevokedKeyDead

-----------------------------------------------------------------------------
(* What comments say and the code does not do: TLC refutes each.                   *)

\* account.service.js:12, the system has to keep one administrator at least.
AdminAlways == ActiveAdmins # {}

\* user.repository.js:5, names are unique, by a linear search (memory) or an index (MySQL).
NameUnique ==
  \A a, b \in AccountIds : account[a].name = account[b].name /\ account[a].name # NoName => a = b
=============================================================================
