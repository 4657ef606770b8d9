--------------------------- MODULE Records_proofs ---------------------------
(***************************************************************************)
(* Proofs about two kinds of records of the admin backend and one that the *)
(* web front end prepares, for any number of handlers: accounts, whose     *)
(* last administrator stays and whose old keys are dead; the local runs of *)
(* canvases, which free the canvas and are retried once for each failure;  *)
(* and the codes of a batch of metrics, whose verdicts are current         *)
(* although it is asked again only about those whose number has changed.   *)
(***************************************************************************)
EXTENDS Accounts, DataflowRuns, CodeCheck, FiniteSetTheorems, TLAPS

-----------------------------------------------------------------------------
(* Accounts: as long as no two changes tear each other, the last administrator stays. *)

\* The records without the bound of the keys.
AccountRow == [name : UserNames \cup {NoName}, role : {"admin", "user"}, doc : BOOLEAN,
               status : {"active", "disabled", "absent"}, key : Nat]
AccountRequest ==
  [pc : {"idle", "read", "guard", "load", "save", "name", "insert"},
   on : AccountIds \cup {NoOne}, do : Changes, name : UserNames \cup {NoName},
   wasAdmin : BOOLEAN, newKey : BOOLEAN, row : AccountRow]

AccountShape ==
  /\ account \in [AccountIds -> AccountRow] /\ request \in [Operators -> AccountRequest]
  /\ keys \in Nat /\ revoked \in SUBSET Nat /\ torn \in BOOLEAN

AbsentBlank == \A a \in AccountIds : account[a].status = "absent" => account[a] = NoAccount

\* What a request knows of itself; only the two changes that need one generate a key.
RequestFine(r) ==
  /\ request[r].pc \in {"read", "guard", "load", "save"} => request[r].on \in AccountIds
  /\ request[r].pc = "save" => request[r].row.status # "absent"
  /\ request[r].pc \in {"guard", "load", "save"} =>
       /\ request[r].newKey => request[r].do \in {"docOn", "refresh"}
       /\ request[r].do = "refresh" => request[r].newKey

Changing(r) == request[r].pc \in {"load", "save"}

\* What the guard of r has found still holds when r writes.
OtherLeft(r) ==
  /\ account[request[r].on].role = "admin" <=> request[r].wasAdmin
  /\ Removes(request[r]) => \E a \in ActiveAdmins : a # request[r].on

\* Unless two changes have overlapped, one at a time is past its guard.
AdminGuarded ==
  ~torn => /\ ActiveAdmins # {}
           /\ \A r \in Operators : Changing(r) =>
                OtherLeft(r) /\ \A s \in Operators \ {r} : ~Changing(s)

\* With the memory driver handlers do not interleave ...
Midway == {s \in Operators : request[s].pc # "idle" /\ ~Hashing(request[s])}
InTurn ==
  driver = "memory" =>
    /\ \A r, s \in Midway : r = s
    /\ \A r \in Operators : request[r].pc = "save" => request[r].row = account[request[r].on]

\* ... and every account has a key of its own that is not one withdrawn.
KeysApart ==
  driver = "memory" =>
    /\ revoked \subseteq 1 .. keys
    /\ \A a \in AccountIds : account[a].key <= keys /\ account[a].key \notin revoked
    /\ \A a, b \in AccountIds : a # b /\ account[a].key = account[b].key => account[a].key = NoKey

AccountInv ==
  /\ AccountShape /\ AbsentBlank /\ (\A r \in Operators : RequestFine(r))
  /\ AdminGuarded /\ InTurn /\ KeysApart

LEMMA NothingShaped ==
  /\ NoAccount \in AccountRow /\ NoAccount.status = "absent" /\ NoAccount.role = "user"
  /\ NoAccount.key = NoKey /\ NoAccount.doc = FALSE
  /\ NoRequest \in AccountRequest /\ NoRequest.pc = "idle"
BY DEF NoAccount, AccountRow, NoRequest, AccountRequest, NoKey, NoName, NoOne, Changes

LEMMA AccountInvInit == AccountsInit => AccountInv
<1> SUFFICES ASSUME AccountsInit PROVE AccountInv
  OBVIOUS
<1>1. PICK first : first = [NoAccount EXCEPT !.role = "admin", !.status = "active"]
  OBVIOUS
<1>2. first \in AccountRow /\ first.role = "admin" /\ first.status = "active" /\ first.key = NoKey
  BY <1>1 DEF NoAccount, AccountRow, NoKey, NoName
<1>3. \A a \in AccountIds : account[a] = IF a \in FirstAdmins THEN first ELSE NoAccount
  BY <1>1 DEF AccountsInit
<1>4. AccountShape
  BY <1>1, <1>2, NothingShaped DEF AccountsInit, AccountShape
<1>5. \A r \in Operators : request[r] = NoRequest
  BY DEF AccountsInit
<1>6. ActiveAdmins # {}
  BY <1>2, <1>3, AccountsAssumption DEF ActiveAdmins
<1>7. AdminGuarded /\ InTurn /\ \A r \in Operators : RequestFine(r)
  BY <1>5, <1>6, NothingShaped DEF AdminGuarded, InTurn, Midway, RequestFine, Changing
<1>8. AbsentBlank /\ KeysApart
  BY <1>2, <1>3, NothingShaped DEF AbsentBlank, KeysApart, AccountsInit, NoKey
<1>9. QED
  BY <1>4, <1>7, <1>8 DEF AccountInv

\* With the memory driver nobody else is midway when a request takes its turn.
LEMMA TurnAlone ==
  ASSUME NEW r \in Operators, AccountTurn(r), driver = "memory"
  PROVE  Midway \subseteq {r}
BY DEF AccountTurn, TurnOf, Midway

\* A request takes a step that writes nothing.
LEMMA RequestTurns ==
  ASSUME AccountInv, NEW r \in Operators, AccountTurn(r), NEW q \in AccountRequest,
         request' = [request EXCEPT ![r] = q],
         UNCHANGED <<account, keys, revoked, driver>>,
         torn' \in BOOLEAN, torn => torn',
         q.pc \in {"read", "guard", "load", "save"} => q.on \in AccountIds,
         q.pc = "save" => q.row.status # "absent" /\ q.row = account[q.on],
         q.pc \in {"guard", "load", "save"} =>
           (q.newKey => q.do \in {"docOn", "refresh"}) /\ (q.do = "refresh" => q.newKey),
         ~torn' /\ q.pc \in {"load", "save"} =>
           /\ account[q.on].role = "admin" <=> q.wasAdmin
           /\ Removes(q) => \E a \in ActiveAdmins : a # q.on
           /\ \A s \in Operators \ {r} : ~Changing(s)
  PROVE  AccountInv'
<1> USE DEF AccountInv
<1>1. request'[r] = q /\ \A s \in Operators \ {r} : request'[s] = request[s]
  BY DEF AccountShape
<1>2. AccountShape'
  BY DEF AccountShape
<1>3. AbsentBlank' /\ KeysApart'
  BY DEF AbsentBlank, KeysApart
<1>4. RequestFine(r)'
  BY <1>1 DEF RequestFine
<1>5. \A s \in Operators \ {r} : RequestFine(s)'
  BY <1>1 DEF RequestFine
<1>6. ActiveAdmins' = ActiveAdmins
  BY DEF ActiveAdmins
<1>7. \A s \in Operators \ {r} : (Changing(s)' <=> Changing(s)) /\ (OtherLeft(s)' <=> OtherLeft(s))
  BY <1>1, <1>6 DEF Changing, OtherLeft, Removes
<1>8. Changing(r)' <=> q.pc \in {"load", "save"}
  BY <1>1 DEF Changing
<1>9. ~torn' /\ Changing(r)' => OtherLeft(r)'
  BY <1>1, <1>6, <1>8 DEF OtherLeft, Removes
<1>10. AdminGuarded'
  BY <1>6, <1>7, <1>8, <1>9 DEF AdminGuarded
<1>11. InTurn'
  <2>1. ASSUME driver = "memory" PROVE Midway' \subseteq {r}
    BY <2>1, <1>1, TurnAlone DEF Midway, Hashing
  <2>2. ASSUME driver = "memory", NEW s \in Operators, request'[s].pc = "save"
        PROVE  request'[s].row = account'[request'[s].on]
    BY <2>2, <1>1 DEF InTurn
  <2>3. QED
    BY <2>1, <2>2 DEF InTurn
<1>12. QED
  BY <1>2, <1>3, <1>4, <1>5, <1>10, <1>11

\* A request that gives up.
LEMMA RequestLeaves ==
  ASSUME AccountInv, NEW r \in Operators, AccountTurn(r), Leave(r),
         UNCHANGED <<account, keys, revoked, driver>>, torn' \in BOOLEAN, torn => torn'
  PROVE  AccountInv'
<1>1. request' = [request EXCEPT ![r] = NoRequest]
  BY DEF Leave
<1>2. QED
  BY <1>1, NothingShaped, RequestTurns

LEMMA AccountBegins ==
  ASSUME AccountInv, UNCHANGED driver, NEW r \in Operators,
         \/ \E a, b \in AccountIds, do \in Changes \ {"create"} : Authorise(r, a, b, do)
         \/ \E n \in UserNames : CreateName(r, n)
  PROVE  AccountInv'
<1>0. request[r] \in AccountRequest /\ torn \in BOOLEAN
  BY DEF AccountInv, AccountShape
<1>1. ASSUME NEW a \in AccountIds, NEW b \in AccountIds, NEW do \in Changes, Authorise(r, a, b, do)
      PROVE  AccountInv'
  <2>1. PICK q : q = [request[r] EXCEPT !.pc = "read", !.on = b, !.do = do]
    OBVIOUS
  <2>2. q \in AccountRequest /\ q.pc = "read" /\ q.on = b
    BY <2>1, <1>0 DEF AccountRequest
  <2>3. request' = [request EXCEPT ![r] = q] /\ AccountTurn(r) /\ UNCHANGED <<account, keys, revoked, torn>>
    BY <1>1, <2>1 DEF Authorise
  <2>4. QED
    BY <1>0, <2>2, <2>3, RequestTurns
<1>2. ASSUME NEW n \in UserNames, CreateName(r, n) PROVE AccountInv'
  <2>1. PICK q : q = [request[r] EXCEPT !.pc = "insert", !.do = "create", !.name = n]
    OBVIOUS
  <2>2. q \in AccountRequest /\ q.pc = "insert"
    BY <2>1, <1>0 DEF AccountRequest, Changes
  <2>3. request' = [request EXCEPT ![r] = q] /\ AccountTurn(r) /\ UNCHANGED <<account, keys, revoked, torn>>
    BY <1>2, <2>1 DEF CreateName
  <2>4. QED
    BY <1>0, <2>2, <2>3, RequestTurns
<1>3. QED
  BY <1>1, <1>2

LEMMA AccountReads ==
  ASSUME AccountInv, UNCHANGED driver, NEW r \in Operators, ReadTarget(r) \/ LoadAccount(r)
  PROVE  AccountInv'
<1>0. request[r] \in AccountRequest /\ torn \in BOOLEAN /\ account \in [AccountIds -> AccountRow]
  BY DEF AccountInv, AccountShape
<1>1. CASE ReadTarget(r)
  <2>1. request[r].pc = "read" /\ AccountTurn(r) /\ UNCHANGED <<account, keys, revoked, torn>>
    BY <1>1 DEF ReadTarget
  <2>2. request[r].on \in AccountIds
    BY <2>1 DEF AccountInv, RequestFine
  <2>3. PICK admin \in BOOLEAN : admin = (account[request[r].on].role = "admin")
    OBVIOUS
  <2>4. PICK new \in BOOLEAN :
          new = (request[r].do = "refresh" \/ (request[r].do = "docOn" /\ account[request[r].on].key = NoKey))
    OBVIOUS
  <2>5. PICK q : q = [request[r] EXCEPT !.pc = "guard", !.wasAdmin = admin, !.newKey = new]
    OBVIOUS
  <2>6. /\ q \in AccountRequest /\ q.pc = "guard" /\ q.on = request[r].on /\ q.do = request[r].do
        /\ q.newKey = new
    BY <2>5, <1>0 DEF AccountRequest
  <2>7. CASE Leave(r)
    BY <2>1, <2>7, <1>0, RequestLeaves
  <2>8. CASE request' = [request EXCEPT ![r] = q]
    BY <2>1, <2>2, <2>4, <2>6, <2>8, <1>0, RequestTurns
  <2>9. Leave(r) \/ request' = [request EXCEPT ![r] = q]
    BY <1>1, <2>3, <2>4, <2>5 DEF ReadTarget
  <2>10. QED
    BY <2>7, <2>8, <2>9
<1>2. CASE LoadAccount(r)
  <2>1. request[r].pc = "load" /\ AccountTurn(r) /\ UNCHANGED <<account, keys, revoked, torn>>
    BY <1>2 DEF LoadAccount
  <2>2. request[r].on \in AccountIds /\ RequestFine(r) /\ Changing(r)
    BY <2>1 DEF AccountInv, RequestFine, Changing
  <2>3. PICK q : q = [request[r] EXCEPT !.pc = "save", !.row = account[request[r].on]]
    OBVIOUS
  <2>4. /\ q \in AccountRequest /\ q.pc = "save" /\ q.on = request[r].on /\ q.do = request[r].do
        /\ q.newKey = request[r].newKey /\ q.wasAdmin = request[r].wasAdmin
        /\ q.row = account[request[r].on]
    BY <2>2, <2>3, <1>0 DEF AccountRequest
  <2>5. CASE Leave(r)
    BY <2>1, <2>5, <1>0, RequestLeaves
  <2>6. CASE Exists(request[r].on) /\ request' = [request EXCEPT ![r] = q]
    <3>1. q.row.status # "absent" /\ q.row = account[q.on]
      BY <2>4, <2>6 DEF Exists
    <3>2. (q.newKey => q.do \in {"docOn", "refresh"}) /\ (q.do = "refresh" => q.newKey)
      BY <2>1, <2>2, <2>4 DEF RequestFine
    <3>3. ~torn => /\ account[q.on].role = "admin" <=> q.wasAdmin
                   /\ Removes(q) => \E a \in ActiveAdmins : a # q.on
                   /\ \A s \in Operators \ {r} : ~Changing(s)
      BY <2>2, <2>4 DEF AccountInv, AdminGuarded, OtherLeft, Removes
    <3>4. QED
      BY <2>1, <2>2, <2>4, <2>6, <3>1, <3>2, <3>3, <1>0, RequestTurns
  <2>7. Leave(r) \/ (Exists(request[r].on) /\ request' = [request EXCEPT ![r] = q])
    BY <1>2, <2>3 DEF LoadAccount
  <2>8. QED
    BY <2>5, <2>6, <2>7
<1>3. QED
  BY <1>1, <1>2

\* Two active administrators are not one.
LEMMA AnotherAdmin ==
  ASSUME ~(Cardinality(ActiveAdmins) <= 1), NEW a PROVE \E b \in ActiveAdmins : b # a
<1>1. SUFFICES ASSUME ActiveAdmins \subseteq {a} PROVE FALSE
  OBVIOUS
<1>2. ActiveAdmins = {} \/ ActiveAdmins = {a}
  BY <1>1
<1>3. Cardinality({}) = 0 /\ Cardinality({a}) = 1
  BY FS_EmptySet, FS_Singleton
<1>4. QED
  BY <1>2, <1>3

LEMMA AdminsGuarded ==
  ASSUME AccountInv, UNCHANGED driver, NEW r \in Operators, GuardAdmins(r) PROVE AccountInv'
<1>0. request[r] \in AccountRequest /\ torn \in BOOLEAN /\ account \in [AccountIds -> AccountRow]
  BY DEF AccountInv, AccountShape
<1>1. request[r].pc = "guard" /\ AccountTurn(r) /\ UNCHANGED <<account, keys, revoked>>
  BY DEF GuardAdmins
<1>2. torn' \in BOOLEAN /\ (torn => torn')
      /\ (~torn' => /\ account[request[r].on].role = "admin" <=> request[r].wasAdmin
                    /\ \A s \in Operators \ {r} : ~Changing(s))
  BY <1>0 DEF GuardAdmins, Changing, AccountRequest
<1>3. request[r].on \in AccountIds /\ RequestFine(r)
  BY <1>1 DEF AccountInv, RequestFine
<1>4. PICK q : q = [request[r] EXCEPT !.pc = "load"]
  OBVIOUS
<1>5. /\ q \in AccountRequest /\ q.pc = "load" /\ q.on = request[r].on /\ q.do = request[r].do
      /\ q.newKey = request[r].newKey /\ q.wasAdmin = request[r].wasAdmin
  BY <1>0, <1>4 DEF AccountRequest
<1>6. CASE Leave(r)
  BY <1>1, <1>2, <1>6, RequestLeaves
<1>7. CASE ~(Removes(request[r]) /\ LastAdmin(r)) /\ request' = [request EXCEPT ![r].pc = "load"]
  <2>1. request' = [request EXCEPT ![r] = q]
    BY <1>7, <1>4
  <2>2. Removes(q) => \E a \in ActiveAdmins : a # q.on
    BY <1>5, <1>7, AnotherAdmin DEF Removes, LastAdmin
  <2>3. (q.newKey => q.do \in {"docOn", "refresh"}) /\ (q.do = "refresh" => q.newKey)
    BY <1>1, <1>3, <1>5 DEF RequestFine
  <2>4. QED
    BY <1>1, <1>2, <1>3, <1>5, <2>1, <2>2, <2>3, RequestTurns
<1>8. QED
  BY <1>6, <1>7 DEF GuardAdmins

\* The row with the change.
LEMMA ChangedRow ==
  ASSUME NEW q \in AccountRequest, keys \in Nat, q.row.status # "absent",
         q.newKey => q.do \in {"docOn", "refresh"}
  PROVE  /\ Changed(q) \in AccountRow /\ Changed(q).status # "absent"
         /\ q.row.role = "admin" /\ q.do # "demote" => Changed(q).role = "admin"
         /\ q.row.status = "active" /\ q.do # "disable" => Changed(q).status = "active"
         /\ Changed(q).key = IF q.newKey THEN keys + 1
                             ELSE IF q.do = "docOff" THEN NoKey ELSE q.row.key
<1>1. q.row \in AccountRow
  BY DEF AccountRequest
<1>2. PICK role : role = CASE q.do = "demote" -> "user" [] q.do = "promote" -> "admin" [] OTHER -> q.row.role
  OBVIOUS
<1>3. PICK status : status = CASE q.do = "disable" -> "disabled" [] q.do = "enable" -> "active"
                               [] OTHER -> q.row.status
  OBVIOUS
<1>4. PICK doc : doc = CASE q.do = "docOn" -> TRUE [] q.do = "docOff" -> FALSE [] OTHER -> q.row.doc
  OBVIOUS
<1>5. PICK key : key = CASE q.newKey -> keys + 1 [] q.do = "docOff" -> NoKey [] OTHER -> q.row.key
  OBVIOUS
<1>6. Changed(q) = [q.row EXCEPT !.role = role, !.status = status, !.doc = doc, !.key = key]
  BY <1>2, <1>3, <1>4, <1>5 DEF Changed
<1>7. role \in {"admin", "user"} /\ (q.row.role = "admin" /\ q.do # "demote" => role = "admin")
  BY <1>1, <1>2 DEF AccountRow
<1>8. /\ status \in {"active", "disabled"}
      /\ q.row.status = "active" /\ q.do # "disable" => status = "active"
  BY <1>1, <1>3 DEF AccountRow
<1>9. doc \in BOOLEAN
  BY <1>1, <1>4 DEF AccountRow
<1>10. key \in Nat /\ key = IF q.newKey THEN keys + 1 ELSE IF q.do = "docOff" THEN NoKey ELSE q.row.key
  <2>1. ASSUME q.newKey PROVE key = keys + 1
    <3>1. q.do # "docOff"
      BY <2>1
    <3>2. QED
      BY <2>1, <3>1, <1>5
  <2>2. ~q.newKey /\ q.do = "docOff" => key = NoKey
    BY <1>5
  <2>3. ~q.newKey /\ q.do # "docOff" => key = q.row.key
    BY <1>5
  <2>4. q.row.key \in Nat
    BY <1>1 DEF AccountRow
  <2>5. QED
    BY <2>1, <2>2, <2>3, <2>4 DEF NoKey
<1>11. /\ Changed(q) \in AccountRow /\ Changed(q).role = role /\ Changed(q).status = status
       /\ Changed(q).key = key
  BY <1>1, <1>6, <1>7, <1>8, <1>9, <1>10 DEF AccountRow
<1>12. QED
  BY <1>7, <1>8, <1>10, <1>11

LEMMA AccountSaved ==
  ASSUME AccountInv, UNCHANGED driver, NEW r \in Operators, SaveAccount(r) PROVE AccountInv'
<1> USE DEF AccountInv
<1>1. PICK q \in AccountRequest : q = request[r]
  BY DEF AccountShape
<1>2. PICK new : new = IF q.do = "delete" THEN NoAccount ELSE Changed(q)
  OBVIOUS
<1>3. PICK i : i = q.on
  OBVIOUS
<1>4. /\ q.pc = "save" /\ AccountTurn(r) /\ keys' = (IF q.newKey THEN keys + 1 ELSE keys)
      /\ account' = [account EXCEPT ![i] = new] /\ torn' = (torn \/ account[i] # q.row)
      /\ request' = [request EXCEPT ![r] = NoRequest]
      /\ revoked' = (IF q.do \in {"docOff", "refresh", "delete"}
                     THEN revoked \cup ({account[i].key} \ {NoKey}) ELSE revoked)
  BY <1>1, <1>2, <1>3 DEF SaveAccount, Leave
<1>5. /\ i \in AccountIds /\ q.row.status # "absent" /\ account[i] \in AccountRow
      /\ q.newKey => q.do \in {"docOn", "refresh"}
      /\ q.do = "refresh" => q.newKey
  BY <1>1, <1>3, <1>4 DEF RequestFine, AccountShape
<1>6. keys \in Nat /\ torn \in BOOLEAN /\ revoked \in SUBSET Nat /\ q.newKey \in BOOLEAN
  BY DEF AccountShape, AccountRequest
<1>7. /\ new \in AccountRow /\ (new.status = "absent" => new = NoAccount)
      /\ q.do # "delete" /\ q.row.role = "admin" /\ q.do # "demote" => new.role = "admin"
      /\ q.do # "delete" /\ q.row.status = "active" /\ q.do # "disable" => new.status = "active"
      /\ new.key = IF q.do = "delete" THEN NoKey ELSE IF q.newKey THEN keys + 1
                   ELSE IF q.do = "docOff" THEN NoKey ELSE q.row.key
  BY <1>2, <1>5, <1>6, ChangedRow, NothingShaped
<1>8. account'[i] = new /\ \A a \in AccountIds \ {i} : account'[a] = account[a]
  BY <1>4, <1>5 DEF AccountShape
<1>9. request'[r] = NoRequest /\ \A s \in Operators \ {r} : request'[s] = request[s]
  BY <1>4 DEF AccountShape
<1>10. AccountShape'
  <2>1. account' \in [AccountIds -> AccountRow] /\ request' \in [Operators -> AccountRequest]
    BY <1>4, <1>7, NothingShaped DEF AccountShape
  <2>2. keys' \in Nat /\ torn' \in BOOLEAN
    BY <1>4, <1>6
  <2>3. revoked' \in SUBSET Nat
    BY <1>4, <1>5, <1>6 DEF AccountRow
  <2>4. QED
    BY <2>1, <2>2, <2>3 DEF AccountShape
<1>11. AbsentBlank'
  BY <1>7, <1>8 DEF AbsentBlank
<1>12. \A s \in Operators : RequestFine(s)'
  BY <1>9, NothingShaped DEF RequestFine
<1>13. AdminGuarded'
  <2>1. SUFFICES ASSUME ~torn' PROVE AdminGuarded'
    BY DEF AdminGuarded
  <2>2. ~torn /\ account[i] = q.row
    BY <2>1, <1>4, <1>6
  <2>3. OtherLeft(r) /\ \A s \in Operators \ {r} : ~Changing(s)
    BY <1>1, <1>4, <2>2 DEF AdminGuarded, Changing
  <2>4. /\ account[i].role = "admin" <=> q.wasAdmin
        /\ Removes(q) => \E a \in ActiveAdmins : a # i
    BY <1>1, <1>3, <2>3 DEF OtherLeft
  <2>5. \A s \in Operators : ~Changing(s)'
    BY <1>9, <2>3, NothingShaped DEF Changing
  <2>6. \A a \in ActiveAdmins : a # i => a \in ActiveAdmins'
    BY <1>8 DEF ActiveAdmins
  <2>7. ActiveAdmins' # {}
    <3>1. CASE Removes(q)
      BY <3>1, <2>4, <2>6
    <3>2. CASE ~Removes(q)
      <4>1. PICK a \in ActiveAdmins : TRUE
        BY <2>2 DEF AdminGuarded
      <4>2. CASE a # i
        BY <4>1, <4>2, <2>6
      <4>3. CASE a = i
        <5>1. account[i].role = "admin" /\ account[i].status = "active"
          BY <4>1, <4>3 DEF ActiveAdmins
        <5>2. q.do \notin {"demote", "disable", "delete"}
          BY <5>1, <3>2, <2>4 DEF Removes
        <5>3. new.role = "admin" /\ new.status = "active"
          BY <5>1, <5>2, <2>2, <1>7
        <5>4. QED
          BY <5>3, <1>5, <1>8 DEF ActiveAdmins
      <4>4. QED
        BY <4>2, <4>3
    <3>3. QED
      BY <3>1, <3>2
  <2>8. QED
    BY <2>5, <2>7 DEF AdminGuarded
<1>14. InTurn'
  <2>1. ASSUME driver = "memory" PROVE Midway' = {}
    BY <2>1, <1>4, <1>9, NothingShaped, TurnAlone DEF Midway, Hashing
  <2>2. \A s \in Operators : request'[s].pc = "save" => s \in Midway'
    BY DEF Midway, Hashing
  <2>3. QED
    BY <2>1, <2>2 DEF InTurn
<1>15. KeysApart'
  <2>1. SUFFICES ASSUME driver = "memory" PROVE KeysApart'
    BY DEF KeysApart
  <2>2. q.row = account[i]
    BY <2>1, <1>1, <1>3, <1>4 DEF InTurn
  <2>3. PICK old : old = account[i].key
    OBVIOUS
  <2>4. old \in Nat /\ old <= keys /\ old \notin revoked /\ revoked \subseteq 1 .. keys
    BY <2>1, <2>3, <1>5 DEF KeysApart, AccountRow
  <2>5. \A a \in AccountIds \ {i} : /\ account[a].key \in Nat /\ account[a].key <= keys
                                    /\ account[a].key \notin revoked
                                    /\ account[a].key = old => account[a].key = NoKey
    BY <2>1, <2>3, <1>5 DEF KeysApart, AccountShape, AccountRow
  <2>6. keys' \in Nat /\ keys <= keys' /\ (q.newKey => keys' = keys + 1)
    BY <1>4, <1>6
  <2>7. revoked' \subseteq 1 .. keys'
    <3>1. {old} \ {NoKey} \subseteq 1 .. keys
      BY <2>4, <1>6 DEF NoKey
    <3>2. revoked' \subseteq 1 .. keys
      BY <3>1, <2>3, <2>4, <1>4
    <3>3. QED
      BY <3>2, <2>6, <1>6
  <2>8. \A a \in AccountIds \ {i} : account[a].key \notin revoked'
    BY <2>3, <2>5, <1>4
  <2>9. new.key \in {NoKey, keys + 1, old}
    BY <2>2, <2>3, <1>7
  <2>10. new.key <= keys' /\ new.key \notin revoked'
    <3>1. CASE new.key = NoKey
      BY <3>1, <2>4, <2>6, <2>3, <1>4, <1>6 DEF NoKey
    <3>2. CASE new.key = keys + 1 /\ q.newKey
      <4>1. keys + 1 \notin revoked /\ keys + 1 # old
        BY <2>4, <1>6
      <4>2. QED
        BY <3>2, <4>1, <2>3, <2>6, <1>4
    <3>3. CASE new.key = old /\ q.do \notin {"docOff", "refresh", "delete"}
      BY <3>3, <2>4, <2>6, <1>4, <1>6
    <3>4. QED
      BY <3>1, <3>2, <3>3, <2>2, <2>3, <1>5, <1>7
  <2>11. \A a \in AccountIds \ {i} : account[a].key = new.key => account[a].key = NoKey
    <3>1. \A a \in AccountIds \ {i} : account[a].key # keys + 1
      BY <2>5, <1>6
    <3>2. QED
      BY <3>1, <2>5, <2>9
  <2>12. \A a \in AccountIds : account'[a].key <= keys' /\ account'[a].key \notin revoked'
    BY <1>8, <2>5, <2>6, <2>8, <2>10, <1>6
  <2>13. \A a, b \in AccountIds : a # b /\ account'[a].key = account'[b].key => account'[a].key = NoKey
    BY <1>8, <2>1, <2>11 DEF KeysApart
  <2>14. QED
    BY <2>7, <2>12, <2>13 DEF KeysApart
<1>16. QED
  BY <1>10, <1>11, <1>12, <1>13, <1>14, <1>15

LEMMA AccountCreated ==
  ASSUME AccountInv, UNCHANGED driver, NEW r \in Operators, CreateInsert(r) PROVE AccountInv'
<1> USE DEF AccountInv
<1>1. /\ AccountTurn(r) /\ Leave(r) /\ request' = [request EXCEPT ![r] = NoRequest]
      /\ UNCHANGED <<keys, revoked, torn>> /\ torn \in BOOLEAN
  BY DEF CreateInsert, Leave, AccountShape
<1>2. CASE UNCHANGED account
  BY <1>1, <1>2, RequestLeaves
<1>3. CASE ~UNCHANGED account
  <2>1. PICK name : name = request[r].name
    OBVIOUS
  <2>2. PICK new : new = [NoAccount EXCEPT !.name = name, !.status = "active"]
    OBVIOUS
  <2>3. PICK b \in AccountIds : ~Exists(b) /\ account' = [account EXCEPT ![b] = new]
    BY <1>3, <2>1, <2>2 DEF CreateInsert
  <2>4. /\ new \in AccountRow /\ new.status = "active" /\ new.role = "user" /\ new.key = NoKey
    BY <2>1, <2>2, NothingShaped DEF AccountRow, NoAccount, AccountShape, AccountRequest
  <2>5. account[b] = NoAccount
    BY <2>3 DEF Exists, AbsentBlank
  <2>6. account'[b] = new /\ \A a \in AccountIds \ {b} : account'[a] = account[a]
    BY <2>3 DEF AccountShape
  <2>7. request'[r] = NoRequest /\ \A s \in Operators \ {r} : request'[s] = request[s]
    BY <1>1 DEF AccountShape
  <2>8. AccountShape'
    BY <1>1, <2>3, <2>4, NothingShaped DEF AccountShape
  <2>9. AbsentBlank'
    BY <2>4, <2>6 DEF AbsentBlank
  <2>10. \A s \in Operators : RequestFine(s)'
    BY <2>7, NothingShaped DEF RequestFine
  <2>11. ActiveAdmins' = ActiveAdmins /\ \A a \in AccountIds : account'[a].role = account[a].role
    BY <2>4, <2>5, <2>6, NothingShaped DEF ActiveAdmins
  <2>12. \A s \in Operators \ {r} : /\ Changing(s)' <=> Changing(s)
                                    /\ Changing(s) /\ OtherLeft(s) => OtherLeft(s)'
    <3>1. \A s \in Operators : Changing(s) => request[s].on \in AccountIds
      BY DEF Changing, RequestFine
    <3>2. QED
      BY <3>1, <2>7, <2>11 DEF Changing, OtherLeft
  <2>13. ~Changing(r)'
    BY <2>7, NothingShaped DEF Changing
  <2>14. AdminGuarded'
    BY <1>1, <2>11, <2>12, <2>13 DEF AdminGuarded
  <2>15. InTurn'
    <3>1. ASSUME driver = "memory" PROVE Midway' = {}
      BY <3>1, <1>1, <2>7, NothingShaped, TurnAlone DEF Midway, Hashing
    <3>2. \A s \in Operators : request'[s].pc = "save" => s \in Midway'
      BY DEF Midway, Hashing
    <3>3. QED
      BY <3>1, <3>2 DEF InTurn
  <2>16. KeysApart'
    <3>1. \A a \in AccountIds : account'[a].key = account[a].key
      BY <2>4, <2>5, <2>6, NothingShaped
    <3>2. QED
      BY <3>1, <1>1 DEF KeysApart
  <2>17. QED
    BY <2>8, <2>9, <2>10, <2>14, <2>15, <2>16
<1>4. QED
  BY <1>2, <1>3

LEMMA AccountInvHolds == AccountsSpec => []AccountInv
<1>1. AccountInv /\ AccountsNext /\ UNCHANGED driver => AccountInv'
  BY AccountBegins, AccountReads, AdminsGuarded, AccountSaved, AccountCreated DEF AccountsNext
<1>2. AccountInv /\ UNCHANGED <<driver, accountVars>> => AccountInv'
  <2>1. SUFFICES ASSUME AccountInv, UNCHANGED <<driver, accountVars>> PROVE AccountInv'
    OBVIOUS
  <2>2. ActiveAdmins' = ActiveAdmins /\ Midway' = Midway
    BY <2>1 DEF accountVars, ActiveAdmins, Midway
  <2>3. \A r \in Operators : /\ RequestFine(r)' <=> RequestFine(r)
                             /\ Changing(r)' <=> Changing(r)
                             /\ OtherLeft(r)' <=> OtherLeft(r)
    BY <2>1, <2>2 DEF accountVars, RequestFine, Changing, OtherLeft
  <2>4. AdminGuarded' /\ InTurn' /\ KeysApart' /\ AccountShape' /\ AbsentBlank'
    BY <2>1, <2>2, <2>3 DEF AccountInv, accountVars, AdminGuarded, InTurn, KeysApart, AccountShape,
                            AbsentBlank
  <2>5. QED
    BY <2>1, <2>3, <2>4 DEF AccountInv
<1>3. AccountInv /\ [AccountsNext /\ UNCHANGED driver]_<<driver, accountVars>> => AccountInv'
  BY <1>1, <1>2
<1>4. QED
  BY AccountInvInit, <1>3, PTL DEF AccountsSpec

\* AccountsGuarded (account.service, assertNotLastAdmin and the keys of updateUser, refreshDocKey
\* and deleteUser): changes that do not tear one another leave an administrator who can log
\* in, and with the memory driver no key that was withdrawn or replaced opens anything.
THEOREM AccountsGuardedHolds == AccountsSpec => []AccountsGuarded
<1>1. AccountInv => AccountsGuarded
  BY DEF AccountInv, AccountsGuarded, AdminRemains, RevokedKeyDead, AdminGuarded, KeysApart
<1>2. QED
  BY AccountInvHolds, <1>1, PTL

-----------------------------------------------------------------------------
(* DataflowRuns: a canvas is free when its run is over, and a failure is retried once. *)

\* runLocalPipeline has the instance in hand, and its row is not written yet.
Carrying == {"execute", "success", "failed"}

Marking(u, i) == flowReq[u].pc = "mark" /\ flowReq[u].id = i
Asking(u, i)  == flowReq[u].pc \in {"read", "check", "create"} /\ flowReq[u].of = i

\* Rows are used in order, and an instance without one has neither past nor present.
RowsUsed ==
  /\ \A i, j \in FlowIds : i < j /\ flowRow[i].status = "none" => flowRow[j].status = "none"
  /\ \A i \in FlowIds : flowRow[i].status = "none" => flowRow[i].of = 0 /\ local[i] = "none"

\* A request that has an instance has its row, and is alone in starting it.
Begun ==
  \A u \in FlowUsers :
    /\ flowReq[u].pc \in {"mark", "engine", "write", "finish"} =>
         flowReq[u].id \in FlowIds /\ flowRow[flowReq[u].id].status # "none"
    /\ \A i \in FlowIds : Marking(u, i) =>
         local[i] = "none" /\ \A v \in FlowUsers \ {u} : ~Marking(v, i)

\* Whatever says running has somebody who will say otherwise.
RowCarried ==
  \A i \in FlowIds : flowRow[i].status = "running" =>
    local[i] \in Carrying \/ \E u \in FlowUsers : Marking(u, i)
FlowCarried ==
  flowStatus = "running" =>
    \E i \in FlowIds : local[i] \in Carrying \cup {"flowSuccess", "flowFailed"}

\* A run that has failed for good, that may be retried and has not been.
MayRetry(i) ==
  local[i] = "over" /\ flowRow[i].attempt < FlowRetries /\ \A j \in FlowIds : flowRow[j].of # i

\* A retry is owed by one: a timer, or the request the timer has become.
RetryOwed ==
  /\ \A i \in flowTimers : MayRetry(i) /\ \A u \in FlowUsers : ~Asking(u, i)
  /\ \A u \in FlowUsers, i \in FlowIds : Asking(u, i) =>
       MayRetry(i) /\ \A v \in FlowUsers \ {u} : ~Asking(v, i)

FlowInv ==
  /\ DataflowRunsTypeOK /\ RowsUsed /\ Begun /\ RowCarried /\ FlowCarried /\ RetryOwed
  /\ FlowRetryChain

LEMMA FlowInvInit == DataflowRunsInit => FlowInv
<1>1. ASSUME DataflowRunsInit PROVE DataflowRunsTypeOK
  BY <1>1, DataflowRunsAssumption
  DEF DataflowRunsInit, DataflowRunsTypeOK, FlowState, FlowRow, NoRun, LocalState, FlowReq, NoFlowReq,
      FlowIds
<1>2. QED
  BY <1>1, DataflowRunsAssumption
  DEF DataflowRunsInit, FlowInv, RowsUsed, Begun, RowCarried, FlowCarried, RetryOwed, FlowRetryChain,
      NoRun, NoFlowReq, Marking, Asking, MayRetry, FlowIds

\* A request takes its next step; rows, runs and the canvas stay as they are.
LEMMA RequestGoes ==
  ASSUME FlowInv, NEW u \in FlowUsers, NEW q \in FlowReq, FlowGoes(u, q),
         UNCHANGED <<flowStatus, flowRow, local>>,
         flowTimers' \subseteq flowTimers,
         q.pc \in {"engine", "write", "finish"} =>
           q.id \in FlowIds /\ flowRow[q.id].status # "none",
         q.pc # "mark", flowReq[u].pc # "mark",
         q.pc \in {"read", "check", "create"} /\ q.of # 0 =>
           q.of \notin flowTimers' /\ (Asking(u, q.of) \/ q.of \in flowTimers),
         UNCHANGED stopped \/ stopped' \in SUBSET FlowIds
  PROVE  FlowInv'
<1> USE DEF FlowInv
<1>1. flowReq' = [flowReq EXCEPT ![u] = q] /\ flowReq'[u] = q
      /\ \A v \in FlowUsers \ {u} : flowReq'[v] = flowReq[v]
  BY DEF FlowGoes, DataflowRunsTypeOK
<1>2. DataflowRunsTypeOK'
  BY <1>1 DEF DataflowRunsTypeOK
<1>3. \A v \in FlowUsers, i \in FlowIds : Marking(v, i)' <=> Marking(v, i)
  BY <1>1 DEF Marking
<1>4. Begun'
  <2>1. \A v \in FlowUsers : flowReq'[v].pc \in {"mark", "engine", "write", "finish"} =>
          flowReq'[v].id \in FlowIds /\ flowRow[flowReq'[v].id].status # "none"
    BY <1>1 DEF Begun
  <2>2. QED
    BY <2>1, <1>3 DEF Begun
<1>5. RowCarried' /\ FlowCarried' /\ RowsUsed' /\ FlowRetryChain'
  BY <1>3 DEF RowCarried, FlowCarried, RowsUsed, FlowRetryChain
<1>6. \A i \in FlowIds : MayRetry(i)' <=> MayRetry(i)
  BY DEF MayRetry
<1>7. \A v \in FlowUsers \ {u}, i \in FlowIds : Asking(v, i)' <=> Asking(v, i)
  BY <1>1 DEF Asking
<1>8. ASSUME NEW i \in FlowIds, Asking(u, i)'
      PROVE  i \notin flowTimers' /\ (Asking(u, i) \/ i \in flowTimers)
  BY <1>1, <1>8, DataflowRunsAssumption DEF Asking, FlowIds
<1>9. flowTimers \subseteq FlowIds
  BY DEF DataflowRunsTypeOK
<1>10. RetryOwed'
  <2>1. ASSUME NEW i \in flowTimers' PROVE MayRetry(i)' /\ \A v \in FlowUsers : ~Asking(v, i)'
    <3>1. i \in FlowIds /\ MayRetry(i) /\ \A v \in FlowUsers : ~Asking(v, i)
      BY <1>9 DEF RetryOwed
    <3>2. QED
      BY <3>1, <1>6, <1>7, <1>8
  <2>2. ASSUME NEW v \in FlowUsers, NEW i \in FlowIds, Asking(v, i)'
        PROVE  MayRetry(i)' /\ \A w \in FlowUsers \ {v} : ~Asking(w, i)'
    <3>1. CASE v = u
      BY <2>2, <3>1, <1>6, <1>7, <1>8 DEF RetryOwed
    <3>2. CASE v # u
      <4>1. Asking(v, i)
        BY <2>2, <3>2, <1>7
      <4>2. MayRetry(i) /\ (\A w \in FlowUsers \ {v} : ~Asking(w, i)) /\ i \notin flowTimers
        BY <4>1 DEF RetryOwed
      <4>3. QED
        BY <4>2, <1>6, <1>7, <1>8
    <3>3. QED
      BY <3>1, <3>2
  <2>3. QED
    BY <2>1, <2>2 DEF RetryOwed
<1>11. QED
  BY <1>2, <1>4, <1>5, <1>10

\* The requests that only ask, or wait for the engine.
LEMMA RequestSteps ==
  ASSUME FlowInv, NEW u \in FlowUsers,
         \/ \E of \in 0 .. FlowRuns : FlowStart(u, of)
         \/ FlowRead(u) \/ FlowCheck(u) \/ FlowStop(u) \/ FlowStopAnswered(u)
  PROVE  FlowInv'
<1> USE DEF FlowInv
<1>0. /\ flowReq[u] \in FlowReq /\ flowTimers \subseteq FlowIds /\ 0 \notin FlowIds
      /\ NoFlowReq \in FlowReq /\ NoFlowReq.pc = "idle" /\ FlowIds \subseteq 0 .. FlowRuns
  BY DataflowRunsAssumption DEF DataflowRunsTypeOK, NoFlowReq, FlowReq, FlowIds
<1>a. \A pc \in {"check", "create", "write"} :
        /\ [flowReq[u] EXCEPT !.pc = pc] \in FlowReq
        /\ [flowReq[u] EXCEPT !.pc = pc].pc = pc
        /\ [flowReq[u] EXCEPT !.pc = pc].of = flowReq[u].of
        /\ [flowReq[u] EXCEPT !.pc = pc].id = flowReq[u].id
  BY <1>0 DEF FlowReq
<1>1. ASSUME NEW of \in 0 .. FlowRuns, FlowStart(u, of) PROVE FlowInv'
  <2>1. PICK q : q = [pc |-> "read", id |-> 0, of |-> of]
    OBVIOUS
  <2>2. q \in FlowReq /\ q.pc = "read" /\ q.of = of
    BY <2>1, DataflowRunsAssumption DEF FlowReq
  <2>3. FlowGoes(u, q) /\ flowTimers' = flowTimers \ {of} /\ (of = 0 \/ of \in flowTimers)
        /\ UNCHANGED <<flowStatus, flowRow, local, stopped>> /\ flowReq[u].pc = "idle"
    BY <1>1, <2>1 DEF FlowStart
  <2>4. QED
    BY <2>2, <2>3, RequestGoes
<1>2. CASE FlowRead(u)
  <2>1. PICK q : q = IF flowStatus = "running" THEN NoFlowReq ELSE [flowReq[u] EXCEPT !.pc = "check"]
    OBVIOUS
  <2>2. /\ FlowGoes(u, q) /\ UNCHANGED <<flowStatus, flowRow, local, flowTimers, stopped>>
        /\ flowReq[u].pc = "read"
    BY <1>2, <2>1 DEF FlowRead
  <2>3. q \in FlowReq /\ (q.pc = "idle" \/ (q.pc = "check" /\ q.of = flowReq[u].of))
    BY <2>1, <1>0, <1>a
  <2>4. q.pc = "check" /\ q.of # 0 => Asking(u, q.of) /\ q.of \notin flowTimers
    BY <2>2, <2>3, <1>0 DEF Asking, RetryOwed
  <2>5. QED
    BY <2>2, <2>3, <2>4, RequestGoes
<1>3. CASE FlowCheck(u)
  <2>1. PICK q : q = IF RunningRows # {} THEN NoFlowReq ELSE [flowReq[u] EXCEPT !.pc = "create"]
    OBVIOUS
  <2>2. /\ FlowGoes(u, q) /\ UNCHANGED <<flowStatus, flowRow, local, flowTimers, stopped>>
        /\ flowReq[u].pc = "check"
    BY <1>3, <2>1 DEF FlowCheck
  <2>3. q \in FlowReq /\ (q.pc = "idle" \/ (q.pc = "create" /\ q.of = flowReq[u].of))
    BY <2>1, <1>0, <1>a
  <2>4. q.pc = "create" /\ q.of # 0 => Asking(u, q.of) /\ q.of \notin flowTimers
    BY <2>2, <2>3, <1>0 DEF Asking, RetryOwed
  <2>5. QED
    BY <2>2, <2>3, <2>4, RequestGoes
<1>4. CASE FlowStop(u)
  <2>1. PICK i \in Greatest(RunningRows) :
          FlowGoes(u, [NoFlowReq EXCEPT !.pc = "engine", !.id = i]) /\ stopped' = stopped \cup {i}
    BY <1>4 DEF FlowStop
  <2>2. i \in FlowIds /\ flowRow[i].status = "running"
    BY DEF Greatest, RunningRows
  <2>3. PICK q : q = [NoFlowReq EXCEPT !.pc = "engine", !.id = i]
    OBVIOUS
  <2>4. q \in FlowReq /\ q.pc = "engine" /\ q.id = i
    BY <2>3, <2>2, <1>0 DEF NoFlowReq, FlowReq
  <2>5. /\ FlowGoes(u, q) /\ UNCHANGED <<flowStatus, flowRow, local, flowTimers>>
        /\ flowReq[u].pc = "idle"
    BY <1>4, <2>1, <2>3 DEF FlowStop
  <2>6. stopped' \in SUBSET FlowIds
    BY <2>1, <2>2 DEF DataflowRunsTypeOK
  <2>7. QED
    BY <2>2, <2>4, <2>5, <2>6, RequestGoes
<1>5. CASE FlowStopAnswered(u)
  <2>1. PICK q \in {[flowReq[u] EXCEPT !.pc = "write"], NoFlowReq} : FlowGoes(u, q)
    BY <1>5 DEF FlowStopAnswered
  <2>2. /\ UNCHANGED <<flowStatus, flowRow, local, flowTimers, stopped>> /\ flowReq[u].pc = "engine"
    BY <1>5 DEF FlowStopAnswered
  <2>3. q \in FlowReq /\ (q.pc = "idle" \/ (q.pc = "write" /\ q.id = flowReq[u].id))
    BY <1>0, <1>a
  <2>4. q.pc = "write" => q.id \in FlowIds /\ flowRow[q.id].status # "none"
    BY <2>2, <2>3 DEF Begun
  <2>5. QED
    BY <2>1, <2>2, <2>3, <2>4, RequestGoes
<1>6. QED
  BY <1>1, <1>2, <1>3, <1>4, <1>5

LEMMA FlowCreated == ASSUME FlowInv, NEW u \in FlowUsers, FlowCreate(u) PROVE FlowInv'
<1> USE DEF FlowInv
<1>0. PICK of : of = flowReq[u].of
  OBVIOUS
<1>1. PICK i \in Least(FreeRows) :
        /\ flowReq[u].pc = "create"
        /\ flowRow' = [flowRow EXCEPT ![i] =
                [status |-> "running", of |-> of,
                 attempt |-> IF of = 0 THEN 0 ELSE flowRow[of].attempt + 1]]
        /\ FlowGoes(u, [flowReq[u] EXCEPT !.pc = "mark", !.id = i])
        /\ UNCHANGED <<flowStatus, local, flowTimers, stopped>>
  BY <1>0 DEF FlowCreate
<1>2. i \in FlowIds /\ flowRow[i].status = "none" /\ \A j \in FlowIds : j < i => flowRow[j].status # "none"
  BY DataflowRunsAssumption DEF Least, FreeRows, FlowIds
<1>3. flowReq[u] \in FlowReq /\ of \in 0 .. FlowRuns /\ local[i] = "none" /\ flowRow[i].of = 0
  BY <1>0, <1>2 DEF DataflowRunsTypeOK, FlowReq, RowsUsed
<1>4. of # 0 => /\ of \in FlowIds /\ Asking(u, of) /\ MayRetry(of)
                /\ \A v \in FlowUsers \ {u} : ~Asking(v, of)
  <2>1. of # 0 => of \in FlowIds /\ Asking(u, of)
    BY <1>0, <1>1, <1>3, DataflowRunsAssumption DEF Asking, FlowIds
  <2>2. QED
    BY <2>1 DEF RetryOwed
<1>5. of # 0 => of # i /\ of < i /\ flowRow[of].status # "none" /\ of \notin flowTimers
  <2>1. ASSUME of # 0 PROVE flowRow[of].status # "none" /\ of \notin flowTimers
    BY <2>1, <1>4, <1>1 DEF RowsUsed, MayRetry, RetryOwed
  <2>2. ASSUME of # 0 PROVE ~ (i < of)
    BY <2>1, <2>2, <1>2, <1>4 DEF RowsUsed
  <2>3. QED
    BY <2>1, <2>2, <1>2, <1>4 DEF FlowIds
<1>6. PICK n : n = IF of = 0 THEN 0 ELSE flowRow[of].attempt + 1
  OBVIOUS
<1>7. n \in 0 .. FlowRetries
  BY <1>4, <1>6, DataflowRunsAssumption DEF MayRetry, DataflowRunsTypeOK, FlowRow
<1>8. PICK fresh : fresh = [status |-> "running", of |-> of, attempt |-> n]
  OBVIOUS
<1>9. fresh \in FlowRow /\ fresh.status = "running" /\ fresh.of = of /\ fresh.attempt = n
  BY <1>8, <1>7, <1>3 DEF FlowRow
<1>10. flowRow' = [flowRow EXCEPT ![i] = fresh]
  BY <1>1, <1>6, <1>8
<1>11. flowRow'[i] = fresh /\ \A j \in FlowIds \ {i} : flowRow'[j] = flowRow[j]
  BY <1>10, <1>2 DEF DataflowRunsTypeOK
<1>12. PICK q : q = [flowReq[u] EXCEPT !.pc = "mark", !.id = i]
  OBVIOUS
<1>13. q \in FlowReq /\ q.pc = "mark" /\ q.id = i
  <2>1. i \in 0 .. FlowRuns
    BY <1>2, DataflowRunsAssumption DEF FlowIds
  <2>2. QED
    BY <1>12, <1>3, <2>1 DEF FlowReq
<1>14. flowReq' = [flowReq EXCEPT ![u] = q] /\ flowReq'[u] = q
       /\ \A v \in FlowUsers \ {u} : flowReq'[v] = flowReq[v]
  BY <1>1, <1>12 DEF FlowGoes, DataflowRunsTypeOK
<1>15. DataflowRunsTypeOK'
  BY <1>1, <1>9, <1>10, <1>13, <1>14 DEF DataflowRunsTypeOK
<1>16. RowsUsed'
  <2>1. ASSUME NEW j \in FlowIds, NEW k \in FlowIds, j < k, flowRow'[j].status = "none"
        PROVE  flowRow'[k].status = "none"
    <3>1. j # i /\ flowRow[j].status = "none"
      BY <2>1, <1>11, <1>9
    <3>2. flowRow[k].status = "none" /\ ~(j < i)
      BY <3>1, <2>1, <1>2 DEF RowsUsed
    <3>3. k # i
      BY <3>1, <3>2, <2>1, <1>2 DEF FlowIds
    <3>4. QED
      BY <3>2, <3>3, <1>11
  <2>2. QED
    BY <2>1, <1>11, <1>9, <1>1 DEF RowsUsed
<1>17. \A v \in FlowUsers \ {u}, j \in FlowIds :
         (Marking(v, j)' <=> Marking(v, j)) /\ (Asking(v, j)' <=> Asking(v, j))
  BY <1>14 DEF Marking, Asking
<1>18. \A j \in FlowIds : (Marking(u, j)' <=> j = i) /\ ~Asking(u, j)'
  BY <1>14, <1>13 DEF Marking, Asking
<1>19. \A v \in FlowUsers : ~Marking(v, i)
  BY <1>2, <1>3 DEF Begun, Marking
<1>20. Begun'
  <2>1. \A v \in FlowUsers : flowReq'[v].pc \in {"mark", "engine", "write", "finish"} =>
          flowReq'[v].id \in FlowIds /\ flowRow'[flowReq'[v].id].status # "none"
    BY <1>14, <1>13, <1>11, <1>9, <1>2 DEF Begun
  <2>2. ASSUME NEW v \in FlowUsers, NEW j \in FlowIds, Marking(v, j)'
        PROVE  local'[j] = "none" /\ \A w \in FlowUsers \ {v} : ~Marking(w, j)'
    BY <2>2, <1>17, <1>18, <1>19, <1>1, <1>3 DEF Begun
  <2>3. QED
    BY <2>1, <2>2 DEF Begun
<1>21. RowCarried' /\ FlowCarried'
  BY <1>1, <1>11, <1>17, <1>18, <1>14 DEF RowCarried, FlowCarried, Marking
<1>22. \A j \in FlowIds : MayRetry(j) /\ j # of => MayRetry(j)'
  BY <1>1, <1>2, <1>3, <1>9, <1>11 DEF MayRetry
<1>23. RetryOwed'
  <2>1. \A j \in flowTimers : j \in FlowIds /\ j # of
    BY <1>5, DataflowRunsAssumption DEF DataflowRunsTypeOK, FlowIds
  <2>2. ASSUME NEW v \in FlowUsers, NEW j \in FlowIds, Asking(v, j)'
        PROVE  MayRetry(j)' /\ \A w \in FlowUsers \ {v} : ~Asking(w, j)'
    <3>1. v # u /\ Asking(v, j)
      BY <2>2, <1>17, <1>18
    <3>2. j # of
      BY <3>1, <1>4, DataflowRunsAssumption DEF FlowIds
    <3>3. QED
      BY <3>1, <3>2, <1>17, <1>18, <1>22 DEF RetryOwed
  <2>3. QED
    BY <2>1, <2>2, <1>1, <1>17, <1>18, <1>22 DEF RetryOwed
<1>24. FlowRetryChain'
  <2>1. ASSUME NEW j \in FlowIds, flowRow'[j].of # 0
        PROVE  /\ local'[flowRow'[j].of] = "over" /\ flowRow'[j].of < j
               /\ flowRow'[j].attempt = flowRow'[flowRow'[j].of].attempt + 1
               /\ flowRow'[j].attempt <= FlowRetries
               /\ \A k \in FlowIds \ {j} : flowRow'[k].of # flowRow'[j].of
    <3>1. CASE j = i
      <4>1. of # 0 /\ flowRow'[j] = fresh /\ flowRow'[of] = flowRow[of]
        BY <2>1, <3>1, <1>11, <1>9, <1>4, <1>5
      <4>2. n = flowRow[of].attempt + 1 /\ n <= FlowRetries
        BY <4>1, <1>6, <1>7
      <4>3. local'[of] = "over" /\ of < i /\ \A k \in FlowIds : flowRow[k].of # of
        BY <4>1, <1>4, <1>5, <1>1 DEF MayRetry
      <4>4. QED
        BY <4>1, <4>2, <4>3, <3>1, <1>9, <1>11
    <3>2. CASE j # i
      <4>1. flowRow'[j] = flowRow[j] /\ flowRow[j].of # 0
        BY <3>2, <2>1, <1>11
      <4>2. PICK o : o = flowRow[j].of
        OBVIOUS
      <4>3. /\ local[o] = "over" /\ o < j /\ flowRow[j].attempt = flowRow[o].attempt + 1
            /\ flowRow[j].attempt <= FlowRetries /\ \A k \in FlowIds \ {j} : flowRow[k].of # o
        BY <4>1, <4>2 DEF FlowRetryChain
      <4>4. o \in FlowIds /\ o # i
        BY <4>1, <4>2, <4>3, <1>3, DataflowRunsAssumption DEF DataflowRunsTypeOK, FlowRow, FlowIds
      <4>5. of # o
        BY <4>2, <4>4, <1>4, DataflowRunsAssumption DEF MayRetry, FlowIds
      <4>6. QED
        BY <4>1, <4>2, <4>3, <4>4, <4>5, <1>1, <1>9, <1>11
    <3>3. QED
      BY <3>1, <3>2
  <2>2. QED
    BY <2>1 DEF FlowRetryChain
<1>25. QED
  BY <1>15, <1>16, <1>20, <1>21, <1>23, <1>24

LEMMA FlowMarked == ASSUME FlowInv, NEW u \in FlowUsers, FlowMark(u) PROVE FlowInv'
<1> USE DEF FlowInv
<1>1. PICK i : i = flowReq[u].id
  OBVIOUS
<1>2. /\ flowReq[u].pc = "mark" /\ flowStatus' = "running" /\ local' = [local EXCEPT ![i] = "execute"]
      /\ flowReq' = [flowReq EXCEPT ![u] = NoFlowReq] /\ UNCHANGED <<flowRow, flowTimers, stopped>>
  BY <1>1 DEF FlowMark, FlowGoes
<1>3. i \in FlowIds /\ flowRow[i].status # "none" /\ local[i] = "none" /\ Marking(u, i)
      /\ \A v \in FlowUsers \ {u} : ~Marking(v, i)
  BY <1>1, <1>2 DEF Begun, Marking
<1>4. NoFlowReq \in FlowReq /\ NoFlowReq.pc = "idle"
  BY DataflowRunsAssumption DEF NoFlowReq, FlowReq
<1>5. local'[i] = "execute" /\ (\A j \in FlowIds \ {i} : local'[j] = local[j])
      /\ flowReq'[u] = NoFlowReq /\ \A v \in FlowUsers \ {u} : flowReq'[v] = flowReq[v]
  BY <1>2, <1>3 DEF DataflowRunsTypeOK
<1>6. DataflowRunsTypeOK'
  BY <1>2, <1>4 DEF DataflowRunsTypeOK, FlowState, LocalState
<1>7. RowsUsed'
  BY <1>2, <1>3, <1>5 DEF RowsUsed
<1>8. \A v \in FlowUsers \ {u}, j \in FlowIds :
        (Marking(v, j)' <=> Marking(v, j)) /\ (Asking(v, j)' <=> Asking(v, j))
  BY <1>5 DEF Marking, Asking
<1>9. \A j \in FlowIds : ~Marking(u, j)' /\ ~Asking(u, j)'
  BY <1>5, <1>4 DEF Marking, Asking
<1>10. Begun'
  <2>1. \A v \in FlowUsers : flowReq'[v].pc \in {"mark", "engine", "write", "finish"} =>
          flowReq'[v].id \in FlowIds /\ flowRow'[flowReq'[v].id].status # "none"
    BY <1>2, <1>4, <1>5 DEF Begun
  <2>2. ASSUME NEW v \in FlowUsers, NEW j \in FlowIds, Marking(v, j)'
        PROVE  local'[j] = "none" /\ \A w \in FlowUsers \ {v} : ~Marking(w, j)'
    BY <2>2, <1>3, <1>5, <1>8, <1>9 DEF Begun
  <2>3. QED
    BY <2>1, <2>2 DEF Begun
<1>11. RowCarried'
  <2>1. ASSUME NEW j \in FlowIds, flowRow'[j].status = "running", j # i
        PROVE  local'[j] \in Carrying \/ \E v \in FlowUsers : Marking(v, j)'
    <3>1. local[j] \in Carrying \/ \E v \in FlowUsers : Marking(v, j)
      BY <2>1, <1>2 DEF RowCarried
    <3>2. ~Marking(u, j)
      BY <2>1, <1>1 DEF Marking
    <3>3. QED
      BY <3>1, <3>2, <2>1, <1>5, <1>8
  <2>2. QED
    BY <2>1, <1>5 DEF RowCarried, Carrying
<1>12. FlowCarried'
  BY <1>3, <1>5 DEF FlowCarried, Carrying
<1>13. \A j \in FlowIds : MayRetry(j) => MayRetry(j)'
  BY <1>2, <1>3, <1>5 DEF MayRetry
<1>14. flowTimers \subseteq FlowIds
  BY DEF DataflowRunsTypeOK
<1>15. RetryOwed'
  BY <1>2, <1>8, <1>9, <1>13, <1>14 DEF RetryOwed
<1>16. FlowRetryChain'
  <2>1. \A j \in FlowIds : flowRow[j].of # 0 => local'[flowRow[j].of] = local[flowRow[j].of]
    BY <1>2, <1>3 DEF FlowRetryChain, DataflowRunsTypeOK
  <2>2. QED
    BY <2>1, <1>2 DEF FlowRetryChain
<1>17. QED
  BY <1>6, <1>7, <1>10, <1>11, <1>12, <1>15, <1>16

\* A stop has its say: it writes stopped into the row, then into the canvas.
LEMMA StopWrites ==
  ASSUME FlowInv, NEW u \in FlowUsers, FlowStopWrite(u) \/ FlowStopFinish(u)
  PROVE  FlowInv'
<1> USE DEF FlowInv
<1>0. flowReq[u] \in FlowReq /\ NoFlowReq \in FlowReq /\ NoFlowReq.pc = "idle"
  BY DataflowRunsAssumption DEF NoFlowReq, FlowReq, DataflowRunsTypeOK
<1>1. CASE FlowStopFinish(u)
  <2>1. /\ flowReq' = [flowReq EXCEPT ![u] = NoFlowReq] /\ flowReq[u].pc = "finish"
        /\ flowStatus' = "stopped" /\ UNCHANGED <<flowRow, local, flowTimers, stopped>>
    BY <1>1 DEF FlowStopFinish, FlowGoes
  <2>2. flowReq'[u] = NoFlowReq /\ \A v \in FlowUsers \ {u} : flowReq'[v] = flowReq[v]
    BY <2>1 DEF DataflowRunsTypeOK
  <2>3. DataflowRunsTypeOK'
    BY <2>1, <1>0 DEF DataflowRunsTypeOK, FlowState
  <2>4. \A v \in FlowUsers, j \in FlowIds :
          (Marking(v, j)' <=> Marking(v, j)) /\ (Asking(v, j)' <=> Asking(v, j))
    BY <2>1, <2>2, <1>0 DEF Marking, Asking
  <2>5. Begun'
    <3>1. \A v \in FlowUsers : flowReq'[v].pc \in {"mark", "engine", "write", "finish"} =>
            flowReq'[v].id \in FlowIds /\ flowRow'[flowReq'[v].id].status # "none"
      BY <2>1, <2>2, <1>0 DEF Begun
    <3>2. QED
      BY <3>1, <2>1, <2>4 DEF Begun
  <2>6. \A j \in FlowIds : MayRetry(j)' <=> MayRetry(j)
    BY <2>1 DEF MayRetry
  <2>7. RetryOwed'
    BY <2>1, <2>4, <2>6 DEF RetryOwed, DataflowRunsTypeOK
  <2>8. RowsUsed' /\ RowCarried' /\ FlowCarried' /\ FlowRetryChain'
    BY <2>1, <2>4 DEF RowsUsed, RowCarried, FlowCarried, FlowRetryChain
  <2>9. QED
    BY <2>3, <2>5, <2>7, <2>8
<1>2. CASE FlowStopWrite(u)
  <2>1. PICK i : i = flowReq[u].id
    OBVIOUS
  <2>2. PICK q : q = [flowReq[u] EXCEPT !.pc = "finish"]
    OBVIOUS
  <2>3. /\ flowReq[u].pc = "write" /\ flowRow' = [flowRow EXCEPT ![i].status = "stopped"]
        /\ flowReq' = [flowReq EXCEPT ![u] = q] /\ UNCHANGED <<flowStatus, local, flowTimers, stopped>>
    BY <1>2, <2>1, <2>2 DEF FlowStopWrite, FlowGoes
  <2>4. i \in FlowIds /\ flowRow[i].status # "none"
    BY <2>1, <2>3 DEF Begun
  <2>5. q \in FlowReq /\ q.pc = "finish" /\ q.id = i
    BY <2>1, <2>2, <1>0 DEF FlowReq
  <2>6. PICK fresh : fresh = [flowRow[i] EXCEPT !.status = "stopped"]
    OBVIOUS
  <2>7. flowRow[i] \in FlowRow
    BY <2>4 DEF DataflowRunsTypeOK
  <2>8. /\ fresh \in FlowRow /\ fresh.status = "stopped" /\ fresh.of = flowRow[i].of
        /\ fresh.attempt = flowRow[i].attempt
    BY <2>6, <2>7 DEF FlowRow
  <2>9. flowRow' = [flowRow EXCEPT ![i] = fresh] /\ flowRow'[i] = fresh
        /\ \A j \in FlowIds \ {i} : flowRow'[j] = flowRow[j]
    BY <2>3, <2>4, <2>6 DEF DataflowRunsTypeOK
  <2>10. flowReq'[u] = q /\ \A v \in FlowUsers \ {u} : flowReq'[v] = flowReq[v]
    BY <2>3 DEF DataflowRunsTypeOK
  <2>11. DataflowRunsTypeOK'
    BY <2>3, <2>5, <2>8, <2>9 DEF DataflowRunsTypeOK
  <2>12. \A j \in FlowIds :
           /\ flowRow'[j].of = flowRow[j].of /\ flowRow'[j].attempt = flowRow[j].attempt
           /\ flowRow'[j].status = "none" <=> flowRow[j].status = "none"
           /\ flowRow'[j].status = "running" => flowRow[j].status = "running"
    BY <2>8, <2>9, <2>4
  <2>13. \A v \in FlowUsers, j \in FlowIds :
           (Marking(v, j)' <=> Marking(v, j)) /\ (Asking(v, j)' <=> Asking(v, j))
    BY <2>3, <2>5, <2>10 DEF Marking, Asking
  <2>14. RowsUsed' /\ RowCarried' /\ FlowCarried'
    BY <2>3, <2>12, <2>13 DEF RowsUsed, RowCarried, FlowCarried
  <2>15. Begun'
    <3>1. \A v \in FlowUsers : flowReq'[v].pc \in {"mark", "engine", "write", "finish"} =>
            flowReq'[v].id \in FlowIds /\ flowRow'[flowReq'[v].id].status # "none"
      BY <2>4, <2>5, <2>10, <2>12 DEF Begun
    <3>2. QED
      BY <3>1, <2>3, <2>13 DEF Begun
  <2>16. \A j \in FlowIds : MayRetry(j)' <=> MayRetry(j)
    BY <2>3, <2>12 DEF MayRetry
  <2>17. RetryOwed'
    BY <2>3, <2>13, <2>16 DEF RetryOwed, DataflowRunsTypeOK
  <2>18. FlowRetryChain'
    <3>1. \A j \in FlowIds : flowRow[j].of # 0 => flowRow[j].of \in FlowIds
      BY DataflowRunsAssumption DEF DataflowRunsTypeOK, FlowRow, FlowIds
    <3>2. QED
      BY <3>1, <2>3, <2>12 DEF FlowRetryChain
  <2>19. QED
    BY <2>11, <2>14, <2>15, <2>17, <2>18
<1>3. QED
  BY <1>1, <1>2

\* A run takes its next step: it is not in line to be retried before it is over.
LEMMA RunGoes ==
  ASSUME FlowInv, NEW i \in FlowIds, NEW to \in LocalState,
         local' = [local EXCEPT ![i] = to], to # "none",
         local[i] \notin {"none", "over"},
         local[i] \in Carrying /\ to \notin Carrying => flowRow'[i].status # "running",
         flowStatus' \in FlowState,
         flowStatus' = "running" => FlowCarried',
         \A j \in FlowIds :
           /\ flowRow'[j] \in FlowRow
           /\ flowRow'[j].of = flowRow[j].of /\ flowRow'[j].attempt = flowRow[j].attempt
           /\ flowRow'[j].status = "none" <=> flowRow[j].status = "none"
           /\ flowRow'[j].status = "running" => flowRow[j].status = "running",
         flowRow' \in [FlowIds -> FlowRow],
         flowTimers' \in {flowTimers, flowTimers \cup {i}},
         flowTimers' # flowTimers => to = "over" /\ flowRow[i].attempt < FlowRetries,
         UNCHANGED <<flowReq, stopped>>
  PROVE  FlowInv'
<1> USE DEF FlowInv
<1>1. local'[i] = to /\ \A j \in FlowIds \ {i} : local'[j] = local[j]
  BY DEF DataflowRunsTypeOK
<1>2. DataflowRunsTypeOK'
  BY DEF DataflowRunsTypeOK
<1>3. \A v \in FlowUsers, j \in FlowIds :
        (Marking(v, j)' <=> Marking(v, j)) /\ (Asking(v, j)' <=> Asking(v, j))
  BY DEF Marking, Asking
<1>4. RowsUsed'
  <2>1. flowRow[i].status # "none"
    BY DEF RowsUsed
  <2>2. QED
    BY <2>1, <1>1 DEF RowsUsed
<1>5. Begun'
  <2>1. \A v \in FlowUsers : ~Marking(v, i)
    BY DEF Begun
  <2>2. \A v \in FlowUsers, j \in FlowIds : Marking(v, j)' =>
          local'[j] = "none" /\ \A w \in FlowUsers \ {v} : ~Marking(w, j)'
    BY <2>1, <1>1, <1>3 DEF Begun
  <2>3. \A v \in FlowUsers : flowReq'[v].pc \in {"mark", "engine", "write", "finish"} =>
          flowReq'[v].id \in FlowIds /\ flowRow'[flowReq'[v].id].status # "none"
    BY DEF Begun
  <2>4. QED
    BY <2>2, <2>3 DEF Begun
<1>6. RowCarried'
  <2>1. ASSUME NEW j \in FlowIds, flowRow'[j].status = "running"
        PROVE  local'[j] \in Carrying \/ \E v \in FlowUsers : Marking(v, j)'
    <3>1. local[j] \in Carrying \/ \E v \in FlowUsers : Marking(v, j)
      BY <2>1 DEF RowCarried
    <3>2. CASE j = i
      <4>1. \A v \in FlowUsers : ~Marking(v, i)
        BY DEF Begun
      <4>2. QED
        BY <4>1, <3>1, <3>2, <2>1, <1>1
    <3>3. CASE j # i
      BY <3>1, <3>3, <1>1, <1>3
    <3>4. QED
      BY <3>2, <3>3
  <2>2. QED
    BY <2>1 DEF RowCarried
<1>7. FlowCarried'
  BY DEF FlowCarried
<1>8. \A j \in FlowIds : MayRetry(j) => MayRetry(j)' /\ j # i
  BY <1>1 DEF MayRetry
<1>9. \A j \in FlowIds : flowRow[j].of # i
  BY DataflowRunsAssumption DEF FlowRetryChain, FlowIds
<1>10. \A v \in FlowUsers : ~Asking(v, i)
  BY <1>8 DEF RetryOwed
<1>11. flowTimers \subseteq FlowIds
  BY DEF DataflowRunsTypeOK
<1>12. flowTimers' # flowTimers => MayRetry(i)'
  BY <1>1, <1>9 DEF MayRetry
<1>13. RetryOwed'
  <2>1. ASSUME NEW j \in flowTimers' PROVE MayRetry(j)' /\ \A v \in FlowUsers : ~Asking(v, j)'
    <3>1. CASE j \in flowTimers
      BY <3>1, <1>3, <1>8, <1>11 DEF RetryOwed
    <3>2. CASE j \notin flowTimers
      <4>1. j = i /\ flowTimers' # flowTimers
        BY <2>1, <3>2
      <4>2. QED
        BY <4>1, <1>12, <1>10, <1>3
    <3>3. QED
      BY <3>1, <3>2
  <2>2. QED
    BY <2>1, <1>3, <1>8 DEF RetryOwed
<1>14. FlowRetryChain'
  <2>1. \A j \in FlowIds : flowRow[j].of # 0 => flowRow[j].of \in FlowIds \ {i}
    BY <1>9, DataflowRunsAssumption DEF DataflowRunsTypeOK, FlowRow, FlowIds
  <2>2. QED
    BY <2>1, <1>1 DEF FlowRetryChain
<1>15. QED
  BY <1>2, <1>4, <1>5, <1>6, <1>7, <1>13, <1>14

LEMMA RunSteps ==
  ASSUME FlowInv, NEW i \in FlowIds,
         (\E s \in FlowEnd : LocalEnds(i, s)) \/ LocalRow(i) \/ LocalFlow(i) \/ LocalRetry(i)
  PROVE  FlowInv'
<1> USE DEF FlowInv
<1>1. flowRow \in [FlowIds -> FlowRow] /\ flowStatus \in FlowState /\ local \in [FlowIds -> LocalState]
  BY DEF DataflowRunsTypeOK
<1>2. ASSUME NEW to, local' = [local EXCEPT ![i] = to], UNCHANGED flowStatus,
             to \in Carrying \cup {"flowSuccess", "flowFailed"}
      PROVE  flowStatus' = "running" => FlowCarried'
  <2>1. local'[i] = to /\ \A j \in FlowIds \ {i} : local'[j] = local[j]
    BY <1>2, <1>1
  <2>2. QED
    BY <2>1, <1>2 DEF FlowCarried
<1>3. ASSUME NEW s \in FlowEnd, LocalEnds(i, s) PROVE FlowInv'
  <2>1. s \in LocalState /\ s \in Carrying
    BY DEF FlowEnd, LocalState, Carrying
  <2>2. flowStatus' = "running" => FlowCarried'
    BY <2>1, <1>3, <1>2 DEF LocalEnds
  <2>3. /\ local' = [local EXCEPT ![i] = s] /\ s # "none" /\ local[i] \notin {"none", "over"}
        /\ UNCHANGED <<flowStatus, flowRow, flowReq, flowTimers, stopped>>
    BY <1>3 DEF LocalEnds, FlowEnd
  <2>4. QED
    BY <1>1, <2>1, <2>2, <2>3, RunGoes
<1>4. CASE LocalRow(i)
  <2>1. PICK to : to = IF local[i] = "success" THEN "flowSuccess" ELSE "flowFailed"
    OBVIOUS
  <2>2. PICK fresh : fresh = [flowRow[i] EXCEPT !.status = local[i]]
    OBVIOUS
  <2>3. /\ local[i] \in FlowEnd /\ local' = [local EXCEPT ![i] = to]
        /\ flowRow' = [flowRow EXCEPT ![i] = fresh]
        /\ UNCHANGED <<flowStatus, flowReq, flowTimers, stopped>>
    BY <1>4, <1>1, <2>1, <2>2 DEF LocalRow
  <2>4. /\ fresh \in FlowRow /\ fresh.status = local[i] /\ fresh.of = flowRow[i].of
        /\ fresh.attempt = flowRow[i].attempt
    BY <1>1, <2>2, <2>3 DEF FlowRow, FlowEnd
  <2>5. flowRow'[i] = fresh /\ (\A j \in FlowIds \ {i} : flowRow'[j] = flowRow[j])
        /\ flowRow' \in [FlowIds -> FlowRow]
    BY <1>1, <2>3, <2>4
  <2>6. flowRow[i].status # "none" /\ fresh.status \notin {"none", "running"}
        /\ local[i] \notin {"none", "over"}
    BY <2>3, <2>4 DEF RowsUsed, FlowEnd
  <2>7. flowStatus' = "running" => FlowCarried'
    BY <2>1, <2>3, <1>2
  <2>8. to \in LocalState /\ to # "none"
    BY <2>1 DEF LocalState
  <2>9. \A j \in FlowIds :
           /\ flowRow'[j] \in FlowRow
           /\ flowRow'[j].of = flowRow[j].of /\ flowRow'[j].attempt = flowRow[j].attempt
           /\ flowRow'[j].status = "none" <=> flowRow[j].status = "none"
           /\ flowRow'[j].status = "running" => flowRow[j].status = "running"
    BY <1>1, <2>4, <2>5, <2>6
  <2>10. flowRow'[i].status # "running"
    BY <2>5, <2>6
  <2>11. QED
    BY <1>1, <2>3, <2>5, <2>6, <2>7, <2>8, <2>9, <2>10, RunGoes
<1>5. CASE LocalFlow(i)
  <2>1. PICK to : to = IF local[i] = "flowSuccess" THEN "over" ELSE "retry"
    OBVIOUS
  <2>2. /\ local[i] \in {"flowSuccess", "flowFailed"} /\ local' = [local EXCEPT ![i] = to]
        /\ flowStatus' \in {"success", "failed"}
        /\ UNCHANGED <<flowRow, flowReq, flowTimers, stopped>>
    BY <1>5, <1>1, <2>1 DEF LocalFlow
  <2>3. to \in LocalState /\ to # "none" /\ flowStatus' \in FlowState /\ flowStatus' # "running"
        /\ local[i] \notin Carrying
    BY <2>1, <2>2 DEF LocalState, FlowState, FlowEnd, Carrying
  <2>4. QED
    BY <1>1, <2>2, <2>3, RunGoes
<1>6. CASE LocalRetry(i)
  <2>1. /\ local[i] = "retry" /\ local' = [local EXCEPT ![i] = "over"]
        /\ flowTimers' = IF flowRow[i].attempt < FlowRetries THEN flowTimers \cup {i} ELSE flowTimers
        /\ UNCHANGED <<flowStatus, flowRow, flowReq, stopped>>
    BY <1>6 DEF LocalRetry
  <2>2. flowStatus' = "running" => FlowCarried'
    BY <2>1, <1>1 DEF FlowCarried, Carrying
  <2>3. "over" \in LocalState /\ local[i] \notin Carrying
    BY <2>1 DEF LocalState, Carrying
  <2>4. QED
    BY <1>1, <2>1, <2>2, <2>3, RunGoes
<1>7. QED
  BY <1>3, <1>4, <1>5, <1>6

LEMMA FlowInvHolds == DataflowRunsSpec => []FlowInv
<1>1. FlowInv /\ DataflowRunsNext => FlowInv'
  BY RequestSteps, FlowCreated, FlowMarked, StopWrites, RunSteps DEF DataflowRunsNext
<1>2. FlowInv /\ UNCHANGED flowVars => FlowInv'
  <2>1. ASSUME UNCHANGED flowVars
        PROVE  /\ \A v \in FlowUsers, j \in FlowIds :
                    (Marking(v, j)' <=> Marking(v, j)) /\ (Asking(v, j)' <=> Asking(v, j))
               /\ \A j \in FlowIds : MayRetry(j)' <=> MayRetry(j)
    BY <2>1 DEF flowVars, Marking, Asking, MayRetry
  <2>2. QED
    BY <2>1 DEF FlowInv, flowVars, DataflowRunsTypeOK, RowsUsed, Begun, RowCarried, FlowCarried,
                RetryOwed, FlowRetryChain
<1>3. FlowInv /\ [DataflowRunsNext /\ UNCHANGED driver]_<<driver, flowVars>> => FlowInv'
  BY <1>1, <1>2
<1>4. QED
  BY FlowInvInit, <1>3, PTL DEF DataflowRunsSpec

\* FlowRunsSound (run.service start, stop and scheduleRetry around dataflow.service
\* runLocalPipeline): a canvas that runs in the backend is free once nothing is under way, and
\* its failures are retried once each, at most retryCount times, whatever requests overlapped.
THEOREM FlowRunsSoundHolds == DataflowRunsSpec => []FlowRunsSound
<1>1. FlowInv => FlowLeftFree
  <2>1. ASSUME FlowInv, \A u \in FlowUsers : flowReq[u].pc = "idle",
               \A i \in FlowIds : local[i] \in {"none", "over"}
        PROVE  flowStatus # "running" /\ RunningRows = {}
    BY <2>1 DEF FlowInv, RowCarried, FlowCarried, Carrying, Marking, RunningRows
  <2>2. QED
    BY <2>1 DEF FlowLeftFree
<1>2. FlowInv => FlowRunsSound
  BY <1>1 DEF FlowInv, FlowRunsSound
<1>3. QED
  BY FlowInvHolds, <1>2, PTL

-----------------------------------------------------------------------------
(* CodeCheck: what was not asked about again has not changed. *)

\* The counts and requests without their bound.
Count   == [Codes -> Nat]
AskCall == [pc : {"none", "sent", "served"}, want : Count, seen : SUBSET Codes]

CodeShape ==
  /\ step \in 1 .. 3 /\ picked \in SUBSET Rows /\ taken \in SUBSET Codes /\ timer \in BOOLEAN
  /\ lastBatch \in Count /\ issue \in [Codes -> Verdict \cup {"none"}] /\ call \in [Calls -> AskCall]
  /\ clouded \in BOOLEAN /\ items \in SUBSET Rows
  /\ IF step = 1 THEN items = {} ELSE row \in [Rows -> Codes]

\* The last request was about the batch as it is, unless the timer is set.
BatchKnown == step # 1 /\ ~timer => lastBatch = Batch(picked, row)

OneAsks == ~clouded => \A k, l \in InFlight : k = l

\* A request in flight asks about c as it occurs in the last batch, and there is one or the
\* verdict is right already.
Asked(c)    == \E k \in InFlight : call[k].want[c] # 0
AsksWell(c) ==
  \A k \in InFlight : call[k].want[c] # 0 =>
    /\ call[k].want[c] = lastBatch[c]
    /\ call[k].pc = "served" => (c \in call[k].seen <=> c \in taken)
Right(c)    == issue[c] = Judged(c, lastBatch[c], taken)
Answered(c) == AsksWell(c) /\ (Right(c) \/ Asked(c))

CodesAnswered == step = 2 /\ ~clouded => \A c \in Codes : lastBatch[c] > 0 => Answered(c)

CodeInv == CodeShape /\ BatchKnown /\ OneAsks /\ CodesAnswered

-----------------------------------------------------------------------------

\* batchCodeList counts, and a code that occurs is counted.
LEMMA BatchCounts ==
  ASSUME NEW rows \in SUBSET Rows, NEW codes
  PROVE  /\ Batch(rows, codes) \in Count
         /\ \A r \in rows : codes[r] \in Codes => Batch(rows, codes)[codes[r]] > 0
<1>1. ASSUME NEW c PROVE /\ IsFiniteSet({r \in rows : codes[r] = c})
                         /\ Cardinality({r \in rows : codes[r] = c}) \in Nat
  <2>1. {r \in rows : codes[r] = c} \subseteq Rows
    OBVIOUS
  <2>2. IsFiniteSet({r \in rows : codes[r] = c})
    BY <2>1, CodeAssumption, FS_Subset DEF CodeAssumption
  <2>3. QED
    BY <2>2, FS_CardinalityType
<1>2. ASSUME NEW r \in rows, codes[r] \in Codes PROVE Batch(rows, codes)[codes[r]] > 0
  <2>1. PICK S : S = {q \in rows : codes[q] = codes[r]}
    OBVIOUS
  <2>2. S # {} /\ IsFiniteSet(S) /\ Cardinality(S) \in Nat
    BY <2>1, <1>1
  <2>3. Cardinality(S) # 0
    BY <2>2, FS_EmptySet
  <2>4. Batch(rows, codes)[codes[r]] = Cardinality(S)
    BY <1>2, <2>1 DEF Batch
  <2>5. QED
    BY <2>2, <2>3, <2>4
<1>3. QED
  BY <1>1, <1>2 DEF Batch, Count

LEMMA NoCodesCount == NoCodes \in Count /\ \A c \in Codes : NoCodes[c] = 0
BY DEF NoCodes, Count

\* diffCodes asks about nothing or about all there is of a code, and about nothing only if
\* the number of the code has not changed.
LEMMA DiffAsks ==
  ASSUME NEW batch \in Count
  PROVE  /\ Diff(batch) \in Count
         /\ \A c \in Codes : Diff(batch)[c] \in {0, batch[c]}
         /\ \A c \in Codes : batch[c] > 0 /\ Diff(batch)[c] # batch[c] =>
              Diff(batch)[c] = 0 /\ lastBatch[c] = batch[c]
BY DEF Diff, Count

LEMMA CodeInvInit == CodeInit => CodeInv
<1> SUFFICES ASSUME CodeInit PROVE CodeInv
  OBVIOUS
<1>1. NoCall \in AskCall /\ NoCall.pc = "none"
  BY NoCodesCount DEF NoCall, AskCall
<1>2. issue \in [Codes -> Verdict \cup {"none"}]
  BY DEF CodeInit, Verdict
<1>3. CodeShape
  <2>1. /\ step = 1 /\ picked = {} /\ taken = {} /\ timer = FALSE /\ lastBatch = NoCodes
        /\ call = [k \in Calls |-> NoCall] /\ clouded = FALSE /\ items = {}
    BY DEF CodeInit
  <2>2. call \in [Calls -> AskCall] /\ timer \in BOOLEAN /\ clouded \in BOOLEAN
    BY <1>1, <2>1
  <2>3. step \in 1 .. 3 /\ picked \in SUBSET Rows /\ taken \in SUBSET Codes /\ items \in SUBSET Rows
    BY <2>1
  <2>4. lastBatch \in Count /\ IF step = 1 THEN items = {} ELSE row \in [Rows -> Codes]
    BY <2>1, NoCodesCount
  <2>5. QED
    BY <1>2, <2>2, <2>3, <2>4 DEF CodeShape
<1>4. InFlight = {}
  BY <1>1 DEF CodeInit, InFlight
<1>5. QED
  BY <1>3, <1>4 DEF CodeInit, CodeInv, BatchKnown, OneAsks, CodesAnswered

\* runCodeCheck.  What it does not ask about has the number in the batch it had, and there
\* is a right verdict on it or somebody asks.
LEMMA CheckSent ==
  ASSUME CodeInv, NEW batch \in Count, NEW want \in Count, NEW before, NEW full \in BOOLEAN,
         SendCheck(batch, want, before, full),
         \A c \in Codes : want[c] \in {0, batch[c]},
         \A c \in Codes : step' = 2 /\ batch[c] > 0 /\ want[c] # batch[c] =>
           want[c] = 0 /\ lastBatch[c] = batch[c] /\ UNCHANGED issue /\ step = 2 /\ ~full,
         UNCHANGED taken
  PROVE  /\ lastBatch' = batch /\ call' \in [Calls -> AskCall] /\ clouded' \in BOOLEAN
         /\ OneAsks' /\ CodesAnswered'
<1> USE DEF CodeInv
<1>1. lastBatch' = batch
  BY DEF SendCheck
<1>2. CASE want = NoCodes
  <2>1. UNCHANGED <<call, clouded>> /\ InFlight' = InFlight
    BY <1>2 DEF SendCheck, InFlight
  <2>2. call' \in [Calls -> AskCall] /\ clouded' \in BOOLEAN /\ OneAsks'
    BY <2>1 DEF CodeShape, OneAsks
  <2>3. ASSUME step' = 2, ~clouded', NEW c \in Codes, lastBatch'[c] > 0 PROVE Answered(c)'
    <3>1. want[c] = 0 /\ batch[c] > 0
      BY <1>1, <1>2, <2>3, NoCodesCount
    <3>2. lastBatch[c] = batch[c] /\ UNCHANGED issue /\ step = 2
      BY <2>3, <3>1
    <3>3. Answered(c)
      BY <2>1, <2>3, <3>1, <3>2 DEF CodesAnswered
    <3>4. QED
      BY <1>1, <2>1, <3>2, <3>3 DEF Answered, AsksWell, Asked, Right, Judged
  <2>4. QED
    BY <1>1, <2>2, <2>3 DEF CodesAnswered
<1>3. CASE want # NoCodes
  <2>1. PICK q : q = [NoCall EXCEPT !.pc = "sent", !.want = want]
    OBVIOUS
  <2>2. q \in AskCall /\ q.pc = "sent" /\ q.want = want
    BY <2>1, NoCodesCount DEF NoCall, AskCall
  <2>3. PICK k \in Calls \ InFlight : call' = [call EXCEPT ![k] = q]
    BY <1>3, <2>1 DEF SendCheck
  <2>4. clouded' = (InFlight # {} \/ (clouded /\ ~full)) /\ clouded \in BOOLEAN
    BY <1>3 DEF SendCheck, CodeShape
  <2>5. call' \in [Calls -> AskCall] /\ call'[k] = q /\ \A l \in Calls \ {k} : call'[l] = call[l]
    BY <2>2, <2>3 DEF CodeShape
  <2>6. ASSUME ~clouded' PROVE InFlight = {} /\ InFlight' = {k} /\ (clouded => full)
    <3>1. InFlight = {} /\ (clouded => full)
      BY <2>4, <2>6
    <3>2. QED
      BY <2>2, <2>3, <2>5, <3>1 DEF InFlight
  <2>7. ASSUME step' = 2, ~clouded', NEW c \in Codes, lastBatch'[c] > 0 PROVE Answered(c)'
    <3>1. AsksWell(c)'
      BY <1>1, <2>2, <2>5, <2>6, <2>7 DEF AsksWell
    <3>2. CASE want[c] = batch[c]
      <4>1. Asked(c)'
        BY <1>1, <2>2, <2>5, <2>6, <2>7, <3>2 DEF Asked, Count
      <4>2. QED
        BY <3>1, <4>1 DEF Answered
    <3>3. CASE want[c] # batch[c]
      <4>1. lastBatch[c] = batch[c] /\ UNCHANGED issue /\ step = 2 /\ ~full
        BY <1>1, <2>7, <3>3
      <4>2. Answered(c) /\ ~Asked(c)
        BY <1>1, <2>6, <2>7, <4>1 DEF CodesAnswered, Asked
      <4>3. Right(c)'
        BY <1>1, <4>1, <4>2 DEF Answered, Right, Judged
      <4>4. QED
        BY <3>1, <4>3 DEF Answered
    <3>4. QED
      BY <3>2, <3>3
  <2>8. QED
    BY <1>1, <2>4, <2>5, <2>6, <2>7 DEF OneAsks, CodesAnswered
<1>4. QED
  BY <1>2, <1>3

\* The steps that ask.
LEMMA CodeAsks ==
  ASSUME CodeInv,
         \/ \E codes \in [Rows -> Codes] : Fill(codes)
         \/ TimerFires \/ AddSuffix \/ BackToEditCodes
  PROVE  CodeInv'
<1> USE DEF CodeInv
<1>0. picked \in SUBSET Rows
  BY DEF CodeShape
<1>1. ASSUME NEW codes \in [Rows -> Codes], Fill(codes) PROVE CodeInv'
  <2>1. PICK batch \in Count : batch = Batch(Rows, codes)
    BY BatchCounts
  <2>2. /\ step' = 2 /\ row' = codes /\ picked' = Rows /\ timer' = FALSE /\ taken' = taken
        /\ issue' = [c \in Codes |-> "none"] /\ SendCheck(batch, batch, {}, TRUE)
    BY <1>1, <2>1 DEF Fill, RefreshAll
  <2>3. issue' \in [Codes -> Verdict \cup {"none"}] /\ items' = {}
    BY <1>1, <2>2 DEF Verdict, Fill
  <2>4. row' \in [Rows -> Codes] /\ step' \in 1 .. 3 /\ step' # 1
    BY <2>2
  <2>5. timer' \in BOOLEAN
    BY <2>2
  <2>6. taken' \in SUBSET Codes
    BY <2>2 DEF CodeShape
  <2>7. picked' \in SUBSET Rows /\ items' \in SUBSET Rows
    BY <2>2, <2>3
  <2>8. /\ lastBatch' = batch /\ call' \in [Calls -> AskCall] /\ clouded' \in BOOLEAN
        /\ OneAsks' /\ CodesAnswered'
    BY <2>2, CheckSent
  <2>9. CodeShape'
    BY <2>8, <2>3, <2>4, <2>5, <2>6, <2>7 DEF CodeShape
  <2>10. BatchKnown'
    BY <2>1, <2>2, <2>8 DEF BatchKnown, Batch
  <2>11. QED
    BY <2>8, <2>9, <2>10
<1>2. CASE TimerFires
  <2>1. PICK batch \in Count : batch = Batch(picked, row)
    BY <1>0, BatchCounts
  <2>2. PICK want : want = Diff(batch)
    OBVIOUS
  <2>3. /\ want \in Count /\ \A c \in Codes : want[c] \in {0, batch[c]}
        /\ \A c \in Codes : batch[c] > 0 /\ want[c] # batch[c] => want[c] = 0 /\ lastBatch[c] = batch[c]
    BY <2>2, DiffAsks
  <2>4. /\ SendCheck(batch, want, asked, FALSE) /\ timer' = FALSE
        /\ UNCHANGED <<step, row, picked, taken, mine, items, created, issue>>
    BY <1>2, <2>1, <2>2 DEF TimerFires, outcomeVars
  <2>5. /\ lastBatch' = batch /\ call' \in [Calls -> AskCall] /\ clouded' \in BOOLEAN
        /\ OneAsks' /\ CodesAnswered'
    BY <2>3, <2>4, CheckSent
  <2>6. CodeShape'
    BY <2>4, <2>5 DEF CodeShape
  <2>7. BatchKnown'
    BY <2>1, <2>4, <2>5 DEF BatchKnown, Batch
  <2>8. QED
    BY <2>5, <2>6, <2>7
<1>3. CASE AddSuffix
  <2>1. PICK codes \in [Rows -> Codes] :
          /\ row' = codes /\ timer' = (timer \/ codes # row)
          /\ SendCheck(Batch(picked, codes), Diff(Batch(picked, codes)), asked, FALSE)
    BY <1>3 DEF AddSuffix, outcomeVars
  <2>2. step = 2 /\ UNCHANGED <<step, picked, taken, mine, items, created, issue>>
    BY <1>3 DEF AddSuffix, outcomeVars
  <2>3. PICK batch \in Count : batch = Batch(picked, codes)
    BY <1>0, BatchCounts
  <2>4. PICK want : want = Diff(batch)
    OBVIOUS
  <2>5. /\ want \in Count /\ \A c \in Codes : want[c] \in {0, batch[c]}
        /\ \A c \in Codes : batch[c] > 0 /\ want[c] # batch[c] => want[c] = 0 /\ lastBatch[c] = batch[c]
    BY <2>4, DiffAsks
  <2>6. SendCheck(batch, want, asked, FALSE)
    BY <2>1, <2>3, <2>4
  <2>7. /\ lastBatch' = batch /\ call' \in [Calls -> AskCall] /\ clouded' \in BOOLEAN
        /\ OneAsks' /\ CodesAnswered'
    BY <2>2, <2>5, <2>6, CheckSent
  <2>8. CodeShape'
    BY <2>1, <2>2, <2>7 DEF CodeShape
  <2>9. BatchKnown'
    BY <2>1, <2>2, <2>3, <2>7 DEF BatchKnown, Batch
  <2>10. QED
    BY <2>7, <2>8, <2>9
<1>4. CASE BackToEditCodes
  <2>1. PICK batch \in Count : batch = Batch(picked, row)
    BY <1>0, BatchCounts
  <2>2. /\ step = 3 /\ step' = 2 /\ SendCheck(batch, batch, asked, TRUE)
        /\ items' = {} /\ UNCHANGED <<row, picked, taken, mine, created, timer, issue>>
    BY <1>4, <2>1 DEF BackToEditCodes, RefreshAll
  <2>3. /\ lastBatch' = batch /\ call' \in [Calls -> AskCall] /\ clouded' \in BOOLEAN
        /\ OneAsks' /\ CodesAnswered'
    BY <2>2, CheckSent
  <2>4. CodeShape'
    BY <2>2, <2>3 DEF CodeShape
  <2>5. BatchKnown'
    BY <2>1, <2>2, <2>3 DEF BatchKnown, Batch
  <2>6. QED
    BY <2>3, <2>4, <2>5
<1>5. QED
  BY <1>1, <1>2, <1>3, <1>4

\* The steps of the user and of others that ask nothing.
LEMMA CodeEdits ==
  ASSUME CodeInv,
         \/ \E c \in Codes : OthersTake(c)
         \/ \E r \in Rows : Tick(r) \/ \E c \in Codes : EditCode(r, c)
         \/ LET rows == IF step = 2 THEN picked ELSE Retry IN Submit(rows) \/ SubmitFails(rows)
  PROVE  CodeInv'
<1> USE DEF CodeInv
<1>1. ASSUME UNCHANGED checkVars PROVE InFlight' = InFlight /\ OneAsks'
  BY <1>1 DEF checkVars, InFlight, OneAsks
<1>2. ASSUME NEW c \in Codes, OthersTake(c) PROVE CodeInv'
  <2>1. step = 1 /\ taken' = taken \cup {c}
        /\ UNCHANGED <<step, row, picked, mine, items, created, timer, issue, checkVars>>
    BY <1>2 DEF OthersTake, outcomeVars
  <2>2. QED
    BY <2>1, <1>1 DEF CodeShape, BatchKnown, CodesAnswered, checkVars, outcomeVars
<1>3. ASSUME UNCHANGED <<step, taken, items, issue, checkVars>>, timer' = TRUE,
             picked' \in SUBSET Rows, step = 2, row' \in [Rows -> Codes]
      PROVE  CodeInv'
  <2>1. CodeShape' /\ BatchKnown'
    BY <1>3 DEF CodeShape, BatchKnown, checkVars
  <2>2. \A c \in Codes : Answered(c) => Answered(c)'
    BY <1>1, <1>3 DEF Answered, AsksWell, Asked, Right, Judged, checkVars
  <2>3. QED
    BY <1>1, <1>3, <2>1, <2>2 DEF CodesAnswered, checkVars
<1>4. ASSUME NEW r \in Rows, Tick(r) PROVE CodeInv'
  BY <1>3, <1>4 DEF Tick, CodeShape, outcomeVars
<1>5. ASSUME NEW r \in Rows, NEW c \in Codes, EditCode(r, c) PROVE CodeInv'
  BY <1>3, <1>5 DEF EditCode, CodeShape, outcomeVars
<1>6. ASSUME NEW rows, rows = IF step = 2 THEN picked ELSE Retry, Submit(rows) \/ SubmitFails(rows)
      PROVE  CodeInv'
  <2>1. rows \in SUBSET Rows /\ step # 1
    <3>1. rows # {}
      BY <1>6 DEF Submit, SubmitFails
    <3>2. Retry \subseteq items
      BY DEF Retry
    <3>3. QED
      BY <1>6, <3>1, <3>2 DEF CodeShape
  <2>2. row \in [Rows -> Codes] /\ row' = row /\ picked' = picked /\ timer' = timer
    BY <1>6, <2>1 DEF CodeShape, Submit, SubmitFails
  <2>3. PICK ok \in Creatable(rows) : taken' = taken \cup {row[r] : r \in ok}
    BY <1>6 DEF Submit, SubmitFails, Creates
  <2>4. taken' \in SUBSET Codes
    BY <2>1, <2>2, <2>3 DEF CodeShape, Creatable
  <2>5. items' \in SUBSET Rows
    BY <1>6, <2>1 DEF Submit, SubmitFails, CodeShape
  <2>6. CASE Submit(rows)
    <3>1. step' = 3 /\ UNCHANGED <<issue, checkVars>>
      BY <2>6 DEF Submit
    <3>2. CodeShape'
      BY <2>2, <2>4, <2>5, <3>1 DEF CodeShape, checkVars
    <3>3. BatchKnown' /\ CodesAnswered'
      BY <2>1, <2>2, <3>1 DEF BatchKnown, CodesAnswered, checkVars, Batch
    <3>4. QED
      BY <1>1, <3>1, <3>2, <3>3
  <2>7. CASE SubmitFails(rows)
    <3>1. clouded' = TRUE /\ UNCHANGED <<step, lastBatch, issue, call>>
      BY <2>7 DEF SubmitFails
    <3>2. CodeShape'
      BY <2>1, <2>2, <2>4, <2>5, <3>1 DEF CodeShape
    <3>3. QED
      BY <2>2, <3>1, <3>2 DEF BatchKnown, OneAsks, CodesAnswered, Batch
  <2>8. QED
    BY <1>6, <2>6, <2>7
<1>7. QED
  BY <1>2, <1>4, <1>5, <1>6

\* The server and the network.
LEMMA CodeAnswers ==
  ASSUME CodeInv, NEW k \in Calls, CheckServed(k) \/ CheckAnswered(k) \/ CheckFailed(k)
  PROVE  CodeInv'
<1> USE DEF CodeInv
<1>0. call[k] \in AskCall /\ NoCall \in AskCall /\ NoCall.pc = "none"
  BY NoCodesCount DEF CodeShape, AskCall, NoCall
<1>1. CASE CheckServed(k)
  <2>1. PICK q : q = [call[k] EXCEPT !.pc = "served", !.seen = taken]
    OBVIOUS
  <2>2. /\ call[k].pc = "sent" /\ call' = [call EXCEPT ![k] = q]
        /\ UNCHANGED <<step, row, picked, taken, mine, items, created, timer, lastBatch, asked,
                       issue, clouded>>
    BY <1>1, <2>1 DEF CheckServed, outcomeVars
  <2>3. q \in AskCall /\ q.pc = "served" /\ q.want = call[k].want /\ q.seen = taken
    BY <2>1, <1>0 DEF AskCall, CodeShape
  <2>4. call'[k] = q /\ \A l \in Calls \ {k} : call'[l] = call[l]
    BY <2>2 DEF CodeShape
  <2>5. InFlight' = InFlight
    BY <2>2, <2>3, <2>4 DEF InFlight
  <2>6. CodeShape' /\ BatchKnown' /\ OneAsks'
    BY <2>2, <2>3, <2>5 DEF CodeShape, BatchKnown, OneAsks, Batch
  <2>7. ASSUME NEW c \in Codes, Answered(c) PROVE Answered(c)'
    <3>1. AsksWell(c)' /\ (Asked(c) => Asked(c)')
      BY <2>2, <2>3, <2>4, <2>5, <2>7 DEF Answered, AsksWell, Asked, InFlight
    <3>2. Right(c) => Right(c)'
      BY <2>2 DEF Right, Judged
    <3>3. QED
      BY <2>7, <3>1, <3>2 DEF Answered
  <2>8. QED
    BY <2>2, <2>6, <2>7 DEF CodesAnswered
<1>2. CASE CheckAnswered(k)
  <2>1. /\ call[k].pc = "served" /\ call' = [call EXCEPT ![k] = NoCall]
        /\ UNCHANGED <<step, row, picked, taken, mine, items, created, timer, lastBatch, asked,
                       clouded>>
        /\ issue' = [c \in Codes |-> IF call[k].want[c] = 0 THEN issue[c]
                                     ELSE Judged(c, call[k].want[c], call[k].seen)]
    BY <1>2 DEF CheckAnswered, outcomeVars
  <2>2. call'[k] = NoCall /\ \A l \in Calls \ {k} : call'[l] = call[l]
    BY <2>1 DEF CodeShape
  <2>3. InFlight' = InFlight \ {k} /\ k \in InFlight
    BY <1>0, <2>1, <2>2 DEF InFlight
  <2>4. \A c \in Codes : Judged(c, call[k].want[c], call[k].seen) \in Verdict \cup {"none"}
    BY DEF Judged, Verdict
  <2>5. issue' \in [Codes -> Verdict \cup {"none"}]
    BY <2>1, <2>4 DEF CodeShape
  <2>6. CodeShape' /\ BatchKnown' /\ OneAsks'
    BY <1>0, <2>1, <2>3, <2>5 DEF CodeShape, BatchKnown, OneAsks, Batch
  <2>7. ASSUME ~clouded, NEW c \in Codes, Answered(c) PROVE Answered(c)'
    <3>1. InFlight = {k} /\ InFlight' = {}
      BY <2>3, <2>7 DEF OneAsks
    <3>2. CASE call[k].want[c] = 0
      <4>1. Right(c)
        BY <2>7, <3>1, <3>2 DEF Answered, Asked
      <4>2. QED
        BY <2>1, <3>1, <3>2, <4>1 DEF Answered, AsksWell, Right, Judged
    <3>3. CASE call[k].want[c] # 0
      <4>1. call[k].want[c] = lastBatch[c] /\ (c \in call[k].seen <=> c \in taken)
        BY <2>1, <2>3, <2>7, <3>3 DEF Answered, AsksWell
      <4>2. issue'[c] = Judged(c, lastBatch[c], taken)
        BY <2>1, <3>3, <4>1 DEF Judged
      <4>3. QED
        BY <2>1, <3>1, <4>2 DEF Answered, AsksWell, Right, Judged
    <3>4. QED
      BY <3>2, <3>3
  <2>8. QED
    BY <2>1, <2>6, <2>7 DEF CodesAnswered
<1>3. CASE CheckFailed(k)
  <2>1. /\ call' = [call EXCEPT ![k] = NoCall] /\ clouded' = TRUE
        /\ UNCHANGED <<step, row, picked, taken, mine, items, created, timer, lastBatch, issue>>
    BY <1>3 DEF CheckFailed, outcomeVars
  <2>2. QED
    BY <1>0, <2>1 DEF CodeShape, BatchKnown, OneAsks, CodesAnswered, Batch
<1>4. QED
  BY <1>1, <1>2, <1>3

LEMMA CodeInvHolds == CodeSpec => []CodeInv
<1>1. CodeInv /\ CodeNext => CodeInv'
  BY CodeAsks, CodeEdits, CodeAnswers DEF CodeNext
<1>2. CodeInv /\ UNCHANGED codeVars => CodeInv'
  <2>1. SUFFICES ASSUME CodeInv, UNCHANGED codeVars PROVE CodeInv'
    OBVIOUS
  <2>2. InFlight' = InFlight
    BY <2>1 DEF codeVars, InFlight
  <2>3. \A c \in Codes : Answered(c) => Answered(c)'
    BY <2>1, <2>2 DEF codeVars, Answered, AsksWell, Asked, Right, Judged
  <2>4. QED
    BY <2>1, <2>2, <2>3 DEF codeVars, CodeInv, CodeShape, BatchKnown, OneAsks, CodesAnswered, Batch
<1>3. QED
  BY CodeInvInit, <1>1, <1>2, PTL DEF CodeSpec

\* VerdictsCurrent (useMetricCodeCheck, diffCodes): though only what has changed is asked
\* about, the verdict on every ticked row is the server's for the whole batch, once the
\* wizard has come to rest and as long as no request, for a check or to submit, failed or
\* overlapped another.
THEOREM VerdictsCurrentHolds == CodeSpec => []VerdictsCurrent
<1>1. ASSUME CodeInv, step = 2, ~timer, InFlight = {}, ~clouded, NEW r \in picked
      PROVE  issue[row[r]] = Judged(row[r], Batch(picked, row)[row[r]], taken)
  <2>1. lastBatch = Batch(picked, row) /\ row[r] \in Codes /\ picked \in SUBSET Rows
    BY <1>1 DEF CodeInv, CodeShape, BatchKnown
  <2>2. lastBatch[row[r]] > 0
    BY <2>1, BatchCounts
  <2>3. Right(row[r])
    BY <1>1, <2>1, <2>2 DEF CodeInv, CodesAnswered, Answered, Asked
  <2>4. QED
    BY <2>1, <2>3 DEF Right
<1>2. CodeInv => VerdictsCurrent
  BY <1>1 DEF VerdictsCurrent
<1>3. QED
  BY CodeInvHolds, <1>2, PTL
=============================================================================
