---------------------------- MODULE ModelCatalog ----------------------------
(***************************************************************************)
(* Where the data models of the metric centre are filed: the tree of       *)
(* domains (metricdomain.service), the categories of each layer            *)
(* (metricmodelcategory.service) and the models (metricmodel.service).     *)
(* Every request checks first and writes afterwards; what it writes is a   *)
(* field of a row, or a mark of deletion.  repository.update reads a row   *)
(* and writes all of it with the field changed: the two are one step here. *)
(***************************************************************************)
EXTENDS Storage, FiniteSets

CONSTANTS
  Domains,     \* the domains, present and future
  Categories,  \* the categories, present and future
  Models,      \* the models, present and future
  Layers,      \* LAYERS
  Requests     \* requests in progress at once

VARIABLES
  domain,      \* the rows of the domains
  category,    \* the rows of the categories
  model,       \* the rows of the models
  task,        \* the requests in progress
  mixed        \* has a request written between the check and the last write of another? (history)

catalogVars == <<domain, category, model, task, mixed>>

Top == "0"     \* parentId of the roots
None == "none"  \* no category, or a field an operation has no use for
ASSUME CatalogAssumption == Top \notin Domains /\ None \notin Categories

Status == {"absent", "active", "deleted"}

DomainRow   == [status : Status, parent : Domains \cup {Top}]
CategoryRow == [status : Status, layer : Layers \cup {None}]
ModelRow    == [status : Status, domain : Domains \cup {None}, layer : Layers \cup {None},
                category : Categories \cup {None}]

Kinds == {"idle", "createDomain", "moveDomain", "deleteDomain", "createCategory", "deleteCategory",
          "assign", "createModel", "updateModel", "deleteModel"}

\* A request: what it is about, the values it brings, and the models it has still to write.
Task == [kind : Kinds, d : Domains \cup {None}, parent : Domains \cup {Top}, c : Categories \cup {None},
         m : Models \cup {None}, layer : Layers \cup {None}, todo : SUBSET Models]
NoTask == [kind |-> "idle", d |-> None, parent |-> Top, c |-> None, m |-> None, layer |-> None, todo |-> {}]

CatalogTypeOK ==
  /\ domain \in [Domains -> DomainRow] /\ category \in [Categories -> CategoryRow]
  /\ model \in [Models -> ModelRow] /\ task \in [Requests -> Task] /\ mixed \in BOOLEAN

CatalogInit ==
  /\ domain = [d \in Domains |-> [status |-> "absent", parent |-> Top]]
  /\ category = [c \in Categories |-> [status |-> "absent", layer |-> None]]
  /\ model = [m \in Models |-> [status |-> "absent", domain |-> None, layer |-> None, category |-> None]]
  /\ task = [r \in Requests |-> NoTask] /\ mixed = FALSE

-----------------------------------------------------------------------------

DomainActive(d)   == domain[d].status = "active"
CategoryActive(c) == category[c].status = "active"
ModelActive(m)    == model[m].status = "active"

\* createModel reads the columns of the table from the source, whatever the driver.
Reading(r) == task[r].kind = "createModel"
Working    == {r \in Requests : task[r].kind # "idle"}
TaskTurn(r) == TurnOf(r, {s \in Working : ~Reading(s)})

Begin(r, t) ==
  /\ task[r].kind = "idle" /\ TaskTurn(r) /\ ~mixed  \* bound: no request begins after a clash
  /\ task' = [task EXCEPT ![r] = t]
  /\ UNCHANGED <<domain, category, model, mixed>>

Writes(r) == TaskTurn(r) /\ mixed' = (mixed \/ Working \ {r} # {})
Over(r)   == task' = [task EXCEPT ![r] = NoTask]

\* The category is there and of the layer; no category is fine.
CategoryFits(c, layer) == c # None => CategoryActive(c) /\ category[c].layer = layer

(* Domains *)

CreateDomain(r, d, p) ==
  /\ domain[d].status = "absent" /\ (p # Top => DomainActive(p))
  /\ Begin(r, [NoTask EXCEPT !.kind = "createDomain", !.d = d, !.parent = p])

\* Faulty variant: looks at the children only.
Descendants_Children(d) == {d} \cup {e \in Domains : DomainActive(e) /\ domain[e].parent = d}

\* The closure updateDomain computes: the least set that has d and the active children of
\* its elements.
Descendants(d) ==
  {e \in Domains : \A C \in SUBSET Domains :
     d \in C /\ (\A f \in Domains : DomainActive(f) /\ domain[f].parent \in C => f \in C) => e \in C}

\* A domain may not move below itself; that the new parent has not been deleted is not
\* checked.  Bound: clients name parents that exist or have existed.
MoveDomain(r, d, p) ==
  /\ p # Top => domain[p].status # "absent"
  /\ DomainActive(d) /\ p # domain[d].parent /\ p \notin Descendants(d)
  /\ Begin(r, [NoTask EXCEPT !.kind = "moveDomain", !.d = d, !.parent = p])

WriteDomain(r) ==
  LET t == task[r] IN
  /\ t.kind \in {"createDomain", "moveDomain"} /\ Writes(r) /\ Over(r)
  /\ domain' = [domain EXCEPT ![t.d].parent = t.parent,
                              ![t.d].status = IF t.kind = "createDomain" THEN "active" ELSE @]
  /\ UNCHANGED <<category, model>>

\* Nothing is filed in the domain.  (Metrics count like models.)
DomainEmpty(d) ==
  /\ ~\E m \in Models : ModelActive(m) /\ model[m].domain = d
  /\ ~\E e \in Domains : DomainActive(e) /\ domain[e].parent = d

DeleteDomain(r, d) ==
  /\ DomainActive(d) /\ DomainEmpty(d)
  /\ Begin(r, [NoTask EXCEPT !.kind = "deleteDomain", !.d = d])

MarkDomain(r) ==
  /\ task[r].kind = "deleteDomain" /\ Writes(r) /\ Over(r)
  /\ domain' = [domain EXCEPT ![task[r].d].status = "deleted"]
  /\ UNCHANGED <<category, model>>

(* Categories *)

CreateCategory(r, c, layer) ==
  /\ category[c].status = "absent"
  /\ Begin(r, [NoTask EXCEPT !.kind = "createCategory", !.c = c, !.layer = layer])

InsertCategory(r) ==
  /\ task[r].kind = "createCategory" /\ Writes(r) /\ Over(r)
  /\ category' = [category EXCEPT ![task[r].c] = [status |-> "active", layer |-> task[r].layer]]
  /\ UNCHANGED <<domain, model>>

Owned(c) == {m \in Models : ModelActive(m) /\ model[m].category = c}

\* deleteCategory takes its models out, one after the other, before it goes.
DeleteCategory(r, c) ==
  /\ CategoryActive(c)
  /\ Begin(r, [NoTask EXCEPT !.kind = "deleteCategory", !.c = c, !.todo = Owned(c)])

MarkCategory(r) ==
  /\ task[r].kind = "deleteCategory" /\ task[r].todo = {} /\ Writes(r) /\ Over(r)
  /\ category' = [category EXCEPT ![task[r].c].status = "deleted"]
  /\ UNCHANGED <<domain, model>>

\* assign: those of the models that fit the category (any, to take them out of theirs).
Assign(r, c, ms) ==
  LET fit == {m \in ms : ModelActive(m) /\ CategoryFits(c, model[m].layer)} IN
  /\ fit # {}
  /\ Begin(r, [NoTask EXCEPT !.kind = "assign", !.c = c, !.todo = fit])

FileModel(r, m) ==
  LET t == task[r] IN
  /\ t.kind \in {"deleteCategory", "assign"} /\ m \in t.todo /\ Writes(r)
  /\ model' = [model EXCEPT ![m].category = IF t.kind = "assign" THEN t.c ELSE None]
  /\ IF t.kind = "assign" /\ t.todo = {m} THEN Over(r) ELSE task' = [task EXCEPT ![r].todo = @ \ {m}]
  /\ UNCHANGED <<domain, category>>

(* Models *)

CreateModel(r, m, d, c, layer) ==
  /\ model[m].status = "absent" /\ DomainActive(d) /\ CategoryFits(c, layer)
  /\ Begin(r, [NoTask EXCEPT !.kind = "createModel", !.m = m, !.d = d, !.c = c, !.layer = layer])

\* The columns are there: the row.  Or the source does not answer.
InsertModel(r) ==
  LET t == task[r] IN
  /\ t.kind = "createModel" /\ Writes(r) /\ Over(r)
  /\ \/ model' = [model EXCEPT ![t.m] = [status |-> "active", domain |-> t.d, layer |-> t.layer,
                                         category |-> t.c]]
     \/ UNCHANGED model
  /\ UNCHANGED <<domain, category>>

\* A change of layer without one of category has to suit the category the model is in.
StaysFiled(m, layer) == layer # model[m].layer => CategoryFits(model[m].category, layer)

\* updateModel: the layer alone, or with the category.
UpdateModel(r, m, layer) ==
  /\ ModelActive(m) /\ StaysFiled(m, layer)
  /\ Begin(r, [NoTask EXCEPT !.kind = "updateModel", !.m = m, !.layer = layer, !.c = model[m].category])

RefileModel(r, m, layer, c) ==
  /\ ModelActive(m) /\ CategoryFits(c, layer)
  /\ Begin(r, [NoTask EXCEPT !.kind = "updateModel", !.m = m, !.layer = layer, !.c = c, !.todo = {m}])

\* Only the fields the request brings are written over the row.
WriteModel(r) ==
  LET t == task[r] IN
  /\ t.kind = "updateModel" /\ Writes(r) /\ Over(r)
  /\ model' = [model EXCEPT ![t.m].layer = t.layer,
                            ![t.m].category = IF t.todo # {} THEN t.c ELSE @]
  /\ UNCHANGED <<domain, category>>

\* deleteModel; that no metric and no task uses the model is not modelled.
DeleteModel(r, m) == ModelActive(m) /\ Begin(r, [NoTask EXCEPT !.kind = "deleteModel", !.m = m])

MarkModel(r) ==
  /\ task[r].kind = "deleteModel" /\ Writes(r) /\ Over(r)
  /\ model' = [model EXCEPT ![task[r].m].status = "deleted"]
  /\ UNCHANGED <<domain, category>>

CatalogNext ==
  \E r \in Requests :
    \/ \E d \in Domains, p \in Domains \cup {Top} : CreateDomain(r, d, p) \/ MoveDomain(r, d, p)
    \/ \E d \in Domains : DeleteDomain(r, d)
    \/ \E c \in Categories : (\E layer \in Layers : CreateCategory(r, c, layer)) \/ DeleteCategory(r, c)
    \/ \E c \in Categories \cup {None}, ms \in SUBSET Models : Assign(r, c, ms)
    \/ \E m \in Models, layer \in Layers :
         \/ \E d \in Domains, c \in Categories \cup {None} : CreateModel(r, m, d, c, layer)
         \/ UpdateModel(r, m, layer)
         \/ \E c \in Categories \cup {None} : RefileModel(r, m, layer, c)
    \/ \E m \in Models : DeleteModel(r, m) \/ FileModel(r, m)
    \/ WriteDomain(r) \/ MarkDomain(r) \/ InsertCategory(r) \/ MarkCategory(r)
    \/ InsertModel(r) \/ WriteModel(r) \/ MarkModel(r)

CatalogSpec ==
  StorageTypeOK /\ CatalogInit /\ [][CatalogNext /\ UNCHANGED driver]_<<driver, catalogVars>>

-----------------------------------------------------------------------------
(* Properties of the code.  They hold as long as no request writes under another.  *)

\* No sequence of moves puts a domain below itself, where getTree would lose it.
DomainsTree ==
  mixed \/ \A C \in SUBSET {d \in Domains : DomainActive(d)} :
             C # {} => \E d \in C : domain[d].parent \notin C

\* Every model is filed in a domain that is there, and in no category or one that is there
\* and of its own layer, whichever of the two was changed, moved or deleted last.
ModelsFiled ==
  mixed \/ Working # {} \/
  \A m \in Models : ModelActive(m) =>
    DomainActive(model[m].domain) /\ CategoryFits(model[m].category, model[m].layer)

\* The catalogue shows every domain and every model, at one place.
CatalogSound == DomainsTree /\ ModelsFiled

-----------------------------------------------------------------------------
(* What comments say and the code does not do: TLC refutes each.                   *)

\* metricdomain.service.js:101, a domain that has something filed in it is not deleted (the
\* model of a createModel that waits for its columns is not filed yet).
DomainKept == \A m \in Models : ModelActive(m) => DomainActive(model[m].domain)

\* metricmodelcategory.service.js:206, a category has models of its layer only.
CategoryOwnLayer == \A m \in Models : ModelActive(m) => CategoryFits(model[m].category, model[m].layer)
=============================================================================
