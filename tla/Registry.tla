------------------------------- MODULE Registry -------------------------------
(***************************************************************************)
(* What an organisation registers: api/apps.py, api/evaluator_configs.py,  *)
(* api/gate_rules.py and api/suites.py, as concurrent requests over        *)
(* PostgreSQL (READ COMMITTED).                                            *)
(*                                                                         *)
(* A create request looks its parent up, looks its name up and inserts;    *)
(* another request may insert the name in between, and then the unique     *)
(* constraint decides.  An INSERT waits while an uncommitted transaction   *)
(* holds the same key.  An import flushes its cases one by one and commits *)
(* them together.  The answer is sent after the commit and may fail by     *)
(* itself.  created_at is taken when a row is flushed, so rows become      *)
(* visible in another order than they are listed in.                       *)
(***************************************************************************)
EXTENDS Integers, Sequences, FiniteSets

CONSTANTS Orgs,
          Names,
          Tags,
          Requests,         \* create and import requests; also the ids of what they create
          Work,             \* what a request may ask for, of AllWork
          FirstRows,        \* rows registered earlier, before the clock starts
          Adapters,
          AllowedAdapters,  \* settings.allowed_adapter_modules
          Keys,             \* keys of a version's config
          SecretKeys,       \* the keys that normalise to one of secret_names
          Reads,            \* what a client may list, of RowKinds and "case"
          PageSize,         \* limit of the list endpoints
          None

OrgKinds == {"app", "config", "rule"}   \* parent: the organisation
AppKinds == {"version", "suite"}        \* parent: an app
RowKinds == OrgKinds \cup AppKinds
Roles == {"viewer", "evaluator"}

\* A config is the set of the paths of its keys, nested ones included.
AllWork == [kind : RowKinds \cup {"import"}, org : Orgs, role : Roles, name : Names,
            valid : BOOLEAN, adapter : Adapters, config : SUBSET Seq(Keys),
            cases : Seq([input : BOOLEAN, tags : SUBSET Tags])]

FirstIds == {row.id : row \in FirstRows}
Ids == FirstIds \cup Requests

Row == [id : Ids, kind : RowKinds, parent : Orgs \cup Ids, name : Names, created : Int]

\* Constraint uq_<table>_<parent>_name.
SameKey(x, y) == x.kind = y.kind /\ x.parent = y.parent /\ x.name = y.name

ASSUME RegistryAssumption ==
  /\ \A w \in Work :
       /\ w.kind \in RowKinds \cup {"import"}
       /\ w.org \in Orgs /\ w.role \in Roles /\ w.name \in Names /\ w.valid \in BOOLEAN
       /\ w.adapter \in Adapters
       /\ w.cases \in Seq([input : BOOLEAN, tags : SUBSET Tags])
  /\ AllowedAdapters \subseteq Adapters
  /\ Reads \subseteq RowKinds \cup {"case"}
  /\ PageSize \in Nat \ {0}
  /\ FirstRows \subseteq Row /\ IsFiniteSet(FirstRows)
  /\ \A row \in FirstRows :
       /\ row.created <= 0
       /\ IF row.kind \in OrgKinds THEN row.parent \in Orgs
          ELSE \E app \in FirstRows : app.kind = "app" /\ app.id = row.parent
  /\ \A x, y \in FirstRows :
       \/ x.id = y.id \/ SameKey(x, y)
       \/ x.kind = y.kind /\ x.parent = y.parent /\ x.created = y.created
       => x = y
  /\ FirstIds \cap Requests = {}
  /\ Orgs \cap Ids = {}

VARIABLES rows,    \* the committed rows of apps, versions, suites, configs and gate rules
          cases,   \* the committed cases and the suite each is linked to
          req,     \* what each request is doing
          clock,   \* utc_now
          reader   \* a client that lists, page by page

vars == <<rows, cases, req, clock, reader>>

Case == [by : Requests, index : Nat, suite : Ids, tags : SUBSET Tags, created : Nat]
Steps == {"parent", "name", "insert", "commit", "case", "respond", "done"}

\* "500" is the IntegrityError's; "failed", any other error's or no answer at all.
Answers == {"none", "201", "403", "404", "409", "422", "500", "failed"}

Idle == [step |-> "idle"]
Serving == [step : Steps, work : Work, target : Orgs \cup Ids, next : Nat,
            row : SUBSET Row, cases : SUBSET Case, errors : SUBSET Nat, answer : Answers]
Reading == [step : {"page", "done"}, org : Orgs, kind : RowKinds \cup {"case", "one"},
            parent : Orgs \cup Ids, tag : Tags \cup {None}, offset : Nat,
            start : SUBSET (Row \cup Case), seen : SUBSET (Row \cup Case), found : BOOLEAN]

TypeOK ==
  /\ rows \subseteq Row
  /\ cases \subseteq Case
  /\ req \in [Requests -> {Idle} \cup Serving]
  /\ clock \in Nat
  /\ reader \in {Idle} \cup Reading

Init ==
  /\ rows = FirstRows
  /\ cases = {}
  /\ req = [r \in Requests |-> Idle]
  /\ clock = 1
  /\ reader = Idle
-----------------------------------------------------------------------------
At(r, step) == req[r].step = step

\* Variant: the row is looked up by its id alone.
TenantAppAnywhere(id, org) == \E app \in rows : app.kind = "app" /\ app.id = id

\* _tenant_app.
TenantApp(id, org) == \E app \in rows : app.kind = "app" /\ app.id = id /\ app.parent = org

\* _tenant_suite.
TenantSuite(id, org) ==
  \E suite \in rows : suite.kind = "suite" /\ suite.id = id /\ TenantApp(suite.parent, org)

\* The parent the handler checks, for the principal's organisation.
Found(kind, parent, org) ==
  CASE kind \in OrgKinds -> parent = org
    [] kind \in AppKinds -> TenantApp(parent, org)
    [] OTHER -> TenantSuite(parent, org)

\* _find_inline_secret_keys: at any depth.
FindInlineSecretKeys(config) == {path \in config : path[Len(path)] \in SecretKeys}

\* The payload passes what the handler validates: validate_adapter_module and the inline
\* secrets; validate_evaluator_config; validate_gate_rules.
Acceptable(work) ==
  CASE work.kind = "version" ->
         work.adapter \in AllowedAdapters /\ FindInlineSecretKeys(work.config) = {}
    [] work.kind \in {"config", "rule"} -> work.valid
    [] OTHER -> TRUE

NewRow(r) == [id |-> r, kind |-> req[r].work.kind, parent |-> req[r].target,
              name |-> req[r].work.name, created |-> clock]
Taken(row) == \E other \in rows : SameKey(row, other)
HeldByAnother(r, row) == \E q \in Requests \ {r} : At(q, "commit") /\ \E x \in req[q].row : SameKey(row, x)

Goto(r, step) == req' = [req EXCEPT ![r].step = step]
Answer(r, answer) == req' = [req EXCEPT ![r].step = "done", ![r].answer = answer,
                                        ![r].row = {}, ![r].cases = {}]
-----------------------------------------------------------------------------
(* Requests that write                                                     *)

\* The request arrives; require_role.  A client names ids it was once answered.
Begin(r) ==
  /\ At(r, "idle")
  /\ \E work \in Work :
     \E target \in IF work.kind \in OrgKinds THEN {work.org}
                   ELSE {row.id : row \in {row \in rows :
                           row.kind = IF work.kind = "import" THEN "suite" ELSE "app"}} :
       req' = [req EXCEPT ![r] =
                 [step |-> IF work.role = "viewer" THEN "done"
                           ELSE IF work.kind \in OrgKinds THEN "name" ELSE "parent",
                  work |-> work, target |-> target, next |-> 1, row |-> {}, cases |-> {},
                  errors |-> {}, answer |-> IF work.role = "viewer" THEN "403" ELSE "none"]]
  /\ UNCHANGED <<rows, cases, clock, reader>>

\* A version's payload is validated here, before its name is looked up.
FindParent(r) ==
  /\ At(r, "parent")
  /\ LET work == req[r].work IN
       IF ~ Found(work.kind, req[r].target, work.org) THEN Answer(r, "404")
       ELSE IF work.kind = "version" /\ ~ Acceptable(work) THEN Answer(r, "422")
       ELSE Goto(r, IF work.kind = "import" THEN "case" ELSE "name")
  /\ UNCHANGED <<rows, cases, clock, reader>>

\* Variant: the name is looked up in every organisation.
CheckNameAnywhere(r) ==
  /\ At(r, "name")
  /\ IF \E row \in rows : row.kind = req[r].work.kind /\ row.name = req[r].work.name
     THEN Answer(r, "409")
     ELSE IF Acceptable(req[r].work) THEN Goto(r, "insert") ELSE Answer(r, "422")
  /\ UNCHANGED <<rows, cases, clock, reader>>

\* A config's and a gate rule's payload is validated after its name is looked up.
CheckName(r) ==
  /\ At(r, "name")
  /\ IF Taken(NewRow(r)) THEN Answer(r, "409")
     ELSE IF Acceptable(req[r].work) THEN Goto(r, "insert") ELSE Answer(r, "422")
  /\ UNCHANGED <<rows, cases, clock, reader>>

\* Variant: the table has no unique constraint.
InsertUnconstrained(r) ==
  /\ At(r, "insert")
  /\ req' = [req EXCEPT ![r].step = "commit", ![r].row = {NewRow(r)}]
  /\ clock' = clock + 1
  /\ UNCHANGED <<rows, cases, reader>>

\* The flush inside session.commit(); an IntegrityError is not handled.
Insert(r) ==
  /\ At(r, "insert")
  /\ ~ HeldByAnother(r, NewRow(r))
  /\ IF Taken(NewRow(r))
     THEN Answer(r, "500") /\ UNCHANGED clock
     ELSE /\ req' = [req EXCEPT ![r].step = "commit", ![r].row = {NewRow(r)}]
          /\ clock' = clock + 1
  /\ UNCHANGED <<rows, cases, reader>>

\* Variant: every case is committed as it is flushed.
ImportCaseAndCommit(r) ==
  /\ At(r, "case")
  /\ req[r].next <= Len(req[r].work.cases)
  /\ LET given == req[r].work.cases[req[r].next]
         case  == [by |-> r, index |-> req[r].next, suite |-> req[r].target,
                   tags |-> given.tags, created |-> clock]
     IN  IF given.input
         THEN /\ req' = [req EXCEPT ![r].next = @ + 1, ![r].cases = @ \cup {case}]
              /\ cases' = cases \cup {case}
              /\ clock' = clock + 1
         ELSE /\ req' = [req EXCEPT ![r].next = @ + 1, ![r].errors = @ \cup {req[r].next}]
              /\ UNCHANGED <<cases, clock>>
  /\ UNCHANGED <<rows, reader>>

\* One case of an import: an error entry, or a flushed EvalCase and its link to the suite.
ImportCase(r) ==
  /\ At(r, "case")
  /\ req[r].next <= Len(req[r].work.cases)
  /\ LET given == req[r].work.cases[req[r].next]
         case  == [by |-> r, index |-> req[r].next, suite |-> req[r].target,
                   tags |-> given.tags, created |-> clock]
     IN  IF given.input
         THEN /\ req' = [req EXCEPT ![r].next = @ + 1, ![r].cases = @ \cup {case}]
              /\ clock' = clock + 1
         ELSE /\ req' = [req EXCEPT ![r].next = @ + 1, ![r].errors = @ \cup {req[r].next}]
              /\ UNCHANGED clock
  /\ UNCHANGED <<rows, cases, reader>>

\* The row of a create request, or all cases of an import.
Commit(r) ==
  /\ \/ At(r, "commit")
     \/ At(r, "case") /\ req[r].next > Len(req[r].work.cases)
  /\ rows' = rows \cup req[r].row
  /\ cases' = cases \cup req[r].cases
  /\ req' = [req EXCEPT ![r].step = "respond", ![r].row = {}]
  /\ UNCHANGED <<clock, reader>>

\* The row is refreshed and returned, unless that raises or its process dies.
Respond(r) ==
  /\ At(r, "respond")
  /\ \E answer \in {"201", "failed"} :
       req' = [req EXCEPT ![r].step = "done", ![r].answer = answer]
  /\ UNCHANGED <<rows, cases, clock, reader>>

\* A statement raises, or the process or its connection dies: PostgreSQL rolls the
\* transaction back.
Fail(r) ==
  /\ req[r].step \notin {"idle", "respond", "done"}
  /\ Answer(r, "failed")
  /\ UNCHANGED <<rows, cases, clock, reader>>
-----------------------------------------------------------------------------
(* Requests that read                                                      *)

Listed(kind, parent, tag) ==
  IF kind = "case" THEN {c \in cases : c.suite = parent /\ (tag = None \/ tag \in c.tags)}
  ELSE {row \in rows : row.kind = kind /\ row.parent = parent}

\* Cases are listed by created_at, oldest first; everything else newest first.
Earlier(kind, x, y) == IF kind = "case" THEN x.created < y.created ELSE x.created > y.created

\* Variant: the matching cases are sliced as [offset : limit].
SliceToLimit(kind, S, offset) ==
  {x \in S : LET before == Cardinality({y \in S : Earlier(kind, y, x)})
             IN  offset <= before /\ before < PageSize}

\* OFFSET and LIMIT; the slice of the matching cases when a tag is asked for.
Page(kind, S, offset) ==
  {x \in S : LET before == Cardinality({y \in S : Earlier(kind, y, x)})
             IN  offset <= before /\ before < offset + PageSize}

Reply(found, seen, offset, done) ==
  reader' = [reader EXCEPT !.found = found, !.seen = @ \cup seen, !.offset = offset,
                           !.step = IF done THEN "done" ELSE "page"]

\* The client asks get_eval_suite_summary for a suite it will list, or starts to list.
\* start: what is there now, which the summary counts.
StartReading ==
  /\ reader.step = "idle"
  /\ \E org \in Orgs, kind \in Reads, tag \in Tags \cup {None} :
     \E parent \in IF kind \in OrgKinds THEN {org}
                   ELSE {row.id : row \in {row \in rows :
                           row.kind = IF kind = "case" THEN "suite" ELSE "app"}} :
       /\ kind # "case" => tag = None
       /\ reader' = [step |-> "page", org |-> org, kind |-> kind, parent |-> parent, tag |-> tag,
                     offset |-> 0, start |-> Listed(kind, parent, tag), seen |-> {}, found |-> TRUE]
  /\ UNCHANGED <<rows, cases, req, clock>>

\* list_eval_cases, list_apps, list_app_versions, list_eval_suites, list_evaluator_configs,
\* list_gate_rules.  The client stops at a page that is not full.
ReadPage ==
  /\ reader.step = "page"
  /\ IF ~ Found(reader.kind, reader.parent, reader.org)
     THEN Reply(FALSE, {}, reader.offset, TRUE)
     ELSE LET page == Page(reader.kind, Listed(reader.kind, reader.parent, reader.tag), reader.offset)
          IN  Reply(TRUE, page, reader.offset + PageSize, Cardinality(page) < PageSize)
  /\ UNCHANGED <<rows, cases, req, clock>>

\* get_app, get_gate_rule.
ReadOne ==
  /\ reader.step = "idle"
  /\ \E org \in Orgs, row \in {row \in rows : row.kind \in {"app", "rule"}} :
       LET found == row.parent = org IN
       reader' = [step |-> "done", org |-> org, kind |-> "one", parent |-> row.id, tag |-> None,
                  offset |-> 0, start |-> {}, seen |-> IF found THEN {row} ELSE {}, found |-> found]
  /\ UNCHANGED <<rows, cases, req, clock>>
-----------------------------------------------------------------------------
Done ==
  /\ \A r \in Requests : At(r, "done")
  /\ reader.step = "done"
  /\ UNCHANGED vars

Next ==
  \/ \E r \in Requests :
       \/ Begin(r) \/ FindParent(r) \/ CheckName(r) \/ Insert(r)
       \/ ImportCase(r) \/ Commit(r) \/ Respond(r) \/ Fail(r)
  \/ StartReading \/ ReadPage \/ ReadOne
  \/ Done

Spec == Init /\ [][Next]_vars
-----------------------------------------------------------------------------
(* Properties                                                              *)

\* However requests interleave between looking a name up and inserting it, no
\* organisation has two apps, configs or gate rules of one name, no app two
\* versions or suites of one name.
NamesAreUnique == \A x, y \in rows : SameKey(x, y) => x = y

\* Where a row or a case hangs, whoever looks.
RowIsOf(row, org) == row.parent = org \/ \E app \in rows : app.id = row.parent /\ app.parent = org
CaseIsOf(c, org) == \E suite \in rows : suite.id = c.suite /\ RowIsOf(suite, org)

\* docs/authentication.md:5, "Child resources are resolved through their tenant-owned
\* parent": what a request stores hangs under an app or the organisation of its
\* principal, and a client is shown nothing else, whatever ids it names.
TenantIsolation ==
  /\ \A row \in rows : row.id \in Requests => RowIsOf(row, req[row.id].work.org)
  /\ \A c \in cases : CaseIsOf(c, req[c.by].work.org)
  /\ reader.step # "idle" => \A x \in reader.seen :
       IF x \in rows THEN RowIsOf(x, reader.org) ELSE CaseIsOf(x, reader.org)

\* An answer says what happened: 201 has its row, a conflict (409, or 500 when the
\* insert lost a race) has the row of another request, 404 an id of another
\* organisation, and a refusal leaves nothing behind.  A request that failed, as it
\* may after its commit, leaves nothing but what it asked for, and that only if it
\* would have been accepted.
AnswersAreTrue ==
  \A r \in Requests : At(r, "done") =>
    LET work == req[r].work
        mine == {row \in rows : row.id = r} \cup {c \in cases : c.by = r}
        wanted(row) == row.kind = work.kind /\ row.parent = req[r].target /\ row.name = work.name
    IN  /\ req[r].answer = "201" /\ work.kind # "import" => \E row \in rows : row.id = r
        /\ req[r].answer \in {"409", "500"} => \E row \in rows : row.id # r /\ wanted(row)
        /\ req[r].answer = "404" =>
             ~ \E row \in rows : row.id = req[r].target /\ RowIsOf(row, work.org)
        /\ req[r].answer \notin {"201", "failed"} => mine = {}
        /\ \A row \in rows : row.id = r => wanted(row) /\ Acceptable(work)

\* An import stores every case that has an input, in the order given and in the
\* suite asked for, or none, whenever one looks; once it is answered, none is
\* missing and the answer's counts are those of what is stored.
ImportsAreWhole ==
  \A r \in Requests : ~ At(r, "idle") =>
    LET given    == req[r].work.cases
        stored   == {c \in cases : c.by = r}
        complete == {c.index : c \in stored} = {i \in DOMAIN given : given[i].input}
    IN  /\ stored # {} =>
             /\ req[r].work.kind = "import" /\ complete
             /\ \A c, d \in stored : c.index < d.index => c.created < d.created
             /\ \A c \in stored : c.suite = req[r].target /\ c.tags = given[c.index].tags
        /\ req[r].answer = "201" /\ req[r].work.kind = "import" =>
             /\ complete
             /\ Cardinality(stored) = Cardinality(req[r].cases)
             /\ Len(given) = Cardinality(stored) + Cardinality(req[r].errors)

\* A client that reads page after page sees everything the summary counted (for a
\* tag: everything tag_distribution counted), although rows that were flushed
\* earlier become visible between two pages.
ReadersMissNothing == reader.step = "done" /\ reader.found => reader.start \subseteq reader.seen
=============================================================================
