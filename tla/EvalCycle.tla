------------------------------ MODULE EvalCycle ------------------------------
(***************************************************************************)
(* Who drives evaluations: cli/run.py and cli/seed.py (each one database   *)
(* session), the web console (client.ts, App.tsx) and other users of the   *)
(* API.                                                                    *)
(*                                                                         *)
(* A cycle runs a baseline and a candidate and compares them.  Meanwhile   *)
(* workers finish runs or never do, users import cases into suites, other  *)
(* cycles compare, and clients give up or die.  How a run executes is the  *)
(* subject of WorkerRun and SyncRun, the verdict that of Comparison: here  *)
(* a run is "finished" when it is completed or partial.                    *)
(***************************************************************************)
EXTENDS Naturals, FiniteSets

CONSTANTS Clients,     \* each drives one cycle; also the project a seed or the console creates
          Cycles,      \* what a client may start: its kind, whether runs execute in process,
                       \* and the organisation it works in
          Projects,    \* an app with a suite, two versions and a config, all of the names
                       \* the command line is given, in some organisation
          Orgs,
          OrgOf,       \* the organisation of each of Projects
          Default,     \* DEFAULT_ORGANIZATION_ID
          MaxImports,  \* bound on the suites cases are imported into, once each
          None

Sides == {"baseline", "candidate"}
Kinds == {"cli", "seed", "web", "api"}
Terminal == {"finished", "failed"}

ASSUME EvalCycleAssumption ==
  /\ OrgOf \in [Projects -> Orgs]
  /\ Default \in Orgs
  /\ Cycles \subseteq [kind : Kinds, sync : BOOLEAN, org : Orgs]
  /\ \A new \in Cycles : new.kind \in {"cli", "seed"} => new.org = Default
  /\ MaxImports \in Nat
  /\ Projects \cap Clients = {}
  /\ {None, "stored", "demo"} \cap (Projects \cup Clients) = {}

VARIABLES cycle,     \* what each client is doing, and what it works on
          projects,  \* the committed projects
          cases,     \* how many cases each project's suite has; a suite only grows
          gateKey,   \* GateRule "default-gates" of Default: None, its uncommitted inserter, or "stored"
          run,       \* the EvalRun each client made for each side
          compared,  \* the Comparison each client made
          clock,     \* utc_now
          console    \* the web console: what it shows, and a refresh on its way;
                     \* shown is None for nothing or demo data

vars == <<cycle, projects, cases, gateKey, run, compared, clock, console>>

All == Projects \cup Clients
Ended == {"done", "failed"}

Init ==
  /\ cycle = [c \in Clients |-> [step |-> "idle"]]
  /\ projects = Projects
  /\ cases = [p \in All |-> 1]
  /\ gateKey = None
  /\ run = [c \in Clients |-> [s \in Sides |-> [status |-> "none"]]]
  /\ compared = [c \in Clients |-> [state |-> "none"]]
  /\ clock = 1
  /\ console = [shown |-> None, refresh |-> "idle", got |-> None, floor |-> 0]
-----------------------------------------------------------------------------
At(c, steps) == cycle[c].step \in steps
Active(c) == ~ At(c, {"idle"} \cup Ended)
Goto(c, step) == cycle' = [cycle EXCEPT ![c].step = step]
End(c, step) == cycle' = [cycle EXCEPT ![c] = [step |-> step, kind |-> @.kind, org |-> @.org]]

OrgOfProject(p) == IF p \in Projects THEN OrgOf[p] ELSE cycle[p].org
Named == {p \in projects : p \in Clients => cycle[p].kind = "seed"}
Web == {c \in Clients : ~ At(c, {"idle"}) /\ cycle[c].kind = "web"}
Stored == {c \in Clients : compared[c].state = "stored"}

\* The cycle ends in an error: its transaction is rolled back.
Fail(c) ==
  /\ End(c, "failed")
  /\ gateKey' = IF gateKey = c THEN None ELSE gateKey
  /\ compared' = IF compared[c].state = "flushed"
                 THEN [compared EXCEPT ![c] = [state |-> "none"]] ELSE compared

\* A commit of the session also stores the gate rule it flushed earlier.
CommitGateKey(c) == gateKey' = IF gateKey = c THEN "stored" ELSE gateKey
-----------------------------------------------------------------------------
(* Finding or making the project                                           *)

\* One console is modelled.
Begin(c) ==
  /\ At(c, {"idle"})
  /\ \E new \in Cycles :
       /\ new.kind = "web" => Web = {}
       /\ cycle' = [cycle EXCEPT ![c] =
            [step |-> CASE new.kind = "cli" -> "look_up" [] new.kind = "seed" -> "create"
                        [] new.kind = "web" -> "register" [] OTHER -> "pick",
             kind |-> new.kind, sync |-> new.sync, org |-> new.org, side |-> "baseline",
             suite |-> c, config |-> c, version |-> [s \in Sides |-> c]]]
  /\ UNCHANGED <<projects, cases, gateKey, run, compared, clock, console>>

\* run_evals looks names up in every organisation and app: any row of the name.
LookUp(c) ==
  /\ At(c, {"look_up"})
  /\ IF Named = {} THEN Fail(c)
     ELSE /\ \E suite, config, b, k \in Named :
               cycle' = [cycle EXCEPT ![c] =
                    [@ EXCEPT !.step = "gate_rule", !.suite = suite, !.config = config,
                              !.version = [s \in Sides |-> IF s = "baseline" THEN b ELSE k]]]
          /\ UNCHANGED <<gateKey, compared>>
  /\ UNCHANGED <<projects, cases, run, clock, console>>

\* The gate rule of the name, of any organisation; or it will be inserted.
FindGateRule(c) ==
  /\ At(c, {"gate_rule"})
  /\ \E elsewhere \in BOOLEAN :
       Goto(c, IF elsewhere \/ gateKey = "stored" THEN "run" ELSE "insert_rule")
  /\ UNCHANGED <<projects, cases, gateKey, run, compared, clock, console>>

\* An INSERT of a key waits for the transaction that holds it, and fails when it commits.
InsertKey(c, next) ==
  /\ gateKey \in {None, "stored"}
  /\ IF gateKey = "stored" THEN Fail(c)
     ELSE gateKey' = c /\ Goto(c, next) /\ UNCHANGED compared
  /\ UNCHANGED <<projects, cases, run, clock, console>>

InsertGateRule(c) == At(c, {"insert_rule"}) /\ InsertKey(c, "run")

\* seed_everything flushes the app, the config, the gate rule, the versions and the suite;
\* whoever has made its app has made its gate rule.
SeedFlush(c) == At(c, {"create"}) /\ InsertKey(c, "cases")

SeedCommit(c) ==
  /\ At(c, {"cases"})
  /\ CommitGateKey(c)
  /\ projects' = projects \cup {c}
  /\ Goto(c, "run")
  /\ UNCHANGED <<cases, run, compared, clock, console>>

\* The console's six POSTs, of names that carry the time.  One that fails ends the cycle.
Register(c) ==
  /\ At(c, {"register"})
  /\ projects' = projects \cup {c}
  /\ Goto(c, "run")
  /\ UNCHANGED <<cases, gateKey, run, compared, clock, console>>

\* POST /suites/{id}/cases/import, by anyone.
Import(p) ==
  /\ p \in projects
  /\ Cardinality({q \in All : cases[q] > 1}) < MaxImports /\ cases[p] = 1
  /\ cases' = [cases EXCEPT ![p] = @ + 1]
  /\ UNCHANGED <<cycle, projects, gateKey, run, compared, clock, console>>
-----------------------------------------------------------------------------
(* The two runs                                                            *)

Side(c) == cycle[c].side
NewRun(c, status) ==
  [status |-> status, org |-> cycle[c].org, suite |-> cycle[c].suite, config |-> cycle[c].config,
   app |-> cycle[c].version[Side(c)], cases |-> cases[cycle[c].suite]]

\* What dispatch_run and execute_run require: the three of the organisation, one app.
Runnable(c) ==
  LET version == cycle[c].version[Side(c)] IN
  /\ \A p \in {version, cycle[c].suite, cycle[c].config} : OrgOfProject(p) = cycle[c].org
  /\ version = cycle[c].suite

\* After a run of this side has ended.
Advance(c) ==
  cycle' = [cycle EXCEPT ![c].side = "candidate",
                         ![c].step = IF Side(c) = "baseline" THEN "run" ELSE "compare"]

Reject(c) ==
  /\ At(c, {"run"}) /\ ~ Runnable(c)
  /\ Fail(c)
  /\ UNCHANGED <<projects, cases, run, clock, console>>

\* dispatch_run: the run is committed, then handed to the broker, which may refuse it.
Dispatch(c) ==
  /\ At(c, {"run"}) /\ ~ cycle[c].sync /\ Runnable(c)
  /\ CommitGateKey(c)
  /\ \/ /\ run' = [run EXCEPT ![c][Side(c)] = NewRun(c, "running")]
        /\ Goto(c, "wait")
     \/ /\ run' = [run EXCEPT ![c][Side(c)] = NewRun(c, "failed")]
        /\ End(c, "failed")
  /\ UNCHANGED <<projects, cases, compared, clock, console>>

\* execute_run loads the cases, evaluates them in its transaction ...
Execute(c) ==
  /\ At(c, {"run"}) /\ cycle[c].sync /\ Runnable(c)
  /\ run' = [run EXCEPT ![c][Side(c)] = NewRun(c, "uncommitted")]
  /\ Goto(c, "executing")
  /\ UNCHANGED <<projects, cases, gateKey, compared, clock, console>>

\* ... and commits.
ExecuteCommit(c) ==
  /\ At(c, {"executing"})
  /\ run' = [run EXCEPT ![c][Side(c)].status = "finished"]
  /\ CommitGateKey(c)
  /\ Advance(c)
  /\ UNCHANGED <<projects, cases, compared, clock, console>>

\* The workers, when they finish at all (RunLifecycle).
Finish(c, s) ==
  /\ run[c][s].status = "running"
  /\ run' = [run EXCEPT ![c][s].status = "finished"]
  /\ UNCHANGED <<cycle, projects, cases, gateKey, compared, clock, console>>

\* _poll_run_status and waitForTerminalRun; the console also requires a comparable run.
Poll(c) ==
  /\ At(c, {"wait"})
  /\ run[c][Side(c)].status \in Terminal
  /\ IF cycle[c].kind = "web" /\ run[c][Side(c)].status # "finished"
     THEN Fail(c) ELSE Advance(c) /\ UNCHANGED <<gateKey, compared>>
  /\ UNCHANGED <<projects, cases, run, clock, console>>

\* Variant: the client waits for as long as it takes.
GiveUpNever(c) == FALSE /\ UNCHANGED vars

\* The deadline passes (300, 600 or 120 seconds).  The run goes on.
GiveUp(c) ==
  /\ At(c, {"wait"})
  /\ run[c][Side(c)].status \notin Terminal
  /\ Fail(c)
  /\ UNCHANGED <<projects, cases, run, clock, console>>
-----------------------------------------------------------------------------
(* The comparison                                                          *)

RunAt(key) == run[key[1]][key[2]]
Visible(key) == RunAt(key).status \notin {"none", "uncommitted"}

\* A user of the API names any two runs.
Pick(c) ==
  /\ At(c, {"pick"})
  /\ \E b, k \in Clients \X Sides :
       /\ Visible(b) /\ Visible(k)
       /\ cycle' = [cycle EXCEPT ![c] =
            [@ EXCEPT !.step = "compare",
                      !.version = [s \in Sides |-> IF s = "baseline" THEN b ELSE k]]]
  /\ UNCHANGED <<projects, cases, gateKey, run, compared, clock, console>>

Compares(c) == IF cycle[c].kind = "api" THEN cycle[c].version ELSE [s \in Sides |-> <<c, s>>]

\* Variant: the runs' cases are not compared.
ComparableRunsAnyCases(b, k, org) ==
  /\ b.org = org /\ k.org = org
  /\ b.suite = k.suite /\ b.config = k.config /\ b.app = k.app
  /\ b.status = "finished" /\ k.status = "finished"

\* What compute_comparison requires of the two runs.
ComparableRuns(b, k, org) ==
  /\ b.org = org /\ k.org = org
  /\ b.suite = k.suite /\ b.config = k.config /\ b.app = k.app
  /\ b.status = "finished" /\ k.status = "finished"
  /\ b.cases = k.cases

\* The Comparison is flushed, with its verdict, which takes its created_at.
Compare(c) ==
  /\ At(c, {"compare"})
  /\ LET pair == Compares(c) IN
       IF ~ ComparableRuns(RunAt(pair["baseline"]), RunAt(pair["candidate"]), cycle[c].org)
       THEN Fail(c) /\ UNCHANGED clock
       ELSE /\ compared' = [compared EXCEPT ![c] =
                   [state |-> "flushed", runs |-> pair, org |-> cycle[c].org, created |-> clock]]
            /\ clock' = clock + 1
            /\ Goto(c, "commit")
            /\ UNCHANGED gateKey
  /\ UNCHANGED <<projects, cases, run, console>>

\* Variant: the caller is answered and the session closed without a commit.
ReportWithoutCommit(c) ==
  /\ At(c, {"commit"})
  /\ compared' = [compared EXCEPT ![c] = [state |-> "none"]]
  /\ CommitGateKey(c)
  /\ Goto(c, "report")
  /\ UNCHANGED <<projects, cases, run, clock, console>>

CommitComparison(c) ==
  /\ At(c, {"commit"})
  /\ compared' = [compared EXCEPT ![c].state = "stored"]
  /\ CommitGateKey(c)
  /\ Goto(c, "report")
  /\ UNCHANGED <<projects, cases, run, clock, console>>

\* The result is printed, or the API's 201 received.
Report(c) ==
  /\ At(c, {"report"})
  /\ IF cycle[c].kind = "web" THEN Goto(c, "load") ELSE End(c, "done")
  /\ UNCHANGED <<projects, cases, gateKey, run, compared, clock, console>>

\* The process, its connection or a request fails, at any point.
Die(c) ==
  /\ Active(c)
  /\ Fail(c)
  /\ run' = IF At(c, {"executing"})
            THEN [run EXCEPT ![c][Side(c)] = [status |-> "none"]] ELSE run
  /\ UNCHANGED <<projects, cases, clock, console>>
-----------------------------------------------------------------------------
(* The web console                                                         *)

\* Variant: the comparisons are not ordered.
LatestUnordered(org) ==
  LET of == {c \in Stored : compared[c].org = org}
  IN  IF of = {} THEN None
      ELSE CHOOSE c \in of : \A d \in of : compared[d].created >= compared[c].created

\* _load_comparison without an id: ORDER BY created_at DESC LIMIT 1.
Latest(org) ==
  LET of == {c \in Stored : compared[c].org = org}
  IN  IF of = {} THEN None
      ELSE CHOOSE c \in of : \A d \in of : compared[d].created <= compared[c].created

Created(shown) == IF shown \in Clients THEN compared[shown].created ELSE 0

\* loadDashboardSnapshot(apiBaseUrl, false) is answered, after the comparison.
Load(c) ==
  /\ At(c, {"load"})
  /\ IF Latest(cycle[c].org) = None THEN End(c, "failed")
     ELSE cycle' = [cycle EXCEPT ![c] = [@ EXCEPT !.step = "apply", !.suite = Latest(cycle[c].org)]]
  /\ UNCHANGED <<projects, cases, gateKey, run, compared, clock, console>>

\* "Evaluation complete".
Apply(c) ==
  /\ At(c, {"apply"})
  /\ console' = [console EXCEPT !.shown = cycle[c].suite]
  /\ End(c, "done")
  /\ UNCHANGED <<projects, cases, gateKey, run, compared, clock>>

\* The first load or refreshDashboard: the button works during an evaluation too.
AskRefresh ==
  /\ Web # {} /\ console.refresh = "idle"
  /\ console' = [console EXCEPT !.refresh = "asked", !.floor = Created(console.shown)]
  /\ UNCHANGED <<cycle, projects, cases, gateKey, run, compared, clock>>

\* The API answers with the latest comparison; without one, or on an error, the load fails
\* or, in demo mode, falls back to the demo snapshot.
AnswerRefresh ==
  /\ console.refresh = "asked"
  /\ \E c \in Web : \E got \in {Latest(cycle[c].org), "demo", None} :
       console' = [console EXCEPT !.refresh = "answered", !.got = got]
  /\ UNCHANGED <<cycle, projects, cases, gateKey, run, compared, clock>>

ApplyRefresh ==
  /\ console.refresh = "answered"
  /\ console' = [shown |-> CASE console.got = None -> console.shown
                              [] console.got = "demo" -> None
                              [] OTHER -> console.got,
                 refresh |-> "idle", got |-> None, floor |-> 0]
  /\ UNCHANGED <<cycle, projects, cases, gateKey, run, compared, clock>>
-----------------------------------------------------------------------------
Step(c) ==
  \/ LookUp(c) \/ FindGateRule(c) \/ InsertGateRule(c) \/ SeedFlush(c) \/ SeedCommit(c)
  \/ Register(c) \/ Reject(c) \/ Dispatch(c) \/ Execute(c) \/ ExecuteCommit(c) \/ Poll(c)
  \/ GiveUp(c) \/ Compare(c) \/ CommitComparison(c) \/ Report(c) \/ Load(c) \/ Apply(c)

Next ==
  \/ \E c \in Clients : Begin(c) \/ Step(c) \/ Pick(c) \/ Die(c) \/ \E s \in Sides : Finish(c, s)
  \/ \E p \in All : Import(p)
  \/ AskRefresh \/ AnswerRefresh \/ ApplyRefresh

\* A client takes its steps, deadlines included, and its INSERT is let through when
\* the key is free; nothing makes a worker finish or a user act.
Spec == Init /\ [][Next]_vars /\ \A c \in Clients : WF_vars(Step(c))
-----------------------------------------------------------------------------
(* Properties                                                              *)

\* Whoever compares, and whatever was imported, abandoned or refused meanwhile: a
\* stored comparison is of two finished runs of one organisation, app, suite and
\* configuration over the same cases, and stays so.
ComparisonsAreComparable ==
  \A c \in Stored :
    LET b == RunAt(compared[c].runs["baseline"])
        k == RunAt(compared[c].runs["candidate"])
    IN  /\ b.status = "finished" /\ k.status = "finished"
        /\ b.app = k.app /\ b.app = b.suite /\ k.suite = b.suite /\ b.config = k.config
        /\ b.cases = k.cases
        /\ OrgOfProject(b.suite) = compared[c].org /\ OrgOfProject(b.config) = compared[c].org

\* A cycle that reports success has stored its comparison, and a cycle that ended
\* holds no key and leaves nothing half stored.
OutcomesAreTrue ==
  /\ \A c \in Clients : At(c, {"done"}) => c \in Stored /\ (cycle[c].kind # "api" => compared[c].runs = [s \in Sides |-> <<c, s>>])
  /\ \A c \in Clients : At(c, Ended) =>
       gateKey # c /\ compared[c].state # "flushed" /\ \A s \in Sides : run[c][s].status # "uncommitted"

\* A cycle ends although workers may never finish its runs, and although another
\* cycle may hold the gate rule it wants to insert.
CycleEnds == \A c \in Clients : (Active(c) /\ cycle[c].step # "pick") ~> At(c, Ended)

\* "Evaluation complete" shows a comparison at least as new as the one just made, and
\* a refresh, however late, one at least as new as what was shown when it was asked.
SnapshotsAreCurrent ==
  [][/\ \A c \in Clients : At(c, {"apply"}) /\ cycle'[c].step = "done" =>
          Created(console'.shown) >= compared[c].created
     /\ console.refresh = "answered" /\ console'.refresh = "idle" =>
          console'.shown \in {None, console.shown} \/ Created(console'.shown) >= console.floor]_vars
=============================================================================
