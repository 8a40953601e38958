-------------------------- MODULE EvalCycle_proofs --------------------------
(* What holds of every evaluation cycle, however many clients run cycles,   *)
(* import cases, compare and die.                                           *)
EXTENDS EvalCycle, WellFoundedInduction, TLAPS

(* Types                                                                   *)

WorkSteps == {"look_up", "gate_rule", "insert_rule", "create", "cases", "register", "run",
              "executing", "wait", "pick", "compare", "commit", "report", "load", "apply"}

Idle == [step : {"idle"}]
Over == [step : Ended, kind : Kinds, org : Orgs]
Work == [step : WorkSteps, kind : Kinds, sync : BOOLEAN, org : Orgs, side : Sides,
         suite : All, config : All, version : [Sides -> All \cup (Clients \X Sides)]]
NoRun == [status : {"none"}]
EvalRun == [status : {"uncommitted", "running", "finished", "failed"}, org : Orgs,
            suite : All, config : All, app : All, cases : Nat]
NoComparison == [state : {"none"}]
Comparison == [state : {"flushed", "stored"}, runs : [Sides -> Clients \X Sides],
               org : Orgs, created : Nat]

TypeOK ==
  /\ cycle \in [Clients -> Idle \cup Over \cup Work]
  /\ projects \subseteq All
  /\ cases \in [All -> Nat]
  /\ gateKey \in Clients \cup {None, "stored"}
  /\ run \in [Clients -> [Sides -> NoRun \cup EvalRun]]
  /\ compared \in [Clients -> NoComparison \cup Comparison]
  /\ clock \in Nat \ {0}
  /\ console \in [shown : Clients \cup {None}, refresh : {"idle", "asked", "answered"},
                  got : Clients \cup {None, "demo"}, floor : Nat]

-----------------------------------------------------------------------------
(* Numbers: a set of naturals below a bound has a greatest element.        *)

LEMMA Least ==
  ASSUME NEW T \in SUBSET Nat, T # {}
  PROVE  \E m \in T : \A n \in T : m <= n
<1>1. PICK m \in T : \A n \in T : ~ (<<n, m>> \in OpToRel(<, Nat))
  BY NatLessThanWellFounded, WFMin
<1>2. \A n \in T : n < m => <<n, m>> \in OpToRel(<, Nat)
  BY DEF OpToRel
<1>3. \A n \in T : m \in Nat /\ n \in Nat /\ ~ (n < m)
  BY <1>1, <1>2
<1>4. \A n \in T : m <= n
  BY <1>3
<1> QED BY <1>4

LEMMA Greatest ==
  ASSUME NEW b \in Nat, NEW T \in SUBSET (0 .. b), T # {}
  PROVE  \E m \in T : \A n \in T : n <= m
<1> DEFINE R == {k \in Nat : \A n \in T : n <= k}
<1>1. b \in R
  OBVIOUS
<1>2. PICK k \in R : \A j \in R : k <= j
  BY <1>1, Least
<1>3. k \in T
  <2> SUFFICES ASSUME k \notin T PROVE FALSE
    OBVIOUS
  <2>1. k \in Nat /\ \A n \in T : n < k /\ n \in Nat
    BY <1>2
  <2>2. PICK t \in T : TRUE
    OBVIOUS
  <2>3. k - 1 \in Nat
    BY <2>1, <2>2
  <2>4. \A n \in T : n <= k - 1
    BY <2>1
  <2>5. k - 1 \in R
    BY <2>3, <2>4
  <2> QED BY <1>2, <2>1, <2>5
<1> QED BY <1>2, <1>3
-----------------------------------------------------------------------------
\* A client between its first and its last step has all the fields of a cycle.
LEMMA Working ==
  ASSUME TypeOK, NEW c \in Clients
  PROVE  /\ Active(c) <=> cycle[c] \in Work
         /\ \A steps \in SUBSET WorkSteps : At(c, steps) => cycle[c] \in Work
         /\ ~ At(c, {"idle"}) => cycle[c].kind \in Kinds /\ cycle[c].org \in Orgs
BY DEF TypeOK, Active, At, Idle, Over, Work, WorkSteps, Ended

LEMMA GotoType ==
  ASSUME TypeOK, NEW c \in Clients, cycle[c] \in Work, NEW step \in WorkSteps, Goto(c, step)
  PROVE  /\ cycle' \in [Clients -> Idle \cup Over \cup Work]
         /\ cycle'[c] = [cycle[c] EXCEPT !.step = step]
         /\ cycle'[c] \in Work
         /\ \A d \in Clients \ {c} : cycle'[d] = cycle[d]
<1>1. [cycle[c] EXCEPT !.step = step] \in Work
  BY DEF Work
<1> QED BY <1>1 DEF TypeOK, Goto

LEMMA EndType ==
  ASSUME TypeOK, NEW c \in Clients, cycle[c] \in Work, NEW step \in Ended, End(c, step)
  PROVE  /\ cycle' \in [Clients -> Idle \cup Over \cup Work]
         /\ cycle'[c] = [step |-> step, kind |-> cycle[c].kind, org |-> cycle[c].org]
         /\ cycle'[c] \in Over
         /\ \A d \in Clients \ {c} : cycle'[d] = cycle[d]
<1>1. [step |-> step, kind |-> cycle[c].kind, org |-> cycle[c].org] \in Over
  BY DEF Over, Work
<1> QED BY <1>1 DEF TypeOK, End

LEMMA FailType ==
  ASSUME TypeOK, NEW c \in Clients, cycle[c] \in Work, Fail(c)
  PROVE  /\ cycle' \in [Clients -> Idle \cup Over \cup Work]
         /\ cycle'[c] = [step |-> "failed", kind |-> cycle[c].kind, org |-> cycle[c].org]
         /\ cycle'[c] \in Over
         /\ \A d \in Clients \ {c} : cycle'[d] = cycle[d] /\ compared'[d] = compared[d]
         /\ gateKey' \in Clients \cup {None, "stored"}
         /\ gateKey' # c /\ gateKey' \in {gateKey, None}
         /\ compared' \in [Clients -> NoComparison \cup Comparison]
         /\ compared'[c] = IF compared[c].state = "flushed" THEN [state |-> "none"] ELSE compared[c]
<1>1. "failed" \in Ended
  BY DEF Ended
<1>2. [state |-> "none"] \in NoComparison
  BY DEF NoComparison
<1> QED BY <1>1, <1>2, EndType, EvalCycleAssumption DEF Fail, TypeOK

LEMMA AdvanceType ==
  ASSUME TypeOK, NEW c \in Clients, cycle[c] \in Work, Advance(c)
  PROVE  /\ cycle' \in [Clients -> Idle \cup Over \cup Work]
         /\ cycle'[c] = [cycle[c] EXCEPT !.side = "candidate",
                             !.step = IF Side(c) = "baseline" THEN "run" ELSE "compare"]
         /\ cycle'[c] \in Work
         /\ \A d \in Clients \ {c} : cycle'[d] = cycle[d]
<1>1. [cycle[c] EXCEPT !.side = "candidate",
                       !.step = IF Side(c) = "baseline" THEN "run" ELSE "compare"] \in Work
  BY DEF Work, WorkSteps, Sides
<1> QED BY <1>1 DEF TypeOK, Advance
-----------------------------------------------------------------------------
(* The inductive invariant                                                 *)

Setup == {"look_up", "gate_rule", "insert_rule", "create", "cases", "register"}

\* What a client's step says of its runs, its comparison and the key it holds: a run of
\* the side at hand does not exist before it is made, only an executing client has an
\* uncommitted one, and a comparison is flushed exactly until it is committed.
Stage(c) ==
  /\ cycle[c] \in Work /\ cycle[c].kind # "api" => cycle[c].version \in [Sides -> All]
  /\ cycle[c] \in Work /\ cycle[c].kind = "api" /\ At(c, {"compare"}) =>
       cycle[c].version \in [Sides -> Clients \X Sides]
  /\ At(c, {"idle"}) => \A s \in Sides : run[c][s].status = "none"
  /\ gateKey = c => Active(c) /\ ~ At(c, {"report", "load", "apply"})
  /\ At(c, Setup) => Side(c) = "baseline"
  /\ At(c, Setup \cup {"run", "executing", "wait"}) => cycle[c].kind # "api"
  /\ At(c, {"pick"}) => cycle[c].kind = "api"
  /\ At(c, {"load", "apply"}) => cycle[c].kind = "web"
  /\ At(c, Setup \cup {"run"}) => run[c][Side(c)].status = "none"
  /\ At(c, {"executing"}) => run[c][Side(c)].status = "uncommitted"
  /\ Active(c) /\ Side(c) = "baseline" => run[c]["candidate"].status = "none"
  /\ \A s \in Sides : run[c][s].status = "uncommitted" => At(c, {"executing"}) /\ s = Side(c)
  /\ At(c, {"commit"}) <=> compared[c].state = "flushed"
  /\ compared[c].state = "stored" => At(c, {"report", "load", "apply"} \cup Ended)
  /\ At(c, {"report", "load", "apply", "done"}) => compared[c].state = "stored"
  /\ At(c, {"commit", "report", "load", "apply", "done"}) =>
       /\ compared[c].org = cycle[c].org
       /\ cycle[c].kind # "api" => compared[c].runs = [s \in Sides |-> <<c, s>>]

\* A project that is a client's exists once its cycle has begun: from then on its
\* organisation is fixed.
Begun(p) == p \in Clients => ~ At(p, {"idle"})

WorksOnBegun(c) == cycle[c] \in Work => Begun(cycle[c].suite) /\ Begun(cycle[c].config)

ProjectsBegun ==
  /\ \A p \in projects : Begun(p)
  /\ \A c \in Clients : WorksOnBegun(c)

\* A run is of one app, and its suite and config are of its organisation.
RunsAgree ==
  \A c \in Clients, s \in Sides : run[c][s] \in EvalRun =>
    LET r == run[c][s] IN
    /\ r.app = r.suite /\ Begun(r.suite) /\ Begun(r.config)
    /\ OrgOfProject(r.suite) = r.org /\ OrgOfProject(r.config) = r.org

\* A comparison, flushed or stored, is of comparable runs, made before now.
ComparedRuns ==
  \A c \in Clients : compared[c] \in Comparison =>
    /\ ComparableRuns(RunAt(compared[c].runs["baseline"]), RunAt(compared[c].runs["candidate"]),
                      compared[c].org)
    /\ compared[c].created \in 1 .. clock - 1

\* There is one console, and it shows comparisons of its organisation.
OfConsole(d) == d \in Stored /\ \E c \in Web : compared[d].org = cycle[c].org

ConsoleInv ==
  /\ \A c, d \in Web : c = d
  /\ console.shown \in Clients => OfConsole(console.shown)
  /\ console.floor > 0 => \E d \in Clients : OfConsole(d) /\ compared[d].created = console.floor
  /\ console.refresh = "answered" /\ console.got \in Clients =>
       OfConsole(console.got) /\ compared[console.got].created >= console.floor
  /\ \A c \in Clients : At(c, {"apply"}) =>
       /\ cycle[c].suite \in Stored /\ compared[cycle[c].suite].org = cycle[c].org
       /\ compared[cycle[c].suite].created >= compared[c].created

IInv ==
  /\ TypeOK
  /\ \A c \in Clients : Stage(c)
  /\ ProjectsBegun /\ RunsAgree /\ ComparedRuns /\ ConsoleInv
-----------------------------------------------------------------------------
(* The step of one client                                                  *)

\* What a step of c leaves alone, and how its run and its comparison change: a run
\* is made as NewRun says and only its status changes, and not once it is finished;
\* a comparison is made of comparable runs, committed or rolled back.
Others(c) ==
  \A d \in Clients \ {c} :
    /\ cycle'[d] = cycle[d] /\ run'[d] = run[d] /\ compared'[d] = compared[d]
    /\ gateKey' = d => gateKey = d

RunStep(c) ==
  \A s \in Sides :
    \/ run'[c][s] = run[c][s]
    \/ /\ run[c][s].status = "none" /\ cycle[c] \in Work /\ s = Side(c) /\ Runnable(c)
       /\ cycle[c].kind # "api"
       /\ \E status \in {"uncommitted", "running", "failed"} : run'[c][s] = NewRun(c, status)
    \/ /\ run[c][s].status \in {"uncommitted", "running"}
       /\ run'[c][s] \in {[run[c][s] EXCEPT !.status = "finished"], [status |-> "none"]}

CompareStep(c) ==
  \/ compared'[c] = compared[c]
  \/ compared[c].state = "flushed" /\ compared'[c] = [state |-> "none"]
  \/ compared[c].state = "flushed" /\ compared'[c] = [compared[c] EXCEPT !.state = "stored"]
  \/ /\ compared[c].state = "none" /\ cycle[c] \in Work
     /\ compared'[c] = [state |-> "flushed", runs |-> Compares(c), org |-> cycle[c].org,
                        created |-> clock]
     /\ ComparableRuns(RunAt(Compares(c)["baseline"]), RunAt(Compares(c)["candidate"]),
                       cycle[c].org)
     /\ clock' = clock + 1 /\ run' = run

CycleStep(c) ==
  /\ TypeOK' /\ Stage(c)'
  /\ Others(c) /\ RunStep(c) /\ CompareStep(c) /\ clock' \in {clock, clock + 1}
  /\ ~ At(c, {"idle"})'
  /\ ~ At(c, {"idle"}) => cycle'[c].kind = cycle[c].kind /\ cycle'[c].org = cycle[c].org
  /\ WorksOnBegun(c)'
  /\ projects' \subseteq projects \cup {c}
  /\ At(c, {"apply"})' => At(c, {"load"}) \/ cycle'[c] = cycle[c]

LEMMA BeginStep ==
  ASSUME IInv, NEW c \in Clients, Begin(c)
  PROVE  CycleStep(c)
<1>1. PICK new \in Cycles : cycle' = [cycle EXCEPT ![c] =
            [step |-> CASE new.kind = "cli" -> "look_up" [] new.kind = "seed" -> "create"
                        [] new.kind = "web" -> "register" [] OTHER -> "pick",
             kind |-> new.kind, sync |-> new.sync, org |-> new.org, side |-> "baseline",
             suite |-> c, config |-> c, version |-> [s \in Sides |-> c]]]
  BY DEF Begin
<1>2. cycle'[c] = [step |-> CASE new.kind = "cli" -> "look_up" [] new.kind = "seed" -> "create"
                              [] new.kind = "web" -> "register" [] OTHER -> "pick",
                   kind |-> new.kind, sync |-> new.sync, org |-> new.org, side |-> "baseline",
                   suite |-> c, config |-> c, version |-> [s \in Sides |-> c]]
  BY <1>1 DEF IInv, TypeOK
<1>3. /\ new.kind \in Kinds /\ new.sync \in BOOLEAN /\ new.org \in Orgs
      /\ cycle'[c].step \in {"look_up", "create", "register", "pick"}
      /\ (cycle'[c].step = "pick" <=> new.kind = "api")
  BY <1>2, EvalCycleAssumption DEF Kinds
<1>4. cycle'[c] \in Work /\ cycle'[c].version \in [Sides -> All]
  BY <1>2, <1>3 DEF Work, WorkSteps, Sides, All
<1>5. TypeOK'
  BY <1>1, <1>2, <1>4 DEF IInv, TypeOK, Begin
<1>6. Others(c) /\ RunStep(c) /\ CompareStep(c) /\ clock' = clock
  BY <1>1 DEF Others, RunStep, CompareStep, Begin, IInv, TypeOK
<1>7. Stage(c)'
  <2>1. Stage(c) /\ At(c, {"idle"})
    BY DEF IInv, Begin
  <2>2. compared[c].state = "none"
    BY <2>1 DEF Stage, At, Ended, IInv, TypeOK, Comparison, NoComparison
  <2> QED BY <1>2, <1>3, <1>4, <2>1, <2>2 DEF Stage, At, Begin, Side, Setup, Ended, Active, Sides
<1> QED BY <1>2, <1>3, <1>4, <1>5, <1>6, <1>7 DEF CycleStep, Begin, At, Begun, WorksOnBegun

LEMMA BegunKept ==
  ASSUME NEW c \in Clients, cycle'[c].step # "idle",
         \A d \in Clients \ {c} : cycle'[d] = cycle[d]
  PROVE  \A p : Begun(p) => Begun(p)'
BY DEF Begun, At

\* The steps that end in an error.
LEMMA FailStep ==
  ASSUME IInv, NEW c \in Clients, Active(c), Fail(c), RunStep(c),
         run' \in [Clients -> [Sides -> NoRun \cup EvalRun]],
         \A d \in Clients \ {c} : run'[d] = run[d],
         \A s \in Sides : run'[c][s].status # "uncommitted",
         UNCHANGED <<projects, cases, clock, console>>
  PROVE  CycleStep(c)
<1>1. cycle[c] \in Work
  BY Working DEF IInv
<1>2. /\ cycle' \in [Clients -> Idle \cup Over \cup Work]
      /\ cycle'[c] = [step |-> "failed", kind |-> cycle[c].kind, org |-> cycle[c].org]
      /\ cycle'[c] \in Over
      /\ \A d \in Clients \ {c} : cycle'[d] = cycle[d] /\ compared'[d] = compared[d]
      /\ gateKey' \in Clients \cup {None, "stored"}
      /\ gateKey' # c /\ gateKey' \in {gateKey, None}
      /\ compared' \in [Clients -> NoComparison \cup Comparison]
      /\ compared'[c] = IF compared[c].state = "flushed" THEN [state |-> "none"] ELSE compared[c]
  BY <1>1, FailType DEF IInv
<1>3. TypeOK'
  BY <1>2 DEF IInv, TypeOK
<1>4. Others(c) /\ CompareStep(c)
  BY <1>2, EvalCycleAssumption DEF Others, CompareStep
<1>5. cycle'[c] \notin Work
  BY <1>2 DEF Work, WorkSteps
<1>6. Stage(c)'
  BY <1>2, <1>5 DEF Stage, At, Ended, Setup, Active, Sides, IInv, TypeOK, NoComparison, Comparison
<1> QED BY <1>2, <1>3, <1>4, <1>5, <1>6 DEF CycleStep, At, WorksOnBegun

\* The steps that move on and change neither run nor comparison.
LEMMA GotoStep ==
  ASSUME IInv, NEW c \in Clients, cycle[c] \in Work, cycle[c].kind # "api",
         NEW step \in Setup \cup {"run"}, At(c, Setup), Goto(c, step),
         gateKey' \in {gateKey, c, "stored"}, gateKey' = "stored" \/ gateKey' \in Clients \cup {None},
         projects' \subseteq projects \cup {c},
         UNCHANGED <<cases, run, compared, clock, console>>
  PROVE  CycleStep(c)
<1>0. step \in WorkSteps
  BY DEF Setup, WorkSteps
<1>1. /\ cycle' \in [Clients -> Idle \cup Over \cup Work]
      /\ cycle'[c] = [cycle[c] EXCEPT !.step = step]
      /\ cycle'[c] \in Work
      /\ \A d \in Clients \ {c} : cycle'[d] = cycle[d]
  BY <1>0, GotoType DEF IInv
<1>2. TypeOK'
  BY <1>1 DEF IInv, TypeOK, All
<1>3. Others(c) /\ CompareStep(c) /\ RunStep(c)
  BY <1>1, EvalCycleAssumption DEF Others, CompareStep, RunStep
<1>4. /\ cycle'[c].kind = cycle[c].kind /\ cycle'[c].org = cycle[c].org
      /\ cycle'[c].side = cycle[c].side /\ cycle'[c].version = cycle[c].version
      /\ cycle'[c].suite = cycle[c].suite /\ cycle'[c].config = cycle[c].config
      /\ cycle'[c].step = step
  BY <1>1 DEF Work
<1>5. Stage(c)'
  BY <1>1, <1>4 DEF Stage, At, Ended, Setup, Active, Sides, Side, IInv, TypeOK
<1>6. WorksOnBegun(c)'
  <2>1. WorksOnBegun(c)
    BY DEF IInv, ProjectsBegun
  <2>2. \A p : Begun(p) => Begun(p)'
    BY <1>0, <1>1, <1>4, BegunKept DEF WorkSteps
  <2> QED BY <1>4, <2>1, <2>2 DEF WorksOnBegun
<1> QED BY <1>1, <1>2, <1>3, <1>4, <1>5, <1>6 DEF CycleStep, At, Setup

\* A client that gives up before or after its run of this side is made, but not while
\* it executes one, has no uncommitted run.
LEMMA PlainFailStep ==
  ASSUME IInv, NEW c \in Clients, Active(c), ~ At(c, {"executing"}), Fail(c),
         UNCHANGED <<projects, cases, run, clock, console>>
  PROVE  CycleStep(c)
<1>1. RunStep(c)
  BY DEF RunStep
<1>2. \A s \in Sides : run'[c][s].status # "uncommitted"
  BY DEF IInv, Stage
<1> QED BY <1>1, <1>2, FailStep DEF IInv, TypeOK

LEMMA LookUpStep ==
  ASSUME IInv, NEW c \in Clients, LookUp(c)
  PROVE  CycleStep(c)
<1>1. Active(c) /\ cycle[c] \in Work /\ ~ At(c, {"executing"}) /\ At(c, Setup)
  <2>1. Active(c) /\ ~ At(c, {"executing"}) /\ At(c, Setup)
    BY DEF LookUp, At, Active, Ended, Setup
  <2> QED BY <2>1, Working DEF IInv
<1>2. CASE Named = {}
  BY <1>1, <1>2, PlainFailStep DEF LookUp
<1>3. CASE Named # {}
  <2>1. PICK suite, config, b, k \in Named :
          cycle' = [cycle EXCEPT ![c] =
              [@ EXCEPT !.step = "gate_rule", !.suite = suite, !.config = config,
                        !.version = [s \in Sides |-> IF s = "baseline" THEN b ELSE k]]]
    BY <1>3 DEF LookUp
  <2>2. /\ \A p \in {suite, config, b, k} : p \in All /\ Begun(p)
        /\ UNCHANGED <<projects, cases, gateKey, run, compared, clock, console>>
    BY <1>3 DEF LookUp, Named, IInv, TypeOK, ProjectsBegun
  <2> DEFINE version == [s \in Sides |-> IF s = "baseline" THEN b ELSE k]
  <2>3. /\ cycle'[c] = [cycle[c] EXCEPT !.step = "gate_rule", !.suite = suite,
                                        !.config = config, !.version = version]
        /\ \A d \in Clients \ {c} : cycle'[d] = cycle[d]
    BY <2>1 DEF IInv, TypeOK
  <2>4. version \in [Sides -> All]
    BY <2>2
  <2> HIDE DEF version
  <2>a. suite \in All /\ config \in All /\ version \in [Sides -> All \cup (Clients \X Sides)]
    BY <2>2, <2>4
  <2>5. /\ cycle'[c] \in Work
        /\ cycle'[c].kind = cycle[c].kind /\ cycle'[c].org = cycle[c].org
        /\ cycle'[c].side = cycle[c].side /\ cycle'[c].version = version
        /\ cycle'[c].suite = suite /\ cycle'[c].config = config
        /\ cycle'[c].step = "gate_rule"
    BY <1>1, <2>3, <2>4, <2>a DEF Work, WorkSteps
  <2>6. TypeOK'
    BY <2>1, <2>2, <2>3, <2>5 DEF IInv, TypeOK
  <2>7. Others(c) /\ CompareStep(c) /\ RunStep(c)
    BY <2>2, <2>3 DEF Others, CompareStep, RunStep
  <2>8. Stage(c)'
    BY <1>1, <2>2, <2>4, <2>5 DEF Stage, At, Ended, Setup, Active, Sides, Side, IInv
  <2>9. WorksOnBegun(c)'
    BY <2>2, <2>3, <2>5, BegunKept DEF WorksOnBegun
  <2> QED BY <2>2, <2>5, <2>6, <2>7, <2>8, <2>9 DEF CycleStep, At
<1> QED BY <1>2, <1>3

LEMMA SetupStep ==
  ASSUME IInv, NEW c \in Clients,
         FindGateRule(c) \/ InsertGateRule(c) \/ SeedFlush(c) \/ SeedCommit(c) \/ Register(c)
  PROVE  CycleStep(c)
<1>1. Active(c) /\ cycle[c] \in Work /\ ~ At(c, {"executing"}) /\ At(c, Setup)
  <2>1. Active(c) /\ ~ At(c, {"executing"}) /\ At(c, Setup)
    BY DEF FindGateRule, InsertGateRule, SeedFlush, SeedCommit, Register, At, Active, Ended, Setup
  <2> QED BY <2>1, Working DEF IInv
<1>2. cycle[c].kind # "api"
  BY <1>1 DEF IInv, Stage, At, Setup
<1>3. ASSUME NEW step \in Setup \cup {"run"}, InsertKey(c, step)
      PROVE  CycleStep(c)
  <2>1. CASE Fail(c)
    BY <1>1, <1>3, <2>1, PlainFailStep DEF InsertKey
  <2>2. CASE gateKey' = c /\ Goto(c, step) /\ UNCHANGED compared
    BY <1>1, <1>2, <1>3, <2>2, GotoStep DEF InsertKey
  <2> QED BY <1>3, <2>1, <2>2 DEF InsertKey
<1>4. CASE FindGateRule(c)
  BY <1>1, <1>2, <1>4, GotoStep DEF FindGateRule, Setup, IInv, TypeOK
<1>5. CASE InsertGateRule(c)
  BY <1>3, <1>5 DEF InsertGateRule
<1>6. CASE SeedFlush(c)
  BY <1>3, <1>6 DEF SeedFlush, Setup
<1>7. CASE SeedCommit(c)
  BY <1>1, <1>2, <1>7, GotoStep DEF SeedCommit, CommitGateKey, IInv, TypeOK
<1>8. CASE Register(c)
  BY <1>1, <1>2, <1>8, GotoStep DEF Register, IInv, TypeOK
<1> QED BY <1>4, <1>5, <1>6, <1>7, <1>8

\* The fields of a cycle that only its step, or its step and its side, changes.
LEMMA GotoFields ==
  ASSUME TypeOK, NEW c \in Clients, cycle[c] \in Work, NEW step \in WorkSteps, Goto(c, step)
  PROVE  /\ cycle'[c].kind = cycle[c].kind /\ cycle'[c].org = cycle[c].org
         /\ cycle'[c].side = cycle[c].side /\ cycle'[c].version = cycle[c].version
         /\ cycle'[c].suite = cycle[c].suite /\ cycle'[c].config = cycle[c].config
         /\ cycle'[c].step = step
<1>1. cycle'[c] = [cycle[c] EXCEPT !.step = step]
  BY GotoType
<1> QED BY <1>1 DEF Work

LEMMA AdvanceFields ==
  ASSUME TypeOK, NEW c \in Clients, cycle[c] \in Work, Advance(c)
  PROVE  /\ cycle'[c].kind = cycle[c].kind /\ cycle'[c].org = cycle[c].org
         /\ cycle'[c].side = "candidate" /\ cycle'[c].version = cycle[c].version
         /\ cycle'[c].suite = cycle[c].suite /\ cycle'[c].config = cycle[c].config
         /\ cycle'[c].step = IF Side(c) = "baseline" THEN "run" ELSE "compare"
BY AdvanceType DEF Work

LEMMA NewRunType ==
  ASSUME IInv, NEW c \in Clients, cycle[c] \in Work, cycle[c].kind # "api",
         NEW status \in {"uncommitted", "running", "failed"},
         run' = [run EXCEPT ![c][Side(c)] = NewRun(c, status)]
  PROVE  /\ NewRun(c, status) \in EvalRun /\ NewRun(c, status).status = status
         /\ run' \in [Clients -> [Sides -> NoRun \cup EvalRun]]
         /\ Side(c) \in Sides /\ run'[c][Side(c)] = NewRun(c, status)
         /\ \A s \in Sides \ {Side(c)} : run'[c][s] = run[c][s]
         /\ \A d \in Clients \ {c} : run'[d] = run[d]
<1>1. cycle[c].version \in [Sides -> All] /\ Side(c) \in Sides
  BY DEF IInv, Stage, Work, Side
<1>2. NewRun(c, status) \in EvalRun /\ NewRun(c, status).status = status
  BY <1>1 DEF NewRun, EvalRun, IInv, TypeOK, Work
<1> QED BY <1>1, <1>2 DEF IInv, TypeOK

LEMMA DispatchStep ==
  ASSUME IInv, NEW c \in Clients, Dispatch(c)
  PROVE  CycleStep(c)
<1>1. Active(c) /\ cycle[c] \in Work /\ At(c, {"run"}) /\ Side(c) \in Sides
  <2>1. Active(c) /\ At(c, {"run"})
    BY DEF Dispatch, At, Active, Ended
  <2> QED BY <2>1, Working DEF IInv, Work, Side
<1>2. cycle[c].kind # "api" /\ run[c][Side(c)].status = "none" /\ Stage(c)
  BY <1>1 DEF IInv, Stage, At
<1>3. UNCHANGED <<projects, cases, compared, clock, console>> /\ Runnable(c)
  BY DEF Dispatch
<1>4. gateKey' \in {gateKey, "stored"} /\ (gateKey' = c => FALSE)
  BY EvalCycleAssumption DEF Dispatch, CommitGateKey
<1>5. ASSUME NEW status \in {"running", "failed"},
             run' = [run EXCEPT ![c][Side(c)] = NewRun(c, status)],
             IF status = "running" THEN Goto(c, "wait") ELSE End(c, "failed")
      PROVE  CycleStep(c)
  <2>1. /\ NewRun(c, status) \in EvalRun /\ NewRun(c, status).status = status
        /\ run' \in [Clients -> [Sides -> NoRun \cup EvalRun]]
        /\ Side(c) \in Sides /\ run'[c][Side(c)] = NewRun(c, status)
        /\ \A s \in Sides \ {Side(c)} : run'[c][s] = run[c][s]
        /\ \A d \in Clients \ {c} : run'[d] = run[d]
    BY <1>1, <1>2, <1>5, NewRunType
  <2>2. RunStep(c) /\ CompareStep(c)
    BY <1>1, <1>2, <1>3, <2>1 DEF RunStep, CompareStep
  <2>3. /\ cycle' \in [Clients -> Idle \cup Over \cup Work]
        /\ cycle'[c] \in IF status = "running" THEN Work ELSE Over
        /\ \A d \in Clients \ {c} : cycle'[d] = cycle[d]
        /\ cycle'[c].step = IF status = "running" THEN "wait" ELSE "failed"
        /\ cycle'[c].kind = cycle[c].kind /\ cycle'[c].org = cycle[c].org
        /\ status = "running" =>
             /\ cycle'[c].side = cycle[c].side /\ cycle'[c].version = cycle[c].version
             /\ cycle'[c].suite = cycle[c].suite /\ cycle'[c].config = cycle[c].config
    <3>1. "wait" \in WorkSteps /\ "failed" \in Ended
      BY DEF WorkSteps, Ended
    <3>2. CASE status = "running"
      BY <1>1, <1>5, <3>1, <3>2, GotoType, GotoFields DEF IInv
    <3>3. CASE status = "failed"
      <4>1. End(c, "failed")
        BY <1>5, <3>3
      <4>2. /\ cycle' \in [Clients -> Idle \cup Over \cup Work]
            /\ cycle'[c] = [step |-> "failed", kind |-> cycle[c].kind, org |-> cycle[c].org]
            /\ cycle'[c] \in Over
            /\ \A d \in Clients \ {c} : cycle'[d] = cycle[d]
        BY <1>1, <3>1, <4>1, EndType DEF IInv
      <4> QED BY <3>3, <4>2
    <3> QED BY <3>2, <3>3
  <2>4. TypeOK'
    BY <1>3, <1>4, <2>1, <2>3 DEF IInv, TypeOK
  <2>5. Others(c)
    BY <1>3, <1>4, <2>1, <2>3, EvalCycleAssumption DEF Others
  <2>6. Stage(c)'
    <3>1. CASE status = "running"
      BY <1>1, <1>2, <1>3, <1>4, <2>1, <2>3, <3>1
         DEF Stage, At, Ended, Setup, Active, Sides, Side
    <3>2. CASE status = "failed"
      <4>1. cycle'[c] \notin Work /\ cycle'[c].step = "failed" /\ gateKey' # c
        BY <1>4, <2>3, <3>2 DEF Work, WorkSteps
      <4>2. \A s \in Sides : run'[c][s].status # "uncommitted"
        BY <1>1, <1>2, <2>1, <3>2 DEF Stage, At
      <4>3. compared[c].state = "none"
        BY <1>1, <1>2 DEF Stage, At, Ended, IInv, TypeOK, NoComparison, Comparison
      <4> QED BY <1>3, <4>1, <4>2, <4>3
              DEF Stage, At, Ended, Setup, Active, Sides, Side
    <3> QED BY <3>1, <3>2
  <2>7. WorksOnBegun(c)'
    <3>1. WorksOnBegun(c) /\ \A p : Begun(p) => Begun(p)'
      BY <2>3, BegunKept DEF IInv, ProjectsBegun
    <3>2. cycle'[c] \in Work => status = "running"
      BY <2>3 DEF Work, WorkSteps
    <3> QED BY <1>1, <2>3, <3>1, <3>2 DEF WorksOnBegun
  <2> QED BY <1>3, <2>2, <2>3, <2>4, <2>5, <2>6, <2>7 DEF CycleStep, At
<1>6. \/ run' = [run EXCEPT ![c][Side(c)] = NewRun(c, "running")] /\ Goto(c, "wait")
      \/ run' = [run EXCEPT ![c][Side(c)] = NewRun(c, "failed")] /\ End(c, "failed")
  BY DEF Dispatch
<1> QED BY <1>5, <1>6

LEMMA ExecuteStep ==
  ASSUME IInv, NEW c \in Clients, Execute(c)
  PROVE  CycleStep(c)
<1>1. Active(c) /\ cycle[c] \in Work /\ At(c, {"run"}) /\ Side(c) \in Sides
  <2>1. Active(c) /\ At(c, {"run"})
    BY DEF Execute, At, Active, Ended
  <2> QED BY <2>1, Working DEF IInv, Work, Side
<1>2. cycle[c].kind # "api" /\ run[c][Side(c)].status = "none" /\ Stage(c)
  BY <1>1 DEF IInv, Stage, At
<1>3. /\ UNCHANGED <<projects, cases, gateKey, compared, clock, console>> /\ Runnable(c)
      /\ run' = [run EXCEPT ![c][Side(c)] = NewRun(c, "uncommitted")] /\ Goto(c, "executing")
  BY DEF Execute
<1>4. /\ NewRun(c, "uncommitted") \in EvalRun /\ NewRun(c, "uncommitted").status = "uncommitted"
      /\ run' \in [Clients -> [Sides -> NoRun \cup EvalRun]]
      /\ Side(c) \in Sides /\ run'[c][Side(c)] = NewRun(c, "uncommitted")
      /\ \A s \in Sides \ {Side(c)} : run'[c][s] = run[c][s]
      /\ \A d \in Clients \ {c} : run'[d] = run[d]
  BY <1>1, <1>2, <1>3, NewRunType
<1>5. /\ cycle' \in [Clients -> Idle \cup Over \cup Work] /\ cycle'[c] \in Work
      /\ \A d \in Clients \ {c} : cycle'[d] = cycle[d]
      /\ cycle'[c].step = "executing"
      /\ cycle'[c].kind = cycle[c].kind /\ cycle'[c].org = cycle[c].org
      /\ cycle'[c].side = cycle[c].side /\ cycle'[c].version = cycle[c].version
      /\ cycle'[c].suite = cycle[c].suite /\ cycle'[c].config = cycle[c].config
  <2>1. "executing" \in WorkSteps
    BY DEF WorkSteps
  <2> QED BY <1>1, <1>3, <2>1, GotoType, GotoFields DEF IInv
<1>6. TypeOK'
  BY <1>3, <1>4, <1>5 DEF IInv, TypeOK
<1>7. Others(c) /\ RunStep(c) /\ CompareStep(c)
  BY <1>1, <1>2, <1>3, <1>4, <1>5 DEF Others, RunStep, CompareStep
<1>8. Stage(c)'
  BY <1>1, <1>2, <1>3, <1>4, <1>5 DEF Stage, At, Ended, Setup, Active, Sides, Side
<1>9. WorksOnBegun(c)'
  <2>1. WorksOnBegun(c) /\ \A p : Begun(p) => Begun(p)'
    BY <1>5, BegunKept DEF IInv, ProjectsBegun
  <2> QED BY <1>1, <1>5, <2>1 DEF WorksOnBegun
<1> QED BY <1>3, <1>5, <1>6, <1>7, <1>8, <1>9 DEF CycleStep, At

\* A client whose run of this side has ended.
LEMMA AdvanceStep ==
  ASSUME IInv, NEW c \in Clients, cycle[c] \in Work, At(c, {"executing", "wait"}), Advance(c),
         RunStep(c), run' \in [Clients -> [Sides -> NoRun \cup EvalRun]],
         \A d \in Clients \ {c} : run'[d] = run[d],
         \A s \in Sides : run'[c][s].status # "uncommitted",
         \A s \in Sides \ {Side(c)} : run'[c][s] = run[c][s],
         gateKey' \in {gateKey, "stored"},
         UNCHANGED <<projects, cases, compared, clock, console>>
  PROVE  CycleStep(c)
<1>1. /\ cycle' \in [Clients -> Idle \cup Over \cup Work] /\ cycle'[c] \in Work
      /\ \A d \in Clients \ {c} : cycle'[d] = cycle[d]
      /\ cycle'[c].kind = cycle[c].kind /\ cycle'[c].org = cycle[c].org
      /\ cycle'[c].side = "candidate" /\ cycle'[c].version = cycle[c].version
      /\ cycle'[c].suite = cycle[c].suite /\ cycle'[c].config = cycle[c].config
      /\ cycle'[c].step = IF Side(c) = "baseline" THEN "run" ELSE "compare"
  BY AdvanceType, AdvanceFields DEF IInv
<1>2. TypeOK'
  BY <1>1 DEF IInv, TypeOK
<1>3. Others(c) /\ CompareStep(c)
  BY <1>1, EvalCycleAssumption DEF Others, CompareStep
<1>4. Stage(c)'
  <2>1. Stage(c) /\ Active(c) /\ Side(c) \in Sides
    BY DEF IInv, Active, At, Ended, Work, Side
  <2>2. cycle[c].kind # "api" /\ compared[c].state = "none" /\ cycle[c].version \in [Sides -> All]
    BY <2>1 DEF Stage, At, Ended, IInv, TypeOK, NoComparison, Comparison
  <2>3. Side(c) = "baseline" => run'[c]["candidate"].status = "none"
    BY <2>1 DEF Stage, Sides
  <2> QED BY <1>1, <2>1, <2>2, <2>3 DEF Stage, At, Ended, Setup, Active, Side
<1>5. WorksOnBegun(c)'
  <2>1. WorksOnBegun(c) /\ \A p : Begun(p) => Begun(p)'
    BY <1>1, BegunKept DEF IInv, ProjectsBegun
  <2> QED BY <1>1, <2>1 DEF WorksOnBegun
<1> QED BY <1>1, <1>2, <1>3, <1>4, <1>5 DEF CycleStep, At

LEMMA ExecuteCommitStep ==
  ASSUME IInv, NEW c \in Clients, ExecuteCommit(c)
  PROVE  CycleStep(c)
<1>1. Active(c) /\ cycle[c] \in Work /\ At(c, {"executing"}) /\ Side(c) \in Sides
  <2>1. Active(c) /\ At(c, {"executing"})
    BY DEF ExecuteCommit, At, Active, Ended
  <2> QED BY <2>1, Working DEF IInv, Work, Side
<1>2. Stage(c) /\ run[c][Side(c)].status = "uncommitted"
  BY <1>1 DEF IInv, Stage
<1>3. run[c][Side(c)] \in EvalRun
  BY <1>1, <1>2 DEF IInv, TypeOK, NoRun
<1>4. [run[c][Side(c)] EXCEPT !.status = "finished"] \in EvalRun
  BY <1>3 DEF EvalRun
<1>5. /\ run'[c][Side(c)] = [run[c][Side(c)] EXCEPT !.status = "finished"]
      /\ \A s \in Sides \ {Side(c)} : run'[c][s] = run[c][s]
      /\ \A d \in Clients \ {c} : run'[d] = run[d]
      /\ run' \in [Clients -> [Sides -> NoRun \cup EvalRun]]
  BY <1>1, <1>4 DEF ExecuteCommit, IInv, TypeOK
<1>6. \A s \in Sides : run'[c][s].status # "uncommitted"
  BY <1>2, <1>3, <1>5 DEF Stage, EvalRun
<1>7. RunStep(c)
  BY <1>2, <1>5 DEF RunStep
<1>8. gateKey' \in {gateKey, "stored"} /\ At(c, {"executing", "wait"})
  BY <1>1 DEF ExecuteCommit, CommitGateKey, At
<1> QED BY <1>1, <1>5, <1>6, <1>7, <1>8, AdvanceStep DEF ExecuteCommit

LEMMA WaitStep ==
  ASSUME IInv, NEW c \in Clients, Poll(c) \/ GiveUp(c)
  PROVE  CycleStep(c)
<1>1. Active(c) /\ cycle[c] \in Work /\ At(c, {"wait"}) /\ ~ At(c, {"executing"})
  <2>1. Active(c) /\ At(c, {"wait"}) /\ ~ At(c, {"executing"})
    BY DEF Poll, GiveUp, At, Active, Ended
  <2> QED BY <2>1, Working DEF IInv
<1>2. UNCHANGED <<projects, cases, run, clock, console>>
  BY DEF Poll, GiveUp
<1>3. CASE Fail(c)
  BY <1>1, <1>2, <1>3, PlainFailStep
<1>4. CASE Advance(c) /\ UNCHANGED <<gateKey, compared>>
  <2>1. RunStep(c) /\ \A s \in Sides : run'[c][s].status # "uncommitted"
    BY <1>1, <1>2 DEF RunStep, IInv, Stage
  <2>2. At(c, {"executing", "wait"})
    BY <1>1 DEF At
  <2> QED BY <1>1, <1>2, <1>4, <2>1, <2>2, AdvanceStep DEF IInv, TypeOK
<1> QED BY <1>3, <1>4 DEF Poll, GiveUp

LEMMA RejectStep ==
  ASSUME IInv, NEW c \in Clients, Reject(c)
  PROVE  CycleStep(c)
<1>1. Active(c) /\ ~ At(c, {"executing"})
  BY DEF Reject, At, Active, Ended
<1> QED BY <1>1, PlainFailStep DEF Reject

LEMMA DieStep ==
  ASSUME IInv, NEW c \in Clients, Die(c)
  PROVE  CycleStep(c)
<1>1. CASE ~ At(c, {"executing"})
  BY <1>1, PlainFailStep DEF Die
<1>2. CASE At(c, {"executing"})
  <2>1. Active(c) /\ cycle[c] \in Work /\ Side(c) \in Sides
    BY Working DEF Die, IInv, Work, Side
  <2>2. Stage(c) /\ run[c][Side(c)].status = "uncommitted" /\ [status |-> "none"] \in NoRun
    BY <1>2 DEF IInv, Stage, NoRun
  <2>3. /\ run'[c][Side(c)] = [status |-> "none"]
        /\ \A s \in Sides \ {Side(c)} : run'[c][s] = run[c][s]
        /\ \A d \in Clients \ {c} : run'[d] = run[d]
        /\ run' \in [Clients -> [Sides -> NoRun \cup EvalRun]]
    BY <1>2, <2>1, <2>2 DEF Die, IInv, TypeOK
  <2>4. RunStep(c)
    BY <2>2, <2>3 DEF RunStep
  <2>5. \A s \in Sides : run'[c][s].status # "uncommitted"
    BY <2>2, <2>3 DEF Stage
  <2> QED BY <2>1, <2>3, <2>4, <2>5, FailStep DEF Die
<1> QED BY <1>1, <1>2

LEMMA FinishStep ==
  ASSUME IInv, NEW c \in Clients, NEW s \in Sides, Finish(c, s), ~ At(c, {"idle"})
  PROVE  CycleStep(c)
<1>1. run[c][s] \in EvalRun
  BY DEF Finish, IInv, TypeOK, NoRun
<1>2. [run[c][s] EXCEPT !.status = "finished"] \in EvalRun
  BY <1>1 DEF EvalRun
<1>3. /\ run'[c][s] = [run[c][s] EXCEPT !.status = "finished"]
      /\ run'[c][s].status = "finished"
      /\ \A t \in Sides \ {s} : run'[c][t] = run[c][t]
      /\ \A d \in Clients \ {c} : run'[d] = run[d]
      /\ run' \in [Clients -> [Sides -> NoRun \cup EvalRun]]
  BY <1>1, <1>2 DEF Finish, IInv, TypeOK, EvalRun
<1>4. TypeOK' /\ UNCHANGED <<cycle, projects, cases, gateKey, compared, clock, console>>
  BY <1>3 DEF Finish, IInv, TypeOK
<1>5. Others(c) /\ RunStep(c) /\ CompareStep(c)
  BY <1>3, <1>4 DEF Others, RunStep, CompareStep, Finish
<1>6. Stage(c)'
  <2>1. Stage(c) /\ run[c][s].status = "running"
    BY DEF IInv, Finish
  <2>2. \A t \in Sides : run[c][t].status \in {"none", "uncommitted"} => run'[c][t] = run[c][t]
    BY <1>3, <2>1
  <2>3. \A t \in Sides : run'[c][t].status = "uncommitted" => run[c][t].status = "uncommitted"
    BY <1>3
  <2>4. Side(c)' = Side(c) /\ (Active(c) => Side(c) \in Sides) /\ (At(c, Setup \cup {"run", "executing"}) => Active(c))
    BY <1>4, Working DEF IInv, Side, Work, Active, At, Setup, Ended
  <2> QED BY <1>4, <2>1, <2>2, <2>3, <2>4 DEF Stage, At, Active, Sides
<1>7. WorksOnBegun(c)'
  BY <1>4 DEF IInv, ProjectsBegun, WorksOnBegun, Begun, At
<1> QED BY <1>4, <1>5, <1>6, <1>7 DEF CycleStep, At

\* The steps of the comparison.
LEMMA PickStep ==
  ASSUME IInv, NEW c \in Clients, Pick(c)
  PROVE  CycleStep(c)
<1>1. Active(c) /\ cycle[c] \in Work /\ At(c, {"pick"}) /\ Stage(c) /\ cycle[c].kind = "api"
  <2>1. Active(c) /\ At(c, {"pick"})
    BY DEF Pick, At, Active, Ended
  <2> QED BY <2>1, Working DEF IInv, Stage
<1>2. PICK b, k \in Clients \X Sides :
        cycle' = [cycle EXCEPT ![c] =
            [@ EXCEPT !.step = "compare",
                      !.version = [s \in Sides |-> IF s = "baseline" THEN b ELSE k]]]
  BY DEF Pick
<1> DEFINE version == [s \in Sides |-> IF s = "baseline" THEN b ELSE k]
<1>3. /\ cycle'[c] = [cycle[c] EXCEPT !.step = "compare", !.version = version]
      /\ \A d \in Clients \ {c} : cycle'[d] = cycle[d]
  BY <1>2 DEF IInv, TypeOK
<1>4. version \in [Sides -> Clients \X Sides] /\ version \in [Sides -> All \cup (Clients \X Sides)]
  OBVIOUS
<1> HIDE DEF version
<1>5. /\ cycle'[c] \in Work
      /\ cycle'[c].kind = cycle[c].kind /\ cycle'[c].org = cycle[c].org
      /\ cycle'[c].side = cycle[c].side /\ cycle'[c].version = version
      /\ cycle'[c].suite = cycle[c].suite /\ cycle'[c].config = cycle[c].config
      /\ cycle'[c].step = "compare"
  BY <1>1, <1>3, <1>4 DEF Work, WorkSteps
<1>6. TypeOK' /\ UNCHANGED <<projects, cases, gateKey, run, compared, clock, console>>
  BY <1>2, <1>5 DEF IInv, TypeOK, Pick
<1>7. Others(c) /\ RunStep(c) /\ CompareStep(c)
  BY <1>3, <1>6 DEF Others, RunStep, CompareStep
<1>8. Stage(c)'
  BY <1>1, <1>4, <1>5, <1>6 DEF Stage, At, Ended, Setup, Active, Sides, Side
<1>9. WorksOnBegun(c)'
  <2>1. WorksOnBegun(c) /\ \A p : Begun(p) => Begun(p)'
    BY <1>3, <1>5, BegunKept DEF IInv, ProjectsBegun
  <2> QED BY <1>1, <1>5, <2>1 DEF WorksOnBegun
<1> QED BY <1>5, <1>6, <1>7, <1>8, <1>9 DEF CycleStep, At

LEMMA CompareStepHolds ==
  ASSUME IInv, NEW c \in Clients, Compare(c)
  PROVE  CycleStep(c)
<1>1. Active(c) /\ cycle[c] \in Work /\ At(c, {"compare"}) /\ ~ At(c, {"executing"}) /\ Stage(c)
  <2>1. Active(c) /\ At(c, {"compare"}) /\ ~ At(c, {"executing"})
    BY DEF Compare, At, Active, Ended
  <2> QED BY <2>1, Working DEF IInv
<1> DEFINE Comparable == ComparableRuns(RunAt(Compares(c)["baseline"]),
                                        RunAt(Compares(c)["candidate"]), cycle[c].org)
<1>2. CASE ~ Comparable
  BY <1>1, <1>2, PlainFailStep DEF Compare
<1>3. CASE Comparable
  <2> DEFINE made == [state |-> "flushed", runs |-> Compares(c), org |-> cycle[c].org,
                      created |-> clock]
  <2>1. /\ compared' = [compared EXCEPT ![c] = made] /\ clock' = clock + 1 /\ Goto(c, "commit")
        /\ UNCHANGED <<projects, cases, gateKey, run, console>>
    BY <1>3 DEF Compare
  <2>2. Compares(c) \in [Sides -> Clients \X Sides]
    BY <1>1 DEF Compares, Stage
  <2>3. made \in Comparison /\ made.state = "flushed" /\ made.org = cycle[c].org
    <3>1. cycle[c].org \in Orgs /\ clock \in Nat
      BY <1>1 DEF Work, IInv, TypeOK
    <3> QED BY <2>2, <3>1 DEF Comparison
  <2>4. compared'[c] = made /\ \A d \in Clients \ {c} : compared'[d] = compared[d]
    BY <2>1 DEF IInv, TypeOK
  <2>5. /\ cycle' \in [Clients -> Idle \cup Over \cup Work] /\ cycle'[c] \in Work
        /\ \A d \in Clients \ {c} : cycle'[d] = cycle[d]
        /\ cycle'[c].step = "commit"
        /\ cycle'[c].kind = cycle[c].kind /\ cycle'[c].org = cycle[c].org
        /\ cycle'[c].side = cycle[c].side /\ cycle'[c].version = cycle[c].version
        /\ cycle'[c].suite = cycle[c].suite /\ cycle'[c].config = cycle[c].config
    <3>1. "commit" \in WorkSteps
      BY DEF WorkSteps
    <3> QED BY <1>1, <2>1, <3>1, GotoType, GotoFields DEF IInv
  <2>6. TypeOK'
    <3> HIDE DEF made
    <3>1. compared' \in [Clients -> NoComparison \cup Comparison]
      BY <2>1, <2>3 DEF IInv, TypeOK
    <3>2. clock' \in Nat \ {0}
      BY <2>1 DEF IInv, TypeOK
    <3> QED BY <2>1, <2>5, <3>1, <3>2 DEF IInv, TypeOK
  <2>7. compared[c].state = "none"
    BY <1>1 DEF Stage, At, Ended, IInv, TypeOK, NoComparison, Comparison
  <2>8. Others(c) /\ RunStep(c) /\ CompareStep(c)
    BY <1>1, <1>3, <2>1, <2>4, <2>5, <2>7 DEF Others, RunStep, CompareStep
  <2>9. Stage(c)'
    <3>1. cycle[c].kind # "api" => compared'[c].runs = [s \in Sides |-> <<c, s>>]
      BY <2>4 DEF Compares
    <3> HIDE DEF made
    <3> QED BY <1>1, <2>1, <2>3, <2>4, <2>5, <3>1
            DEF Stage, At, Ended, Setup, Active, Sides, Side
  <2>10. WorksOnBegun(c)'
    <3>1. WorksOnBegun(c) /\ \A p : Begun(p) => Begun(p)'
      BY <2>5, BegunKept DEF IInv, ProjectsBegun
    <3> QED BY <1>1, <2>5, <3>1 DEF WorksOnBegun
  <2> QED BY <2>1, <2>5, <2>6, <2>8, <2>9, <2>10 DEF CycleStep, At
<1> QED BY <1>2, <1>3

LEMMA CommitComparisonStep ==
  ASSUME IInv, NEW c \in Clients, CommitComparison(c)
  PROVE  CycleStep(c)
<1>1. Active(c) /\ cycle[c] \in Work /\ At(c, {"commit"}) /\ Stage(c)
      /\ compared[c].state = "flushed"
  <2>1. Active(c) /\ At(c, {"commit"})
    BY DEF CommitComparison, At, Active, Ended
  <2> QED BY <2>1, Working DEF IInv, Stage
<1>2. compared[c] \in Comparison
  BY <1>1 DEF IInv, TypeOK, NoComparison
<1> DEFINE made == [compared[c] EXCEPT !.state = "stored"]
<1>3. made \in Comparison /\ made.state = "stored" /\ made.org = compared[c].org
      /\ made.runs = compared[c].runs
  BY <1>2 DEF Comparison
<1>4. /\ compared' = [compared EXCEPT ![c] = made] /\ Goto(c, "report")
      /\ UNCHANGED <<projects, cases, run, clock, console>>
      /\ gateKey' \in {gateKey, "stored"} /\ gateKey' # c
  BY EvalCycleAssumption DEF CommitComparison, CommitGateKey
<1> HIDE DEF made
<1>5. compared'[c] = made /\ \A d \in Clients \ {c} : compared'[d] = compared[d]
  BY <1>4 DEF IInv, TypeOK
<1>6. /\ cycle' \in [Clients -> Idle \cup Over \cup Work] /\ cycle'[c] \in Work
      /\ \A d \in Clients \ {c} : cycle'[d] = cycle[d]
      /\ cycle'[c].step = "report"
      /\ cycle'[c].kind = cycle[c].kind /\ cycle'[c].org = cycle[c].org
      /\ cycle'[c].side = cycle[c].side /\ cycle'[c].version = cycle[c].version
      /\ cycle'[c].suite = cycle[c].suite /\ cycle'[c].config = cycle[c].config
  <2>1. "report" \in WorkSteps
    BY DEF WorkSteps
  <2> QED BY <1>1, <1>4, <2>1, GotoType, GotoFields DEF IInv
<1>7. TypeOK'
  BY <1>3, <1>4, <1>6 DEF IInv, TypeOK
<1>8. Others(c) /\ RunStep(c) /\ CompareStep(c)
  BY <1>1, <1>4, <1>5, <1>6, EvalCycleAssumption DEF Others, RunStep, CompareStep, made
<1>9. Stage(c)'
  BY <1>1, <1>3, <1>4, <1>5, <1>6 DEF Stage, At, Ended, Setup, Active, Sides, Side
<1>10. WorksOnBegun(c)'
  <2>1. WorksOnBegun(c) /\ \A p : Begun(p) => Begun(p)'
    BY <1>6, BegunKept DEF IInv, ProjectsBegun
  <2> QED BY <1>1, <1>6, <2>1 DEF WorksOnBegun
<1> QED BY <1>4, <1>6, <1>7, <1>8, <1>9, <1>10 DEF CycleStep, At

\* ORDER BY created_at DESC LIMIT 1 answers, when there is something to answer, with
\* a stored comparison of the organisation that no other of them is newer than.
LEMMA LatestIsNewest ==
  ASSUME IInv, NEW org, NEW d \in Stored, compared[d].org = org
  PROVE  /\ Latest(org) \in Stored /\ Latest(org) # None
         /\ compared[Latest(org)].org = org
         /\ compared[d].created <= compared[Latest(org)].created
<1> DEFINE of == {c \in Stored : compared[c].org = org}
           T == {compared[c].created : c \in of}
<1>1. \A c \in of : c \in Clients /\ compared[c] \in Comparison
  BY DEF Stored, IInv, TypeOK, NoComparison
<1>2. \A c \in of : compared[c].created \in 0 .. clock
  BY <1>1 DEF IInv, ComparedRuns, TypeOK
<1>3. clock \in Nat /\ T \in SUBSET (0 .. clock) /\ T # {}
  <2>1. clock \in Nat
    BY DEF IInv, TypeOK
  <2>2. d \in of
    OBVIOUS
  <2> QED BY <1>2, <2>1, <2>2
<1>4. PICK m \in T : \A n \in T : n <= m
  BY <1>3, Greatest
<1>5. \E c \in of : \A e \in of : compared[e].created <= compared[c].created
  BY <1>4
<1>6. Latest(org) = CHOOSE c \in of : \A e \in of : compared[e].created <= compared[c].created
  BY DEF Latest
<1>7. Latest(org) \in of /\ \A e \in of : compared[e].created <= compared[Latest(org)].created
  BY <1>5, <1>6
<1> QED BY <1>1, <1>7, EvalCycleAssumption

LEMMA LatestType ==
  ASSUME IInv, NEW org, Latest(org) # None
  PROVE  Latest(org) \in Stored /\ compared[Latest(org)].org = org
<1>1. PICK d \in Stored : compared[d].org = org
  BY DEF Latest
<1> QED BY <1>1, LatestIsNewest


\* A cycle that ends after its comparison is committed.
LEMMA EndStep ==
  ASSUME IInv, NEW c \in Clients, cycle[c] \in Work, NEW step \in Ended, End(c, step),
         At(c, {"report", "load", "apply"}), TypeOK',
         UNCHANGED <<projects, cases, gateKey, run, compared, clock>>
  PROVE  CycleStep(c)
<1>1. /\ cycle'[c] = [step |-> step, kind |-> cycle[c].kind, org |-> cycle[c].org]
      /\ \A d \in Clients \ {c} : cycle'[d] = cycle[d]
  BY EndType DEF IInv
<1>2. /\ cycle'[c].step = step /\ cycle'[c].kind = cycle[c].kind /\ cycle'[c].org = cycle[c].org
      /\ cycle'[c].step \in Ended /\ cycle'[c] \notin Work
  BY <1>1 DEF Work, WorkSteps, Ended
<1>3. Others(c) /\ RunStep(c) /\ CompareStep(c)
  BY <1>1 DEF Others, RunStep, CompareStep
<1>4. Stage(c)'
  <2>1. Stage(c)
    BY DEF IInv
  <2>2. /\ \A s \in Sides : run[c][s].status # "uncommitted"
        /\ compared[c].state = "stored" /\ gateKey # c
    BY <2>1 DEF Stage, At
  <2> QED BY <1>2, <2>1, <2>2 DEF Stage, At, Ended, Setup, Active
<1> QED BY <1>2, <1>3, <1>4 DEF CycleStep, At, Ended, WorksOnBegun

LEMMA ReportStep ==
  ASSUME IInv, NEW c \in Clients, Report(c)
  PROVE  CycleStep(c)
<1>1. cycle[c] \in Work /\ At(c, {"report"}) /\ At(c, {"report", "load", "apply"}) /\ Stage(c)
  <2>1. Active(c) /\ At(c, {"report"}) /\ At(c, {"report", "load", "apply"})
    BY DEF Report, At, Active, Ended
  <2> QED BY <2>1, Working DEF IInv
<1>2. UNCHANGED <<projects, cases, gateKey, run, compared, clock, console>>
  BY DEF Report
<1>3. CASE End(c, "done")
  <2>1. "done" \in Ended
    BY DEF Ended
  <2>2. TypeOK'
    BY <1>1, <1>2, <1>3, <2>1, EndType DEF IInv, TypeOK
  <2> QED BY <1>1, <1>2, <1>3, <2>1, <2>2, EndStep
<1>4. CASE Goto(c, "load") /\ cycle[c].kind = "web"
  <2>1. /\ cycle' \in [Clients -> Idle \cup Over \cup Work] /\ cycle'[c] \in Work
        /\ \A d \in Clients \ {c} : cycle'[d] = cycle[d]
        /\ cycle'[c].step = "load"
        /\ cycle'[c].kind = cycle[c].kind /\ cycle'[c].org = cycle[c].org
        /\ cycle'[c].side = cycle[c].side /\ cycle'[c].version = cycle[c].version
        /\ cycle'[c].suite = cycle[c].suite /\ cycle'[c].config = cycle[c].config
    <3>1. "load" \in WorkSteps
      BY DEF WorkSteps
    <3> QED BY <1>1, <1>4, <3>1, GotoType, GotoFields DEF IInv
  <2>2. TypeOK'
    BY <1>2, <2>1 DEF IInv, TypeOK
  <2>3. Others(c) /\ RunStep(c) /\ CompareStep(c)
    BY <1>2, <2>1 DEF Others, RunStep, CompareStep
  <2>4. Stage(c)'
    BY <1>1, <1>2, <1>4, <2>1 DEF Stage, At, Ended, Setup, Active, Sides, Side
  <2>5. WorksOnBegun(c)'
    <3>1. WorksOnBegun(c) /\ \A p : Begun(p) => Begun(p)'
      BY <2>1, BegunKept DEF IInv, ProjectsBegun
    <3> QED BY <1>1, <2>1, <3>1 DEF WorksOnBegun
  <2> QED BY <1>2, <2>1, <2>2, <2>3, <2>4, <2>5 DEF CycleStep, At
<1> QED BY <1>3, <1>4 DEF Report

LEMMA LoadStep ==
  ASSUME IInv, NEW c \in Clients, Load(c)
  PROVE  CycleStep(c)
<1>1. cycle[c] \in Work /\ At(c, {"load"}) /\ At(c, {"report", "load", "apply"}) /\ Stage(c)
  <2>1. Active(c) /\ At(c, {"load"}) /\ At(c, {"report", "load", "apply"})
    BY DEF Load, At, Active, Ended
  <2> QED BY <2>1, Working DEF IInv
<1>2. UNCHANGED <<projects, cases, gateKey, run, compared, clock, console>>
  BY DEF Load
<1>3. CASE Latest(cycle[c].org) = None
  <2>1. "failed" \in Ended /\ End(c, "failed")
    BY <1>3 DEF Ended, Load
  <2>2. TypeOK'
    BY <1>1, <1>2, <2>1, EndType DEF IInv, TypeOK
  <2> QED BY <1>1, <1>2, <2>1, <2>2, EndStep
<1>4. CASE Latest(cycle[c].org) # None
  <2> DEFINE latest == Latest(cycle[c].org)
  <2>1. latest \in Stored /\ latest \in Clients /\ latest \in All
    BY <1>4, LatestType DEF Stored, All
  <2>2. Begun(latest)
    BY <2>1 DEF Begun, Stored, IInv, Stage, At, Ended
  <2> HIDE DEF latest
  <2>3. cycle' = [cycle EXCEPT ![c] = [@ EXCEPT !.step = "apply", !.suite = latest]]
    BY <1>4 DEF Load, latest
  <2>4. /\ cycle'[c] = [cycle[c] EXCEPT !.step = "apply", !.suite = latest]
        /\ \A d \in Clients \ {c} : cycle'[d] = cycle[d]
    BY <2>3 DEF IInv, TypeOK
  <2>5. /\ cycle'[c] \in Work
        /\ cycle'[c].step = "apply"
        /\ cycle'[c].kind = cycle[c].kind /\ cycle'[c].org = cycle[c].org
        /\ cycle'[c].side = cycle[c].side /\ cycle'[c].version = cycle[c].version
        /\ cycle'[c].suite = latest /\ cycle'[c].config = cycle[c].config
    BY <1>1, <2>1, <2>4 DEF Work, WorkSteps
  <2>6. TypeOK'
    BY <1>2, <2>3, <2>5 DEF IInv, TypeOK
  <2>7. Others(c) /\ RunStep(c) /\ CompareStep(c)
    BY <1>2, <2>4 DEF Others, RunStep, CompareStep
  <2>8. Stage(c)'
    BY <1>1, <1>2, <2>5 DEF Stage, At, Ended, Setup, Active, Sides, Side
  <2>9. WorksOnBegun(c)'
    <3>1. WorksOnBegun(c) /\ \A p : Begun(p) => Begun(p)'
      BY <2>4, <2>5, BegunKept DEF IInv, ProjectsBegun
    <3> QED BY <1>1, <2>2, <2>5, <3>1 DEF WorksOnBegun
  <2> QED BY <1>1, <1>2, <2>5, <2>6, <2>7, <2>8, <2>9 DEF CycleStep, At
<1> QED BY <1>3, <1>4

LEMMA ApplyStep ==
  ASSUME IInv, NEW c \in Clients, Apply(c)
  PROVE  CycleStep(c)
<1>1. cycle[c] \in Work /\ At(c, {"apply"}) /\ At(c, {"report", "load", "apply"})
  <2>1. Active(c) /\ At(c, {"apply"}) /\ At(c, {"report", "load", "apply"})
    BY DEF Apply, At, Active, Ended
  <2> QED BY <2>1, Working DEF IInv
<1>2. "done" \in Ended /\ cycle[c].suite \in Clients
  BY <1>1 DEF Ended, IInv, ConsoleInv, Stored
<1>3. console' \in [shown : Clients \cup {None}, refresh : {"idle", "asked", "answered"},
                    got : Clients \cup {None, "demo"}, floor : Nat]
  BY <1>2 DEF Apply, IInv, TypeOK
<1>4. TypeOK'
  BY <1>1, <1>2, <1>3, EndType DEF Apply, IInv, TypeOK
<1> QED BY <1>1, <1>2, <1>4, EndStep DEF Apply
-----------------------------------------------------------------------------
(* What a step of one client does to the others' records                   *)

\* Whose organisation is known keeps it.
LEMMA OrgKept ==
  ASSUME IInv, NEW c \in Clients, CycleStep(c)
  PROVE  \A p \in All : Begun(p) => Begun(p)' /\ OrgOfProject(p)' = OrgOfProject(p)
<1>1. \A p : Begun(p) => Begun(p)'
  BY BegunKept DEF CycleStep, Others, At
<1>2. ASSUME NEW p \in All, Begun(p) PROVE OrgOfProject(p)' = OrgOfProject(p)
  <2>1. CASE p \in Projects
    BY <2>1 DEF OrgOfProject
  <2>2. CASE p \notin Projects /\ p \in Clients
    BY <1>2, <2>2 DEF OrgOfProject, Begun, CycleStep, Others
  <2> QED BY <2>1, <2>2 DEF All
<1> QED BY <1>1, <1>2

LEMMA StagesKept ==
  ASSUME IInv, NEW c \in Clients, CycleStep(c)
  PROVE  (\A d \in Clients : Stage(d))'
<1> SUFFICES ASSUME NEW d \in Clients PROVE Stage(d)'
  OBVIOUS
<1>1. CASE d = c
  BY <1>1 DEF CycleStep
<1>2. CASE d # c
  <2>1. Stage(d)
    BY DEF IInv
  <2>2. /\ cycle'[d] = cycle[d] /\ run'[d] = run[d] /\ compared'[d] = compared[d]
        /\ gateKey' = d => gateKey = d
    BY <1>2 DEF CycleStep, Others
  <2> QED BY <2>1, <2>2 DEF Stage, At, Active, Side
<1> QED BY <1>1, <1>2

LEMMA ProjectsKept ==
  ASSUME IInv, NEW c \in Clients, CycleStep(c)
  PROVE  ProjectsBegun'
<1>1. \A p \in All : Begun(p) => Begun(p)'
  BY OrgKept
<1>2. (\A p \in projects : Begun(p))'
  <2>1. Begun(c)'
    BY DEF Begun, CycleStep
  <2> QED BY <1>1, <2>1 DEF CycleStep, IInv, ProjectsBegun, TypeOK
<1>3. (\A d \in Clients : WorksOnBegun(d))'
  <2> SUFFICES ASSUME NEW d \in Clients PROVE WorksOnBegun(d)'
    OBVIOUS
  <2>1. CASE d = c
    BY <2>1 DEF CycleStep
  <2>2. CASE d # c
    BY <1>1, <2>2 DEF CycleStep, Others, WorksOnBegun, IInv, ProjectsBegun, Work
  <2> QED BY <2>1, <2>2
<1> QED BY <1>2, <1>3 DEF ProjectsBegun

LEMMA RunsKept ==
  ASSUME IInv, NEW c \in Clients, CycleStep(c)
  PROVE  RunsAgree'
<1> SUFFICES ASSUME NEW d \in Clients, NEW s \in Sides, run'[d][s] \in EvalRun
             PROVE  /\ run'[d][s].app = run'[d][s].suite
                    /\ Begun(run[d][s].suite)' /\ Begun(run[d][s].config)'
                    /\ OrgOfProject(run[d][s].suite)' = run'[d][s].org
                    /\ OrgOfProject(run[d][s].config)' = run'[d][s].org
  BY DEF RunsAgree
<1>1. \A p \in All : Begun(p) => Begun(p)' /\ OrgOfProject(p)' = OrgOfProject(p)
  BY OrgKept
<1>2. run[d][s] \in EvalRun =>
        /\ run[d][s].app = run[d][s].suite
        /\ Begun(run[d][s].suite) /\ Begun(run[d][s].config)
        /\ OrgOfProject(run[d][s].suite) = run[d][s].org
        /\ OrgOfProject(run[d][s].config) = run[d][s].org
  BY DEF IInv, RunsAgree
<1>3. CASE run'[d][s] = run[d][s]
  BY <1>1, <1>2, <1>3 DEF EvalRun
<1>4. CASE d = c /\ run[c][s].status \in {"uncommitted", "running"}
                 /\ run'[c][s] \in {[run[c][s] EXCEPT !.status = "finished"], [status |-> "none"]}
  <2>1. run'[c][s] = [run[c][s] EXCEPT !.status = "finished"]
    BY <1>4 DEF EvalRun
  <2>2. run[c][s] \in EvalRun
    BY <1>4 DEF IInv, TypeOK, NoRun
  <2>3. /\ run'[c][s].suite = run[c][s].suite /\ run'[c][s].config = run[c][s].config
        /\ run'[c][s].app = run[c][s].app /\ run'[c][s].org = run[c][s].org
        /\ run[c][s].suite \in All /\ run[c][s].config \in All
    BY <2>1, <2>2 DEF EvalRun
  <2> QED BY <1>1, <1>2, <1>4, <2>2, <2>3
<1>5. ASSUME d = c, cycle[c] \in Work, s = Side(c), Runnable(c), cycle[c].kind # "api",
             NEW status \in {"uncommitted", "running", "failed"}, run'[c][s] = NewRun(c, status)
      PROVE  /\ run'[d][s].app = run'[d][s].suite
             /\ Begun(run[d][s].suite)' /\ Begun(run[d][s].config)'
             /\ OrgOfProject(run[d][s].suite)' = run'[d][s].org
             /\ OrgOfProject(run[d][s].config)' = run'[d][s].org
  <2>1. /\ run'[c][s].suite = cycle[c].suite /\ run'[c][s].config = cycle[c].config
        /\ run'[c][s].app = cycle[c].version[Side(c)] /\ run'[c][s].org = cycle[c].org
        /\ cycle[c].suite \in All /\ cycle[c].config \in All
    BY <1>5 DEF NewRun, Work
  <2>2. Begun(cycle[c].suite) /\ Begun(cycle[c].config)
    BY <1>5 DEF IInv, ProjectsBegun, WorksOnBegun
  <2>3. /\ cycle[c].version[Side(c)] = cycle[c].suite
        /\ OrgOfProject(cycle[c].suite) = cycle[c].org /\ OrgOfProject(cycle[c].config) = cycle[c].org
    BY <1>5 DEF Runnable
  <2> QED BY <1>1, <1>5, <2>1, <2>2, <2>3
<1>6. CASE d = c
  BY <1>3, <1>4, <1>5, <1>6 DEF CycleStep, RunStep
<1>7. CASE d # c
  BY <1>3, <1>7 DEF CycleStep, Others
<1> QED BY <1>6, <1>7

\* A finished run is never touched again.
LEMMA FinishedKept ==
  ASSUME IInv, NEW c \in Clients, CycleStep(c), NEW key \in Clients \X Sides,
         RunAt(key).status = "finished"
  PROVE  RunAt(key)' = RunAt(key)
<1>1. PICK d \in Clients, s \in Sides : key = <<d, s>>
  OBVIOUS
<1>2. run[d][s].status = "finished"
  BY <1>1 DEF RunAt
<1>3. run'[d][s] = run[d][s]
  <2>1. CASE d = c
    BY <1>2, <2>1 DEF CycleStep, RunStep
  <2>2. CASE d # c
    BY <2>2 DEF CycleStep, Others
  <2> QED BY <2>1, <2>2
<1> QED BY <1>1, <1>3 DEF RunAt

LEMMA ComparedKept ==
  ASSUME IInv, NEW c \in Clients, CycleStep(c)
  PROVE  ComparedRuns'
<1> DEFINE Of(m) == ComparableRuns(RunAt(m.runs["baseline"]), RunAt(m.runs["candidate"]), m.org)
<1>1. clock \in Nat \ {0} /\ clock' \in {clock, clock + 1}
  BY DEF CycleStep, IInv, TypeOK
<1>2. ASSUME NEW m, m.runs \in [Sides -> Clients \X Sides], Of(m)
      PROVE  Of(m)'
  <2>1. m.runs["baseline"] \in Clients \X Sides /\ m.runs["candidate"] \in Clients \X Sides
    BY <1>2 DEF Sides
  <2>2. /\ RunAt(m.runs["baseline"])' = RunAt(m.runs["baseline"])
        /\ RunAt(m.runs["candidate"])' = RunAt(m.runs["candidate"])
    BY <1>2, <2>1, FinishedKept DEF ComparableRuns
  <2> QED BY <1>2, <2>2
<1> HIDE DEF Of
<1>3. ASSUME NEW d \in Clients, compared[d] \in Comparison
      PROVE  Of(compared[d]) /\ compared[d].created \in 1 .. clock - 1
             /\ compared[d].runs \in [Sides -> Clients \X Sides]
  BY <1>3 DEF IInv, ComparedRuns, Of, Comparison
<1>4. ASSUME NEW d \in Clients, compared'[d] \in Comparison
      PROVE  \E m : m = compared'[d] /\ Of(m)' /\ m.created \in 1 .. clock' - 1
  <2>1. CASE compared'[d] = compared[d]
    BY <1>1, <1>2, <1>3, <1>4, <2>1
  <2>2. CASE d = c /\ compared[c].state = "flushed" /\ compared'[c] = [state |-> "none"]
    BY <1>4, <2>2 DEF Comparison
  <2>3. CASE d = c /\ compared[c].state = "flushed"
                   /\ compared'[c] = [compared[c] EXCEPT !.state = "stored"]
    <3>1. compared[c] \in Comparison
      BY <2>3 DEF IInv, TypeOK, NoComparison
    <3>2. PICK m : m = compared[c] /\ Of(m)' /\ m.created \in 1 .. clock - 1
      BY <1>2, <1>3, <3>1
    <3>3. PICK n : n = compared'[c]
      OBVIOUS
    <3>4. /\ n.runs = m.runs /\ n.org = m.org /\ n.created = m.created
      BY <2>3, <3>1, <3>2, <3>3 DEF Comparison
    <3>5. Of(n)'
      BY <3>2, <3>4 DEF Of
    <3>6. n.created \in 1 .. clock' - 1
      BY <1>1, <3>2, <3>4
    <3> QED BY <2>3, <3>3, <3>5, <3>6
  <2>4. CASE /\ d = c /\ clock' = clock + 1 /\ run' = run
             /\ compared'[c] = [state |-> "flushed", runs |-> Compares(c), org |-> cycle[c].org,
                                created |-> clock]
             /\ ComparableRuns(RunAt(Compares(c)["baseline"]), RunAt(Compares(c)["candidate"]),
                               cycle[c].org)
    <3>1. PICK n : n = compared'[c]
      OBVIOUS
    <3>2. Of(n) /\ n.created = clock
      BY <2>4, <3>1 DEF Of
    <3>3. Of(n)'
      BY <2>4, <3>2 DEF Of, RunAt
    <3> QED BY <1>1, <2>4, <3>1, <3>2, <3>3
  <2>5. CASE d # c
    BY <2>1, <2>5 DEF CycleStep, Others
  <2> QED BY <2>1, <2>2, <2>3, <2>4, <2>5 DEF CycleStep, CompareStep
<1> QED BY <1>4 DEF ComparedRuns, Of

\* A stored comparison stays as it is.
LEMMA StoredKept ==
  ASSUME IInv, NEW c \in Clients, CycleStep(c), NEW d \in Stored
  PROVE  d \in Stored' /\ d \in Clients /\ compared'[d] = compared[d]
<1>1. d \in Clients /\ compared[d].state = "stored"
  BY DEF Stored
<1>2. compared'[d] = compared[d]
  <2>1. CASE d = c
    BY <1>1, <2>1 DEF CycleStep, CompareStep
  <2>2. CASE d # c
    BY <1>1, <2>2 DEF CycleStep, Others
  <2> QED BY <2>1, <2>2
<1> QED BY <1>1, <1>2 DEF Stored
-----------------------------------------------------------------------------
(* The console                                                             *)

\* Whoever's console it is keeps it.
LEMMA WebKept ==
  ASSUME IInv, NEW c \in Clients, CycleStep(c), ~ At(c, {"idle"})
  PROVE  /\ Web' = Web
         /\ \A w \in Web : cycle'[w].org = cycle[w].org
<1>1. \A w \in Clients : ~ At(w, {"idle"}) =>
        ~ At(w, {"idle"})' /\ cycle'[w].kind = cycle[w].kind /\ cycle'[w].org = cycle[w].org
  BY DEF CycleStep, Others, At
<1>2. \A w \in Clients : At(w, {"idle"}) => At(w, {"idle"})'
  BY DEF CycleStep, Others, At
<1> QED BY <1>1, <1>2 DEF Web

LEMMA OfConsoleKept ==
  ASSUME IInv, NEW c \in Clients, CycleStep(c)
  PROVE  \A d \in Clients : OfConsole(d) => OfConsole(d)' /\ compared'[d] = compared[d]
<1> SUFFICES ASSUME NEW d \in Clients, OfConsole(d)
             PROVE  OfConsole(d)' /\ compared'[d] = compared[d]
  OBVIOUS
<1>1. d \in Stored /\ d \in Stored' /\ compared'[d] = compared[d]
  BY StoredKept DEF OfConsole
<1>2. PICK w \in Web : compared[d].org = cycle[w].org
  BY DEF OfConsole
<1>3. w \in Web' /\ cycle'[w].org = cycle[w].org
  BY DEF Web, CycleStep, Others, At
<1> QED BY <1>1, <1>2, <1>3 DEF OfConsole

\* The steps of one client that leave the console alone.
LEMMA ConsoleKept ==
  ASSUME IInv, NEW c \in Clients, CycleStep(c), console' = console,
         ~ At(c, {"idle"}) \/ (cycle'[c].kind = "web" => Web = {}),
         At(c, {"apply"})' => cycle'[c] = cycle[c]
  PROVE  ConsoleInv'
<1>1. \A d \in Clients : OfConsole(d) => OfConsole(d)' /\ compared'[d] = compared[d]
  BY OfConsoleKept
<1>2. (\A v, w \in Web : v = w)'
  <2>1. CASE ~ At(c, {"idle"})
    BY <2>1, WebKept DEF IInv, ConsoleInv
  <2>2. CASE At(c, {"idle"}) /\ (cycle'[c].kind = "web" => Web = {})
    <3>1. Web' \subseteq Web \cup {c} /\ (c \in Web' => Web = {})
      BY <2>2 DEF Web, CycleStep, Others, At
    <3> QED BY <3>1 DEF IInv, ConsoleInv
  <2> QED BY <2>1, <2>2
<1>3. (console.shown \in Clients => OfConsole(console.shown))'
  BY <1>1 DEF IInv, ConsoleInv
<1>4. (console.floor > 0 => \E d \in Clients : OfConsole(d) /\ compared[d].created = console.floor)'
  BY <1>1 DEF IInv, ConsoleInv
<1>5. (console.refresh = "answered" /\ console.got \in Clients =>
         OfConsole(console.got) /\ compared[console.got].created >= console.floor)'
  BY <1>1 DEF IInv, ConsoleInv
<1>6. ASSUME NEW d \in Clients, At(d, {"apply"})'
      PROVE  (/\ cycle[d].suite \in Stored /\ compared[cycle[d].suite].org = cycle[d].org
              /\ compared[cycle[d].suite].created >= compared[d].created)'
  <2>1. cycle'[d] = cycle[d] /\ At(d, {"apply"})
    BY <1>6 DEF CycleStep, Others, At
  <2>2. /\ cycle[d].suite \in Stored /\ compared[cycle[d].suite].org = cycle[d].org
        /\ compared[cycle[d].suite].created >= compared[d].created /\ d \in Stored
    BY <2>1 DEF IInv, ConsoleInv, Stage, Stored, At
  <2> QED BY <2>1, <2>2, StoredKept
<1> QED BY <1>2, <1>3, <1>4, <1>5, <1>6 DEF ConsoleInv

\* "Evaluation complete" is preceded by a load that finds the comparison just made, or
\* a newer one.
LEMMA LoadConsole ==
  ASSUME IInv, NEW c \in Clients, Load(c)
  PROVE  ConsoleInv'
<1>1. CycleStep(c) /\ At(c, {"load"}) /\ console' = console /\ compared' = compared
  BY LoadStep DEF Load
<1>2. ~ At(c, {"idle"}) /\ c \in Stored /\ compared[c].org = cycle[c].org /\ cycle[c] \in Work
  <2>1. cycle[c] \in Work
    BY <1>1, Working DEF IInv, WorkSteps
  <2> QED BY <1>1, <2>1 DEF IInv, Stage, At, Stored
<1>3. CASE ~ At(c, {"apply"})'
  BY <1>1, <1>2, <1>3, ConsoleKept
<1>4. CASE At(c, {"apply"})'
  <2> DEFINE latest == Latest(cycle[c].org)
  <2>1. /\ latest \in Stored /\ latest # None /\ compared[latest].org = cycle[c].org
        /\ compared[c].created <= compared[latest].created
    BY <1>2, LatestIsNewest
  <2>2. compared[c].created \in Nat /\ compared[latest].created \in Nat
    BY <1>2, <2>1 DEF Stored, IInv, TypeOK, NoComparison, Comparison
  <2> HIDE DEF latest
  <2>3. cycle'[c] = [cycle[c] EXCEPT !.step = "apply", !.suite = latest]
    BY <2>1 DEF Load, IInv, TypeOK, latest
  <2>4. cycle'[c].suite = latest /\ cycle'[c].org = cycle[c].org
    BY <1>2, <2>3 DEF Work
  <2>5. \A d \in Clients : OfConsole(d) => OfConsole(d)' /\ compared'[d] = compared[d]
    BY <1>1, OfConsoleKept
  <2>6. (\A v, w \in Web : v = w)'
    BY <1>1, <1>2, WebKept DEF IInv, ConsoleInv
  <2>7. (/\ console.shown \in Clients => OfConsole(console.shown)
         /\ console.floor > 0 => \E d \in Clients : OfConsole(d) /\ compared[d].created = console.floor
         /\ console.refresh = "answered" /\ console.got \in Clients =>
              OfConsole(console.got) /\ compared[console.got].created >= console.floor)'
    BY <1>1, <2>5 DEF IInv, ConsoleInv
  <2>8. ASSUME NEW d \in Clients, At(d, {"apply"})'
        PROVE  (/\ cycle[d].suite \in Stored /\ compared[cycle[d].suite].org = cycle[d].org
                /\ compared[cycle[d].suite].created >= compared[d].created)'
    <3>1. CASE d = c
      BY <1>1, <2>1, <2>2, <2>4, <3>1 DEF Stored
    <3>2. CASE d # c
      <4>1. cycle'[d] = cycle[d] /\ At(d, {"apply"})
        BY <1>1, <2>8, <3>2 DEF CycleStep, Others, At
      <4> QED BY <1>1, <4>1 DEF IInv, ConsoleInv, Stored
    <3> QED BY <3>1, <3>2
  <2> QED BY <2>6, <2>7, <2>8 DEF ConsoleInv
<1> QED BY <1>3, <1>4

LEMMA ApplyConsole ==
  ASSUME IInv, NEW c \in Clients, Apply(c)
  PROVE  ConsoleInv'
<1>1. CycleStep(c) /\ At(c, {"apply"}) /\ compared' = compared
  BY ApplyStep DEF Apply
<1>2. /\ ~ At(c, {"idle"}) /\ c \in Web
      /\ cycle[c].suite \in Stored /\ compared[cycle[c].suite].org = cycle[c].org
  BY <1>1 DEF IInv, ConsoleInv, Stage, At, Web
<1>3. /\ console'.shown = cycle[c].suite /\ console'.refresh = console.refresh
      /\ console'.got = console.got /\ console'.floor = console.floor
  BY DEF Apply, IInv, TypeOK
<1>4. \A d \in Clients : OfConsole(d) => OfConsole(d)' /\ compared'[d] = compared[d]
  BY <1>1, OfConsoleKept
<1>5. OfConsole(cycle[c].suite) /\ cycle[c].suite \in Clients
  BY <1>2 DEF OfConsole, Stored
<1>6. (\A v, w \in Web : v = w)'
  BY <1>1, <1>2, WebKept DEF IInv, ConsoleInv
<1>7. (console.shown \in Clients => OfConsole(console.shown))'
  BY <1>3, <1>4, <1>5
<1>8. (console.floor > 0 => \E d \in Clients : OfConsole(d) /\ compared[d].created = console.floor)'
  BY <1>3, <1>4 DEF IInv, ConsoleInv
<1>9. (console.refresh = "answered" /\ console.got \in Clients =>
         OfConsole(console.got) /\ compared[console.got].created >= console.floor)'
  BY <1>3, <1>4 DEF IInv, ConsoleInv
<1>10. ASSUME NEW d \in Clients, At(d, {"apply"})'
       PROVE  (/\ cycle[d].suite \in Stored /\ compared[cycle[d].suite].org = cycle[d].org
               /\ compared[cycle[d].suite].created >= compared[d].created)'
  <2>1. d # c
    BY <1>10 DEF Apply, End, At, IInv, TypeOK
  <2>2. cycle'[d] = cycle[d] /\ At(d, {"apply"})
    BY <1>1, <1>10, <2>1 DEF CycleStep, Others, At
  <2> QED BY <1>1, <2>2 DEF IInv, ConsoleInv, Stored
<1> QED BY <1>6, <1>7, <1>8, <1>9, <1>10 DEF ConsoleInv

\* The refresh asked while something is shown is answered with something as new.
LEMMA RefreshConsole ==
  ASSUME IInv, AskRefresh \/ AnswerRefresh \/ ApplyRefresh
  PROVE  TypeOK' /\ ConsoleInv'
<1>1. UNCHANGED <<cycle, projects, cases, gateKey, run, compared, clock>>
  BY DEF AskRefresh, AnswerRefresh, ApplyRefresh
<1>2. /\ Web' = Web /\ Stored' = Stored
      /\ \A d : OfConsole(d)' <=> OfConsole(d)
      /\ \A d \in Clients : At(d, {"apply"})' <=> At(d, {"apply"})
  BY <1>1 DEF Web, Stored, OfConsole, At
<1>3. SUFFICES /\ console' \in [shown : Clients \cup {None}, refresh : {"idle", "asked", "answered"},
                                got : Clients \cup {None, "demo"}, floor : Nat]
               /\ console'.shown \in Clients => OfConsole(console'.shown)
               /\ console'.floor > 0 =>
                    \E d \in Clients : OfConsole(d) /\ compared[d].created = console'.floor
               /\ console'.refresh = "answered" /\ console'.got \in Clients =>
                    OfConsole(console'.got) /\ compared[console'.got].created >= console'.floor
  BY <1>1, <1>2 DEF IInv, TypeOK, ConsoleInv
<1>4. \A d \in Clients : OfConsole(d) => compared[d].created \in Nat \ {0}
  BY DEF OfConsole, Stored, IInv, TypeOK, ComparedRuns, NoComparison, Comparison
<1>5. CASE AskRefresh
  <2>1. console' = [console EXCEPT !.refresh = "asked", !.floor = Created(console.shown)]
    BY <1>5 DEF AskRefresh
  <2>2. Created(console.shown) \in Nat /\ console.shown \in Clients \cup {None}
    BY <1>4 DEF Created, IInv, TypeOK, ConsoleInv
  <2>3. /\ console'.shown = console.shown /\ console'.refresh = "asked"
        /\ console'.floor = Created(console.shown)
    BY <2>1 DEF IInv, TypeOK
  <2>4. console'.floor > 0 =>
          \E d \in Clients : OfConsole(d) /\ compared[d].created = console'.floor
    BY <2>2, <2>3 DEF Created, IInv, ConsoleInv
  <2> QED BY <2>1, <2>2, <2>3, <2>4 DEF IInv, TypeOK, ConsoleInv
<1>6. CASE AnswerRefresh
  <2>0. PICK w \in Web : \E got \in {Latest(cycle[w].org), "demo", None} :
          console' = [console EXCEPT !.refresh = "answered", !.got = got]
    BY <1>6 DEF AnswerRefresh
  <2>1. PICK got \in {Latest(cycle[w].org), "demo", None} :
          console' = [console EXCEPT !.refresh = "answered", !.got = got]
    BY <2>0
  <2>2. got \in Clients \cup {None, "demo"}
    BY <2>1, LatestType DEF Stored
  <2>3. /\ console'.shown = console.shown /\ console'.refresh = "answered"
        /\ console'.floor = console.floor /\ console'.got = got
    BY <2>1 DEF IInv, TypeOK
  <2>4. ASSUME got \in Clients
        PROVE  OfConsole(got) /\ compared[got].created >= console.floor
    <3>1. got = Latest(cycle[w].org) /\ Latest(cycle[w].org) # None
      BY <2>1, <2>4, EvalCycleAssumption
    <3>2. got \in Stored /\ compared[got].org = cycle[w].org
      BY <3>1, LatestType
    <3>3. OfConsole(got) /\ compared[got].created \in Nat
      BY <1>4, <2>0, <2>4, <3>2 DEF OfConsole
    <3>4. CASE console.floor = 0
      BY <3>3, <3>4
    <3>5. CASE console.floor > 0
      <4>1. PICK d \in Clients : OfConsole(d) /\ compared[d].created = console.floor
        BY <3>5 DEF IInv, ConsoleInv
      <4>2. d \in Stored /\ compared[d].org = cycle[w].org
        BY <2>0, <4>1 DEF OfConsole, IInv, ConsoleInv
      <4>3. compared[d].created <= compared[got].created /\ compared[d].created \in Nat
        BY <1>4, <3>1, <4>1, <4>2, LatestIsNewest
      <4> QED BY <3>3, <4>1, <4>3
    <3>6. console.floor \in Nat
      BY DEF IInv, TypeOK
    <3> QED BY <3>3, <3>4, <3>5, <3>6
  <2> QED BY <2>1, <2>2, <2>3, <2>4 DEF IInv, TypeOK, ConsoleInv
<1>7. CASE ApplyRefresh
  <2>1. console' = [shown |-> CASE console.got = None -> console.shown
                                [] console.got = "demo" -> None
                                [] OTHER -> console.got,
                    refresh |-> "idle", got |-> None, floor |-> 0]
    BY <1>7 DEF ApplyRefresh
  <2>2. /\ console'.refresh = "idle" /\ console'.floor = 0 /\ console'.got = None
        /\ console'.shown \in {console.shown, None, console.got}
        /\ console'.shown = "demo" => console'.shown \in {console.shown, None}
    BY <2>1
  <2>3. console'.shown \in Clients \cup {None}
    BY <2>2 DEF IInv, TypeOK
  <2>4. console'.shown \in Clients => OfConsole(console'.shown)
    BY <1>7, <2>2, EvalCycleAssumption DEF IInv, ConsoleInv, ApplyRefresh
  <2> QED BY <2>1, <2>2, <2>3, <2>4
<1> QED BY <1>3, <1>5, <1>6, <1>7
-----------------------------------------------------------------------------
(* The theorems                                                            *)

\* A step of one client keeps the invariant but for the console.
LEMMA CycleStepKeeps ==
  ASSUME IInv, NEW c \in Clients, CycleStep(c), ConsoleInv'
  PROVE  IInv'
<1>1. TypeOK'
  BY DEF CycleStep
<1> QED BY <1>1, StagesKept, ProjectsKept, RunsKept, ComparedKept DEF IInv

\* Everything a client or a worker does but the load and its outcome leaves the console
\* alone.
Plain(c) ==
  \/ LookUp(c) \/ FindGateRule(c) \/ InsertGateRule(c) \/ SeedFlush(c) \/ SeedCommit(c)
  \/ Register(c) \/ Reject(c) \/ Dispatch(c) \/ Execute(c) \/ ExecuteCommit(c)
  \/ Poll(c) \/ GiveUp(c) \/ Compare(c) \/ CommitComparison(c) \/ Report(c) \/ Pick(c)

LEMMA PlainStep ==
  ASSUME IInv, NEW c \in Clients, Plain(c)
  PROVE  CycleStep(c) /\ console' = console /\ ~ At(c, {"idle", "load", "apply"})
<1>1. CycleStep(c)
  BY LookUpStep, SetupStep, RejectStep, DispatchStep, ExecuteStep, ExecuteCommitStep,
     WaitStep, CompareStepHolds, CommitComparisonStep, ReportStep, PickStep DEF Plain
<1>2. console' = console
  BY DEF Plain, LookUp, FindGateRule, InsertGateRule, SeedFlush, InsertKey, SeedCommit, Register,
     Reject, Dispatch, Execute, ExecuteCommit, Poll, GiveUp, Compare, CommitComparison, Report, Pick
<1>3. ~ At(c, {"idle", "load", "apply"})
  BY DEF Plain, LookUp, FindGateRule, InsertGateRule, SeedFlush, SeedCommit, Register,
     Reject, Dispatch, Execute, ExecuteCommit, Poll, GiveUp, Compare, CommitComparison, Report,
     Pick, At
<1> QED BY <1>1, <1>2, <1>3

LEMMA InitHolds == Init => IInv
<1> SUFFICES ASSUME Init PROVE IInv
  OBVIOUS
<1>1. TypeOK
  BY EvalCycleAssumption DEF Init, TypeOK, Idle, NoRun, NoComparison, All
<1>2. \A c \in Clients : Stage(c)
  <2> SUFFICES ASSUME NEW c \in Clients PROVE Stage(c)
    OBVIOUS
  <2>1. cycle[c] = [step |-> "idle"] /\ compared[c] = [state |-> "none"] /\ gateKey # c
    BY EvalCycleAssumption DEF Init
  <2>2. \A s \in Sides : run[c][s].status = "none"
    BY DEF Init
  <2>3. cycle[c].step = "idle" /\ cycle[c] \notin Work /\ compared[c].state = "none"
    BY <2>1 DEF Work, WorkSteps
  <2> QED BY <2>1, <2>2, <2>3 DEF Stage, At, Active, Ended, Setup
<1>3. ProjectsBegun
  BY EvalCycleAssumption DEF Init, ProjectsBegun, Begun, WorksOnBegun, Work
<1>4. RunsAgree /\ ComparedRuns
  BY DEF Init, RunsAgree, ComparedRuns, EvalRun, Comparison
<1>5. ConsoleInv
  BY EvalCycleAssumption DEF Init, ConsoleInv, Web, At
<1> QED BY <1>1, <1>2, <1>3, <1>4, <1>5 DEF IInv

LEMMA NextHolds == IInv /\ [Next]_vars => IInv'
<1> SUFFICES ASSUME IInv, [Next]_vars PROVE IInv'
  OBVIOUS
<1>1. ASSUME NEW c \in Clients, Begin(c) PROVE IInv'
  <2>1. CycleStep(c) /\ console' = console /\ At(c, {"idle"})
    BY <1>1, BeginStep DEF Begin
  <2>0. At(c, {"apply"})' => cycle'[c] = cycle[c]
    BY <2>1 DEF CycleStep, At
  <2>2. cycle'[c].kind = "web" => Web = {}
    BY <1>1 DEF Begin, IInv, TypeOK
  <2> QED BY <2>0, <2>1, <2>2, ConsoleKept, CycleStepKeeps
<1>2. ASSUME NEW c \in Clients, CycleStep(c), console' = console, ~ At(c, {"idle"}),
             At(c, {"apply"})' => cycle'[c] = cycle[c]
      PROVE  IInv'
  BY <1>2, ConsoleKept, CycleStepKeeps
<1>3. ASSUME NEW c \in Clients, Plain(c) PROVE IInv'
  <2>1. CycleStep(c) /\ console' = console /\ ~ At(c, {"idle", "load", "apply"})
    BY <1>3, PlainStep
  <2>2. ~ At(c, {"idle"}) /\ (At(c, {"apply"})' => cycle'[c] = cycle[c])
    BY <2>1 DEF CycleStep, At
  <2> QED BY <1>2, <2>1, <2>2
<1>10. ASSUME NEW c \in Clients, Die(c) PROVE IInv'
  <2>1. CycleStep(c) /\ console' = console /\ Fail(c) /\ ~ At(c, {"idle"}) /\ cycle[c] \in Work
    BY <1>10, DieStep, Working DEF Die, IInv, Active, At
  <2>2. cycle'[c] = [step |-> "failed", kind |-> cycle[c].kind, org |-> cycle[c].org]
    BY <2>1, FailType DEF IInv
  <2>3. ~ At(c, {"apply"})'
    BY <2>2 DEF At
  <2> QED BY <1>2, <2>1, <2>3
<1>4. ASSUME NEW c \in Clients, Load(c) PROVE IInv'
  BY <1>4, LoadStep, LoadConsole, CycleStepKeeps
<1>5. ASSUME NEW c \in Clients, Apply(c) PROVE IInv'
  BY <1>5, ApplyStep, ApplyConsole, CycleStepKeeps
<1>6. ASSUME NEW c \in Clients, NEW s \in Sides, Finish(c, s) PROVE IInv'
  <2>1. ~ At(c, {"idle"}) /\ console' = console /\ cycle' = cycle
    BY <1>6 DEF Finish, IInv, Stage
  <2> QED BY <1>2, <1>6, <2>1, FinishStep
<1>7. ASSUME NEW p \in All, Import(p) PROVE IInv'
  <2>1. UNCHANGED <<cycle, projects, gateKey, run, compared, clock, console>>
        /\ cases' \in [All -> Nat]
    BY <1>7 DEF Import, IInv, TypeOK
  <2> QED BY <2>1 DEF IInv, TypeOK, Stage, At, Active, Side, ProjectsBegun, Begun, WorksOnBegun,
             RunsAgree, OrgOfProject, ComparedRuns, RunAt, ConsoleInv, OfConsole, Stored, Web
<1>8. CASE AskRefresh \/ AnswerRefresh \/ ApplyRefresh
  <2>1. UNCHANGED <<cycle, projects, cases, gateKey, run, compared, clock>>
    BY <1>8 DEF AskRefresh, AnswerRefresh, ApplyRefresh
  <2>2. TypeOK' /\ ConsoleInv'
    BY <1>8, RefreshConsole
  <2> QED BY <2>1, <2>2 DEF IInv, Stage, At, Active, Side, ProjectsBegun, Begun, WorksOnBegun,
             RunsAgree, OrgOfProject, ComparedRuns, RunAt
<1>9. CASE UNCHANGED vars
  BY <1>9 DEF vars, IInv, TypeOK, Stage, At, Active, Side, ProjectsBegun, Begun, WorksOnBegun,
     RunsAgree, OrgOfProject, ComparedRuns, RunAt, ConsoleInv, OfConsole, Stored, Web
<1> QED BY <1>1, <1>3, <1>4, <1>5, <1>6, <1>7, <1>8, <1>9, <1>10 DEF Next, Step, Plain

LEMMA Invariance == Spec => []IInv
BY InitHolds, NextHolds, PTL DEF Spec

\* Whoever compares, and whatever is imported, abandoned or refused meanwhile, a stored
\* comparison is of two finished runs of one organisation, app, suite and configuration
\* over the same cases, and stays so.
THEOREM ComparisonsComparable == Spec => []ComparisonsAreComparable
<1>1. IInv => ComparisonsAreComparable
  <2> SUFFICES ASSUME IInv, NEW c \in Stored
               PROVE  LET b == RunAt(compared[c].runs["baseline"])
                          k == RunAt(compared[c].runs["candidate"])
                      IN  /\ b.status = "finished" /\ k.status = "finished"
                          /\ b.app = k.app /\ b.app = b.suite /\ k.suite = b.suite
                          /\ b.config = k.config /\ b.cases = k.cases
                          /\ OrgOfProject(b.suite) = compared[c].org
                          /\ OrgOfProject(b.config) = compared[c].org
    BY DEF ComparisonsAreComparable
  <2> DEFINE b == RunAt(compared[c].runs["baseline"])
             k == RunAt(compared[c].runs["candidate"])
  <2>1. c \in Clients /\ compared[c] \in Comparison
    BY DEF Stored, IInv, TypeOK, NoComparison
  <2>2. ComparableRuns(b, k, compared[c].org)
    BY <2>1 DEF IInv, ComparedRuns
  <2>3. PICK d \in Clients, s \in Sides : compared[c].runs["baseline"] = <<d, s>>
    BY <2>1 DEF Comparison, Sides
  <2>4. b = run[d][s] /\ run[d][s] \in EvalRun
    BY <2>2, <2>3 DEF RunAt, ComparableRuns, IInv, TypeOK, NoRun
  <2>5. b.app = b.suite /\ OrgOfProject(b.suite) = b.org /\ OrgOfProject(b.config) = b.org
    BY <2>4 DEF IInv, RunsAgree
  <2> HIDE DEF b, k
  <2> QED BY <2>2, <2>5 DEF ComparableRuns, b, k
<1> QED BY <1>1, Invariance, PTL

\* A cycle that reports success has stored its own comparison, and one that ended, in
\* whatever way, holds no key and leaves nothing half stored.
THEOREM OutcomesTrue == Spec => []OutcomesAreTrue
<1>1. IInv => OutcomesAreTrue
  BY DEF IInv, Stage, OutcomesAreTrue, Stored, At, Ended, Active
<1> QED BY <1>1, Invariance, PTL

\* "Evaluation complete" shows the comparison just made or a newer one, and a refresh,
\* however late it arrives, nothing older than what was shown when it was asked.
THEOREM SnapshotsCurrent == Spec => SnapshotsAreCurrent
<1> DEFINE Current ==
      /\ \A c \in Clients : At(c, {"apply"}) /\ cycle'[c].step = "done" =>
           Created(console'.shown) >= compared[c].created
      /\ console.refresh = "answered" /\ console'.refresh = "idle" =>
           console'.shown \in {None, console.shown} \/ Created(console'.shown) >= console.floor
<1>1. IInv /\ [Next]_vars => Current
  <2> SUFFICES ASSUME IInv, [Next]_vars PROVE Current
    OBVIOUS
  <2>1. ASSUME NEW c \in Clients, At(c, {"apply"}), cycle'[c].step = "done"
        PROVE  Created(console'.shown) >= compared[c].created
    <3>1. Apply(c)
      <4>1. cycle'[c] # cycle[c]
        BY <2>1 DEF At
      <4>2. ASSUME NEW d \in Clients, CycleStep(d) PROVE d = c
        BY <4>1, <4>2 DEF CycleStep, Others
      <4>3. ASSUME NEW d \in Clients, Plain(d) PROVE FALSE
        BY <2>1, <4>2, <4>3, PlainStep DEF At
      <4>4. ASSUME NEW d \in Clients, Begin(d) \/ Load(d) PROVE FALSE
        BY <2>1, <4>2, <4>4, BeginStep, LoadStep DEF Begin, Load, At
      <4>5. ASSUME NEW d \in Clients, Die(d) PROVE FALSE
        <5>1. d = c /\ Fail(c) /\ Active(c)
          BY <4>2, <4>5, DieStep DEF Die
        <5>2. cycle'[c] = [step |-> "failed", kind |-> cycle[c].kind, org |-> cycle[c].org]
          BY <5>1, FailType, Working DEF IInv
        <5> QED BY <2>1, <5>2
      <4>6. ASSUME NEW d \in Clients, Apply(d) PROVE Apply(c)
        BY <4>2, <4>6, ApplyStep
      <4>7. ~ UNCHANGED cycle
        BY <4>1
      <4> QED BY <4>3, <4>4, <4>5, <4>6, <4>7
              DEF Next, Step, Plain, vars, Finish, Import, AskRefresh, AnswerRefresh, ApplyRefresh
    <3>2. console'.shown = cycle[c].suite
      BY <3>1 DEF Apply, IInv, TypeOK
    <3> QED BY <2>1, <3>2 DEF Created, IInv, ConsoleInv, Stored
  <2>2. ASSUME console.refresh = "answered", console'.refresh = "idle"
        PROVE  console'.shown \in {None, console.shown} \/ Created(console'.shown) >= console.floor
    <3>1. ApplyRefresh
      <4>1. console'.refresh # console.refresh
        BY <2>2
      <4>2. ASSUME NEW c \in Clients, Plain(c) PROVE FALSE
        BY <4>1, <4>2, PlainStep
      <4>3. ASSUME NEW c \in Clients, Apply(c) PROVE FALSE
        BY <4>1, <4>3 DEF Apply, IInv, TypeOK
      <4>4. ~ UNCHANGED console
        BY <4>1
      <4>5. ~ AskRefresh /\ ~ AnswerRefresh
        BY <2>2 DEF AskRefresh, AnswerRefresh
      <4> QED BY <4>2, <4>3, <4>4, <4>5 DEF Next, Step, Plain, vars, Begin, Load, Die, Finish, Import
    <3>2. console'.shown \in {None, console.shown, console.got}
      BY <3>1 DEF ApplyRefresh
    <3>3. CASE console'.shown = console.got
      BY <2>2, <3>1, <3>3, EvalCycleAssumption DEF Created, IInv, ConsoleInv, ApplyRefresh, TypeOK
    <3> QED BY <3>2, <3>3
  <2> QED BY <2>1, <2>2
<1> QED BY <1>1, Invariance, PTL DEF Spec, SnapshotsAreCurrent
=============================================================================
