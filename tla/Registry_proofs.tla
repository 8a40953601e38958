--------------------------- MODULE Registry_proofs ---------------------------
(***************************************************************************)
(* Proofs about Registry, for any number of organisations, requests, rows  *)
(* and cases.                                                              *)
(***************************************************************************)
EXTENDS Registry, FiniteSetTheorems, TLAPS

\* What a request has established when it reaches a step.
FlowOf(s) ==
  /\ s.next >= 1
  /\ s.step = "parent" => s.target \in Ids /\ s.work.kind \notin OrgKinds
  /\ s.step \in {"name", "insert", "commit"} =>
       s.work.kind \in RowKinds /\ Found(s.work.kind, s.target, s.work.org)
  /\ s.step = "case" =>
       s.work.kind = "import" /\ s.target \in Ids /\ TenantSuite(s.target, s.work.org)

Flow == \A r \in Requests : ~ At(r, "idle") => FlowOf(req[r])

TypedFlow == TypeOK /\ Flow

LEMMA Served ==
  ASSUME TypeOK, NEW r \in Requests, ~ At(r, "idle")
  PROVE  req[r] \in Serving
BY DEF TypeOK, Idle, At

LEMMA WorkTyped ==
  ASSUME NEW w \in Work
  PROVE  /\ w.kind \in RowKinds \cup {"import"}
         /\ w.org \in Orgs
         /\ w.name \in Names
         /\ w.cases \in Seq([input : BOOLEAN, tags : SUBSET Tags])
BY RegistryAssumption

LEMMA ElementTyped ==
  ASSUME NEW S, NEW s \in Seq(S), NEW i \in 1 .. Len(s)
  PROVE  s[i] \in S
OBVIOUS

LEMMA RowTyped ==
  ASSUME TypeOK, NEW r \in Requests, ~ At(r, "idle"), req[r].work.kind \in RowKinds
  PROVE  NewRow(r) \in Row
<1>1. req[r] \in Serving
  BY Served
<1>2. req[r].work \in Work /\ req[r].target \in Orgs \cup Ids
  BY <1>1 DEF Serving
<1>3. req[r].work.name \in Names
  BY <1>2, WorkTyped
<1>4. r \in Ids /\ clock \in Nat
  BY DEF Ids, TypeOK
<1> QED BY <1>2, <1>3, <1>4 DEF NewRow, Row

LEMMA ListedTyped ==
  ASSUME TypeOK, NEW kind, NEW parent, NEW tag
  PROVE  Listed(kind, parent, tag) \in SUBSET (Row \cup Case)
BY DEF TypeOK, Listed

\* The first rows are rows, and the first state satisfies the invariant.
LEMMA FlowInit == Init => TypedFlow
<1> SUFFICES ASSUME Init PROVE TypedFlow
  OBVIOUS
<1>1. FirstRows \subseteq Row
  BY RegistryAssumption DEF Row, Ids, FirstIds
<1>2. TypeOK
  BY <1>1 DEF Init, TypeOK
<1>3. Flow
  BY DEF Init, Flow, At, Idle
<1> QED BY <1>2, <1>3 DEF TypedFlow

\* Rows are never deleted, so what one request does leaves the others' facts alone.
LEMMA FlowFrame ==
  ASSUME TypedFlow, NEW r \in Requests,
         rows \subseteq rows', rows' \subseteq Row, cases' \subseteq Case, clock' \in Nat,
         reader' = reader,
         req' = [req EXCEPT ![r] = req'[r]],
         req'[r] \in Serving, FlowOf(req[r])'
  PROVE  TypedFlow'
<1>1. TypeOK'
  BY DEF TypedFlow, TypeOK
<1>2. ASSUME NEW q \in Requests, ~ At(q, "idle")' PROVE FlowOf(req[q])'
  <2>1. CASE q = r
    BY <2>1
  <2>2. CASE q # r
    <3>1. req'[q] = req[q]
      BY <2>2 DEF TypedFlow, TypeOK
    <3>2. FlowOf(req[q])
      BY <1>2, <3>1 DEF TypedFlow, Flow, At
    <3> QED BY <3>1, <3>2 DEF FlowOf, Found, TenantApp, TenantSuite
  <2> QED BY <2>1, <2>2
<1> QED BY <1>1, <1>2 DEF TypedFlow, Flow

\* A request goes on to a step, or is answered.
LEMMA GotoTyped ==
  ASSUME TypeOK, NEW r \in Requests, ~ At(r, "idle"), NEW step \in Steps, Goto(r, step)
  PROVE  /\ req' = [req EXCEPT ![r] = req'[r]]
         /\ req'[r] \in Serving
         /\ req'[r] = [req[r] EXCEPT !.step = step]
<1>1. req[r] \in Serving
  BY Served
<1>2. req'[r] = [req[r] EXCEPT !.step = step]
  BY DEF TypeOK, Goto
<1>3. req'[r] \in Serving
  BY <1>1, <1>2 DEF Serving
<1> QED BY <1>2, <1>3 DEF TypeOK, Goto

LEMMA AnswerTyped ==
  ASSUME TypedFlow, NEW r \in Requests, ~ At(r, "idle"), NEW answer \in Answers, Answer(r, answer)
  PROVE  /\ req' = [req EXCEPT ![r] = req'[r]]
         /\ req'[r] \in Serving
         /\ req'[r] = [req[r] EXCEPT !.step = "done", !.answer = answer, !.row = {}, !.cases = {}]
         /\ FlowOf(req[r])'
<1>1. req[r] \in Serving
  BY Served DEF TypedFlow
<1>2. req'[r] = [req[r] EXCEPT !.step = "done", !.answer = answer, !.row = {}, !.cases = {}]
  BY DEF TypedFlow, TypeOK, Answer
<1>3. req'[r] \in Serving
  BY <1>1, <1>2 DEF Serving, Steps
<1>4. req'[r].step = "done" /\ req'[r].next = req[r].next
  BY <1>1, <1>2 DEF Serving
<1>5. FlowOf(req[r])'
  BY <1>4 DEF TypedFlow, Flow, FlowOf
<1> QED BY <1>2, <1>3, <1>5 DEF TypedFlow, TypeOK, Answer

LEMMA RespondTyped ==
  ASSUME TypedFlow, NEW r \in Requests, Respond(r)
  PROVE  /\ req' = [req EXCEPT ![r] = req'[r]] /\ req'[r] \in Serving /\ FlowOf(req[r])'
         /\ req'[r].step = "done" /\ req'[r].answer \in {"201", "failed"}
         /\ req'[r].row = req[r].row /\ req'[r].cases = req[r].cases /\ req'[r].work = req[r].work
         /\ req'[r].target = req[r].target /\ req'[r].next = req[r].next
         /\ req'[r].errors = req[r].errors
<1>1. ~ At(r, "idle")
  BY DEF Respond, At
<1>2. req[r] \in Serving /\ req[r].next >= 1
  BY <1>1, Served DEF TypedFlow, Flow, FlowOf
<1>3. PICK answer \in {"201", "failed"} :
        req' = [req EXCEPT ![r].step = "done", ![r].answer = answer]
  BY DEF Respond
<1>4. /\ req'[r] = [req[r] EXCEPT !.step = "done", !.answer = answer]
      /\ req' = [req EXCEPT ![r] = req'[r]]
  BY <1>3 DEF TypedFlow, TypeOK
<1>5. req'[r] \in Serving
  BY <1>2, <1>4 DEF Serving, Steps, Answers
<1>6. /\ req'[r].step = "done" /\ req'[r].answer = answer
      /\ req'[r].row = req[r].row /\ req'[r].cases = req[r].cases /\ req'[r].work = req[r].work
      /\ req'[r].target = req[r].target /\ req'[r].next = req[r].next
      /\ req'[r].errors = req[r].errors
  BY <1>2, <1>4 DEF Serving
<1>7. FlowOf(req[r])'
  BY <1>2, <1>6 DEF FlowOf
<1> QED BY <1>4, <1>5, <1>6, <1>7

LEMMA FlowStep == TypedFlow /\ [Next]_vars => TypedFlow'
<1> SUFFICES ASSUME TypedFlow, [Next]_vars PROVE TypedFlow'
  OBVIOUS
<1>t. TypeOK /\ rows \subseteq Row /\ cases \subseteq Case /\ clock \in Nat
  BY DEF TypedFlow, TypeOK
<1>1. ASSUME NEW r \in Requests, Begin(r) PROVE TypedFlow'
  <2>1. PICK work \in Work :
          \E target \in IF work.kind \in OrgKinds THEN {work.org}
                        ELSE {row.id : row \in {row \in rows :
                                row.kind = IF work.kind = "import" THEN "suite" ELSE "app"}} :
            req' = [req EXCEPT ![r] =
                 [step |-> IF work.role = "viewer" THEN "done"
                           ELSE IF work.kind \in OrgKinds THEN "name" ELSE "parent",
                  work |-> work, target |-> target, next |-> 1, row |-> {}, cases |-> {},
                  errors |-> {}, answer |-> IF work.role = "viewer" THEN "403" ELSE "none"]]
    BY <1>1 DEF Begin
  <2>2. PICK target \in IF work.kind \in OrgKinds THEN {work.org}
                        ELSE {row.id : row \in {row \in rows :
                                row.kind = IF work.kind = "import" THEN "suite" ELSE "app"}} :
            req' = [req EXCEPT ![r] =
                 [step |-> IF work.role = "viewer" THEN "done"
                           ELSE IF work.kind \in OrgKinds THEN "name" ELSE "parent",
                  work |-> work, target |-> target, next |-> 1, row |-> {}, cases |-> {},
                  errors |-> {}, answer |-> IF work.role = "viewer" THEN "403" ELSE "none"]]
    BY <2>1
  <2>3. /\ work.kind \in OrgKinds => target = work.org /\ target \in Orgs
        /\ work.kind \notin OrgKinds => target \in Ids
    BY <1>t, <2>2, WorkTyped DEF Row
  <2> DEFINE new == [step |-> IF work.role = "viewer" THEN "done"
                             ELSE IF work.kind \in OrgKinds THEN "name" ELSE "parent",
                     work |-> work, target |-> target, next |-> 1, row |-> {}, cases |-> {},
                     errors |-> {}, answer |-> IF work.role = "viewer" THEN "403" ELSE "none"]
  <2>4. new \in Serving
    BY <2>3 DEF Serving, Steps, Answers
  <2>5. req' = [req EXCEPT ![r] = new] /\ req'[r] = new
    BY <1>t, <2>2 DEF TypeOK
  <2>6. FlowOf(req[r])'
    <3>1. /\ req'[r].work = work /\ req'[r].target = target /\ req'[r].next = 1
          /\ req'[r].step \in {"done", "name", "parent"}
          /\ req'[r].step = "name" => work.kind \in OrgKinds
          /\ req'[r].step = "parent" => work.kind \notin OrgKinds
      BY <2>5
    <3>2. req'[r].step = "name" => Found(work.kind, target, work.org)'
      BY <2>3, <3>1 DEF Found, OrgKinds, AppKinds
    <3> QED BY <2>3, <3>1, <3>2 DEF FlowOf, RowKinds
  <2> QED BY <1>1, <1>t, <2>4, <2>5, <2>6, FlowFrame DEF Begin
<1>2. ASSUME NEW r \in Requests, FindParent(r) PROVE TypedFlow'
  <2>1. ~ At(r, "idle") /\ UNCHANGED <<rows, cases, clock, reader>>
    BY <1>2 DEF FindParent, At
  <2>2. ASSUME NEW a \in {"404", "422"}, Answer(r, a) PROVE TypedFlow'
    BY <1>t, <2>1, <2>2, AnswerTyped, FlowFrame DEF Answers
  <2>3. ASSUME Found(req[r].work.kind, req[r].target, req[r].work.org),
               Goto(r, IF req[r].work.kind = "import" THEN "case" ELSE "name")
        PROVE  TypedFlow'
    <3> DEFINE step == IF req[r].work.kind = "import" THEN "case" ELSE "name"
    <3>1. step \in Steps
      BY DEF Steps
    <3>2. /\ req' = [req EXCEPT ![r] = req'[r]]
          /\ req'[r] \in Serving
          /\ req'[r] = [req[r] EXCEPT !.step = step]
      BY <1>t, <2>1, <2>3, <3>1, GotoTyped
    <3>3. req[r] \in Serving /\ req[r].work.kind \in RowKinds \cup {"import"}
      BY <1>t, <2>1, Served, WorkTyped DEF Serving
    <3>4. /\ req'[r].step = step /\ req'[r].work = req[r].work /\ req'[r].target = req[r].target
          /\ req'[r].next = req[r].next
      BY <3>2, <3>3 DEF Serving
    <3>5. req[r].next >= 1 /\ req[r].target \in Ids
      BY <1>2, <2>1 DEF TypedFlow, Flow, FlowOf, FindParent, At
    <3>6. FlowOf(req[r])'
      BY <2>1, <2>3, <3>3, <3>4, <3>5 DEF FlowOf, Found, TenantApp, TenantSuite, RowKinds, OrgKinds, AppKinds
    <3> QED BY <1>t, <2>1, <3>2, <3>6, FlowFrame
  <2> QED BY <1>2, <2>2, <2>3 DEF FindParent
<1>3. ASSUME NEW r \in Requests, CheckName(r) PROVE TypedFlow'
  <2>1. ~ At(r, "idle") /\ UNCHANGED <<rows, cases, clock, reader>>
    BY <1>3 DEF CheckName, At
  <2>2. ASSUME NEW a \in {"409", "422"}, Answer(r, a) PROVE TypedFlow'
    BY <1>t, <2>1, <2>2, AnswerTyped, FlowFrame DEF Answers
  <2>3. ASSUME Goto(r, "insert") PROVE TypedFlow'
    <3>1. /\ req' = [req EXCEPT ![r] = req'[r]]
          /\ req'[r] \in Serving
          /\ req'[r] = [req[r] EXCEPT !.step = "insert"]
      BY <1>t, <2>1, <2>3, GotoTyped DEF Steps
    <3>2. /\ req'[r].step = "insert" /\ req'[r].work = req[r].work
          /\ req'[r].target = req[r].target /\ req'[r].next = req[r].next
      BY <1>t, <2>1, <3>1, Served DEF Serving
    <3>3. FlowOf(req[r])'
      BY <1>3, <2>1, <3>2 DEF CheckName, At, TypedFlow, Flow, FlowOf, Found, TenantApp, TenantSuite
    <3> QED BY <1>t, <2>1, <3>1, <3>3, FlowFrame
  <2> QED BY <1>3, <2>2, <2>3 DEF CheckName
<1>4. ASSUME NEW r \in Requests, Insert(r) PROVE TypedFlow'
  <2>1. ~ At(r, "idle") /\ UNCHANGED <<rows, cases, reader>>
    BY <1>4 DEF Insert, At
  <2>2. CASE Taken(NewRow(r))
    BY <1>4, <1>t, <2>1, <2>2, AnswerTyped, FlowFrame DEF Insert, Answers
  <2>3. CASE ~ Taken(NewRow(r))
    <3>1. /\ req' = [req EXCEPT ![r].step = "commit", ![r].row = {NewRow(r)}]
          /\ clock' \in Nat
      BY <1>4, <1>t, <2>3 DEF Insert
    <3>2. req[r] \in Serving
      BY <1>t, <2>1, Served
    <3>3. req[r].work.kind \in RowKinds /\ req[r].next >= 1
          /\ Found(req[r].work.kind, req[r].target, req[r].work.org)
      BY <1>4, <2>1 DEF Insert, At, TypedFlow, Flow, FlowOf
    <3>4. NewRow(r) \in Row
      BY <1>t, <2>1, <3>3, RowTyped
    <3>5. req'[r] = [req[r] EXCEPT !.step = "commit", !.row = {NewRow(r)}]
      BY <1>t, <3>1 DEF TypeOK
    <3>6. req'[r] \in Serving
      <4>1. {NewRow(r)} \in SUBSET Row /\ "commit" \in Steps
        BY <3>4 DEF Steps
      <4> QED BY <3>2, <3>5, <4>1 DEF Serving
    <3>7. req'[r].step = "commit" /\ req'[r].work = req[r].work
          /\ req'[r].target = req[r].target /\ req'[r].next = req[r].next
      BY <3>2, <3>5 DEF Serving
    <3>8. FlowOf(req[r])'
      BY <2>1, <3>3, <3>7 DEF FlowOf, Found, TenantApp, TenantSuite
    <3>9. req' = [req EXCEPT ![r] = req'[r]]
      BY <1>t, <3>1 DEF TypeOK
    <3> QED BY <1>t, <2>1, <3>1, <3>6, <3>8, <3>9, FlowFrame
  <2> QED BY <2>2, <2>3
<1>5. ASSUME NEW r \in Requests, ImportCase(r) PROVE TypedFlow'
  <2> DEFINE given == req[r].work.cases[req[r].next]
             case  == [by |-> r, index |-> req[r].next, suite |-> req[r].target,
                       tags |-> given.tags, created |-> clock]
  <2>1. /\ ~ At(r, "idle") /\ UNCHANGED <<rows, cases, reader>> /\ clock' \in Nat
        /\ \/ req' = [req EXCEPT ![r].next = @ + 1, ![r].cases = @ \cup {case}]
           \/ req' = [req EXCEPT ![r].next = @ + 1, ![r].errors = @ \cup {req[r].next}]
    BY <1>5, <1>t DEF ImportCase, At
  <2>2. req[r] \in Serving
    BY <1>t, <2>1, Served
  <2>3. /\ req[r].next >= 1 /\ req[r].work.kind = "import" /\ req[r].target \in Ids
        /\ TenantSuite(req[r].target, req[r].work.org) /\ req[r].step = "case"
    BY <1>5, <2>1 DEF ImportCase, At, TypedFlow, Flow, FlowOf
  <2>4. req[r].next \in Nat /\ req[r].work \in Work
    BY <2>2 DEF Serving
  <2>5. given \in [input : BOOLEAN, tags : SUBSET Tags]
    <3>1. req[r].work.cases \in Seq([input : BOOLEAN, tags : SUBSET Tags])
      BY <2>4, WorkTyped
    <3>2. req[r].next \in 1 .. Len(req[r].work.cases)
      BY <1>5, <2>3, <2>4, <3>1 DEF ImportCase
    <3> QED BY <3>1, <3>2, ElementTyped
  <2>6. case \in Case
    BY <1>t, <2>3, <2>4, <2>5 DEF Case
  <2>7. \/ req'[r] = [req[r] EXCEPT !.next = req[r].next + 1, !.cases = req[r].cases \cup {case}]
        \/ req'[r] = [req[r] EXCEPT !.next = req[r].next + 1, !.errors = req[r].errors \cup {req[r].next}]
    BY <1>t, <2>1 DEF TypeOK
  <2>8. req'[r] \in Serving
    <3>1. /\ req[r].next + 1 \in Nat
          /\ req[r].cases \cup {case} \in SUBSET Case
          /\ req[r].errors \cup {req[r].next} \in SUBSET Nat
      BY <2>2, <2>4, <2>6 DEF Serving
    <3> HIDE DEF case
    <3>2. CASE req'[r] = [req[r] EXCEPT !.next = req[r].next + 1, !.cases = req[r].cases \cup {case}]
      BY <2>2, <3>1, <3>2 DEF Serving
    <3>3. CASE req'[r] = [req[r] EXCEPT !.next = req[r].next + 1,
                                         !.errors = req[r].errors \cup {req[r].next}]
      BY <2>2, <3>1, <3>3 DEF Serving
    <3> QED BY <2>7, <3>2, <3>3
  <2>9. req'[r].step = "case" /\ req'[r].work = req[r].work
        /\ req'[r].target = req[r].target /\ req'[r].next = req[r].next + 1
    BY <2>2, <2>3, <2>7 DEF Serving
  <2>10. FlowOf(req[r])'
    BY <2>1, <2>3, <2>4, <2>9 DEF FlowOf, TenantApp, TenantSuite
  <2>11. req' = [req EXCEPT ![r] = req'[r]]
    BY <1>t, <2>1 DEF TypeOK
  <2> QED BY <1>t, <2>1, <2>8, <2>10, <2>11, FlowFrame
<1>6. ASSUME NEW r \in Requests, Commit(r) PROVE TypedFlow'
  <2>1. /\ ~ At(r, "idle")
        /\ rows' = rows \cup req[r].row /\ cases' = cases \cup req[r].cases
        /\ req' = [req EXCEPT ![r].step = "respond", ![r].row = {}]
        /\ UNCHANGED <<clock, reader>>
    BY <1>6 DEF Commit, At
  <2>2. req[r] \in Serving
    BY <1>t, <2>1, Served
  <2>3. rows \subseteq rows' /\ rows' \subseteq Row /\ cases' \subseteq Case
    BY <1>t, <2>1, <2>2 DEF Serving
  <2>4. req'[r] = [req[r] EXCEPT !.step = "respond", !.row = {}]
    BY <1>t, <2>1 DEF TypeOK
  <2>5. req'[r] \in Serving
    BY <2>2, <2>4 DEF Serving, Steps, Answers
  <2>6. req'[r].step = "respond" /\ req'[r].next = req[r].next
    BY <2>2, <2>4 DEF Serving
  <2>7. FlowOf(req[r])'
    BY <2>1, <2>6 DEF TypedFlow, Flow, FlowOf
  <2>8. req' = [req EXCEPT ![r] = req'[r]]
    BY <1>t, <2>1 DEF TypeOK
  <2> QED BY <1>t, <2>1, <2>3, <2>5, <2>7, <2>8, FlowFrame
<1>7. ASSUME NEW r \in Requests, Fail(r) PROVE TypedFlow'
  BY <1>7, <1>t, AnswerTyped, FlowFrame DEF Fail, At, Answers
<1>r. ASSUME NEW r \in Requests, Respond(r) PROVE TypedFlow'
  BY <1>r, <1>t, RespondTyped, FlowFrame DEF Respond
<1>8. ASSUME StartReading \/ ReadPage \/ ReadOne PROVE TypedFlow'
  <2>1. UNCHANGED <<rows, cases, req, clock>>
    BY <1>8 DEF StartReading, ReadPage, ReadOne
  <2>2. reader' \in {Idle} \cup Reading
    <3>1. CASE StartReading
      <4>1. PICK org \in Orgs, kind \in Reads, tag \in Tags \cup {None} :
              \E parent \in IF kind \in OrgKinds THEN {org}
                            ELSE {row.id : row \in {row \in rows :
                                    row.kind = IF kind = "case" THEN "suite" ELSE "app"}} :
                reader' = [step |-> "page", org |-> org, kind |-> kind, parent |-> parent,
                           tag |-> tag, offset |-> 0, start |-> Listed(kind, parent, tag),
                           seen |-> {}, found |-> TRUE]
        BY <3>1 DEF StartReading
      <4>2. PICK parent \in IF kind \in OrgKinds THEN {org}
                            ELSE {row.id : row \in {row \in rows :
                                    row.kind = IF kind = "case" THEN "suite" ELSE "app"}} :
                reader' = [step |-> "page", org |-> org, kind |-> kind, parent |-> parent,
                           tag |-> tag, offset |-> 0, start |-> Listed(kind, parent, tag),
                           seen |-> {}, found |-> TRUE]
        BY <4>1
      <4>3. parent \in Orgs \cup Ids
        BY <1>t, <4>2 DEF Row
      <4>4. Listed(kind, parent, tag) \in SUBSET (Row \cup Case)
        BY <1>t, ListedTyped
      <4>5. kind \in RowKinds \cup {"case", "one"}
        BY RegistryAssumption
      <4> QED BY <4>2, <4>3, <4>4, <4>5 DEF Reading
    <3>2. CASE ReadPage
      <4>1. reader \in Reading
        BY <1>t, <3>2 DEF ReadPage, TypeOK, Idle
      <4>2. PICK found \in BOOLEAN, seen \in SUBSET (Row \cup Case), offset \in Nat, done \in BOOLEAN :
              Reply(found, seen, offset, done)
        <5>1. reader.offset \in Nat /\ reader.offset + PageSize \in Nat
          BY <4>1, RegistryAssumption DEF Reading
        <5>2. CASE ~ Found(reader.kind, reader.parent, reader.org)
          BY <3>2, <5>1, <5>2 DEF ReadPage
        <5>3. CASE Found(reader.kind, reader.parent, reader.org)
          <6> DEFINE page == Page(reader.kind, Listed(reader.kind, reader.parent, reader.tag), reader.offset)
          <6>1. page \in SUBSET (Row \cup Case)
            BY <1>t, ListedTyped DEF Page
          <6> HIDE DEF page
          <6>2. Reply(TRUE, page, reader.offset + PageSize, Cardinality(page) < PageSize)
            BY <3>2, <5>3 DEF ReadPage, page
          <6>3. (Cardinality(page) < PageSize) \in BOOLEAN
            OBVIOUS
          <6> QED BY <5>1, <6>1, <6>2, <6>3
        <5> QED BY <5>2, <5>3
      <4>3. reader' = [reader EXCEPT !.found = found, !.seen = reader.seen \cup seen,
                                     !.offset = offset, !.step = IF done THEN "done" ELSE "page"]
        BY <4>2 DEF Reply
      <4>4. reader.seen \cup seen \in SUBSET (Row \cup Case)
        BY <4>1 DEF Reading
      <4>5. (IF done THEN "done" ELSE "page") \in {"page", "done"}
        OBVIOUS
      <4>6. reader' \in Reading
        BY <4>1, <4>3, <4>4, <4>5 DEF Reading
      <4> QED BY <4>6
    <3>3. CASE ReadOne
      <4>1. PICK org \in Orgs, row \in {row \in rows : row.kind \in {"app", "rule"}} :
              reader' = [step |-> "done", org |-> org, kind |-> "one", parent |-> row.id,
                         tag |-> None, offset |-> 0, start |-> {},
                         seen |-> IF row.parent = org THEN {row} ELSE {}, found |-> row.parent = org]
        BY <3>3 DEF ReadOne
      <4>2. row \in Row /\ row.id \in Ids
        BY <1>t DEF Row
      <4>3. (IF row.parent = org THEN {row} ELSE {}) \in SUBSET (Row \cup Case)
        BY <4>2
      <4>4. (row.parent = org) \in BOOLEAN
        OBVIOUS
      <4> QED BY <4>1, <4>2, <4>3, <4>4 DEF Reading
    <3> QED BY <1>8, <3>1, <3>2, <3>3
  <2>3. TypeOK'
    BY <1>t, <2>1, <2>2 DEF TypeOK
  <2>4. Flow'
    BY <2>1 DEF TypedFlow, Flow, FlowOf, Found, TenantApp, TenantSuite, At
  <2> QED BY <2>3, <2>4 DEF TypedFlow
<1>9. CASE UNCHANGED vars
  BY <1>9 DEF vars, TypedFlow, TypeOK, Flow, FlowOf, Found, TenantApp, TenantSuite, At
<1> QED BY <1>1, <1>2, <1>3, <1>4, <1>5, <1>6, <1>7, <1>r, <1>8, <1>9 DEF Next, Done

\* TypeOK (Registry): every variable keeps to its type; in particular only rows of a
\* kind that has a table are inserted, and only cases of a known suite are linked.
THEOREM TypeCorrect == Spec => []TypeOK
<1>1. TypedFlow => TypeOK
  BY DEF TypedFlow
<1> QED BY FlowInit, FlowStep, <1>1, PTL DEF Spec
-----------------------------------------------------------------------------
(* Names                                                                   *)

\* A row that is flushed and not committed has a key no committed row and no
\* other flushed row has: what the unique constraint keeps of a transaction.
KeyInv ==
  /\ NamesAreUnique
  /\ \A r \in Requests : ~ At(r, "idle") /\ ~ At(r, "commit") => req[r].row = {}
  /\ \A r \in Requests : At(r, "commit") =>
       \A x, y \in req[r].row : x = y
  /\ \A r \in Requests : At(r, "commit") =>
       \A x \in req[r].row, y \in rows : ~ SameKey(x, y)
  /\ \A r, q \in Requests : r # q /\ At(r, "commit") /\ At(q, "commit") =>
       \A x \in req[r].row, y \in req[q].row : ~ SameKey(x, y)

\* A step that holds no row of its own and commits none keeps the keys.
LEMMA KeysFrame ==
  ASSUME TypeOK, KeyInv, NEW r \in Requests, rows' = rows,
         req' = [req EXCEPT ![r] = req'[r]], req'[r].row = {}
  PROVE  KeyInv'
<1>1. \A q \in Requests : q # r => req'[q] = req[q]
  BY DEF TypeOK
<1>2. \A q \in Requests : req'[q].row = {} \/ req'[q] = req[q]
  BY <1>1
<1>3. NamesAreUnique'
  BY DEF KeyInv, NamesAreUnique
<1>4. \A q \in Requests : ~ At(q, "idle")' /\ ~ At(q, "commit")' => req'[q].row = {}
  BY <1>2 DEF KeyInv, At
<1>5. \A q \in Requests : At(q, "commit")' => \A x, y \in req'[q].row : x = y
  BY <1>2 DEF KeyInv, At
<1>6. \A q \in Requests : At(q, "commit")' => \A x \in req'[q].row, y \in rows' : ~ SameKey(x, y)
  BY <1>2 DEF KeyInv, At
<1>7. \A p, q \in Requests : p # q /\ At(p, "commit")' /\ At(q, "commit")' =>
        \A x \in req'[p].row, y \in req'[q].row : ~ SameKey(x, y)
  BY <1>2 DEF KeyInv, At
<1> QED BY <1>3, <1>4, <1>5, <1>6, <1>7 DEF KeyInv

LEMMA KeysInit == Init => KeyInv
BY RegistryAssumption DEF Init, KeyInv, NamesAreUnique, At, Idle

LEMMA KeysStep == TypedFlow /\ KeyInv /\ [Next]_vars => KeyInv'
<1> SUFFICES ASSUME TypedFlow, KeyInv, [Next]_vars PROVE KeyInv'
  OBVIOUS
<1>t. TypeOK
  BY DEF TypedFlow
<1>1. ASSUME NEW r \in Requests, Begin(r) PROVE KeyInv'
  <2>1. /\ req' = [req EXCEPT ![r] = req'[r]] /\ req'[r].row = {}
    BY <1>1, <1>t DEF Begin, TypeOK
  <2> QED BY <1>1, <1>t, <2>1, KeysFrame DEF Begin
<1>a. ASSUME NEW r \in Requests, ~ At(r, "idle"), NEW a \in Answers, Answer(r, a), rows' = rows
      PROVE  KeyInv'
  <2>1. req[r] \in Serving
    BY <1>a, <1>t, Served
  <2>2. req'[r] = [req[r] EXCEPT !.step = "done", !.answer = a, !.row = {}, !.cases = {}]
    BY <1>a, AnswerTyped
  <2>3. req'[r].row = {}
    BY <2>1, <2>2 DEF Serving
  <2> QED BY <1>a, <1>t, <2>3, AnswerTyped, KeysFrame
<1>g. ASSUME NEW r \in Requests, ~ At(r, "idle"), ~ At(r, "commit"), NEW step \in Steps,
             Goto(r, step), rows' = rows
      PROVE  KeyInv'
  <2>1. req[r] \in Serving /\ req[r].row = {}
    BY <1>g, <1>t, Served DEF KeyInv
  <2>2. req'[r] = [req[r] EXCEPT !.step = step]
    BY <1>g, <1>t, GotoTyped
  <2>3. req'[r].row = {}
    BY <2>1, <2>2 DEF Serving
  <2> QED BY <1>g, <1>t, <2>3, GotoTyped, KeysFrame
<1>2. ASSUME NEW r \in Requests, FindParent(r) PROVE KeyInv'
  <2>1. ~ At(r, "idle") /\ ~ At(r, "commit") /\ rows' = rows
    BY <1>2 DEF FindParent, At
  <2>2. \/ \E a \in Answers : Answer(r, a)
        \/ \E step \in Steps : Goto(r, step)
    BY <1>2 DEF FindParent, Answers, Steps
  <2> QED BY <2>1, <2>2, <1>a, <1>g
<1>3. ASSUME NEW r \in Requests, CheckName(r) PROVE KeyInv'
  <2>1. ~ At(r, "idle") /\ ~ At(r, "commit") /\ rows' = rows
    BY <1>3 DEF CheckName, At
  <2>2. \/ \E a \in Answers : Answer(r, a)
        \/ \E step \in Steps : Goto(r, step)
    BY <1>3 DEF CheckName, Answers, Steps
  <2> QED BY <2>1, <2>2, <1>a, <1>g
<1>4. ASSUME NEW r \in Requests, Insert(r) PROVE KeyInv'
  <2>1. ~ At(r, "idle") /\ rows' = rows
    BY <1>4 DEF Insert, At
  <2>2. CASE Taken(NewRow(r))
    BY <1>4, <1>a, <2>1, <2>2 DEF Insert, Answers
  <2>3. CASE ~ Taken(NewRow(r))
    <3>1. req' = [req EXCEPT ![r].step = "commit", ![r].row = {NewRow(r)}]
      BY <1>4, <2>3 DEF Insert
    <3>2. \A q \in Requests : q # r => req'[q] = req[q]
      BY <1>t, <3>1 DEF TypeOK
    <3>3. req[r] \in Serving
      BY <1>t, <2>1, Served
    <3>4. req'[r] = [req[r] EXCEPT !.step = "commit", !.row = {NewRow(r)}]
      BY <1>t, <3>1 DEF TypeOK
    <3>5. req'[r].step = "commit" /\ req'[r].row = {NewRow(r)}
      BY <3>3, <3>4 DEF Serving
    <3>6. \A y \in rows : ~ SameKey(NewRow(r), y)
      BY <2>3 DEF Taken
    <3>7. \A q \in Requests : q # r /\ At(q, "commit") =>
            \A x \in req[q].row : ~ SameKey(NewRow(r), x) /\ ~ SameKey(x, NewRow(r))
      BY <1>4 DEF Insert, HeldByAnother, SameKey
    <3> DEFINE new == NewRow(r)
    <3> HIDE DEF new
    <3>8. NamesAreUnique'
      BY <2>1 DEF KeyInv, NamesAreUnique
    <3>9. \A q \in Requests : ~ At(q, "idle")' /\ ~ At(q, "commit")' => req'[q].row = {}
      BY <3>2, <3>5 DEF KeyInv, At
    <3>10. \A q \in Requests : At(q, "commit")' => \A x, y \in req'[q].row : x = y
      BY <3>2, <3>5 DEF KeyInv, At
    <3>11. \A q \in Requests : At(q, "commit")' =>
             \A x \in req'[q].row, y \in rows' : ~ SameKey(x, y)
      BY <2>1, <3>2, <3>5, <3>6 DEF KeyInv, At
    <3>12. \A p, q \in Requests : p # q /\ At(p, "commit")' /\ At(q, "commit")' =>
             \A x \in req'[p].row, y \in req'[q].row : ~ SameKey(x, y)
      BY <3>2, <3>5, <3>7 DEF KeyInv, At
    <3> QED BY <3>8, <3>9, <3>10, <3>11, <3>12 DEF KeyInv
  <2> QED BY <2>2, <2>3
<1>5. ASSUME NEW r \in Requests, ImportCase(r) PROVE KeyInv'
  <2>1. ~ At(r, "idle") /\ ~ At(r, "commit") /\ rows' = rows
    BY <1>5 DEF ImportCase, At
  <2>2. req[r] \in Serving /\ req[r].row = {}
    BY <1>t, <2>1, Served DEF KeyInv
  <2>3. PICK c, e : \/ req' = [req EXCEPT ![r].next = @ + 1, ![r].cases = c]
                    \/ req' = [req EXCEPT ![r].next = @ + 1, ![r].errors = e]
    BY <1>5 DEF ImportCase
  <2>4. \/ req'[r] = [req[r] EXCEPT !.next = req[r].next + 1, !.cases = c]
        \/ req'[r] = [req[r] EXCEPT !.next = req[r].next + 1, !.errors = e]
    BY <1>t, <2>3 DEF TypeOK
  <2>5. req'[r].row = {}
    BY <2>2, <2>4 DEF Serving
  <2>6. req' = [req EXCEPT ![r] = req'[r]]
    BY <1>t, <2>3 DEF TypeOK
  <2> QED BY <1>t, <2>1, <2>5, <2>6, KeysFrame
<1>6. ASSUME NEW r \in Requests, Commit(r) PROVE KeyInv'
  <2>1. /\ ~ At(r, "idle")
        /\ rows' = rows \cup req[r].row
        /\ req' = [req EXCEPT ![r].step = "respond", ![r].row = {}]
    BY <1>6 DEF Commit, At
  <2>2. req[r] \in Serving
    BY <1>t, <2>1, Served
  <2>3. \A q \in Requests : q # r => req'[q] = req[q]
    BY <1>t, <2>1 DEF TypeOK
  <2>4. req'[r] = [req[r] EXCEPT !.step = "respond", !.row = {}]
    BY <1>t, <2>1 DEF TypeOK
  <2>5. req'[r].step = "respond" /\ req'[r].row = {}
    BY <2>2, <2>4 DEF Serving
  <2>6. At(r, "commit") \/ req[r].row = {}
    BY <2>1 DEF KeyInv
  <2>7. NamesAreUnique'
    BY <2>1, <2>6 DEF KeyInv, NamesAreUnique, SameKey
  <2>8. \A q \in Requests : ~ At(q, "idle")' /\ ~ At(q, "commit")' => req'[q].row = {}
    BY <2>3, <2>5 DEF KeyInv, At
  <2>9. \A q \in Requests : At(q, "commit")' => \A x, y \in req'[q].row : x = y
    BY <2>3, <2>5 DEF KeyInv, At
  <2>10. \A q \in Requests : At(q, "commit")' =>
           \A x \in req'[q].row, y \in rows' : ~ SameKey(x, y)
    BY <2>1, <2>3, <2>5, <2>6 DEF KeyInv, At
  <2>11. \A p, q \in Requests : p # q /\ At(p, "commit")' /\ At(q, "commit")' =>
           \A x \in req'[p].row, y \in req'[q].row : ~ SameKey(x, y)
    BY <2>3, <2>5 DEF KeyInv, At
  <2> QED BY <2>7, <2>8, <2>9, <2>10, <2>11 DEF KeyInv
<1>7. ASSUME NEW r \in Requests, Fail(r) PROVE KeyInv'
  BY <1>7, <1>a DEF Fail, At, Answers
<1>r. ASSUME NEW r \in Requests, Respond(r) PROVE KeyInv'
  <2>1. req[r].row = {} /\ rows' = rows
    BY <1>r DEF KeyInv, Respond, At
  <2> QED BY <1>r, <1>t, <2>1, RespondTyped, KeysFrame
<1>8. CASE UNCHANGED <<rows, req>>
  BY <1>8 DEF KeyInv, NamesAreUnique, At
<1> QED BY <1>1, <1>2, <1>3, <1>4, <1>5, <1>6, <1>7, <1>r, <1>8
        DEF Next, Done, vars, StartReading, ReadPage, ReadOne

\* NamesAreUnique (Registry): however many requests look a name up before any of
\* them inserts it, no organisation and no app gets two rows of one kind and name.
THEOREM NamesStayUnique == Spec => []NamesAreUnique
<1>2. KeyInv => NamesAreUnique
  BY DEF KeyInv
<1> QED BY FlowInit, FlowStep, KeysInit, KeysStep, <1>2, PTL DEF Spec
-----------------------------------------------------------------------------
(* Tenants                                                                 *)

\* What a request has flushed is its own, and hangs where its lookup led; so does
\* what is stored, and all a reader was shown was stored and is of its organisation.
Flushed(r) ==
  /\ \A x \in req[r].row : x.id = r /\ x.parent = req[r].target
  /\ \A c \in req[r].cases : c.by = r /\ CaseIsOf(c, req[r].work.org)

Shown(x) == \/ x \in rows /\ RowIsOf(x, reader.org)
            \/ x \in cases /\ CaseIsOf(x, reader.org)

Owned ==
  /\ \A r \in Requests : ~ At(r, "idle") => Flushed(r)
  /\ \A row \in rows : row.id \in Requests =>
       ~ At(row.id, "idle") /\ RowIsOf(row, req[row.id].work.org)
  /\ \A c \in cases : ~ At(c.by, "idle") /\ CaseIsOf(c, req[c.by].work.org)
  /\ reader.step # "idle" => \A x \in reader.seen : Shown(x)

\* Rows are never deleted: what is of an organisation stays of it.
LEMMA OfStays ==
  ASSUME rows \subseteq rows', NEW x, NEW org
  PROVE  /\ RowIsOf(x, org) => RowIsOf(x, org)'
         /\ CaseIsOf(x, org) => CaseIsOf(x, org)'
BY DEF RowIsOf, CaseIsOf

\* The tenant-owned parent makes the child the tenant's.
LEMMA FoundIsOf ==
  ASSUME NEW kind \in RowKinds, NEW x, NEW org, Found(kind, x.parent, org)
  PROVE  RowIsOf(x, org)
BY DEF Found, TenantApp, RowIsOf, RowKinds, OrgKinds, AppKinds

LEMMA SuiteIsOf ==
  ASSUME NEW c, NEW org, TenantSuite(c.suite, org)
  PROVE  CaseIsOf(c, org)
BY DEF TenantSuite, TenantApp, CaseIsOf, RowIsOf

\* A step of request r that keeps what it works for and stores only what is its own.
LEMMA OwnedFrame ==
  ASSUME TypeOK, Owned, NEW r \in Requests, rows \subseteq rows', cases \subseteq cases',
         reader' = reader, req' = [req EXCEPT ![r] = req'[r]], req'[r].step # "idle",
         ~ At(r, "idle") => req'[r].work = req[r].work,
         Flushed(r)',
         \A x \in rows' \ rows : x.id = r /\ RowIsOf(x, req[r].work.org)',
         \A c \in cases' \ cases : c.by = r /\ CaseIsOf(c, req[r].work.org)'
  PROVE  Owned'
<1>1. \A q \in Requests : q # r => req'[q] = req[q]
  BY DEF TypeOK
<1>2. \A q \in Requests : ~ At(q, "idle") => ~ At(q, "idle")' /\ req'[q].work = req[q].work
  BY <1>1 DEF At
<1>3. ASSUME NEW q \in Requests, ~ At(q, "idle")' PROVE Flushed(q)'
  <2>1. CASE q = r
    BY <2>1
  <2>2. CASE q # r
    <3>1. Flushed(q) /\ req'[q] = req[q]
      BY <1>1, <1>3, <2>2 DEF Owned, At
    <3> QED BY <3>1, OfStays DEF Flushed
  <2> QED BY <2>1, <2>2
<1>4. ASSUME NEW row \in rows', row.id \in Requests
      PROVE  ~ At(row.id, "idle")' /\ RowIsOf(row, req[row.id].work.org)'
  <2>1. CASE row \in rows
    <3>1. ~ At(row.id, "idle") /\ RowIsOf(row, req[row.id].work.org)
      BY <1>4, <2>1 DEF Owned
    <3>2. ~ At(row.id, "idle")' /\ req'[row.id].work = req[row.id].work
      BY <1>2, <1>4, <3>1
    <3> QED BY <3>1, <3>2, OfStays
  <2>2. CASE row \notin rows
    BY <1>4, <2>2 DEF At
  <2> QED BY <2>1, <2>2
<1>5. ASSUME NEW c \in cases' PROVE ~ At(c.by, "idle")' /\ CaseIsOf(c, req[c.by].work.org)'
  <2>1. CASE c \in cases
    <3>1. c.by \in Requests
      BY <2>1 DEF TypeOK, Case
    <3>2. ~ At(c.by, "idle") /\ CaseIsOf(c, req[c.by].work.org)
      BY <2>1 DEF Owned
    <3>3. ~ At(c.by, "idle")' /\ req'[c.by].work = req[c.by].work
      BY <1>2, <3>1, <3>2
    <3> QED BY <3>2, <3>3, OfStays
  <2>2. CASE c \notin cases
    BY <1>5, <2>2 DEF At
  <2> QED BY <2>1, <2>2
<1>6. reader'.step # "idle" => \A x \in reader'.seen : Shown(x)'
  BY OfStays DEF Owned, Shown
<1> QED BY <1>3, <1>4, <1>5, <1>6 DEF Owned

LEMMA OwnedStep == TypedFlow /\ KeyInv /\ Owned /\ [Next]_vars => Owned'
<1> SUFFICES ASSUME TypedFlow, KeyInv, Owned, [Next]_vars PROVE Owned'
  OBVIOUS
<1>t. TypeOK
  BY DEF TypedFlow
<1>1. ASSUME NEW r \in Requests, Begin(r) PROVE Owned'
  <2>1. /\ req' = [req EXCEPT ![r] = req'[r]] /\ req'[r].row = {} /\ req'[r].cases = {}
        /\ req'[r].step # "idle" /\ At(r, "idle") /\ UNCHANGED <<rows, cases, reader>>
    BY <1>1, <1>t DEF Begin, TypeOK
  <2>2. Flushed(r)'
    BY <2>1 DEF Flushed
  <2> QED BY <1>t, <2>1, <2>2, OwnedFrame
<1>a. ASSUME NEW r \in Requests, ~ At(r, "idle"), NEW a \in Answers, Answer(r, a),
             UNCHANGED <<rows, cases, reader>>
      PROVE  Owned'
  <2>1. req[r] \in Serving
    BY <1>a, <1>t, Served
  <2>2. /\ req' = [req EXCEPT ![r] = req'[r]]
        /\ req'[r] = [req[r] EXCEPT !.step = "done", !.answer = a, !.row = {}, !.cases = {}]
    BY <1>a, AnswerTyped
  <2>3. req'[r].row = {} /\ req'[r].cases = {} /\ req'[r].step # "idle" /\ req'[r].work = req[r].work
    BY <2>1, <2>2 DEF Serving
  <2>4. Flushed(r)'
    BY <2>3 DEF Flushed
  <2> QED BY <1>a, <1>t, <2>2, <2>3, <2>4, OwnedFrame
<1>g. ASSUME NEW r \in Requests, ~ At(r, "idle"), NEW step \in Steps, Goto(r, step),
             UNCHANGED <<rows, cases, reader>>
      PROVE  Owned'
  <2>1. req[r] \in Serving
    BY <1>g, <1>t, Served
  <2>2. /\ req' = [req EXCEPT ![r] = req'[r]]
        /\ req'[r] = [req[r] EXCEPT !.step = step]
    BY <1>g, <1>t, GotoTyped
  <2>3. /\ req'[r].row = req[r].row /\ req'[r].cases = req[r].cases /\ req'[r].step = step
        /\ req'[r].work = req[r].work /\ req'[r].target = req[r].target
    BY <2>1, <2>2 DEF Serving
  <2>4. Flushed(r)'
    BY <1>g, <2>3, OfStays DEF Owned, Flushed
  <2>5. step # "idle"
    BY DEF Steps
  <2> QED BY <1>g, <1>t, <2>2, <2>3, <2>4, <2>5, OwnedFrame
<1>2. ASSUME NEW r \in Requests, FindParent(r) \/ CheckName(r) PROVE Owned'
  <2>1. ~ At(r, "idle") /\ UNCHANGED <<rows, cases, reader>>
    BY <1>2 DEF FindParent, CheckName, At
  <2>2. \/ \E a \in Answers : Answer(r, a)
        \/ \E step \in Steps : Goto(r, step)
    BY <1>2 DEF FindParent, CheckName, Answers, Steps
  <2> QED BY <2>1, <2>2, <1>a, <1>g
<1>4. ASSUME NEW r \in Requests, Insert(r) PROVE Owned'
  <2>1. ~ At(r, "idle") /\ UNCHANGED <<rows, cases, reader>>
    BY <1>4 DEF Insert, At
  <2>2. CASE Taken(NewRow(r))
    BY <1>4, <1>a, <2>1, <2>2 DEF Insert, Answers
  <2>3. CASE ~ Taken(NewRow(r))
    <3>1. req' = [req EXCEPT ![r].step = "commit", ![r].row = {NewRow(r)}]
      BY <1>4, <2>3 DEF Insert
    <3>2. req[r] \in Serving
      BY <1>t, <2>1, Served
    <3>3. /\ req'[r] = [req[r] EXCEPT !.step = "commit", !.row = {NewRow(r)}]
          /\ req' = [req EXCEPT ![r] = req'[r]]
      BY <1>t, <3>1 DEF TypeOK
    <3>4. /\ req'[r].step = "commit" /\ req'[r].row = {NewRow(r)} /\ req'[r].cases = req[r].cases
          /\ req'[r].work = req[r].work /\ req'[r].target = req[r].target
      BY <3>2, <3>3 DEF Serving
    <3>5. NewRow(r).id = r /\ NewRow(r).parent = req[r].target
      BY DEF NewRow
    <3>6. \A c \in req[r].cases : c.by = r /\ CaseIsOf(c, req[r].work.org)
      BY <2>1 DEF Owned, Flushed
    <3>7. Flushed(r)'
      BY <2>1, <3>4, <3>5, <3>6, OfStays DEF Flushed
    <3> QED BY <1>t, <2>1, <3>3, <3>4, <3>7, OwnedFrame
  <2> QED BY <2>2, <2>3
<1>5. ASSUME NEW r \in Requests, ImportCase(r) PROVE Owned'
  <2>1. ~ At(r, "idle") /\ UNCHANGED <<rows, cases, reader>> /\ req[r].step = "case"
    BY <1>5 DEF ImportCase, At
  <2>2. req[r] \in Serving /\ TenantSuite(req[r].target, req[r].work.org)
    BY <1>t, <2>1, Served DEF TypedFlow, Flow, FlowOf
  <2> DEFINE c == [by |-> r, index |-> req[r].next, suite |-> req[r].target,
                   tags |-> req[r].work.cases[req[r].next].tags, created |-> clock]
             e == req[r].errors \cup {req[r].next}
  <2>3. /\ c.by = r /\ c.suite = req[r].target
        /\ \/ req' = [req EXCEPT ![r].next = @ + 1, ![r].cases = @ \cup {c}]
           \/ req' = [req EXCEPT ![r].next = @ + 1, ![r].errors = e]
    BY <1>5 DEF ImportCase
  <2> HIDE DEF c, e
  <2>4. \/ req'[r] = [req[r] EXCEPT !.next = req[r].next + 1, !.cases = req[r].cases \cup {c}]
        \/ req'[r] = [req[r] EXCEPT !.next = req[r].next + 1, !.errors = e]
    BY <1>t, <2>3 DEF TypeOK
  <2>5. /\ req'[r].row = req[r].row /\ req'[r].work = req[r].work /\ req'[r].step = "case"
        /\ req'[r].target = req[r].target /\ req'[r].cases \subseteq req[r].cases \cup {c}
    BY <2>1, <2>2, <2>4 DEF Serving
  <2>6. CaseIsOf(c, req[r].work.org)
    BY <2>2, <2>3, SuiteIsOf
  <2>7. Flushed(r)
    BY <2>1 DEF Owned
  <2>8. Flushed(r)'
    BY <2>1, <2>3, <2>5, <2>6, <2>7, OfStays DEF Flushed
  <2>9. req' = [req EXCEPT ![r] = req'[r]]
    BY <1>t, <2>3 DEF TypeOK
  <2> QED BY <1>t, <2>1, <2>5, <2>8, <2>9, OwnedFrame
<1>6. ASSUME NEW r \in Requests, Commit(r) PROVE Owned'
  <2>1. /\ ~ At(r, "idle") /\ reader' = reader
        /\ rows' = rows \cup req[r].row /\ cases' = cases \cup req[r].cases
        /\ req' = [req EXCEPT ![r].step = "respond", ![r].row = {}]
    BY <1>6 DEF Commit, At
  <2>2. req[r] \in Serving /\ Flushed(r)
    BY <1>t, <2>1, Served DEF Owned
  <2>3. /\ req'[r] = [req[r] EXCEPT !.step = "respond", !.row = {}]
        /\ req' = [req EXCEPT ![r] = req'[r]]
    BY <1>t, <2>1 DEF TypeOK
  <2>4. /\ req'[r].step = "respond" /\ req'[r].row = {} /\ req'[r].cases = req[r].cases
        /\ req'[r].work = req[r].work /\ req'[r].target = req[r].target
    BY <2>2, <2>3 DEF Serving
  <2>5. Flushed(r)'
    BY <2>1, <2>2, <2>4, OfStays DEF Flushed
  <2>6. \A x \in rows' \ rows : x.id = r /\ RowIsOf(x, req[r].work.org)'
    <3> SUFFICES ASSUME NEW x \in req[r].row
                 PROVE  x.id = r /\ RowIsOf(x, req[r].work.org)'
      BY <2>1
    <3>1. x.id = r /\ x.parent = req[r].target
      BY <2>2 DEF Flushed
    <3>2. At(r, "commit")
      BY <2>1 DEF KeyInv
    <3>3. req[r].work.kind \in RowKinds /\ Found(req[r].work.kind, x.parent, req[r].work.org)
      BY <2>1, <3>1, <3>2 DEF TypedFlow, Flow, FlowOf, At
    <3>4. RowIsOf(x, req[r].work.org)
      BY <3>3, FoundIsOf
    <3> QED BY <2>1, <2>4, <3>1, <3>4, OfStays
  <2>7. \A c \in cases' \ cases : c.by = r /\ CaseIsOf(c, req[r].work.org)'
    BY <2>1, <2>2, <2>4, OfStays DEF Flushed
  <2> QED BY <1>t, <2>1, <2>3, <2>4, <2>5, <2>6, <2>7, OwnedFrame
<1>7. ASSUME NEW r \in Requests, Fail(r) PROVE Owned'
  BY <1>7, <1>a DEF Fail, At, Answers
<1>r. ASSUME NEW r \in Requests, Respond(r) PROVE Owned'
  <2>1. ~ At(r, "idle") /\ UNCHANGED <<rows, cases, reader>> /\ Flushed(r)
    BY <1>r DEF Respond, At, Owned
  <2>2. /\ req' = [req EXCEPT ![r] = req'[r]] /\ req'[r].step = "done"
        /\ req'[r].row = req[r].row /\ req'[r].cases = req[r].cases
        /\ req'[r].work = req[r].work /\ req'[r].target = req[r].target
    BY <1>r, RespondTyped
  <2>3. Flushed(r)'
    BY <2>1, <2>2, OfStays DEF Flushed
  <2> QED BY <1>t, <2>1, <2>2, <2>3, OwnedFrame
<1>8. ASSUME StartReading \/ ReadPage \/ ReadOne PROVE Owned'
  <2>1. UNCHANGED <<rows, cases, req>>
    BY <1>8 DEF StartReading, ReadPage, ReadOne
  <2>2. \A x \in reader'.seen : Shown(x)'
    <3>1. CASE StartReading
      BY <3>1 DEF StartReading
    <3>2. CASE ReadPage
      <4>1. reader \in Reading /\ reader.step # "idle"
        BY <1>t, <3>2 DEF ReadPage, TypeOK, Idle
      <4>2. PICK found, seen, offset, done :
              /\ Reply(found, seen, offset, done)
              /\ \/ seen = {}
                 \/ /\ Found(reader.kind, reader.parent, reader.org)
                    /\ seen \subseteq Listed(reader.kind, reader.parent, reader.tag)
        BY <3>2 DEF ReadPage, Page
      <4>3. reader' = [reader EXCEPT !.found = found, !.seen = reader.seen \cup seen,
                                     !.offset = offset, !.step = IF done THEN "done" ELSE "page"]
        BY <4>2 DEF Reply
      <4>4. reader'.seen = reader.seen \cup seen /\ reader'.org = reader.org
        BY <4>1, <4>3 DEF Reading
      <4>5. ASSUME NEW x \in seen PROVE Shown(x)
        <5>1. /\ Found(reader.kind, reader.parent, reader.org)
              /\ x \in Listed(reader.kind, reader.parent, reader.tag)
          BY <4>2, <4>5
        <5>2. CASE reader.kind = "case"
          <6>1. x \in cases /\ x.suite = reader.parent
            BY <5>1, <5>2 DEF Listed
          <6>2. TenantSuite(reader.parent, reader.org)
            BY <5>1, <5>2 DEF Found, OrgKinds, AppKinds
          <6> QED BY <6>1, <6>2, SuiteIsOf DEF Shown
        <5>3. CASE reader.kind # "case"
          <6>1. x \in rows /\ x.kind = reader.kind /\ x.parent = reader.parent
            BY <5>1, <5>3 DEF Listed
          <6>2. x.kind \in RowKinds
            BY <1>t, <6>1 DEF TypeOK, Row
          <6> QED BY <5>1, <6>1, <6>2, FoundIsOf DEF Shown
        <5> QED BY <5>2, <5>3
      <4> QED BY <2>1, <4>1, <4>4, <4>5 DEF Owned, Shown, RowIsOf, CaseIsOf
    <3>3. CASE ReadOne
      <4>1. PICK org \in Orgs, row \in rows :
              reader' = [step |-> "done", org |-> org, kind |-> "one", parent |-> row.id,
                         tag |-> None, offset |-> 0, start |-> {},
                         seen |-> IF row.parent = org THEN {row} ELSE {}, found |-> row.parent = org]
        BY <3>3 DEF ReadOne
      <4>2. reader'.org = org /\ reader'.seen = IF row.parent = org THEN {row} ELSE {}
        BY <4>1
      <4> QED BY <2>1, <4>2 DEF Shown, RowIsOf
    <3> QED BY <1>8, <3>1, <3>2, <3>3
  <2> QED BY <2>1, <2>2 DEF Owned, Flushed, At, RowIsOf, CaseIsOf
<1>9. CASE UNCHANGED vars
  BY <1>9 DEF vars, Owned, Flushed, Shown, At, RowIsOf, CaseIsOf
<1> QED BY <1>1, <1>2, <1>4, <1>5, <1>6, <1>7, <1>r, <1>8, <1>9 DEF Next, Done

LEMMA OwnedInit == Init => Owned
<1> SUFFICES ASSUME Init PROVE Owned
  OBVIOUS
<1>1. \A row \in rows : row.id \notin Requests
  BY RegistryAssumption DEF Init, FirstIds
<1> QED BY <1>1 DEF Init, Owned, At, Idle

\* TenantIsolation (Registry, docs/authentication.md:5): whatever ids clients name and
\* however their requests interleave, what is stored for a principal hangs in its
\* organisation, and what a principal is shown is of its organisation.
THEOREM TenantsStayIsolated == Spec => []TenantIsolation
<1>3. TypedFlow /\ Owned => TenantIsolation
  <2> SUFFICES ASSUME TypedFlow, Owned PROVE TenantIsolation
    OBVIOUS
  <2>1. ASSUME NEW x \in Row, x \in Case PROVE FALSE
    <3>1. "id" \in DOMAIN x
      BY DEF Row
    <3>2. "id" \notin DOMAIN x
      BY <2>1 DEF Case
    <3> QED BY <3>1, <3>2
  <2>2. rows \cap cases = {}
    BY <2>1 DEF TypedFlow, TypeOK
  <2> QED BY <2>2 DEF Owned, Shown, TenantIsolation
<1> QED BY FlowInit, FlowStep, KeysInit, KeysStep, OwnedInit, OwnedStep, <1>3, PTL DEF Spec
-----------------------------------------------------------------------------
(* Answers and imports                                                     *)

\* Ids are unique and the foreign keys of the tables hold.
RowsFit ==
  /\ \A x, y \in rows : x.id = y.id => x = y
  /\ \A x \in rows : IF x.kind \in OrgKinds THEN x.parent \in Orgs
                     ELSE \E app \in rows : app.kind = "app" /\ app.id = x.parent

\* The row a request that creates one is asked for.
Wanted(r, row) == /\ row.kind = req[r].work.kind /\ row.parent = req[r].target
                  /\ row.name = req[r].work.name

\* What a request that creates a row has established, and what its answer says of the rows.
RowPart(r) ==
  /\ At(r, "parent") => \E row \in rows :
       row.id = req[r].target /\ row.kind = IF req[r].work.kind = "import" THEN "suite" ELSE "app"
  /\ req[r].step \in {"insert", "commit"} => Acceptable(req[r].work)
  /\ At(r, "commit") => \E x \in req[r].row : req[r].row = {x} /\ x.id = r /\ Wanted(r, x)
  /\ (At(r, "respond") \/ req[r].answer = "201") /\ req[r].work.kind # "import" =>
       \E row \in rows : row.id = r
  /\ req[r].answer \in {"409", "500"} => \E row \in rows : row.id # r /\ Wanted(r, row)
  /\ req[r].answer = "404" =>
       \E row \in rows : row.id = req[r].target /\ ~ RowIsOf(row, req[r].work.org)
  /\ ~ At(r, "respond") /\ req[r].answer \notin {"201", "failed"} => \A row \in rows : row.id # r
  /\ \A row \in rows : row.id = r => Wanted(r, row) /\ Acceptable(req[r].work)

\* What an import has done with the cases before the next one.
Imported(r) ==
  /\ req[r].next <= Len(req[r].work.cases) + 1
  /\ req[r].errors = {i \in 1 .. req[r].next - 1 : ~ req[r].work.cases[i].input}
  /\ IsFiniteSet(req[r].cases)
  /\ {c.index : c \in req[r].cases} = {i \in 1 .. req[r].next - 1 : req[r].work.cases[i].input}
  /\ \A c \in req[r].cases : /\ c.suite = req[r].target
                             /\ c.tags = req[r].work.cases[c.index].tags
                             /\ c.created < clock
  /\ \A c, d \in req[r].cases : /\ c.index = d.index => c = d
                                /\ c.index < d.index => c.created < d.created

\* What a request has flushed of an import and what of it is stored.
CasePart(r) ==
  /\ req[r].step \in {"parent", "name", "insert", "commit"} =>
       req[r].next = 1 /\ req[r].cases = {} /\ req[r].errors = {}
  /\ At(r, "case") => Imported(r)
  /\ req[r].work.kind = "import" /\ (At(r, "respond") \/ req[r].answer = "201") =>
       Imported(r) /\ req[r].next = Len(req[r].work.cases) + 1
  /\ At(r, "done") =>
       \/ req[r].cases = {}
       \/ /\ req[r].answer \in {"201", "failed"}
          /\ Imported(r) /\ req[r].next = Len(req[r].work.cases) + 1
  /\ req[r].work.kind # "import" => req[r].cases = {}
  /\ {c \in cases : c.by = r} = IF req[r].step \in {"respond", "done"} THEN req[r].cases ELSE {}

\* A request is answered when it is done; until it begins nothing is there of it.
Account(r) ==
  IF At(r, "idle") THEN (\A row \in rows : row.id # r) /\ (\A c \in cases : c.by # r)
  ELSE (req[r].answer # "none" => At(r, "done")) /\ RowPart(r) /\ CasePart(r)

Accounts == RowsFit /\ \A r \in Requests : Account(r)

\* A row's organisation is settled when the row is stored.
LEMMA OfSettled ==
  ASSUME TypeOK', RowsFit, RowsFit', rows \subseteq rows', NEW row \in rows, NEW org, RowIsOf(row, org)'
  PROVE  RowIsOf(row, org)
<1>1. CASE row.parent = org
  BY <1>1 DEF RowIsOf
<1>2. CASE \E app \in rows' : app.id = row.parent /\ app.parent = org
  <2>1. PICK app \in rows' : app.id = row.parent /\ app.parent = org
    BY <1>2
  <2>2. row.parent \in Ids
    BY <2>1 DEF TypeOK, Row
  <2>3. row.kind \notin OrgKinds
    BY <2>2, RegistryAssumption DEF RowsFit
  <2>4. PICK old \in rows : old.id = row.parent
    BY <2>3 DEF RowsFit
  <2>5. old = app
    BY <2>1, <2>4 DEF RowsFit
  <2> QED BY <2>1, <2>5 DEF RowIsOf
<1> QED BY <1>1, <1>2 DEF RowIsOf

\* A step of request r that adds only what is its own leaves the other accounts true.
LEMMA AccountsFrame ==
  ASSUME TypeOK, TypeOK', Accounts, NEW r \in Requests,
         rows \subseteq rows', cases \subseteq cases', clock <= clock',
         req' = [req EXCEPT ![r] = req'[r]],
         \A x \in rows' \ rows : x.id = r,
         \A c \in cases' \ cases : c.by = r,
         RowsFit', Account(r)'
  PROVE  Accounts'
<1> SUFFICES ASSUME NEW q \in Requests, q # r PROVE Account(q)'
  BY DEF Accounts
<1>1. req'[q] = req[q] /\ Account(q) /\ RowsFit
  BY DEF TypeOK, Accounts
<1>2. CASE At(q, "idle")
  BY <1>1, <1>2 DEF Account, At
<1>3. CASE ~ At(q, "idle")
  <2>1. req[q] \in Serving /\ RowPart(q) /\ CasePart(q) /\ (req[q].answer # "none" => At(q, "done"))
    BY <1>1, <1>3, Served DEF Account
  <2>2. RowPart(q)'
    <3>1. /\ At(q, "parent")' => \E row \in rows' :
               row.id = req'[q].target
               /\ row.kind = IF req'[q].work.kind = "import" THEN "suite" ELSE "app"
          /\ req'[q].step \in {"insert", "commit"} => Acceptable(req'[q].work)
          /\ At(q, "commit")' => \E x \in req'[q].row : req'[q].row = {x} /\ x.id = q /\ Wanted(q, x)'
      BY <1>1, <2>1 DEF RowPart, At, Wanted
    <3>2. /\ (At(q, "respond")' \/ req'[q].answer = "201") /\ req'[q].work.kind # "import" =>
               \E row \in rows' : row.id = q
          /\ req'[q].answer \in {"409", "500"} => \E row \in rows' : row.id # q /\ Wanted(q, row)'
          /\ ~ At(q, "respond")' /\ req'[q].answer \notin {"201", "failed"} =>
               \A row \in rows' : row.id # q
          /\ \A row \in rows' : row.id = q => Wanted(q, row)' /\ Acceptable(req'[q].work)
      BY <1>1, <2>1 DEF RowPart, Wanted, At
    <3>3. ASSUME req'[q].answer = "404"
          PROVE  \E row \in rows' : row.id = req'[q].target /\ ~ RowIsOf(row, req[q].work.org)'
      <4>1. PICK row \in rows : row.id = req[q].target /\ ~ RowIsOf(row, req[q].work.org)
        BY <1>1, <2>1, <3>3 DEF RowPart
      <4>2. ~ RowIsOf(row, req[q].work.org)'
        BY <1>1, <4>1, OfSettled
      <4> QED BY <1>1, <4>1, <4>2
    <3> QED BY <3>1, <3>2, <3>3 DEF RowPart, Acceptable
  <2>3. Imported(q) => Imported(q)'
    <3>1. \A c \in req[q].cases : c.created \in Nat
      BY <2>1 DEF Serving, Case
    <3>2. clock \in Nat /\ clock' \in Nat
      BY DEF TypeOK
    <3> QED BY <1>1, <3>1, <3>2 DEF Imported
  <2>4. {c \in cases' : c.by = q} = {c \in cases : c.by = q}
    OBVIOUS
  <2>5. CasePart(q)'
    BY <1>1, <2>1, <2>3, <2>4 DEF CasePart, At
  <2> QED BY <1>1, <1>3, <2>1, <2>2, <2>5 DEF Account, At
<1> QED BY <1>2, <1>3

\* A parent that is not found is of another organisation.
LEMMA NotFoundIsOther ==
  ASSUME TypeOK, RowsFit, NEW kind \in {"version", "suite", "import"}, NEW org \in Orgs, NEW row \in rows,
         row.kind = IF kind = "import" THEN "suite" ELSE "app",
         ~ Found(kind, row.id, org)
  PROVE  ~ RowIsOf(row, org)
<1>1. \A x \in rows : x.id \in Ids
  BY DEF TypeOK, Row
<1>2. CASE kind # "import"
  <2>1. row.parent \in Orgs /\ row.parent # org
    BY <1>2 DEF RowsFit, Found, TenantApp, OrgKinds, AppKinds
  <2> QED BY <1>1, <2>1, RegistryAssumption DEF RowIsOf
<1>3. CASE kind = "import"
  <2>1. PICK app \in rows : app.kind = "app" /\ app.id = row.parent
    BY <1>3 DEF RowsFit, OrgKinds
  <2>2. row.parent # org
    BY <1>1, <2>1, RegistryAssumption
  <2>3. ~ TenantApp(row.parent, org)
    BY <1>3 DEF Found, TenantSuite, OrgKinds, AppKinds
  <2>4. app.parent # org
    BY <2>1, <2>3 DEF TenantApp
  <2> QED BY <2>1, <2>2, <2>4 DEF RowIsOf, RowsFit
<1> QED BY <1>2, <1>3

\* A request that stores nothing keeps its account, when what it is answered is so.
LEMMA AnswerAccount ==
  ASSUME TypedFlow, TypeOK', Accounts, NEW r \in Requests, ~ At(r, "idle"), ~ At(r, "respond"), ~ At(r, "done"),
         NEW a \in Answers \ {"none", "201"}, Answer(r, a), UNCHANGED <<rows, cases, clock>>,
         a \in {"409", "500"} => \E row \in rows : Wanted(r, row),
         a = "404" => \E row \in rows : row.id = req[r].target /\ ~ RowIsOf(row, req[r].work.org)
  PROVE  Accounts'
<1>1. req[r] \in Serving /\ TypeOK
  BY Served DEF TypedFlow
<1>2. /\ req' = [req EXCEPT ![r] = req'[r]]
      /\ req'[r] = [req[r] EXCEPT !.step = "done", !.answer = a, !.row = {}, !.cases = {}]
  BY AnswerTyped
<1>3. /\ req'[r].step = "done" /\ req'[r].answer = a /\ req'[r].cases = {}
      /\ req'[r].work = req[r].work /\ req'[r].target = req[r].target
  BY <1>1, <1>2 DEF Serving
<1>4. RowPart(r) /\ CasePart(r) /\ req[r].answer = "none"
  BY DEF Accounts, Account
<1>5. \A row \in rows : row.id # r
  BY <1>4 DEF RowPart
<1>6. {c \in cases : c.by = r} = {}
  BY <1>1, <1>4 DEF CasePart, At
<1>7. RowPart(r)'
  BY <1>3, <1>5 DEF RowPart, At, Wanted, RowIsOf
<1>8. CasePart(r)'
  BY <1>3, <1>6 DEF CasePart, At
<1>9. Account(r)'
  BY <1>3, <1>7, <1>8 DEF Account, At
<1>10. RowsFit' /\ clock <= clock'
  BY <1>1 DEF Accounts, RowsFit, TypeOK
<1> QED BY <1>1, <1>2, <1>9, <1>10, AccountsFrame

LEMMA GotoAccount ==
  ASSUME TypedFlow, TypeOK', Accounts, NEW r \in Requests, NEW step \in {"name", "insert", "case"},
         Goto(r, step), UNCHANGED <<rows, cases, clock>>,
         req[r].step \in {"parent", "name"},
         step = "insert" => Acceptable(req[r].work)
  PROVE  Accounts'
<1>0. ~ At(r, "idle") /\ ~ At(r, "respond") /\ ~ At(r, "done") /\ step \in Steps
  BY DEF At, Steps
<1>1. req[r] \in Serving /\ TypeOK
  BY <1>0, Served DEF TypedFlow
<1>2. /\ req' = [req EXCEPT ![r] = req'[r]]
      /\ req'[r] = [req[r] EXCEPT !.step = step]
  BY <1>0, <1>1, GotoTyped
<1>3. /\ req'[r].step = step /\ req'[r].answer = req[r].answer /\ req'[r].cases = req[r].cases
      /\ req'[r].work = req[r].work /\ req'[r].target = req[r].target
      /\ req'[r].next = req[r].next /\ req'[r].errors = req[r].errors
  BY <1>1, <1>2 DEF Serving
<1>4. RowPart(r) /\ CasePart(r) /\ req[r].answer = "none"
  BY <1>0 DEF Accounts, Account
<1>5. req[r].next = 1 /\ req[r].cases = {} /\ req[r].errors = {} /\ {c \in cases : c.by = r} = {}
  BY <1>4 DEF CasePart
<1>6. Len(req[r].work.cases) \in Nat
  BY <1>1, WorkTyped DEF Serving
<1>7. Imported(r)'
  <2>1. \A i \in 1 .. req'[r].next - 1 : FALSE
    BY <1>3, <1>5
  <2>2. IsFiniteSet(req'[r].cases)
    BY <1>3, <1>5, FS_EmptySet
  <2> QED BY <1>3, <1>5, <1>6, <2>1, <2>2 DEF Imported
<1>8. RowPart(r)'
  BY <1>0, <1>3, <1>4 DEF RowPart, At, Acceptable
<1>9. CasePart(r)'
  BY <1>3, <1>4, <1>5, <1>7 DEF CasePart, At
<1>10. Account(r)'
  BY <1>3, <1>4, <1>8, <1>9 DEF Account, At
<1>11. RowsFit' /\ clock <= clock'
  BY <1>1 DEF Accounts, RowsFit, TypeOK
<1> QED BY <1>1, <1>2, <1>10, <1>11, AccountsFrame

LEMMA BeginAccount ==
  ASSUME TypedFlow, TypeOK', Accounts, NEW r \in Requests, Begin(r)
  PROVE  Accounts'
<1>1. TypeOK /\ At(r, "idle") /\ UNCHANGED <<rows, cases, clock>>
  BY DEF TypedFlow, Begin
<1>2. PICK work \in Work, target \in Orgs \cup Ids :
        /\ req' = [req EXCEPT ![r] =
                 [step |-> IF work.role = "viewer" THEN "done"
                           ELSE IF work.kind \in OrgKinds THEN "name" ELSE "parent",
                  work |-> work, target |-> target, next |-> 1, row |-> {}, cases |-> {},
                  errors |-> {}, answer |-> IF work.role = "viewer" THEN "403" ELSE "none"]]
        /\ work.kind \notin OrgKinds => \E row \in rows :
             row.id = target /\ row.kind = IF work.kind = "import" THEN "suite" ELSE "app"
  BY <1>1, WorkTyped DEF Begin, TypeOK, Row
<1>3. /\ req' = [req EXCEPT ![r] = req'[r]]
      /\ req'[r].work = work /\ req'[r].target = target /\ req'[r].next = 1
      /\ req'[r].cases = {} /\ req'[r].errors = {}
      /\ \/ req'[r].step = "done" /\ req'[r].answer = "403"
         \/ req'[r].step = "name" /\ req'[r].answer = "none"
         \/ req'[r].step = "parent" /\ req'[r].answer = "none" /\ work.kind \notin OrgKinds
  BY <1>1, <1>2 DEF TypeOK
<1>4. (\A row \in rows : row.id # r) /\ (\A c \in cases : c.by # r)
  BY <1>1 DEF Accounts, Account
<1>5. RowPart(r)'
  BY <1>1, <1>2, <1>3, <1>4 DEF RowPart, At
<1>6. CasePart(r)'
  BY <1>1, <1>3, <1>4 DEF CasePart, At
<1>7. Account(r)'
  BY <1>3, <1>5, <1>6 DEF Account, At
<1>8. RowsFit' /\ clock <= clock'
  BY <1>1 DEF Accounts, RowsFit, TypeOK
<1> QED BY <1>1, <1>3, <1>7, <1>8, AccountsFrame

LEMMA FlushAccount ==
  ASSUME TypedFlow, TypeOK', Accounts, NEW r \in Requests, At(r, "insert"),
         req' = [req EXCEPT ![r].step = "commit", ![r].row = {NewRow(r)}],
         clock' = clock + 1, UNCHANGED <<rows, cases>>
  PROVE  Accounts'
<1>0. ~ At(r, "idle") /\ ~ At(r, "done") /\ TypeOK /\ clock \in Nat
  BY DEF At, TypedFlow, TypeOK
<1>1. req[r] \in Serving
  BY <1>0, Served
<1>2. /\ req' = [req EXCEPT ![r] = req'[r]]
      /\ req'[r] = [req[r] EXCEPT !.step = "commit", !.row = {NewRow(r)}]
  BY <1>0 DEF TypeOK
<1>3. /\ req'[r].step = "commit" /\ req'[r].answer = req[r].answer /\ req'[r].cases = req[r].cases
      /\ req'[r].work = req[r].work /\ req'[r].target = req[r].target
      /\ req'[r].next = req[r].next /\ req'[r].errors = req[r].errors
      /\ req'[r].row = {NewRow(r)}
  BY <1>1, <1>2 DEF Serving
<1>4. RowPart(r) /\ CasePart(r) /\ req[r].answer = "none"
  BY <1>0 DEF Accounts, Account
<1>5. NewRow(r).id = r /\ Wanted(r, NewRow(r))
  BY DEF NewRow, Wanted
<1>6. RowPart(r)'
  <2> HIDE DEF NewRow
  <2>1. Acceptable(req[r].work) /\ \A row \in rows : row.id # r
    BY <1>4 DEF RowPart, At
  <2>2. \E x \in req'[r].row : req'[r].row = {x} /\ x.id = r /\ Wanted(r, x)'
    BY <1>3, <1>5 DEF Wanted
  <2> QED BY <1>3, <1>4, <2>1, <2>2 DEF RowPart, At, Acceptable
<1>7. CasePart(r)'
  BY <1>3, <1>4 DEF CasePart, At
<1>8. Account(r)'
  BY <1>3, <1>4, <1>6, <1>7 DEF Account, At
<1>9. RowsFit' /\ clock <= clock'
  BY <1>0 DEF Accounts, RowsFit
<1> QED BY <1>0, <1>2, <1>8, <1>9, AccountsFrame

\* One more case is stored or refused.
LEMMA ImportAccount ==
  ASSUME TypedFlow, TypeOK', Accounts, NEW r \in Requests, ImportCase(r)
  PROVE  Accounts'
<1> DEFINE n == req[r].next
           given == req[r].work.cases
           case  == [by |-> r, index |-> n, suite |-> req[r].target,
                     tags |-> given[n].tags, created |-> clock]
<1>0. /\ ~ At(r, "idle") /\ ~ At(r, "done") /\ TypeOK /\ At(r, "case")
      /\ UNCHANGED <<rows, cases>> /\ n <= Len(given)
  BY DEF At, TypedFlow, ImportCase
<1>1. req[r] \in Serving /\ clock \in Nat
  BY <1>0, Served DEF TypeOK
<1>2. \/ /\ given[n].input /\ clock' = clock + 1
         /\ req' = [req EXCEPT ![r].next = @ + 1, ![r].cases = @ \cup {case}]
      \/ /\ ~ given[n].input /\ clock' = clock
         /\ req' = [req EXCEPT ![r].next = @ + 1, ![r].errors = @ \cup {n}]
  BY DEF ImportCase
<1>3. /\ n \in 1 .. Len(given) /\ Len(given) \in Nat /\ n \in Nat
      /\ \A c \in req[r].cases : c.index \in Nat /\ c.created \in Nat
  <2>1. n \in Nat /\ n >= 1 /\ req[r].work \in Work
    BY <1>0, <1>1 DEF Serving, TypedFlow, Flow, FlowOf
  <2>2. Len(given) \in Nat
    BY <2>1, WorkTyped
  <2> QED BY <1>0, <1>1, <2>1, <2>2 DEF Serving, Case
<1>4. /\ case.index = n /\ case.suite = req[r].target /\ case.tags = given[n].tags
      /\ case.created = clock /\ case.by = r
  OBVIOUS
<1> HIDE DEF case
<1>5. /\ req' = [req EXCEPT ![r] = req'[r]]
      /\ \/ /\ given[n].input /\ clock' = clock + 1
            /\ req'[r] = [req[r] EXCEPT !.next = n + 1, !.cases = req[r].cases \cup {case}]
         \/ /\ ~ given[n].input /\ clock' = clock
            /\ req'[r] = [req[r] EXCEPT !.next = n + 1, !.errors = req[r].errors \cup {n}]
  BY <1>0, <1>2 DEF TypeOK
<1>6. /\ req'[r].step = req[r].step /\ req'[r].answer = req[r].answer
      /\ req'[r].work = req[r].work /\ req'[r].target = req[r].target
      /\ req'[r].next = n + 1 /\ req'[r].row = req[r].row
      /\ \/ /\ given[n].input /\ clock' = clock + 1
            /\ req'[r].cases = req[r].cases \cup {case} /\ req'[r].errors = req[r].errors
         \/ /\ ~ given[n].input /\ clock' = clock
            /\ req'[r].cases = req[r].cases /\ req'[r].errors = req[r].errors \cup {n}
  <2>1. CASE req'[r] = [req[r] EXCEPT !.next = n + 1, !.cases = req[r].cases \cup {case}]
             /\ given[n].input /\ clock' = clock + 1
    BY <1>1, <2>1 DEF Serving
  <2>2. CASE req'[r] = [req[r] EXCEPT !.next = n + 1, !.errors = req[r].errors \cup {n}]
             /\ ~ given[n].input /\ clock' = clock
    BY <1>1, <2>2 DEF Serving
  <2> QED BY <1>5, <2>1, <2>2
<1>7. RowPart(r) /\ CasePart(r) /\ req[r].answer = "none" /\ Imported(r)
  BY <1>0 DEF Accounts, Account, CasePart
<1>8. RowPart(r)'
  BY <1>0, <1>6, <1>7 DEF RowPart, At
<1>9. \A i : i \in 1 .. n <=> i \in 1 .. n - 1 \/ i = n
  BY <1>3
<1>10. req'[r].next - 1 = n /\ req'[r].next <= Len(given) + 1
  BY <1>3, <1>6
<1>11. \A c \in req[r].cases : c.index < n
  <2> SUFFICES ASSUME NEW c \in req[r].cases PROVE c.index < n
    OBVIOUS
  <2>1. c.index \in {i \in 1 .. n - 1 : given[i].input}
    BY <1>7 DEF Imported
  <2> QED BY <1>3, <2>1
<1>12. Imported(r)'
  <2>1. CASE /\ given[n].input /\ clock' = clock + 1
             /\ req'[r].cases = req[r].cases \cup {case} /\ req'[r].errors = req[r].errors
    <3>1. req'[r].errors = {i \in 1 .. n : ~ given[i].input}
      BY <1>7, <1>9, <2>1 DEF Imported
    <3>2. IsFiniteSet(req'[r].cases)
      BY <1>7, <2>1, FS_AddElement DEF Imported
    <3>3. {c.index : c \in req'[r].cases} = {i \in 1 .. n : given[i].input}
      <4>1. {c.index : c \in req'[r].cases} = {c.index : c \in req[r].cases} \cup {n}
        BY <1>4, <2>1
      <4> QED BY <1>7, <1>9, <2>1, <4>1 DEF Imported
    <3>4. \A c \in req'[r].cases : /\ c.suite = req[r].target
                                   /\ c.tags = given[c.index].tags
                                   /\ c.created < clock'
      <4>1. \A c \in req[r].cases : c.created < clock + 1
        BY <1>1, <1>3, <1>7 DEF Imported
      <4> QED BY <1>1, <1>4, <1>7, <2>1, <4>1 DEF Imported
    <3>5. \A c, d \in req'[r].cases : /\ c.index = d.index => c = d
                                      /\ c.index < d.index => c.created < d.created
      <4>1. \A c \in req[r].cases : c.created < clock
        BY <1>7 DEF Imported
      <4>2. \A c \in req[r].cases : c.index # n /\ ~ (n < c.index) /\ ~ (n < n)
        BY <1>3, <1>11
      <4>3. \A c, d \in req[r].cases : /\ c.index = d.index => c = d
                                       /\ c.index < d.index => c.created < d.created
        BY <1>7 DEF Imported
      <4>4. case.index = n /\ case.created = clock /\ req'[r].cases = req[r].cases \cup {case}
        BY <1>4, <2>1
      <4> HIDE DEF n, given
      <4> TAKE c, d \in req'[r].cases
      <4>5. CASE c \in req[r].cases /\ d \in req[r].cases
        BY <4>3, <4>5
      <4>6. CASE c \in req[r].cases /\ d = case
        BY <4>1, <4>2, <4>4, <4>6
      <4>7. CASE c = case /\ d \in req[r].cases
        BY <4>2, <4>4, <4>7
      <4>8. CASE c = case /\ d = case
        BY <1>3, <4>4, <4>8
      <4> QED BY <4>4, <4>5, <4>6, <4>7, <4>8
    <3> QED BY <1>6, <1>10, <3>1, <3>2, <3>3, <3>4, <3>5 DEF Imported
  <2>2. CASE /\ ~ given[n].input /\ clock' = clock
             /\ req'[r].cases = req[r].cases /\ req'[r].errors = req[r].errors \cup {n}
    <3>0. /\ req[r].errors = {i \in 1 .. n - 1 : ~ given[i].input}
          /\ {c.index : c \in req[r].cases} = {i \in 1 .. n - 1 : given[i].input}
      BY <1>7 DEF Imported
    <3>1. req'[r].errors = {i \in 1 .. n : ~ given[i].input}
      <4>1. {i \in 1 .. n : ~ given[i].input} = {i \in 1 .. n - 1 : ~ given[i].input} \cup {n}
        BY <1>9, <2>2, Zenon
      <4> QED BY <2>2, <3>0, <4>1
    <3>2. {c.index : c \in req'[r].cases} = {i \in 1 .. n : given[i].input}
      <4>1. {i \in 1 .. n : given[i].input} = {i \in 1 .. n - 1 : given[i].input}
        BY <1>9, <2>2, Zenon
      <4> QED BY <2>2, <3>0, <4>1
    <3> QED BY <1>6, <1>7, <1>10, <2>2, <3>1, <3>2 DEF Imported
  <2> QED BY <1>6, <2>1, <2>2
<1>13. req[r].work.kind = "import"
  BY <1>0 DEF TypedFlow, Flow, FlowOf, At
<1>14. CasePart(r)'
  BY <1>0, <1>6, <1>7, <1>12, <1>13 DEF CasePart, At
<1>15. Account(r)'
  BY <1>0, <1>6, <1>7, <1>8, <1>14 DEF Account, At
<1>16. RowsFit' /\ clock <= clock'
  BY <1>0, <1>1, <1>6 DEF Accounts, RowsFit
<1> QED BY <1>0, <1>5, <1>15, <1>16, AccountsFrame

LEMMA CommitAccount ==
  ASSUME TypedFlow, TypeOK', KeyInv, Owned, Accounts, NEW r \in Requests, Commit(r)
  PROVE  Accounts'
<1>0. /\ ~ At(r, "idle") /\ ~ At(r, "done") /\ TypeOK
      /\ \/ At(r, "commit")
         \/ At(r, "case") /\ req[r].next > Len(req[r].work.cases)
      /\ rows' = rows \cup req[r].row /\ cases' = cases \cup req[r].cases
      /\ req' = [req EXCEPT ![r].step = "respond", ![r].row = {}]
      /\ clock' = clock
  BY DEF At, TypedFlow, Commit
<1>1. req[r] \in Serving /\ clock \in Nat
  BY <1>0, Served DEF TypeOK
<1>2. /\ req' = [req EXCEPT ![r] = req'[r]]
      /\ req'[r] = [req[r] EXCEPT !.step = "respond", !.row = {}]
  BY <1>0 DEF TypeOK
<1>3. /\ req'[r].step = "respond" /\ req'[r].answer = req[r].answer /\ req'[r].cases = req[r].cases
      /\ req'[r].work = req[r].work /\ req'[r].target = req[r].target
      /\ req'[r].next = req[r].next /\ req'[r].errors = req[r].errors
  BY <1>1, <1>2 DEF Serving
<1>4. RowPart(r) /\ CasePart(r) /\ req[r].answer = "none" /\ Flushed(r)
  BY <1>0 DEF Accounts, Account, Owned
<1>5. \A row \in rows : row.id # r
  BY <1>0, <1>4 DEF RowPart, At
<1>6. {c \in cases' : c.by = r} = req[r].cases
  BY <1>0, <1>4 DEF CasePart, Flushed, At
<1>7. CASE At(r, "commit")
  <2>1. req[r].work.kind \in RowKinds /\ Found(req[r].work.kind, req[r].target, req[r].work.org)
    BY <1>0, <1>7 DEF TypedFlow, Flow, FlowOf, At
  <2>2. req[r].work.kind # "import" /\ req[r].cases = {} /\ Acceptable(req[r].work)
    BY <1>4, <1>7, <2>1 DEF RowPart, CasePart, At, RowKinds, OrgKinds, AppKinds
  <2>3. PICK x \in req[r].row : req[r].row = {x} /\ x.id = r /\ Wanted(r, x)
    BY <1>4, <1>7 DEF RowPart
  <2>4. RowsFit'
    <3>1. RowsFit /\ rows' = rows \cup {x}
      BY <1>0, <2>3 DEF Accounts
    <3>2. \A y, z \in rows' : y.id = z.id => y = z
      BY <1>5, <2>3, <3>1 DEF RowsFit
    <3>3. req[r].work.org \in Orgs
      BY <1>1, WorkTyped DEF Serving
    <3>4. x.kind = req[r].work.kind /\ x.parent = req[r].target
      BY <2>3 DEF Wanted
    <3>5. CASE x.kind \in OrgKinds
      <4>1. x.parent = req[r].work.org
        BY <2>1, <3>4, <3>5 DEF Found, OrgKinds, AppKinds
      <4> QED BY <3>1, <3>2, <3>3, <3>5, <4>1 DEF RowsFit
    <3>6. CASE x.kind \notin OrgKinds
      <4>1. TenantApp(x.parent, req[r].work.org)
        BY <2>1, <3>4, <3>6 DEF Found, RowKinds
      <4> QED BY <3>1, <3>2, <3>6, <4>1 DEF RowsFit, TenantApp
    <3> QED BY <3>5, <3>6
  <2>5. /\ \E row \in rows' : row.id = r
        /\ \A row \in rows' : row.id = r => Wanted(r, row)'
    BY <1>0, <1>3, <1>5, <2>3 DEF Wanted
  <2>6. RowPart(r)'
    BY <1>3, <1>4, <2>2, <2>5 DEF RowPart, At, Acceptable
  <2>7. CasePart(r)'
    BY <1>3, <1>4, <1>6, <2>2 DEF CasePart, At
  <2>8. Account(r)'
    BY <1>3, <1>4, <2>6, <2>7 DEF Account, At
  <2>9. clock <= clock'
    BY <1>0, <1>1
  <2>10. (\A y \in rows' \ rows : y.id = r) /\ (\A c \in cases' \ cases : c.by = r)
    BY <1>0, <2>2, <2>3
  <2> QED BY <1>0, <1>2, <2>4, <2>8, <2>9, <2>10, AccountsFrame
<1>8. CASE At(r, "case") /\ req[r].next > Len(req[r].work.cases)
  <2>1. req[r].work.kind = "import" /\ Imported(r) /\ req[r].row = {}
    BY <1>0, <1>4, <1>8 DEF TypedFlow, Flow, FlowOf, At, CasePart, KeyInv
  <2>2. req[r].next = Len(req[r].work.cases) + 1
    <3>1. req[r].next \in Nat /\ Len(req[r].work.cases) \in Nat
      BY <1>1, WorkTyped DEF Serving
    <3> QED BY <1>8, <2>1, <3>1 DEF Imported
  <2>3. rows' = rows
    BY <1>0, <2>1
  <2>4. Imported(r)'
    <3>1. Imported(r) /\ clock' = clock
      BY <1>0, <2>1
    <3> QED BY <1>3, <3>1 DEF Imported
  <2>5. RowPart(r)'
    BY <1>3, <1>4, <1>5, <2>1, <2>3 DEF RowPart, At
  <2>6. CasePart(r)'
    BY <1>3, <1>4, <1>6, <2>1, <2>2, <2>4 DEF CasePart, At
  <2>7. Account(r)'
    BY <1>3, <1>4, <2>5, <2>6 DEF Account, At
  <2>8. clock <= clock'
    BY <1>0, <1>1
  <2>9. \A c \in cases' \ cases : c.by = r
    BY <1>0, <1>4 DEF Flushed
  <2>10. RowsFit'
    BY <2>3 DEF Accounts, RowsFit
  <2> QED BY <1>0, <1>2, <2>3, <2>7, <2>8, <2>9, <2>10, AccountsFrame
<1> QED BY <1>0, <1>7, <1>8

LEMMA RespondAccount ==
  ASSUME TypedFlow, TypeOK', Accounts, NEW r \in Requests, Respond(r)
  PROVE  Accounts'
<1>1. /\ ~ At(r, "idle") /\ At(r, "respond") /\ ~ At(r, "done") /\ TypeOK
      /\ UNCHANGED <<rows, cases, clock>>
  BY DEF Respond, At, TypedFlow
<1>2. /\ req' = [req EXCEPT ![r] = req'[r]]
      /\ req'[r].step = "done" /\ req'[r].answer \in {"201", "failed"}
      /\ req'[r].cases = req[r].cases /\ req'[r].work = req[r].work
      /\ req'[r].target = req[r].target /\ req'[r].next = req[r].next
      /\ req'[r].errors = req[r].errors
  BY RespondTyped
<1>3. RowPart(r) /\ CasePart(r)
  BY <1>1 DEF Accounts, Account
<1>4. RowPart(r)'
  BY <1>1, <1>2, <1>3 DEF RowPart, At, Wanted, Acceptable
<1>5. Imported(r) => Imported(r)'
  BY <1>1, <1>2 DEF Imported
<1>6. CasePart(r)'
  BY <1>1, <1>2, <1>3, <1>5 DEF CasePart, At
<1>7. Account(r)'
  BY <1>2, <1>4, <1>6 DEF Account, At
<1>8. RowsFit' /\ clock <= clock'
  BY <1>1 DEF Accounts, RowsFit, TypeOK
<1> QED BY <1>1, <1>2, <1>7, <1>8, AccountsFrame

LEMMA AccountsStep ==
  TypedFlow /\ TypedFlow' /\ KeyInv /\ Owned /\ Accounts /\ [Next]_vars => Accounts'
<1> SUFFICES ASSUME TypedFlow, TypedFlow', KeyInv, Owned, Accounts, [Next]_vars PROVE Accounts'
  OBVIOUS
<1>t. TypeOK /\ TypeOK'
  BY DEF TypedFlow
<1>1. ASSUME NEW r \in Requests, Begin(r) PROVE Accounts'
  BY <1>1, <1>t, BeginAccount
<1>2. ASSUME NEW r \in Requests, FindParent(r) PROVE Accounts'
  <2>1. /\ ~ At(r, "idle") /\ ~ At(r, "respond") /\ ~ At(r, "done") /\ req[r].step = "parent"
        /\ UNCHANGED <<rows, cases, clock>>
    BY <1>2 DEF FindParent, At
  <2>2. ASSUME ~ Found(req[r].work.kind, req[r].target, req[r].work.org), Answer(r, "404")
        PROVE  Accounts'
    <3>1. PICK row \in rows :
            row.id = req[r].target /\ row.kind = IF req[r].work.kind = "import" THEN "suite" ELSE "app"
      BY <2>1 DEF Accounts, Account, RowPart, At
    <3>2. req[r].work \in Work
      BY <1>t, <2>1, Served DEF Serving
    <3>3. req[r].work.kind \in {"version", "suite", "import"} /\ req[r].work.org \in Orgs
      BY <2>1, <3>2, WorkTyped DEF TypedFlow, Flow, FlowOf, RowKinds, AppKinds
    <3>4. ~ RowIsOf(row, req[r].work.org)
      BY <1>t, <2>2, <3>1, <3>3, NotFoundIsOther DEF Accounts
    <3> QED BY <1>t, <2>1, <2>2, <3>1, <3>4, AnswerAccount DEF Answers
  <2>3. ASSUME Answer(r, "422") PROVE Accounts'
    BY <1>t, <2>1, <2>3, AnswerAccount DEF Answers
  <2>4. ASSUME Goto(r, IF req[r].work.kind = "import" THEN "case" ELSE "name") PROVE Accounts'
    BY <1>t, <2>1, <2>4, GotoAccount
  <2> QED BY <1>2, <2>2, <2>3, <2>4 DEF FindParent
<1>3. ASSUME NEW r \in Requests, CheckName(r) PROVE Accounts'
  <2>1. /\ ~ At(r, "idle") /\ ~ At(r, "respond") /\ ~ At(r, "done") /\ req[r].step = "name"
        /\ UNCHANGED <<rows, cases, clock>>
    BY <1>3 DEF CheckName, At
  <2>2. ASSUME Taken(NewRow(r)), Answer(r, "409") PROVE Accounts'
    <3>1. \E row \in rows : Wanted(r, row)
      BY <2>2 DEF Taken, SameKey, NewRow, Wanted
    <3> QED BY <1>t, <2>1, <2>2, <3>1, AnswerAccount DEF Answers
  <2>3. ASSUME Answer(r, "422") PROVE Accounts'
    BY <1>t, <2>1, <2>3, AnswerAccount DEF Answers
  <2>4. ASSUME Acceptable(req[r].work), Goto(r, "insert") PROVE Accounts'
    BY <1>t, <2>1, <2>4, GotoAccount
  <2> QED BY <1>3, <2>2, <2>3, <2>4 DEF CheckName
<1>4. ASSUME NEW r \in Requests, Insert(r) PROVE Accounts'
  <2>1. /\ ~ At(r, "idle") /\ ~ At(r, "respond") /\ ~ At(r, "done") /\ At(r, "insert")
        /\ UNCHANGED <<rows, cases>>
    BY <1>4 DEF Insert, At
  <2>2. CASE Taken(NewRow(r))
    <3>1. \E row \in rows : Wanted(r, row)
      BY <2>2 DEF Taken, SameKey, NewRow, Wanted
    <3>2. Answer(r, "500") /\ UNCHANGED clock
      BY <1>4, <2>2 DEF Insert
    <3> QED BY <1>t, <2>1, <3>1, <3>2, AnswerAccount DEF Answers
  <2>3. CASE ~ Taken(NewRow(r))
    BY <1>4, <1>t, <2>1, <2>3, FlushAccount DEF Insert
  <2> QED BY <2>2, <2>3
<1>5. ASSUME NEW r \in Requests, ImportCase(r) PROVE Accounts'
  BY <1>5, <1>t, ImportAccount
<1>6. ASSUME NEW r \in Requests, Commit(r) PROVE Accounts'
  BY <1>6, <1>t, CommitAccount
<1>7. ASSUME NEW r \in Requests, Fail(r) PROVE Accounts'
  <2>1. /\ ~ At(r, "idle") /\ ~ At(r, "respond") /\ ~ At(r, "done")
        /\ Answer(r, "failed") /\ UNCHANGED <<rows, cases, clock>>
    BY <1>7 DEF Fail, At
  <2> QED BY <1>t, <2>1, AnswerAccount DEF Answers
<1>r. ASSUME NEW r \in Requests, Respond(r) PROVE Accounts'
  BY <1>r, <1>t, RespondAccount
<1>8. CASE UNCHANGED <<rows, cases, req, clock>>
  BY <1>8 DEF Accounts, RowsFit, Account, RowPart, CasePart, Imported, Wanted, RowIsOf, At, Acceptable
<1> QED BY <1>1, <1>2, <1>3, <1>4, <1>5, <1>6, <1>7, <1>r, <1>8
        DEF Next, Done, vars, StartReading, ReadPage, ReadOne

LEMMA AccountsInit == Init => Accounts
<1> SUFFICES ASSUME Init PROVE Accounts
  OBVIOUS
<1>1. \A row \in rows : row.id \notin Requests
  BY RegistryAssumption DEF Init, FirstIds
<1>2. RowsFit
  BY RegistryAssumption DEF Init, RowsFit
<1> QED BY <1>1, <1>2 DEF Init, Accounts, Account, At, Idle

\* AnswersAreTrue (Registry): an answer says what happened to the request, however
\* others interleave with it, a refusal leaves nothing behind, and what a request leaves
\* that failed after its commit is what it asked for.
THEOREM AnswersStayTrue == Spec => []AnswersAreTrue
<1>1. TypedFlow /\ Accounts => AnswersAreTrue
  <2> SUFFICES ASSUME TypedFlow, Accounts, NEW r \in Requests, At(r, "done")
               PROVE  LET work == req[r].work
                          mine == {row \in rows : row.id = r} \cup {c \in cases : c.by = r}
                          wanted(row) == row.kind = work.kind /\ row.parent = req[r].target
                                         /\ row.name = work.name
                      IN  /\ req[r].answer = "201" /\ work.kind # "import" =>
                               \E row \in rows : row.id = r
                          /\ req[r].answer \in {"409", "500"} =>
                               \E row \in rows : row.id # r /\ wanted(row)
                          /\ req[r].answer = "404" =>
                               ~ \E row \in rows : row.id = req[r].target /\ RowIsOf(row, work.org)
                          /\ req[r].answer \notin {"201", "failed"} => mine = {}
                          /\ \A row \in rows : row.id = r => wanted(row) /\ Acceptable(work)
    BY DEF AnswersAreTrue
  <2>1. RowPart(r) /\ CasePart(r) /\ RowsFit
    BY DEF Accounts, Account, At
  <2>2. req[r].answer = "404" =>
          ~ \E row \in rows : row.id = req[r].target /\ RowIsOf(row, req[r].work.org)
    BY <2>1 DEF RowPart, RowsFit
  <2>3. req[r].answer \notin {"201", "failed"} =>
          {row \in rows : row.id = r} = {} /\ {c \in cases : c.by = r} = {}
    BY <2>1 DEF RowPart, CasePart, At
  <2> QED BY <2>1, <2>2, <2>3 DEF RowPart, Wanted
<1> QED BY FlowInit, FlowStep, KeysInit, KeysStep, OwnedInit, OwnedStep, AccountsInit, AccountsStep,
           <1>1, PTL DEF Spec

LEMMA OneToOne ==
  ASSUME NEW S, NEW T, NEW f \in [S -> T],
         \A x, y \in S : f[x] = f[y] => x = y,
         \A t \in T : \E x \in S : f[x] = t
  PROVE  ExistsBijection(S, T)
<1>1. f \in Injection(S, T)
  BY DEF Injection, IsInjective
<1>2. f \in Surjection(S, T)
  BY DEF Surjection
<1> QED BY <1>1, <1>2 DEF ExistsBijection, Bijection

\* The cases with an input and those without make up an import.
LEMMA CountImport ==
  ASSUME TypeOK, NEW r \in Requests, req[r] \in Serving, Imported(r),
         req[r].next = Len(req[r].work.cases) + 1
  PROVE  Len(req[r].work.cases) = Cardinality(req[r].cases) + Cardinality(req[r].errors)
<1> DEFINE given == req[r].work.cases
           n == Len(given)
           N == 1 .. n
           good == {i \in N : given[i].input}
           S == req[r].cases
           index == [c \in S |-> c.index]
<1>1. n \in Nat /\ req[r].next - 1 = n
  BY WorkTyped DEF Serving
<1>2. req[r].errors = N \ good /\ {c.index : c \in S} = good /\ IsFiniteSet(S)
  BY <1>1 DEF Imported
<1>3. IsFiniteSet(N) /\ Cardinality(N) = n
  <2> HIDE DEF n
  <2>1. 1 \in Int /\ n \in Int
    BY <1>1
  <2>2. IsFiniteSet(N) /\ Cardinality(N) = IF 1 > n THEN 0 ELSE n - 1 + 1
    BY <2>1, FS_Interval
  <2> QED BY <1>1, <2>2
<1>4. ExistsBijection(S, good)
  <2>1. index \in [S -> good]
    BY <1>2
  <2>2. \A c, d \in S : index[c] = index[d] => c = d
    BY DEF Imported
  <2>3. \A i \in good : \E c \in S : index[c] = i
    BY <1>2
  <2> HIDE DEF index
  <2> QED BY <2>1, <2>2, <2>3, OneToOne
<1>5. Cardinality(good) = Cardinality(S) /\ Cardinality(S) \in Nat
  BY <1>2, <1>4, FS_Bijection, FS_CardinalityType
<1>6. Cardinality(N \ good) = n - Cardinality(N \cap good)
  BY <1>3, FS_Difference
<1>7. N \cap good = good
  OBVIOUS
<1>8. n = Cardinality(S) + Cardinality(N \ good)
  <2>1. Cardinality(N \ good) = n - Cardinality(S)
    BY <1>5, <1>6, <1>7, Zenon
  <2>2. n \in Int /\ Cardinality(S) \in Int
    BY <1>1, <1>5
  <2> HIDE DEF n, N, good, S
  <2> QED BY <2>1, <2>2
<1> QED BY <1>2, <1>8

\* ImportsAreWhole (Registry): import_eval_cases commits every case that has an input, in
\* the order given, or none, whichever request fails or commits in between, and it
\* answers a client when all of them are stored.
THEOREM ImportsStayWhole == Spec => []ImportsAreWhole
<1>1. TypedFlow /\ Accounts => ImportsAreWhole
  <2> SUFFICES ASSUME TypedFlow, Accounts, NEW r \in Requests, ~ At(r, "idle")
               PROVE  LET given    == req[r].work.cases
                          stored   == {c \in cases : c.by = r}
                          complete == {c.index : c \in stored} = {i \in DOMAIN given : given[i].input}
                      IN  /\ stored # {} =>
                               /\ req[r].work.kind = "import" /\ complete
                               /\ \A c, d \in stored : c.index < d.index => c.created < d.created
                               /\ \A c \in stored : c.suite = req[r].target
                                                    /\ c.tags = given[c.index].tags
                          /\ req[r].answer = "201" /\ req[r].work.kind = "import" =>
                               /\ complete
                               /\ Cardinality(stored) = Cardinality(req[r].cases)
                               /\ Len(given) = Cardinality(stored) + Cardinality(req[r].errors)
    BY DEF ImportsAreWhole
  <2>1. CasePart(r) /\ req[r] \in Serving /\ TypeOK /\ (req[r].answer # "none" => At(r, "done"))
    BY Served DEF Accounts, Account, TypedFlow
  <2>2. CASE Imported(r) /\ req[r].next = Len(req[r].work.cases) + 1
             /\ {c \in cases : c.by = r} = req[r].cases
    <3>1. req[r].work.cases \in Seq([input : BOOLEAN, tags : SUBSET Tags])
      BY <2>1, WorkTyped DEF Serving
    <3>2. DOMAIN req[r].work.cases = 1 .. req[r].next - 1
      BY <2>2, <3>1
    <3>3. Len(req[r].work.cases) = Cardinality(req[r].cases) + Cardinality(req[r].errors)
      BY <2>1, <2>2, CountImport
    <3>4. req[r].cases # {} => req[r].work.kind = "import"
      BY <2>1 DEF CasePart
    <3> QED BY <2>2, <3>2, <3>3, <3>4 DEF Imported
  <2>3. CASE {c \in cases : c.by = r} = {} /\ ~ (req[r].answer = "201" /\ req[r].work.kind = "import")
    BY <2>3
  <2>4. \/ Imported(r) /\ req[r].next = Len(req[r].work.cases) + 1
           /\ {c \in cases : c.by = r} = req[r].cases
        \/ {c \in cases : c.by = r} = {} /\ ~ (req[r].answer = "201" /\ req[r].work.kind = "import")
    BY <2>1 DEF CasePart, At
  <2> QED BY <2>2, <2>3, <2>4
<1> QED BY FlowInit, FlowStep, KeysInit, KeysStep, OwnedInit, OwnedStep, AccountsInit, AccountsStep,
           <1>1, PTL DEF Spec
-----------------------------------------------------------------------------
(* Readers                                                                 *)

\* Everything that is flushed or committed.
Stamped ==
  rows \cup cases \cup UNION {req[r].row \cup req[r].cases : r \in {r \in Requests : ~ At(r, "idle")}}

\* No two things are flushed at one time.
TimesDiffer ==
  /\ clock >= 1 /\ IsFiniteSet(rows) /\ IsFiniteSet(cases)
  /\ \A r \in Requests : ~ At(r, "idle") => IsFiniteSet(req[r].row) /\ IsFiniteSet(req[r].cases)
  /\ \A x \in Stamped : x.created < clock /\ (x.created <= 0 => x \in FirstRows)
  /\ \A x, y \in Stamped : x.created = y.created /\ x.created > 0 => x = y

Rank(kind, S, x) == Cardinality({y \in S : Earlier(kind, y, x)})

\* What was there at the start is listed still, and what of it ranks below the offset was shown.
Followed ==
  reader.step = "page" =>
    LET S == Listed(reader.kind, reader.parent, reader.tag) IN
    /\ reader.start \subseteq S
    /\ \A x \in reader.start : Rank(reader.kind, S, x) < reader.offset => x \in reader.seen

ReaderInv == Followed /\ ReadersMissNothing

\* What is listed is a set of things flushed at different times.
Ordered(S) == IsFiniteSet(S) /\ \A x, y \in S : x.created \in Int /\ (x.created = y.created => x = y)

LEMMA RankGrows ==
  ASSUME NEW S, NEW T, IsFiniteSet(T), S \subseteq T, NEW kind, NEW x
  PROVE  Rank(kind, S, x) \in Nat /\ Rank(kind, T, x) \in Nat /\ Rank(kind, S, x) <= Rank(kind, T, x)
<1> DEFINE s == {y \in S : Earlier(kind, y, x)}
           t == {y \in T : Earlier(kind, y, x)}
<1>1. s \subseteq t /\ t \subseteq T
  OBVIOUS
<1>2. IsFiniteSet(t)
  BY <1>1, FS_Subset
<1>3. IsFiniteSet(s) /\ Cardinality(s) <= Cardinality(t)
  BY <1>1, <1>2, FS_Subset
<1>4. Cardinality(s) \in Nat /\ Cardinality(t) \in Nat
  BY <1>2, <1>3, FS_CardinalityType
<1> QED BY <1>3, <1>4 DEF Rank

LEMMA IntervalSize ==
  ASSUME NEW a \in Int, NEW n \in Nat
  PROVE  IsFiniteSet(a .. a + n - 1) /\ Cardinality(a .. a + n - 1) = n
<1> DEFINE b == a + n - 1
<1>1. b \in Int /\ (a > b => n = 0) /\ b - a + 1 = n
  OBVIOUS
<1> HIDE DEF b
<1>2. IsFiniteSet(a .. b) /\ Cardinality(a .. b) = IF a > b THEN 0 ELSE b - a + 1
  BY <1>1, FS_Interval
<1>3. IsFiniteSet(a .. b) /\ Cardinality(a .. b) = n
  BY <1>1, <1>2
<1> QED BY <1>3 DEF b

\* The ranks of n things are 0 to n - 1.
LEMMA RanksFill ==
  ASSUME NEW S, Ordered(S), NEW kind
  PROVE  /\ \A x \in S : Rank(kind, S, x) \in 0 .. Cardinality(S) - 1
         /\ \A k \in 0 .. Cardinality(S) - 1 : \E x \in S : Rank(kind, S, x) = k
<1> DEFINE n == Cardinality(S)
           before(x) == {y \in S : Earlier(kind, y, x)}
           rank == [x \in S |-> Rank(kind, S, x)]
<1>1. IsFiniteSet(S) /\ n \in Nat
  BY FS_CardinalityType DEF Ordered
<1>2. ASSUME NEW x \in S
      PROVE  IsFiniteSet(before(x)) /\ Cardinality(before(x)) \in Nat /\ Cardinality(before(x)) < n
  <2>1. before(x) \in SUBSET S /\ x \notin before(x)
    BY DEF Earlier, Ordered
  <2> HIDE DEF before
  <2>2. IsFiniteSet(before(x)) /\ Cardinality(before(x)) <= n /\ n # Cardinality(before(x))
    BY <1>1, <2>1, FS_Subset
  <2>3. Cardinality(before(x)) \in Nat
    BY <2>2, FS_CardinalityType
  <2> QED BY <1>1, <2>2, <2>3
<1>3. \A x \in S : Rank(kind, S, x) \in 0 .. n - 1
  <2>1. \A x \in S : Rank(kind, S, x) = Cardinality(before(x))
    BY DEF Rank
  <2> HIDE DEF before, n
  <2> QED BY <1>1, <1>2, <2>1
<1>4. ASSUME NEW x \in S, NEW y \in S, Earlier(kind, x, y) PROVE Rank(kind, S, x) # Rank(kind, S, y)
  <2>1. before(x) \subseteq before(y)
    BY <1>4 DEF Earlier, Ordered
  <2>2. x \in before(y) /\ x \notin before(x)
    BY <1>4 DEF Earlier, Ordered
  <2>3. IsFiniteSet(before(y))
    BY <1>2
  <2>4. Cardinality(before(x)) # Cardinality(before(y))
    <3> HIDE DEF before
    <3> QED BY <2>1, <2>2, <2>3, FS_Subset
  <2> QED BY <2>4 DEF Rank
<1>5. \A x, y \in S : x # y => Earlier(kind, x, y) \/ Earlier(kind, y, x)
  BY DEF Earlier, Ordered
<1>6. rank \in [S -> 0 .. n - 1] /\ \A x, y \in S : rank[x] = rank[y] => x = y
  BY <1>3, <1>4, <1>5
<1>7. IsFiniteSet(0 .. n - 1) /\ Cardinality(0 .. n - 1) = n
  <2> HIDE DEF n
  <2>1. IsFiniteSet(0 .. 0 + n - 1) /\ Cardinality(0 .. 0 + n - 1) = n
    BY <1>1, IntervalSize
  <2>2. 0 + n - 1 = n - 1
    BY <1>1
  <2> QED BY <2>1, <2>2
<1>8. rank \in Injection(S, 0 .. n - 1)
  <2> HIDE DEF rank, n
  <2> QED BY <1>6 DEF Injection, IsInjective
<1>9. rank \in Surjection(S, 0 .. n - 1)
  <2> HIDE DEF rank
  <2> QED BY <1>7, <1>8, FS_Injection
<1>10. \A k \in 0 .. n - 1 : \E x \in S : rank[x] = k
  BY <1>9 DEF Surjection
<1> QED BY <1>3, <1>10

\* A page that is not full is the last.
LEMMA LastPage ==
  ASSUME NEW S, Ordered(S), NEW kind, NEW offset \in Nat, Cardinality(Page(kind, S, offset)) < PageSize
  PROVE  \A x \in S : Rank(kind, S, x) < offset + PageSize
<1> SUFFICES ASSUME NEW x \in S, ~ (Rank(kind, S, x) < offset + PageSize) PROVE FALSE
  OBVIOUS
<1> DEFINE n == Cardinality(S)
           K == offset .. offset + PageSize - 1
           page == Page(kind, S, offset)
           rank == [y \in page |-> Rank(kind, S, y)]
<1>1. IsFiniteSet(S) /\ n \in Nat /\ PageSize \in Nat \ {0}
  BY FS_CardinalityType, RegistryAssumption DEF Ordered
<1>2. /\ \A y \in S : Rank(kind, S, y) \in 0 .. n - 1
      /\ \A k \in 0 .. n - 1 : \E y \in S : Rank(kind, S, y) = k
  BY RanksFill
<1>3. page = {y \in S : offset <= Rank(kind, S, y) /\ Rank(kind, S, y) < offset + PageSize}
  BY DEF Page, Rank
<1>4. K \subseteq 0 .. n - 1
  BY <1>1, <1>2
<1>5. rank \in [page -> K]
  BY <1>1, <1>2, <1>3
<1>6. \A k \in K : \E y \in page : rank[y] = k
  BY <1>1, <1>2, <1>3, <1>4
<1>7. rank \in Surjection(page, K)
  <2> HIDE DEF rank, page, K
  <2> QED BY <1>5, <1>6 DEF Surjection
<1>8. IsFiniteSet(page)
  BY <1>1, <1>3, FS_Subset
<1>9. Cardinality(K) <= Cardinality(page)
  <2> HIDE DEF rank, page, K
  <2> QED BY <1>7, <1>8, FS_Surjection
<1>10. Cardinality(K) = PageSize
  BY <1>1, IntervalSize
<1>11. Cardinality(page) \in Nat
  BY <1>8, FS_CardinalityType
<1> QED BY <1>1, <1>9, <1>10, <1>11

LEMMA StampedTyped ==
  ASSUME TypeOK
  PROVE  \A x \in Stamped : x \in Row \cup Case /\ x.created \in Int
<1>1. \A r \in Requests : ~ At(r, "idle") => req[r].row \subseteq Row /\ req[r].cases \subseteq Case
  BY Served DEF Serving
<1>2. Stamped \subseteq Row \cup Case
  BY <1>1 DEF Stamped, TypeOK
<1>3. \A x \in Row \cup Case : x.created \in Int
  BY DEF Row, Case
<1> QED BY <1>2, <1>3

\* A step of request r flushes at most one thing, and stores only what was flushed.
LEMMA TimesFrame ==
  ASSUME TypeOK, TypeOK', TimesDiffer, NEW r \in Requests, req' = [req EXCEPT ![r] = req'[r]], NEW new,
         \/ new = {} /\ clock' = clock
         \/ clock' = clock + 1 /\ \E t : new = {t} /\ t.created = clock,
         rows' \subseteq Stamped, cases' \subseteq Stamped, IsFiniteSet(rows'), IsFiniteSet(cases'),
         req'[r].row \subseteq Stamped \cup new, req'[r].cases \subseteq Stamped \cup new,
         IsFiniteSet(req'[r].row), IsFiniteSet(req'[r].cases)
  PROVE  TimesDiffer'
<1>1. \A q \in Requests : q # r => req'[q] = req[q]
  BY DEF TypeOK
<1>2. Stamped' \subseteq Stamped \cup new
  <2> SUFFICES ASSUME NEW x \in Stamped' PROVE x \in Stamped \cup new
    OBVIOUS
  <2>1. CASE x \in rows' \cup cases'
    BY <2>1
  <2>2. CASE x \notin rows' \cup cases'
    <3>1. PICK q \in Requests : ~ At(q, "idle")' /\ x \in req'[q].row \cup req'[q].cases
      BY <2>2 DEF Stamped
    <3>2. CASE q = r
      BY <3>1, <3>2
    <3>3. CASE q # r
      <4>1. req'[q] = req[q] /\ ~ At(q, "idle")
        BY <1>1, <3>1, <3>3 DEF At
      <4> QED BY <3>1, <4>1 DEF Stamped
    <3> QED BY <3>2, <3>3
  <2> QED BY <2>1, <2>2
<1>3. clock \in Nat /\ clock >= 1 /\ \A x \in Stamped : x.created \in Int /\ x.created < clock
  BY StampedTyped DEF TypeOK, TimesDiffer
<1>4. \A q \in Requests : ~ At(q, "idle")' => IsFiniteSet(req'[q].row) /\ IsFiniteSet(req'[q].cases)
  BY <1>1 DEF TimesDiffer, At
<1>5. CASE new = {} /\ clock' = clock
  <2>1. Stamped' \subseteq Stamped
    BY <1>2, <1>5
  <2> QED BY <1>4, <1>5, <2>1 DEF TimesDiffer
<1>6. CASE clock' = clock + 1 /\ \E t : new = {t} /\ t.created = clock
  <2>1. PICK t : new = {t} /\ t.created = clock
    BY <1>6
  <2>2. \A x \in Stamped' : x = t \/ x \in Stamped
    BY <1>2, <2>1
  <2>3. \A x \in Stamped' : x.created < clock' /\ (x.created <= 0 => x \in FirstRows)
    BY <1>3, <1>6, <2>1, <2>2 DEF TimesDiffer
  <2>4. \A x, y \in Stamped' : x.created = y.created /\ x.created > 0 => x = y
    BY <1>3, <2>1, <2>2 DEF TimesDiffer
  <2>5. clock' >= 1
    BY <1>3, <1>6
  <2> QED BY <1>4, <2>3, <2>4, <2>5 DEF TimesDiffer
<1> QED BY <1>5, <1>6

LEMMA TimesInit == Init => TimesDiffer
<1> SUFFICES ASSUME Init PROVE TimesDiffer
  OBVIOUS
<1>1. rows = FirstRows /\ cases = {} /\ clock = 1 /\ \A r \in Requests : At(r, "idle")
  BY DEF Init, At, Idle
<1>2. Stamped = FirstRows
  BY <1>1 DEF Stamped
<1>3. /\ FirstRows \subseteq Row /\ IsFiniteSet(FirstRows)
      /\ \A x \in FirstRows : x.created <= 0
  BY RegistryAssumption
<1>4. \A x \in FirstRows : x.created \in Int
  BY <1>3 DEF Row
<1> QED BY <1>1, <1>2, <1>3, <1>4, FS_EmptySet DEF TimesDiffer

LEMMA TimesStep == TypedFlow /\ TypeOK' /\ TimesDiffer /\ [Next]_vars => TimesDiffer'
<1> SUFFICES ASSUME TypedFlow, TypeOK', TimesDiffer, [Next]_vars PROVE TimesDiffer'
  OBVIOUS
<1>t. TypeOK /\ IsFiniteSet(rows) /\ IsFiniteSet(cases) /\ IsFiniteSet({})
  BY FS_EmptySet DEF TypedFlow, TimesDiffer
<1>s. rows \subseteq Stamped /\ cases \subseteq Stamped
  BY DEF Stamped
<1>m. ASSUME NEW r \in Requests, ~ At(r, "idle")
      PROVE  /\ req[r].row \subseteq Stamped /\ req[r].cases \subseteq Stamped
             /\ IsFiniteSet(req[r].row) /\ IsFiniteSet(req[r].cases) /\ req[r] \in Serving
  BY <1>m, <1>t, Served DEF Stamped, TimesDiffer
<1>1. ASSUME NEW r \in Requests, Begin(r) PROVE TimesDiffer'
  <2>1. /\ req' = [req EXCEPT ![r] = req'[r]] /\ req'[r].row = {} /\ req'[r].cases = {}
        /\ UNCHANGED <<rows, cases, clock>>
    BY <1>1, <1>t DEF Begin, TypeOK
  <2> QED BY <1>s, <1>t, <2>1, TimesFrame
<1>a. ASSUME NEW r \in Requests, ~ At(r, "idle"), NEW a \in Answers, Answer(r, a),
             UNCHANGED <<rows, cases, clock>>
      PROVE  TimesDiffer'
  <2>1. /\ req' = [req EXCEPT ![r] = req'[r]]
        /\ req'[r] = [req[r] EXCEPT !.step = "done", !.answer = a, !.row = {}, !.cases = {}]
    BY <1>a, AnswerTyped
  <2>2. req'[r].row = {} /\ req'[r].cases = {}
    BY <1>a, <1>m, <2>1 DEF Serving
  <2> QED BY <1>a, <1>s, <1>t, <2>1, <2>2, TimesFrame
<1>g. ASSUME NEW r \in Requests, ~ At(r, "idle"), NEW step \in Steps, Goto(r, step),
             UNCHANGED <<rows, cases, clock>>
      PROVE  TimesDiffer'
  <2>1. /\ req' = [req EXCEPT ![r] = req'[r]]
        /\ req'[r] = [req[r] EXCEPT !.step = step]
    BY <1>g, <1>t, GotoTyped
  <2>2. req'[r].row = req[r].row /\ req'[r].cases = req[r].cases
    BY <1>g, <1>m, <2>1 DEF Serving
  <2>3. req[r].row \subseteq Stamped \cup {} /\ req[r].cases \subseteq Stamped \cup {}
    BY <1>g, <1>m
  <2> QED BY <1>g, <1>m, <1>s, <1>t, <2>1, <2>2, <2>3, TimesFrame
<1>2. ASSUME NEW r \in Requests, FindParent(r) \/ CheckName(r) PROVE TimesDiffer'
  <2>1. ~ At(r, "idle") /\ UNCHANGED <<rows, cases, clock>>
    BY <1>2 DEF FindParent, CheckName, At
  <2>2. \/ \E a \in Answers : Answer(r, a)
        \/ \E step \in Steps : Goto(r, step)
    BY <1>2 DEF FindParent, CheckName, Answers, Steps
  <2> QED BY <2>1, <2>2, <1>a, <1>g
<1>4. ASSUME NEW r \in Requests, Insert(r) PROVE TimesDiffer'
  <2>1. ~ At(r, "idle") /\ UNCHANGED <<rows, cases>>
    BY <1>4 DEF Insert, At
  <2>2. CASE Taken(NewRow(r))
    BY <1>4, <1>a, <2>1, <2>2 DEF Insert, Answers
  <2>3. CASE ~ Taken(NewRow(r))
    <3>1. /\ req' = [req EXCEPT ![r].step = "commit", ![r].row = {NewRow(r)}]
          /\ clock' = clock + 1
      BY <1>4, <2>3 DEF Insert
    <3>2. /\ req'[r] = [req[r] EXCEPT !.step = "commit", !.row = {NewRow(r)}]
          /\ req' = [req EXCEPT ![r] = req'[r]]
      BY <1>t, <3>1 DEF TypeOK
    <3>3. req'[r].row = {NewRow(r)} /\ req'[r].cases = req[r].cases
      BY <1>m, <2>1, <3>2 DEF Serving
    <3>4. NewRow(r).created = clock /\ IsFiniteSet({NewRow(r)})
      BY FS_Singleton DEF NewRow
    <3>5. \E t : {NewRow(r)} = {t} /\ t.created = clock
      BY <3>4
    <3> HIDE DEF NewRow
    <3> QED BY <1>m, <1>s, <1>t, <2>1, <3>1, <3>2, <3>3, <3>4, <3>5, TimesFrame
  <2> QED BY <2>2, <2>3
<1>5. ASSUME NEW r \in Requests, ImportCase(r) PROVE TimesDiffer'
  <2>1. ~ At(r, "idle") /\ UNCHANGED <<rows, cases>>
    BY <1>5 DEF ImportCase, At
  <2> DEFINE c == [by |-> r, index |-> req[r].next, suite |-> req[r].target,
                   tags |-> req[r].work.cases[req[r].next].tags, created |-> clock]
             e == req[r].errors \cup {req[r].next}
  <2>2. c.created = clock
    OBVIOUS
  <2>3. \/ clock' = clock + 1 /\ req' = [req EXCEPT ![r].next = @ + 1, ![r].cases = @ \cup {c}]
        \/ clock' = clock /\ req' = [req EXCEPT ![r].next = @ + 1, ![r].errors = e]
    BY <1>5 DEF ImportCase
  <2> HIDE DEF c, e
  <2>4. /\ req' = [req EXCEPT ![r] = req'[r]]
        /\ \/ /\ clock' = clock + 1
              /\ req'[r] = [req[r] EXCEPT !.next = req[r].next + 1, !.cases = req[r].cases \cup {c}]
           \/ /\ clock' = clock
              /\ req'[r] = [req[r] EXCEPT !.next = req[r].next + 1, !.errors = e]
    BY <1>t, <2>3 DEF TypeOK
  <2>5. CASE /\ clock' = clock + 1
             /\ req'[r] = [req[r] EXCEPT !.next = req[r].next + 1, !.cases = req[r].cases \cup {c}]
    <3>1. req'[r].row = req[r].row /\ req'[r].cases = req[r].cases \cup {c}
      BY <1>m, <2>1, <2>5 DEF Serving
    <3>2. IsFiniteSet(req[r].cases \cup {c})
      BY <1>m, <2>1, FS_AddElement
    <3>3. \E t : {c} = {t} /\ t.created = clock
      BY <2>2
    <3>4. req'[r].row \subseteq Stamped \cup {c} /\ req'[r].cases \subseteq Stamped \cup {c}
      BY <1>m, <2>1, <3>1
    <3> QED BY <1>m, <1>s, <1>t, <2>1, <2>4, <2>5, <3>1, <3>2, <3>3, <3>4, TimesFrame
  <2>6. CASE /\ clock' = clock
             /\ req'[r] = [req[r] EXCEPT !.next = req[r].next + 1, !.errors = e]
    <3>1. req'[r].row = req[r].row /\ req'[r].cases = req[r].cases
      BY <1>m, <2>1, <2>6 DEF Serving
    <3>2. req'[r].row \subseteq Stamped \cup {} /\ req'[r].cases \subseteq Stamped \cup {}
      BY <1>m, <2>1, <3>1
    <3> QED BY <1>m, <1>s, <1>t, <2>1, <2>4, <2>6, <3>1, <3>2, TimesFrame
  <2> QED BY <2>4, <2>5, <2>6
<1>6. ASSUME NEW r \in Requests, Commit(r) PROVE TimesDiffer'
  <2>1. /\ ~ At(r, "idle") /\ clock' = clock
        /\ rows' = rows \cup req[r].row /\ cases' = cases \cup req[r].cases
        /\ req' = [req EXCEPT ![r].step = "respond", ![r].row = {}]
    BY <1>6 DEF Commit, At
  <2>2. /\ req'[r] = [req[r] EXCEPT !.step = "respond", !.row = {}]
        /\ req' = [req EXCEPT ![r] = req'[r]]
    BY <1>t, <2>1 DEF TypeOK
  <2>3. req'[r].row = {} /\ req'[r].cases = req[r].cases
    BY <1>m, <2>1, <2>2 DEF Serving
  <2>4. IsFiniteSet(rows') /\ IsFiniteSet(cases')
    BY <1>m, <1>t, <2>1, FS_Union
  <2>5. rows' \subseteq Stamped /\ cases' \subseteq Stamped
    BY <1>m, <1>s, <2>1
  <2>6. req'[r].row \subseteq Stamped \cup {} /\ req'[r].cases \subseteq Stamped \cup {}
    BY <1>m, <2>1, <2>3
  <2> QED BY <1>m, <1>t, <2>1, <2>2, <2>3, <2>4, <2>5, <2>6, TimesFrame
<1>7. ASSUME NEW r \in Requests, Fail(r) PROVE TimesDiffer'
  BY <1>7, <1>a DEF Fail, At, Answers
<1>r. ASSUME NEW r \in Requests, Respond(r) PROVE TimesDiffer'
  <2>1. ~ At(r, "idle") /\ UNCHANGED <<rows, cases, clock>>
    BY <1>r DEF Respond, At
  <2>2. /\ req' = [req EXCEPT ![r] = req'[r]]
        /\ req'[r].row = req[r].row /\ req'[r].cases = req[r].cases
    BY <1>r, RespondTyped
  <2>3. req[r].row \subseteq Stamped \cup {} /\ req[r].cases \subseteq Stamped \cup {}
    BY <1>m, <2>1
  <2> QED BY <1>m, <1>s, <1>t, <2>1, <2>2, <2>3, TimesFrame
<1>8. CASE UNCHANGED <<rows, cases, req, clock>>
  <2>1. Stamped' = Stamped
    BY <1>8 DEF Stamped, At
  <2> QED BY <1>8, <2>1 DEF TimesDiffer, At
<1> QED BY <1>1, <1>2, <1>4, <1>5, <1>6, <1>7, <1>r, <1>8
        DEF Next, Done, vars, StartReading, ReadPage, ReadOne

Lists == \A kind, parent, tag : Ordered(Listed(kind, parent, tag))

LEMMA ListsOrdered == TypeOK /\ TimesDiffer => Lists
<1> SUFFICES ASSUME TypeOK, TimesDiffer, NEW kind, NEW parent, NEW tag
             PROVE  Ordered(Listed(kind, parent, tag))
  BY DEF Lists
<1> DEFINE S == Listed(kind, parent, tag)
<1>1. S \subseteq rows \/ S \subseteq cases
  BY DEF Listed
<1>2. IsFiniteSet(S)
  BY <1>1, FS_Subset DEF TimesDiffer
<1>3. S \subseteq Stamped /\ \A x \in S : x.created \in Int
  BY <1>1, StampedTyped DEF Stamped
<1>4. ASSUME NEW x \in S, NEW y \in S, x.created = y.created PROVE x = y
  <2>1. CASE x.created > 0
    BY <1>3, <1>4, <2>1 DEF TimesDiffer
  <2>2. CASE x.created <= 0
    <3>1. x \in FirstRows /\ y \in FirstRows
      BY <1>3, <1>4, <2>2 DEF TimesDiffer
    <3>2. x \in Row /\ "id" \in DOMAIN x
      BY <3>1, RegistryAssumption DEF Row
    <3>3. x \notin cases
      BY <3>2 DEF TypeOK, Case
    <3>4. x.kind = kind /\ y.kind = kind /\ x.parent = parent /\ y.parent = parent
      BY <3>3 DEF Listed
    <3> QED BY <1>4, <3>1, <3>4, RegistryAssumption
  <2> QED BY <1>3, <2>1, <2>2
<1> QED BY <1>2, <1>3, <1>4 DEF Ordered

\* Nothing is deleted while a client reads: what is listed moves down the list only.
LEMMA ReaderFrame ==
  ASSUME TypeOK, Lists', ReaderInv, reader' = reader, rows \subseteq rows', cases \subseteq cases'
  PROVE  ReaderInv'
<1>1. ReadersMissNothing'
  BY DEF ReaderInv, ReadersMissNothing
<1>2. ASSUME reader.step = "page" PROVE Followed'
  <2> DEFINE S == Listed(reader.kind, reader.parent, reader.tag)
             T == S'
  <2>0. reader.offset \in Nat
    BY <1>2 DEF TypeOK, Idle, Reading
  <2>1. S \subseteq T
    BY DEF Listed
  <2>2. Ordered(T)
    BY DEF Lists
  <2>3. IsFiniteSet(T)
    BY <2>2 DEF Ordered
  <2>4. /\ reader.start \subseteq S
        /\ \A x \in reader.start : Rank(reader.kind, S, x) < reader.offset => x \in reader.seen
    BY <1>2 DEF ReaderInv, Followed
  <2>5. ASSUME NEW x \in reader.start, Rank(reader.kind, T, x) < reader.offset PROVE x \in reader.seen
    <3> HIDE DEF S, T
    <3>1. /\ Rank(reader.kind, S, x) \in Nat /\ Rank(reader.kind, T, x) \in Nat
          /\ Rank(reader.kind, S, x) <= Rank(reader.kind, T, x)
      BY <2>1, <2>3, RankGrows
    <3> QED BY <2>0, <2>4, <2>5, <3>1
  <2>6. /\ reader.start \subseteq T
        /\ \A x \in reader.start : Rank(reader.kind, T, x) < reader.offset => x \in reader.seen
    BY <2>1, <2>4, <2>5
  <2> QED BY <2>6 DEF Followed, Rank, Earlier
<1> QED BY <1>1, <1>2 DEF ReaderInv, Followed

LEMMA ReaderStep == TypedFlow /\ Lists /\ Lists' /\ ReaderInv /\ [Next]_vars => ReaderInv'
<1> SUFFICES ASSUME TypedFlow, Lists, Lists', ReaderInv, [Next]_vars PROVE ReaderInv'
  OBVIOUS
<1>t. TypeOK
  BY DEF TypedFlow
<1>1. CASE \E r \in Requests :
             \/ Begin(r) \/ FindParent(r) \/ CheckName(r) \/ Insert(r)
             \/ ImportCase(r) \/ Commit(r) \/ Respond(r) \/ Fail(r)
  <2>1. reader' = reader /\ rows \subseteq rows' /\ cases \subseteq cases'
    BY <1>1 DEF Begin, FindParent, CheckName, Insert, ImportCase, Commit, Respond, Fail
  <2> QED BY <1>t, <2>1, ReaderFrame
<1>2. CASE StartReading
  <2>1. PICK org, kind, tag, parent :
          reader' = [step |-> "page", org |-> org, kind |-> kind, parent |-> parent, tag |-> tag,
                     offset |-> 0, start |-> Listed(kind, parent, tag), seen |-> {}, found |-> TRUE]
    BY <1>2 DEF StartReading
  <2>2. /\ reader'.step = "page" /\ reader'.kind = kind /\ reader'.parent = parent /\ reader'.tag = tag
        /\ reader'.offset = 0 /\ reader'.start = Listed(kind, parent, tag)
        /\ UNCHANGED <<rows, cases>>
    BY <1>2, <2>1 DEF StartReading
  <2> DEFINE S == Listed(kind, parent, tag)
  <2>3. Ordered(S)
    BY DEF Lists
  <2>4. \A x \in S : ~ (Rank(kind, S, x) < 0)
    <3> HIDE DEF S
    <3>1. \A x : Rank(kind, S, x) \in Nat
      BY <2>3, RankGrows DEF Ordered
    <3> QED BY <3>1
  <2>5. Followed'
    BY <2>2, <2>4 DEF Followed, Rank, Earlier, Listed
  <2> QED BY <2>2, <2>5 DEF ReaderInv, ReadersMissNothing
<1>3. CASE ReadPage
  <2>1. reader \in Reading /\ reader.step = "page" /\ UNCHANGED <<rows, cases>>
    BY <1>t, <1>3 DEF ReadPage, TypeOK, Idle
  <2> DEFINE S == Listed(reader.kind, reader.parent, reader.tag)
             page == Page(reader.kind, S, reader.offset)
             next == reader.offset + PageSize
             rank(x) == Rank(reader.kind, S, x)
  <2>2. CASE ~ Found(reader.kind, reader.parent, reader.org)
    <3>1. Reply(FALSE, {}, reader.offset, TRUE)
      BY <1>3, <2>2 DEF ReadPage
    <3>2. reader' = [reader EXCEPT !.found = FALSE, !.seen = reader.seen \cup {},
                                   !.offset = reader.offset, !.step = "done"]
      BY <3>1 DEF Reply
    <3>3. reader'.step = "done" /\ reader'.found = FALSE
      BY <2>1, <3>2 DEF Reading
    <3> QED BY <3>3 DEF ReaderInv, Followed, ReadersMissNothing
  <2>3. CASE Found(reader.kind, reader.parent, reader.org)
    <3>1. Reply(TRUE, page, next, Cardinality(page) < PageSize)
      BY <1>3, <2>3 DEF ReadPage
    <3> DEFINE step == IF Cardinality(page) < PageSize THEN "done" ELSE "page"
    <3>2. reader' = [reader EXCEPT !.found = TRUE, !.seen = reader.seen \cup page,
                                   !.offset = next, !.step = step]
      BY <3>1 DEF Reply
    <3>3. /\ reader'.step = step /\ reader'.seen = reader.seen \cup page /\ reader'.offset = next
          /\ reader'.start = reader.start /\ reader'.kind = reader.kind
          /\ reader'.parent = reader.parent /\ reader'.tag = reader.tag
      <4> HIDE DEF step, next, page
      <4> QED BY <2>1, <3>2 DEF Reading
    <3>4. /\ reader.start \subseteq S
          /\ \A x \in reader.start : rank(x) < reader.offset => x \in reader.seen
      BY <2>1 DEF ReaderInv, Followed
    <3>5. Ordered(S) /\ reader.offset \in Nat /\ PageSize \in Nat
      BY <2>1, RegistryAssumption DEF Lists, Reading
    <3>6. \A x : rank(x) \in Nat
      <4> HIDE DEF S
      <4> QED BY <3>5, RankGrows DEF Ordered
    <3>7. page = {x \in S : reader.offset <= rank(x) /\ rank(x) < next}
      BY DEF Page, Rank
    <3>8. ASSUME NEW x \in reader.start, rank(x) < next PROVE x \in reader.seen \cup page
      <4> HIDE DEF S, page, rank, next
      <4>1. rank(x) < reader.offset \/ reader.offset <= rank(x)
        BY <3>5, <3>6
      <4> QED BY <3>4, <3>7, <3>8, <4>1
    <3>9. CASE Cardinality(page) < PageSize
      <4>1. \A x \in S : rank(x) < next
        BY <3>5, <3>9, LastPage
      <4>2. reader.start \subseteq reader.seen \cup page
        BY <3>4, <3>8, <4>1
      <4>3. reader'.step = "done"
        BY <3>3, <3>9
      <4> QED BY <3>3, <4>2, <4>3 DEF ReaderInv, Followed, ReadersMissNothing
    <3>10. CASE ~ (Cardinality(page) < PageSize)
      <4>1. reader'.step = "page"
        BY <3>3, <3>10
      <4>2. Followed'
        <5>1. Listed(reader.kind, reader.parent, reader.tag)' = S
          BY <2>1, <3>3 DEF Listed
        <5>2. \A x \in reader'.start : Rank(reader.kind, Listed(reader.kind, reader.parent, reader.tag), x)'
                < reader'.offset => x \in reader'.seen
          BY <3>3, <3>8, <5>1 DEF Rank, Earlier
        <5> QED BY <3>3, <3>4, <5>1, <5>2 DEF Followed
      <4> QED BY <4>1, <4>2 DEF ReaderInv, ReadersMissNothing
    <3> QED BY <3>9, <3>10
  <2> QED BY <2>2, <2>3
<1>4. CASE ReadOne
  <2>1. reader'.step = "done" /\ reader'.start = {}
    BY <1>4 DEF ReadOne
  <2> QED BY <2>1 DEF ReaderInv, Followed, ReadersMissNothing
<1>5. CASE UNCHANGED vars
  BY <1>5, <1>t, ReaderFrame DEF vars
<1> QED BY <1>1, <1>2, <1>3, <1>4, <1>5 DEF Next, Done

\* ReadersMissNothing (Registry): a client that reads page after page to the last is shown
\* everything that was there when it began, whatever is flushed and committed meanwhile.
THEOREM ReadersAreShownAll == Spec => []ReadersMissNothing
<1>1. Init => ReaderInv
  BY DEF Init, Idle, ReaderInv, Followed, ReadersMissNothing
<1>2. TypedFlow => TypeOK
  BY DEF TypedFlow
<1>3. ReaderInv => ReadersMissNothing
  BY DEF ReaderInv
<1> QED BY FlowInit, FlowStep, TimesInit, TimesStep, ListsOrdered, ReaderStep, <1>1, <1>2, <1>3, PTL
        DEF Spec
=============================================================================
