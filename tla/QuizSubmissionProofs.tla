------------------------ MODULE QuizSubmissionProofs ------------------------
(***************************************************************************)
(* The safety properties of QuizSubmission, for every value of its         *)
(* constants: every copy in flight carries what the rows promise.          *)
(***************************************************************************)
EXTENDS QuizSubmission, FiniteSetTheorems, TLAPS

USE QuizAssumption

-----------------------------------------------------------------------------
(* What the writers make of their copies *)

\* A finished copy carries the sum of its scores.
Agrees(c) == c.status \in Final => c.total = Total(c.earned)

LEMMA NoRowFacts ==
    /\ NoRow \in Row
    /\ NoRow.status = "none"
    /\ \A q \in Questions : NoRow.value[q] = NoValue
    /\ Agrees(NoRow)
BY DEF NoRow, Row, Agrees, Final

LEMMA WithScoresFacts ==
    ASSUME NEW c \in Row, NEW e \in [Questions -> Scores]
    PROVE  /\ WithScores(c, e) \in Row
           /\ WithScores(c, e).status = c.status
           /\ WithScores(c, e).value = c.value
           /\ WithScores(c, e).earned = e
           /\ WithScores(c, e).total = Total(e)
BY DEF WithScores, Row

\* The status of a copy is the only field that changes.
LEMMA SetStatus ==
    ASSUME NEW c \in Row, NEW st \in {"in_progress", "submitted", "graded"}, c.total = Total(c.earned)
    PROVE  /\ [c EXCEPT !.status = st] \in Row
           /\ [c EXCEPT !.status = st].status = st
           /\ [c EXCEPT !.status = st].value = c.value
           /\ Agrees([c EXCEPT !.status = st])
BY DEF Row, Agrees, Final

LEMMA GradeAllFacts ==
    ASSUME NEW c \in Row
    PROVE  /\ GradeAll(c) \in Row
           /\ GradeAll(c).status = "submitted"
           /\ GradeAll(c).value = c.value
           /\ Agrees(GradeAll(c))
<1> DEFINE e == [q \in Questions |-> IF c.value[q] = NoValue THEN c.earned[q]
                                     ELSE AutoScore(q, c.value[q])]
<1>1. e \in [Questions -> Scores]
  BY DEF AutoScore, Row
<1>2. GradeAll(c) = [WithScores(c, e) EXCEPT !.status = "submitted"]
  BY DEF GradeAll
<1> DEFINE w == WithScores(c, e)
<1> HIDE DEF e
<1>3. /\ w \in Row
      /\ w.value = c.value
      /\ w.total = Total(w.earned)
  BY <1>1, WithScoresFacts
<1>4. GradeAll(c) = [w EXCEPT !.status = "submitted"]
  BY <1>2
<1> HIDE DEF w
<1> DEFINE v == [w EXCEPT !.status = "submitted"]
<1>5. /\ v \in Row
      /\ v.status = "submitted"
      /\ v.value = w.value
      /\ Agrees(v)
  BY <1>3, SetStatus
<1> HIDE DEF v
<1>6. GradeAll(c) = v
  BY <1>4 DEF v
<1> QED
  BY <1>3, <1>5, <1>6

LEMMA RescoredFacts ==
    ASSUME NEW c \in Row, NEW D \in SUBSET Questions, NEW score \in [D -> Scores]
    PROVE  /\ Rescored(c, score) \in Row
           /\ Rescored(c, score).status = c.status
           /\ Rescored(c, score).value = c.value
           /\ Rescored(c, score).total = Total(Rescored(c, score).earned)
<1> DEFINE e == [q \in Questions |-> IF q \in DOMAIN score THEN score[q] ELSE c.earned[q]]
<1>1. e \in [Questions -> Scores]
  BY DEF Row
<1>2. Rescored(c, score) = WithScores(c, e)
  BY DEF Rescored
<1> HIDE DEF e
<1> QED
  BY <1>1, <1>2, WithScoresFacts

LEMMA ScoredFacts ==
    ASSUME NEW j, NEW c \in Row, c.status # "none",
           NEW D \in SUBSET Questions, NEW score \in [D -> Scores]
    PROVE  /\ Scored(j, c, score) \in Row
           /\ Scored(j, c, score).status \in {c.status, "graded"}
           /\ Scored(j, c, score).value = c.value
           /\ Agrees(Scored(j, c, score))
<1> DEFINE by  == [q \in Questions |-> IF q \in DOMAIN score THEN "ai" ELSE c.by[q]]
           new == [Rescored(c, score) EXCEPT !.by = by]
<1>1. by \in [Questions -> {"", "ai"}]
  BY DEF Row
<1> HIDE DEF by
<1>2. /\ new \in Row /\ new.status = c.status /\ new.value = c.value
      /\ new.total = Total(new.earned)
  <2> DEFINE w == Rescored(c, score)
  <2>1. /\ w \in Row /\ w.status = c.status /\ w.value = c.value
        /\ w.total = Total(w.earned)
    BY RescoredFacts
  <2> HIDE DEF w
  <2>2. /\ [w EXCEPT !.by = by] \in Row
        /\ [w EXCEPT !.by = by].status = w.status
        /\ [w EXCEPT !.by = by].value = w.value
        /\ [w EXCEPT !.by = by].earned = w.earned
        /\ [w EXCEPT !.by = by].total = w.total
    BY <1>1, <2>1 DEF Row
  <2> QED
    BY <2>1, <2>2 DEF w
<1> HIDE DEF new
<1>3. c.earned \in [Questions -> Scores]
  BY DEF Row
<1>4. Agrees(new)
  BY <1>2 DEF Agrees
<1>5. Agrees(WithScores(c, c.earned))
  BY <1>3, WithScoresFacts DEF Agrees
<1>6. \/ Scored(j, c, score) = WithScores(c, c.earned)
      \/ Scored(j, c, score) = [new EXCEPT !.status = "graded"]
      \/ Scored(j, c, score) = new
  BY DEF Scored, new, by
<1>7. CASE Scored(j, c, score) = WithScores(c, c.earned)
  BY <1>3, <1>5, <1>7, WithScoresFacts
<1>8. CASE Scored(j, c, score) = [new EXCEPT !.status = "graded"]
  BY <1>2, <1>8, SetStatus
<1>9. CASE Scored(j, c, score) = new
  BY <1>2, <1>4, <1>9
<1> QED
  BY <1>6, <1>7, <1>8, <1>9

\* An answer in, the rest as it was.
LEMMA SetValue ==
    ASSUME NEW c \in Row, NEW f \in [Questions -> Values \cup {NoValue}]
    PROVE  /\ [c EXCEPT !.value = f] \in Row
           /\ [c EXCEPT !.value = f].status = c.status
           /\ [c EXCEPT !.value = f].value = f
BY DEF Row

LEMMA MergeFacts ==
    ASSUME NEW old \in [Questions -> Values \cup {NoValue}],
           NEW new \in [Questions -> Values \cup {NoValue}]
    PROVE  /\ Merge(old, new) \in [Questions -> Values \cup {NoValue}]
           /\ noBack => \A q \in Questions : old[q] # NoValue => Merge(old, new)[q] = old[q]
BY DEF Merge

-----------------------------------------------------------------------------
(* The invariant *)

RowInv ==
    /\ row \in [Students -> Row]
    /\ overwritten \subseteq Students
    /\ \A s \in Students : Agrees(row[s])
    /\ \A s \in Students : row[s].status = "none" => row[s] = NoRow

\* What a handler knows of its copy at each stage.
HandlerOK(h) ==
    /\ h.at # "idle" => h.student \in Students
    /\ Agrees(h.copy)
    /\ h.at = "create" => h.copy.status = "in_progress"
    /\ h.at \in {"loaded", "checked"} => h.copy.status # "none"
    /\ h.at = "checked" /\ h.op \in {"save", "submit"} => h.copy.status = "in_progress"
    /\ h.at = "checked" /\ h.op = "grade" => h.copy.status \in Final

ProcInv ==
    /\ proc \in [Requests -> Handler]
    /\ \A p \in Requests : HandlerOK(proc[p])

TaskOK(t) == Agrees(t.copy) /\ (t.at = "loaded" => t.copy.status # "none")

\* Only finished submissions have tasks, and they stay finished short of an overwrite.
TaskInv ==
    /\ task \in [Jobs -> [Students -> Task]]
    /\ \A j \in Jobs, s \in Students : TaskOK(task[j][s])
    /\ \A j \in Jobs, s \in Students : task[j][s].at # "none" => row[s].status # "none"
    /\ \A j \in Jobs : \A s \in Students \ overwritten :
           task[j][s].at # "none" => row[s].status \in Final

RestInv ==
    /\ noBack \in BOOLEAN
    /\ room \in [Rooms -> {"planned", "open", "ended", "closed"}]
    /\ timeUp \subseteq Students
    /\ requests \in 0..MaxRequests
    /\ job \in [Jobs -> Job]
    /\ faults \in 0..MaxFaults
    /\ marked \subseteq Students \X Questions
    /\ recounted \subseteq Jobs
    /\ dropped \subseteq Jobs

IndInv == RowInv /\ ProcInv /\ TaskInv /\ RestInv

\* What a step may do to the rows.
RowStep ==
    \A s \in Students :
        /\ row[s].status # "none" => row'[s].status # "none"
        /\ s \notin overwritten' =>
              /\ s \notin overwritten
              /\ row[s].status \in Final =>
                     row'[s].status \in Final /\ row'[s].value = row[s].value
              /\ noBack => \A q \in Questions :
                     row[s].value[q] # NoValue => row'[s].value[q] = row[s].value[q]

LEMMA RowsKept ==
    ASSUME RowInv, UNCHANGED <<row, overwritten>> PROVE RowInv' /\ RowStep
BY DEF RowInv, RowStep, Agrees

\* A copy saved over the row it was made of, or over a newer one.
LEMMA Saving ==
    ASSUME RowInv, NEW s \in Students, NEW base \in Row, NEW new \in Row,
           base.status # "none", new.status # "none", Agrees(new), Update(s, base, new),
           base.status \in Final => new.status \in Final /\ new.value = base.value,
           noBack => \A q \in Questions :
               base.value[q] # NoValue => new.value[q] = base.value[q]
    PROVE  RowInv' /\ RowStep
<1>1. /\ row' \in [Students -> Row]
      /\ row'[s] = new
      /\ \A t \in Students \ {s} : row'[t] = row[t]
  BY DEF RowInv, Update
<1>2. /\ overwritten' \subseteq Students
      /\ overwritten \subseteq overwritten'
      /\ row[s] = base \/ s \in overwritten'
  BY DEF RowInv, Update
<1>3. RowInv'
  <2>1. \A t \in Students : Agrees(row'[t])
    BY <1>1 DEF RowInv
  <2>2. \A t \in Students : row'[t].status = "none" => row'[t] = NoRow
    BY <1>1 DEF RowInv
  <2> QED
    BY <1>1, <1>2, <2>1, <2>2 DEF RowInv, Agrees
<1>4. RowStep
  BY <1>1, <1>2 DEF RowStep
<1> QED
  BY <1>3, <1>4

\* A handler past the deadline check holds a copy of a student's row.
LEMMA CopyFacts ==
    ASSUME ProcInv, NEW p \in Requests
    PROVE  /\ proc[p].copy \in Row
           /\ proc[p].copy.value \in [Questions -> Values \cup {NoValue}]
           /\ proc[p].at # "idle" => proc[p].student \in Students
           /\ HandlerOK(proc[p])
BY DEF ProcInv, HandlerOK, Handler, Row

LEMMA FinalizeRow ==
    ASSUME IndInv, NEW p \in Requests, FinalizeExpired(p) PROVE RowInv' /\ RowStep
<1> DEFINE c == proc[p].copy
<1>1. c \in Row /\ proc[p].student \in Students /\ c.status = "in_progress"
  BY CopyFacts DEF IndInv, FinalizeExpired
<1>2. Update(proc[p].student, c, GradeAll(c))
  BY DEF FinalizeExpired
<1> HIDE DEF c
<1> QED
  BY <1>1, <1>2, GradeAllFacts, Saving DEF IndInv, Final

LEMMA SaveRow ==
    ASSUME IndInv, NEW p \in Requests, SaveAnswer(p) PROVE RowInv' /\ RowStep
<1> DEFINE c == proc[p].copy
<1>1. /\ c \in Row /\ proc[p].student \in Students /\ c.status = "in_progress"
      /\ c.value \in [Questions -> Values \cup {NoValue}]
  BY CopyFacts DEF IndInv, SaveAnswer, HandlerOK
<1>2. CASE UNCHANGED <<row, overwritten>>
  BY <1>2, RowsKept DEF IndInv
<1>3. ASSUME NEW q \in Questions, NEW v \in Values, ~(noBack /\ c.value[q] # NoValue),
             Update(proc[p].student, c, [c EXCEPT !.value[q] = v])
      PROVE  RowInv' /\ RowStep
  <2> DEFINE f == [c.value EXCEPT ![q] = v]
             new == [c EXCEPT !.value = f]
  <2>1. f \in [Questions -> Values \cup {NoValue}]
    BY <1>1
  <2>2. noBack => \A r \in Questions : c.value[r] # NoValue => f[r] = c.value[r]
    BY <1>1, <1>3
  <2>3. Update(proc[p].student, c, new)
    BY <1>3
  <2> HIDE DEF f
  <2>4. new \in Row /\ new.status = c.status /\ new.value = f
    BY <1>1, <2>1, SetValue
  <2> HIDE DEF new
  <2>5. Agrees(new)
    BY <1>1, <2>4 DEF Agrees, Final
  <2> HIDE DEF c
  <2> QED
    BY <1>1, <2>2, <2>3, <2>4, <2>5, Saving DEF IndInv, Final
<1> QED
  BY <1>2, <1>3 DEF SaveAnswer

LEMMA SubmitRow ==
    ASSUME IndInv, NEW p \in Requests, SubmitQuiz(p) PROVE RowInv' /\ RowStep
<1> DEFINE c == proc[p].copy
<1>1. /\ c \in Row /\ proc[p].student \in Students /\ c.status = "in_progress"
      /\ c.value \in [Questions -> Values \cup {NoValue}]
  BY CopyFacts DEF IndInv, SubmitQuiz, HandlerOK
<1>2. PICK sent \in [Questions -> Values \cup {NoValue}] :
        Update(proc[p].student, c, GradeAll([c EXCEPT !.value = Merge(c.value, sent)]))
  BY DEF SubmitQuiz
<1> DEFINE f == Merge(c.value, sent)
           merged == [c EXCEPT !.value = f]
<1>3. /\ f \in [Questions -> Values \cup {NoValue}]
      /\ noBack => \A q \in Questions : c.value[q] # NoValue => f[q] = c.value[q]
  BY <1>1, MergeFacts
<1>4. Update(proc[p].student, c, GradeAll(merged))
  BY <1>2
<1> HIDE DEF f
<1>5. merged \in Row /\ merged.value = f
  BY <1>1, <1>3, SetValue
<1> HIDE DEF merged, c
<1>6. /\ GradeAll(merged) \in Row
      /\ GradeAll(merged).status = "submitted"
      /\ GradeAll(merged).value = f
      /\ Agrees(GradeAll(merged))
  BY <1>5, GradeAllFacts
<1> QED
  BY <1>1, <1>3, <1>4, <1>6, Saving DEF IndInv, Final

LEMMA GradeRow ==
    ASSUME IndInv, NEW p \in Requests, GradeSubmission(p) PROVE RowInv' /\ RowStep
<1> DEFINE c == proc[p].copy
<1>1. c \in Row /\ proc[p].student \in Students /\ c.status \in Final
  BY CopyFacts DEF IndInv, GradeSubmission, HandlerOK
<1>2. PICK scored \in SUBSET Questions : \E score \in [scored -> Scores] :
        Update(proc[p].student, c, [Rescored(c, score) EXCEPT !.status = "graded"])
  BY DEF GradeSubmission
<1>3. PICK score \in [scored -> Scores] :
        Update(proc[p].student, c, [Rescored(c, score) EXCEPT !.status = "graded"])
  BY <1>2
<1> DEFINE w == Rescored(c, score)
           new == [w EXCEPT !.status = "graded"]
<1>4. Update(proc[p].student, c, new)
  BY <1>3
<1>5. w \in Row /\ w.value = c.value /\ w.total = Total(w.earned)
  BY <1>1, RescoredFacts
<1> HIDE DEF w
<1>6. new \in Row /\ new.status = "graded" /\ new.value = w.value /\ Agrees(new)
  BY <1>5, SetStatus
<1> HIDE DEF new, c
<1> QED
  BY <1>1, <1>4, <1>5, <1>6, Saving DEF IndInv, Final

LEMMA ScoreRow ==
    ASSUME IndInv, NEW j \in Jobs, NEW s \in Students, SaveScores(j, s)
    PROVE  RowInv' /\ RowStep
<1> DEFINE c == task[j][s].copy
<1>1. c \in Row /\ c.status # "none"
  BY DEF IndInv, TaskInv, TaskOK, Task, SaveScores
<1>2. PICK done \in SUBSET Questions : \E score \in [done -> Scores] :
        Update(s, c, Scored(j, c, score))
  BY DEF SaveScores, ShouldGrade
<1>3. PICK score \in [done -> Scores] : Update(s, c, Scored(j, c, score))
  BY <1>2
<1> HIDE DEF c
<1>4. /\ Scored(j, c, score) \in Row
      /\ Scored(j, c, score).status \in {c.status, "graded"}
      /\ Scored(j, c, score).value = c.value
      /\ Agrees(Scored(j, c, score))
  BY <1>1, ScoredFacts
<1> QED
  BY <1>1, <1>3, <1>4, Saving DEF IndInv, Final

LEMMA CreateRow ==
    ASSUME IndInv, NEW p \in Requests, CreateSubmission(p) PROVE RowInv' /\ RowStep
<1> DEFINE c == proc[p].copy
           s == proc[p].student
<1>1. c \in Row /\ s \in Students /\ c.status = "in_progress"
  BY CopyFacts DEF IndInv, CreateSubmission, HandlerOK
<1>2. overwritten' = overwritten
  BY DEF CreateSubmission
<1>3. CASE row[s].status # "none"
  BY <1>2, <1>3, RowsKept DEF IndInv, CreateSubmission
<1>4. CASE row[s].status = "none"
  <2>1. row' = [row EXCEPT ![s] = c]
    BY <1>4 DEF CreateSubmission
  <2>2. row[s] = NoRow
    BY <1>1, <1>4 DEF IndInv, RowInv
  <2>3. Agrees(c)
    BY <1>1 DEF Agrees, Final
  <2> HIDE DEF c, s
  <2>4. RowInv'
    BY <1>1, <1>2, <2>1, <2>3 DEF IndInv, RowInv, Agrees
  <2>5. RowStep
    BY <1>1, <1>2, <2>1, <2>2, NoRowFacts DEF IndInv, RowInv, RowStep, Final
  <2> QED
    BY <2>4, <2>5
<1> QED
  BY <1>3, <1>4

\* Every step.
LEMMA RowsNext == IndInv /\ [Next]_vars => RowInv' /\ RowStep
<1> SUFFICES ASSUME IndInv, [Next]_vars PROVE RowInv' /\ RowStep
  OBVIOUS
<1>1. CASE UNCHANGED <<row, overwritten>>
  BY <1>1, RowsKept DEF IndInv
<1>2. ASSUME NEW p \in Requests,
             \/ CreateSubmission(p) \/ FinalizeExpired(p) \/ SaveAnswer(p)
             \/ SubmitQuiz(p) \/ GradeSubmission(p)
      PROVE  RowInv' /\ RowStep
  BY <1>2, CreateRow, FinalizeRow, SaveRow, SubmitRow, GradeRow
<1>3. ASSUME NEW j \in Jobs, NEW s \in Students, SaveScores(j, s)
      PROVE  RowInv' /\ RowStep
  BY <1>3, ScoreRow
<1>4. CASE UNCHANGED vars
  BY <1>1, <1>4 DEF vars
<1>5. CASE \E r \in Rooms : StartRoom(r) \/ EndRoom(r) \/ GraceOver(r)
  BY <1>1, <1>5 DEF StartRoom, EndRoom, GraceOver, rowVars
<1>6. CASE \E s \in Students : DurationOver(s)
  BY <1>1, <1>6 DEF DurationOver, rowVars
<1>7. ASSUME NEW p \in Requests,
             \/ \E s \in Students, r \in Rooms : StartSubmission(p, s, r)
             \/ \E s \in Students, op \in {"save", "submit", "get", "grade"} : Load(p, op, s)
             \/ PassDeadline(p)
      PROVE  RowInv' /\ RowStep
  BY <1>1, <1>7 DEF StartSubmission, Load, Begin, PassDeadline, rowVars
<1>8. CASE \E j \in Jobs : StartAIGrading(j) \/ StartDies(j)
  BY <1>1, <1>8 DEF StartAIGrading, StartDies, rowVars
<1>9. ASSUME NEW j \in Jobs, NEW s \in Students,
             \/ EnqueueAIGrade(j, s) \/ LoadSubmission(j, s) \/ Report(j, s)
             \/ SkipDisabled(j, s) \/ WorkFails(j, s) \/ ReportFails(j, s) \/ AckLost(j, s)
      PROVE  RowInv' /\ RowStep
  BY <1>1, <1>9 DEF EnqueueAIGrade, SkipDisabled, LoadSubmission, Report, WorkFails, ReportFails, AckLost, rowVars
<1> QED
  BY <1>2, <1>3, <1>4, <1>5, <1>6, <1>7, <1>8, <1>9 DEF Next, Work

-----------------------------------------------------------------------------
(* The handlers *)

LEMMA HandlersKept ==
    ASSUME ProcInv, proc' = proc PROVE ProcInv'
BY DEF ProcInv

LEMMA IdleOK == Idle \in Handler /\ HandlerOK(Idle)
BY NoRowFacts DEF Idle, Handler, HandlerOK

\* One handler moves.
LEMMA HandlerSet ==
    ASSUME ProcInv, NEW p \in Requests, NEW h \in Handler, HandlerOK(h),
           proc' = [proc EXCEPT ![p] = h]
    PROVE  ProcInv'
<1>1. proc' \in [Requests -> Handler]
  BY DEF ProcInv
<1>2. \A q \in Requests : HandlerOK(proc'[q])
  BY DEF ProcInv
<1> QED
  BY <1>1, <1>2 DEF ProcInv, HandlerOK, Agrees

LEMMA HandlerFinishes ==
    ASSUME ProcInv, NEW p \in Requests, Finish(p) PROVE ProcInv'
BY IdleOK, HandlerSet DEF Finish

LEMMA HandlersNext == IndInv /\ [Next]_vars => ProcInv'
<1> SUFFICES ASSUME IndInv, [Next]_vars PROVE ProcInv'
  OBVIOUS
<1>1. ProcInv
  BY DEF IndInv
<1>2. CASE UNCHANGED proc
  BY <1>1, <1>2, HandlersKept
<1>3. CASE UNCHANGED vars
  BY <1>2, <1>3 DEF vars
<1>4. CASE \E r \in Rooms : StartRoom(r) \/ EndRoom(r) \/ GraceOver(r)
  BY <1>2, <1>4 DEF StartRoom, EndRoom, GraceOver
<1>5. CASE \E s \in Students : DurationOver(s)
  BY <1>2, <1>5 DEF DurationOver
<1>6. ASSUME NEW p \in Requests, NEW s \in Students, NEW r \in Rooms, StartSubmission(p, s, r)
      PROVE  ProcInv'
  <2> DEFINE c == [NoRow EXCEPT !.status = "in_progress", !.room = r]
             h == [op |-> "start", at |-> "create", student |-> s, copy |-> c]
  <2>1. c \in Row /\ c.status = "in_progress"
    BY NoRowFacts DEF Row
  <2>2. proc' = [proc EXCEPT ![p] = h]
    BY <1>6 DEF StartSubmission, Begin
  <2> HIDE DEF c
  <2>3. h \in Handler /\ HandlerOK(h)
    BY <2>1 DEF Handler, HandlerOK, Agrees, Final
  <2> HIDE DEF h
  <2> QED
    BY <1>1, <2>2, <2>3, HandlerSet
<1>7. ASSUME NEW p \in Requests, NEW s \in Students,
             NEW op \in {"save", "submit", "get", "grade"}, Load(p, op, s)
      PROVE  ProcInv'
  <2> DEFINE h == [op |-> op, at |-> "loaded", student |-> s, copy |-> row[s]]
  <2>1. proc' = [proc EXCEPT ![p] = h]
    BY <1>7 DEF Load, Begin
  <2>2. row[s] \in Row /\ Agrees(row[s]) /\ row[s].status # "none"
    BY <1>7 DEF IndInv, RowInv, Load
  <2>3. h \in Handler /\ HandlerOK(h)
    BY <2>2 DEF Handler, HandlerOK
  <2> HIDE DEF h
  <2> QED
    BY <1>1, <2>1, <2>3, HandlerSet
<1>8. ASSUME NEW p \in Requests, CreateSubmission(p) \/ SaveAnswer(p) \/ SubmitQuiz(p)
                                  \/ GradeSubmission(p)
      PROVE  ProcInv'
  BY <1>1, <1>8, HandlerFinishes DEF CreateSubmission, SaveAnswer, SubmitQuiz, GradeSubmission
<1>9. ASSUME NEW p \in Requests, FinalizeExpired(p) PROVE ProcInv'
  <2>1. CASE Finish(p)
    BY <1>1, <2>1, HandlerFinishes
  <2>2. CASE ~Finish(p)
    <3> DEFINE c == GradeAll(proc[p].copy)
               h == [op |-> "grade", at |-> "checked", student |-> proc[p].student, copy |-> c]
    <3>1. proc' = [proc EXCEPT ![p] = h]
      BY <1>9, <2>2 DEF FinalizeExpired
    <3>2. c \in Row /\ c.status = "submitted" /\ Agrees(c)
      BY <1>1, CopyFacts, GradeAllFacts
    <3>3. proc[p].student \in Students
      BY <1>1, <1>9, CopyFacts DEF FinalizeExpired
    <3> HIDE DEF c
    <3>4. h \in Handler /\ HandlerOK(h)
      BY <3>2, <3>3 DEF Handler, HandlerOK, Final
    <3> HIDE DEF h
    <3> QED
      BY <1>1, <3>1, <3>4, HandlerSet
  <2> QED
    BY <2>1, <2>2
<1>10. ASSUME NEW p \in Requests, PassDeadline(p) PROVE ProcInv'
  <2>1. CASE Finish(p)
    BY <1>1, <2>1, HandlerFinishes
  <2>2. CASE ~Finish(p)
    <3> DEFINE h == [proc[p] EXCEPT !.at = "checked"]
    <3>1. /\ proc' = [proc EXCEPT ![p].at = "checked"]
          /\ Accepts(proc[p].op, proc[p].copy)
      BY <1>10, <2>2 DEF PassDeadline
    <3>2. proc' = [proc EXCEPT ![p] = h]
      BY <1>1, <3>1 DEF ProcInv
    <3>3. proc[p] \in Handler /\ HandlerOK(proc[p]) /\ proc[p].at = "loaded"
      BY <1>1, <1>10 DEF ProcInv, PassDeadline
    <3>4. h \in Handler /\ HandlerOK(h)
      BY <3>1, <3>3 DEF Handler, HandlerOK, Accepts
    <3> HIDE DEF h
    <3> QED
      BY <1>1, <3>2, <3>4, HandlerSet
  <2> QED
    BY <2>1, <2>2
<1>11. CASE \E j \in Jobs : StartAIGrading(j) \/ StartDies(j)
  BY <1>2, <1>11 DEF StartAIGrading, StartDies
<1>12. ASSUME NEW j \in Jobs, NEW s \in Students,
              \/ EnqueueAIGrade(j, s) \/ LoadSubmission(j, s) \/ SaveScores(j, s)
              \/ Report(j, s) \/ SkipDisabled(j, s)
              \/ WorkFails(j, s) \/ ReportFails(j, s) \/ AckLost(j, s)
      PROVE  ProcInv'
  BY <1>2, <1>12 DEF EnqueueAIGrade, LoadSubmission, SaveScores, Report, SkipDisabled,
                     WorkFails, ReportFails, AckLost
<1> QED
  BY <1>3, <1>4, <1>5, <1>6, <1>7, <1>8, <1>9, <1>10, <1>11, <1>12 DEF Next, Work

-----------------------------------------------------------------------------
(* The tasks *)

LEMMA TaskValues ==
    /\ NoTask \in Task /\ TaskOK(NoTask) /\ NoTask.at = "none"
    /\ Due \in Task /\ TaskOK(Due) /\ Due.at = "due"
    /\ Over \in Task /\ TaskOK(Over) /\ Over.at = "over"
    /\ \A n \in 0..MaxRetry : Queued(n) \in Task /\ TaskOK(Queued(n)) /\ Queued(n).at = "queued"
BY NoRowFacts DEF NoTask, Due, Over, Queued, TaskAt, Task, TaskOK

LEMMA TasksKept ==
    ASSUME TaskInv, RowInv, RowStep, task' = task PROVE TaskInv'
BY DEF TaskInv, RowInv, RowStep, TaskOK, Agrees

\* One task moves.
LEMMA TaskSet ==
    ASSUME TaskInv, RowInv, RowStep, NEW j \in Jobs, NEW s \in Students,
           task[j][s].at # "none", NEW t \in Task, TaskOK(t),
           task' = [task EXCEPT ![j][s] = t]
    PROVE  TaskInv'
<1>1. task' \in [Jobs -> [Students -> Task]]
  BY DEF TaskInv
<1>2. \A k \in Jobs, r \in Students :
          task'[k][r] = IF k = j /\ r = s THEN t ELSE task[k][r]
  BY DEF TaskInv
<1>3. \A k \in Jobs, r \in Students : TaskOK(task'[k][r])
  BY <1>2 DEF TaskInv
<1>4. \A k \in Jobs, r \in Students : task'[k][r].at # "none" => task[k][r].at # "none"
  BY <1>2
<1>5. \A k \in Jobs, r \in Students : task'[k][r].at # "none" => row'[r].status # "none"
  BY <1>4 DEF TaskInv, RowStep
<1>6. \A k \in Jobs : \A r \in Students \ overwritten' :
          task'[k][r].at # "none" => row'[r].status \in Final
  BY <1>4 DEF TaskInv, RowStep
<1> QED
  BY <1>1, <1>3, <1>5, <1>6 DEF TaskInv, TaskOK, Agrees

LEMMA TaskRetries ==
    ASSUME TaskInv, RowInv, RowStep, NEW j \in Jobs, NEW s \in Students,
           task[j][s].at # "none", Retry(j, s)
    PROVE  TaskInv'
<1>1. task[j][s].tries \in 0..MaxRetry
  BY DEF TaskInv, Task
<1>2. CASE task[j][s].tries < MaxRetry
  <2>1. task[j][s].tries + 1 \in 0..MaxRetry
    BY <1>1, <1>2
  <2> QED
    BY <1>2, <2>1, TaskValues, TaskSet DEF Retry
<1>3. CASE ~(task[j][s].tries < MaxRetry)
  BY <1>3, TaskValues, TaskSet DEF Retry
<1> QED
  BY <1>2, <1>3

LEMMA TasksStart ==
    ASSUME IndInv, RowStep, NEW j \in Jobs, StartAIGrading(j) PROVE TaskInv'
<1> DEFINE new == [s \in Students |-> IF s \in Eligible THEN Due ELSE NoTask]
<1>1. task' = [task EXCEPT ![j] = new]
  BY DEF StartAIGrading
<1>2. row' = row /\ overwritten' = overwritten
  BY DEF StartAIGrading, rowVars
<1>3. /\ new \in [Students -> Task]
      /\ \A s \in Students : /\ TaskOK(new[s])
                             /\ new[s].at # "none" => row[s].status \in Final
  BY TaskValues DEF Eligible
<1> HIDE DEF new
<1>4. task' \in [Jobs -> [Students -> Task]]
  BY <1>1, <1>3 DEF IndInv, TaskInv
<1>5. \A k \in Jobs, s \in Students :
          task'[k][s] = IF k = j THEN new[s] ELSE task[k][s]
  BY <1>1 DEF IndInv, TaskInv
<1>6. \A k \in Jobs, s \in Students :
          /\ TaskOK(task'[k][s])
          /\ task'[k][s].at # "none" => row[s].status # "none"
          /\ task'[k][s].at # "none" /\ s \notin overwritten => row[s].status \in Final
  BY <1>3, <1>5 DEF IndInv, TaskInv, Final
<1> QED
  BY <1>2, <1>4, <1>6 DEF TaskInv, TaskOK, Agrees

\* What the tasks are once the loop that enqueues them has died.
LEMMA TasksAfterDeath ==
    ASSUME TaskInv, NEW j \in Jobs, StartDies(j)
    PROVE  /\ task' \in [Jobs -> [Students -> Task]]
           /\ \A k \in Jobs, s \in Students :
                  task'[k][s] = IF k = j /\ task[k][s].at = "due" THEN Over ELSE task[k][s]
<1> DEFINE new == [s \in Students |-> IF task[j][s].at = "due" THEN Over ELSE task[j][s]]
<1>1. task' = [task EXCEPT ![j] = new]
  BY DEF StartDies
<1>2. /\ new \in [Students -> Task]
      /\ \A s \in Students : new[s] = IF task[j][s].at = "due" THEN Over ELSE task[j][s]
  BY TaskValues DEF TaskInv
<1> HIDE DEF new
<1> QED
  BY <1>1, <1>2 DEF TaskInv

LEMMA TasksDie ==
    ASSUME IndInv, RowStep, NEW j \in Jobs, StartDies(j) PROVE TaskInv'
<1>1. /\ task' \in [Jobs -> [Students -> Task]]
      /\ \A k \in Jobs, s \in Students :
             task'[k][s] = IF k = j /\ task[k][s].at = "due" THEN Over ELSE task[k][s]
  BY TasksAfterDeath DEF IndInv
<1>2. row' = row /\ overwritten' = overwritten
  BY DEF StartDies, rowVars
<1>3. \A k \in Jobs, s \in Students :
          /\ TaskOK(task'[k][s])
          /\ task'[k][s].at # "none" => task[k][s].at # "none"
  BY <1>1, TaskValues DEF IndInv, TaskInv
<1> QED
  BY <1>1, <1>2, <1>3 DEF IndInv, TaskInv, TaskOK, Agrees

LEMMA TasksNext == IndInv /\ [Next]_vars => TaskInv'
<1> SUFFICES ASSUME IndInv, [Next]_vars PROVE TaskInv'
  OBVIOUS
<1>1. TaskInv /\ RowInv /\ RowStep
  BY RowsNext DEF IndInv
<1>2. CASE UNCHANGED task
  BY <1>1, <1>2, TasksKept
<1>3. CASE UNCHANGED vars
  BY <1>2, <1>3 DEF vars
<1>4. CASE \E r \in Rooms : StartRoom(r) \/ EndRoom(r) \/ GraceOver(r)
  BY <1>2, <1>4 DEF StartRoom, EndRoom, GraceOver, jobVars
<1>5. CASE \E s \in Students : DurationOver(s)
  BY <1>2, <1>5 DEF DurationOver, jobVars
<1>6. ASSUME NEW p \in Requests,
             \/ \E s \in Students, r \in Rooms : StartSubmission(p, s, r)
             \/ \E s \in Students, op \in {"save", "submit", "get", "grade"} : Load(p, op, s)
             \/ CreateSubmission(p) \/ FinalizeExpired(p) \/ PassDeadline(p)
             \/ SaveAnswer(p) \/ SubmitQuiz(p) \/ GradeSubmission(p)
      PROVE  TaskInv'
  BY <1>2, <1>6 DEF StartSubmission, Load, Begin, CreateSubmission, FinalizeExpired,
                    PassDeadline, SaveAnswer, SubmitQuiz, GradeSubmission, jobVars
<1>7. CASE \E j \in Jobs : StartAIGrading(j) \/ StartDies(j)
  BY <1>1, <1>7, TasksStart, TasksDie
<1>8. ASSUME NEW j \in Jobs, NEW s \in Students, LoadSubmission(j, s) PROVE TaskInv'
  <2> DEFINE t == TaskAt("loaded", task[j][s].tries, row[s], FALSE)
  <2>1. task' = [task EXCEPT ![j][s] = t] /\ task[j][s].at = "queued"
    BY <1>8 DEF LoadSubmission
  <2>2. /\ row[s] \in Row /\ Agrees(row[s]) /\ row[s].status # "none"
        /\ task[j][s].tries \in 0..MaxRetry
    BY <1>1, <2>1 DEF TaskInv, RowInv, Task
  <2>3. t \in Task /\ TaskOK(t)
    BY <2>2 DEF TaskAt, Task, TaskOK
  <2> HIDE DEF t
  <2> QED
    BY <1>1, <2>1, <2>3, TaskSet
<1>9. ASSUME NEW j \in Jobs, NEW s \in Students, SaveScores(j, s) PROVE TaskInv'
  <2>1. PICK ok \in BOOLEAN :
          task' = [task EXCEPT ![j][s] = TaskAt("saved", task[j][s].tries, NoRow, ok)]
    BY <1>9 DEF SaveScores
  <2> DEFINE t == TaskAt("saved", task[j][s].tries, NoRow, ok)
  <2>2. task[j][s].tries \in 0..MaxRetry /\ task[j][s].at # "none"
    BY <1>1, <1>9 DEF TaskInv, Task, SaveScores
  <2>3. t \in Task /\ TaskOK(t)
    BY <2>2, NoRowFacts DEF TaskAt, Task, TaskOK
  <2> HIDE DEF t
  <2> QED
    BY <1>1, <2>1, <2>2, <2>3, TaskSet DEF t
<1>10. ASSUME NEW j \in Jobs, NEW s \in Students,
              \/ EnqueueAIGrade(j, s) \/ Report(j, s) \/ SkipDisabled(j, s)
              \/ WorkFails(j, s) \/ ReportFails(j, s) \/ AckLost(j, s)
       PROVE  TaskInv'
  <2>1. task[j][s].at # "none"
    BY <1>10 DEF EnqueueAIGrade, Report, SkipDisabled, WorkFails, ReportFails, AckLost
  <2>2. CASE Retry(j, s)
    BY <1>1, <2>1, <2>2, TaskRetries
  <2>3. CASE task' = [task EXCEPT ![j][s] = Over]
    BY <1>1, <2>1, <2>3, TaskValues, TaskSet
  <2>4. CASE task' = [task EXCEPT ![j][s] = Queued(0)]
    <3>1. Queued(0) \in Task /\ TaskOK(Queued(0))
      BY TaskValues
    <3> QED
      BY <1>1, <2>1, <2>4, <3>1, TaskSet
  <2> QED
    BY <1>10, <2>2, <2>3, <2>4 DEF EnqueueAIGrade, Report, SkipDisabled, WorkFails,
                                   ReportFails, AckLost
<1> QED
  BY <1>3, <1>4, <1>5, <1>6, <1>7, <1>8, <1>9, <1>10 DEF Next, Work

-----------------------------------------------------------------------------
(* The rest of the type invariant *)

LEMMA ReportedFacts ==
    ASSUME job \in [Jobs -> Job], NEW j \in Jobs, NEW ok
    PROVE  /\ Reported(j, ok) \in Job
           /\ Reported(j, ok).done + Reported(j, ok).failed = job[j].done + job[j].failed + 1
           /\ Reported(j, ok).total = job[j].total
           /\ Reported(j, ok).status = "completed" =>
                  job[j].done + job[j].failed + 1 >= job[j].total
           /\ Reported(j, ok).status # "completed" =>
                  job[j].done + job[j].failed + 1 < job[j].total
           /\ Reported(j, ok).status \in {"running", "completed"}
BY DEF Reported, Job

LEMMA RestNext == IndInv /\ [Next]_vars => RestInv'
<1> SUFFICES ASSUME IndInv, [Next]_vars PROVE RestInv'
  OBVIOUS
<1>1. RestInv
  BY DEF IndInv
<1>2. CASE UNCHANGED vars
  BY <1>1, <1>2 DEF RestInv, vars
<1>3. CASE \E r \in Rooms : StartRoom(r) \/ EndRoom(r) \/ GraceOver(r)
  BY <1>1, <1>3 DEF RestInv, StartRoom, EndRoom, GraceOver, rowVars, jobVars
<1>4. CASE \E s \in Students : DurationOver(s)
  BY <1>1, <1>4 DEF RestInv, DurationOver, rowVars, jobVars
<1>5. ASSUME NEW p \in Requests,
             \/ \E s \in Students, r \in Rooms : StartSubmission(p, s, r)
             \/ CreateSubmission(p) \/ FinalizeExpired(p) \/ PassDeadline(p)
             \/ SaveAnswer(p) \/ SubmitQuiz(p)
      PROVE  RestInv'
  BY <1>1, <1>5 DEF RestInv, StartSubmission, Begin, CreateSubmission, FinalizeExpired,
                    PassDeadline, SaveAnswer, SubmitQuiz, timeVars, rowVars, jobVars
<1>6. ASSUME NEW p \in Requests, NEW s \in Students,
             NEW op \in {"save", "submit", "get", "grade"}, Load(p, op, s)
      PROVE  RestInv'
  BY <1>1, <1>6 DEF RestInv, Load, Begin, timeVars, rowVars, jobVars
<1>7. ASSUME NEW p \in Requests, GradeSubmission(p) PROVE RestInv'
  <2>1. proc[p].student \in Students
    BY <1>7, CopyFacts DEF IndInv, GradeSubmission
  <2>2. PICK scored \in SUBSET Questions : marked' = marked \cup ({proc[p].student} \X scored)
    BY <1>7 DEF GradeSubmission
  <2>3. marked' \subseteq Students \X Questions
    BY <1>1, <2>1, <2>2 DEF RestInv
  <2> QED
    BY <1>1, <1>7, <2>3 DEF RestInv, GradeSubmission, timeVars, jobVars
<1>8. ASSUME NEW j \in Jobs, StartAIGrading(j) PROVE RestInv'
  <2>1. Cardinality(Eligible) \in Nat
    <3>1. Eligible \in SUBSET Students
      BY DEF Eligible
    <3> QED
      BY <3>1, FS_Subset, FS_CardinalityType
  <2>2. PICK mode \in {"suggest", "apply"}, force \in BOOLEAN :
          job' = [job EXCEPT ![j] = [status |-> "pending", mode |-> mode, force |-> force,
                     total |-> Cardinality(Eligible), done |-> 0, failed |-> 0]]
    BY <1>8 DEF StartAIGrading
  <2>3. job' \in [Jobs -> Job]
    BY <1>1, <2>1, <2>2 DEF RestInv, Job
  <2> QED
    BY <1>1, <1>8, <2>3 DEF RestInv, StartAIGrading, timeVars, rowVars
<1>9. ASSUME NEW j \in Jobs, NEW s \in Students,
             \/ EnqueueAIGrade(j, s) \/ LoadSubmission(j, s) \/ SaveScores(j, s)
             \/ Report(j, s) \/ SkipDisabled(j, s)
             \/ WorkFails(j, s) \/ ReportFails(j, s) \/ AckLost(j, s)
      PROVE  RestInv'
  <2>1. job' = job \/ \E ok \in {task[j][s].ok, FALSE} : IncrementProgress(j, ok)
    BY <1>9 DEF EnqueueAIGrade, LoadSubmission, SaveScores, Report, SkipDisabled, WorkFails,
                ReportFails, AckLost
  <2>2. job' \in [Jobs -> Job]
    <3>1. ASSUME NEW ok, IncrementProgress(j, ok) PROVE job' \in [Jobs -> Job]
      <4>1. job \in [Jobs -> Job] /\ job[j] \in Job
        BY <1>1 DEF RestInv
      <4> QED
        BY <3>1, <4>1, ReportedFacts DEF IncrementProgress
    <3> QED
      BY <1>1, <2>1, <3>1 DEF RestInv
  <2>3. dropped' \subseteq Jobs
    BY <1>1, <1>9 DEF RestInv, EnqueueAIGrade, LoadSubmission, SaveScores, Report,
                      SkipDisabled, WorkFails, ReportFails, AckLost, Retry
  <2>4. faults' \in 0..MaxFaults
    <3>1. faults' = faults \/ (faults < MaxFaults /\ faults' = faults + 1)
      BY <1>9 DEF EnqueueAIGrade, LoadSubmission, SaveScores, Report, SkipDisabled, WorkFails,
                  ReportFails, AckLost, Fault
    <3> QED
      BY <1>1, <3>1 DEF RestInv
  <2> QED
    BY <1>1, <1>9, <2>2, <2>3, <2>4 DEF RestInv, EnqueueAIGrade, LoadSubmission, SaveScores,
         Report, SkipDisabled, WorkFails, ReportFails, AckLost, timeVars, rowVars
<1>10. ASSUME NEW j \in Jobs, StartDies(j) PROVE RestInv'
  BY <1>1, <1>10 DEF RestInv, StartDies, Fault, timeVars, rowVars
<1> QED
  BY <1>2, <1>3, <1>4, <1>5, <1>6, <1>7, <1>8, <1>9, <1>10 DEF Next, Work

-----------------------------------------------------------------------------
(* The theorems about submissions *)

LEMMA Initially == Init => IndInv
<1> SUFFICES ASSUME Init PROVE IndInv
  OBVIOUS
<1>1. RowInv
  BY NoRowFacts DEF Init, RowInv
<1>2. ProcInv
  BY IdleOK DEF Init, ProcInv
<1>3. TaskInv
  BY TaskValues DEF Init, TaskInv
<1>4. RestInv
  BY DEF Init, RestInv, Job
<1> QED
  BY <1>1, <1>2, <1>3, <1>4 DEF IndInv

LEMMA Inductive == Spec => []IndInv
<1>1. IndInv /\ [Next]_vars => IndInv'
  BY RowsNext, HandlersNext, TasksNext, RestNext DEF IndInv
<1> QED
  BY <1>1, Initially, PTL DEF Spec

\* Every variable keeps to its type: rows and copies are well formed whoever saves them.
THEOREM TypeCorrect == Spec => []TypeOK
<1>1. IndInv => TypeOK
  BY DEF IndInv, RowInv, ProcInv, TaskInv, RestInv, TypeOK
<1> QED
  BY <1>1, Inductive, PTL

\* gradeAndFinalize, GradeSubmission and gradeAnswersAI all leave a total that is
\* the sum of the scores in the row, for any number of graders and stale copies.
THEOREM TotalsAgree == Spec => []TotalAgrees
<1>1. IndInv => TotalAgrees
  BY DEF IndInv, RowInv, Agrees, TotalAgrees
<1> QED
  BY <1>1, Inductive, PTL

\* What is handed in stays handed in and unchanged, short of an overwrite.
THEOREM SheetsAreFinal == Spec => SheetIsFinal
<1> DEFINE Step == \A s \in Students \ overwritten' : row[s].status \in Final =>
                       row'[s].status \in Final /\ row'[s].value = row[s].value
<1>1. IndInv /\ [Next]_vars => [Step]_vars
  BY RowsNext DEF RowStep
<1> QED
  BY <1>1, Inductive, PTL DEF Spec, SheetIsFinal

\* With no back navigation a stored answer is locked, short of an overwrite.
THEOREM AnswersAreLocked == Spec => AnswerIsLocked
<1> DEFINE Step == noBack => \A s \in Students \ overwritten' : \A q \in Questions :
                       row[s].value[q] # NoValue => row'[s].value[q] = row[s].value[q]
<1>1. IndInv /\ [Next]_vars => [Step]_vars
  BY RowsNext DEF RowStep
<1> QED
  BY <1>1, Inductive, PTL DEF Spec, AnswerIsLocked

\* A task meets an unfinished submission only after an overwrite.
THEOREM FinishedAreGraded == Spec => OnlyFinishedGraded
<1> DEFINE Step == \A j \in Jobs, s \in Students \ overwritten :
                       SaveScores(j, s) => row[s].status \in Final
<1>1. IndInv => Step
  BY DEF IndInv, TaskInv, SaveScores
<1>2. IndInv /\ [Next]_vars => [Step]_vars
  BY <1>1
<1> QED
  BY <1>2, Inductive, PTL DEF Spec, OnlyFinishedGraded

-----------------------------------------------------------------------------
(* The counters of a job *)

TasksOf(j) == {s \in Students : task[j][s].at # "none"}
OverOf(j)  == {s \in Students : task[j][s].at = "over"}

\* Reports are at most the tasks that are over, if none reported twice, and at
\* least those, if none was dropped.
CountOK(j) ==
    /\ Cardinality(TasksOf(j)) <= job[j].total
    /\ j \notin recounted => job[j].done + job[j].failed <= Cardinality(OverOf(j))
    /\ j \notin dropped => /\ Cardinality(OverOf(j)) <= job[j].done + job[j].failed
                          /\ Cardinality(TasksOf(j)) = job[j].total
    /\ job[j].status = "none" => TasksOf(j) = {} /\ job[j].done + job[j].failed = 0
    /\ job[j].status = "completed" => job[j].total <= job[j].done + job[j].failed
    /\ job[j].status \in {"pending", "running"} => job[j].done + job[j].failed < job[j].total

CountInv == \A j \in Jobs : CountOK(j)

LEMMA SomeFinite ==
    ASSUME NEW S \in SUBSET Students
    PROVE  IsFiniteSet(S) /\ Cardinality(S) \in Nat
BY FS_Subset, FS_CardinalityType

LEMMA CountFacts ==
    ASSUME NEW j \in Jobs
    PROVE  /\ OverOf(j) \in SUBSET TasksOf(j)
           /\ IsFiniteSet(TasksOf(j)) /\ Cardinality(TasksOf(j)) \in Nat
           /\ IsFiniteSet(OverOf(j)) /\ Cardinality(OverOf(j)) \in Nat
<1>1. TasksOf(j) \in SUBSET Students /\ OverOf(j) \in SUBSET Students
  BY DEF TasksOf, OverOf
<1>2. OverOf(j) \in SUBSET TasksOf(j)
  BY DEF TasksOf, OverOf
<1> QED
  BY <1>1, <1>2, SomeFinite

LEMMA CountInit == Init => CountInv
<1> SUFFICES ASSUME Init, NEW j \in Jobs PROVE CountOK(j)
  BY DEF CountInv
<1>1. TasksOf(j) = {} /\ OverOf(j) = {}
  BY TaskValues DEF Init, TasksOf, OverOf
<1>2. Cardinality(TasksOf(j)) = 0 /\ Cardinality(OverOf(j)) = 0
  BY <1>1, FS_EmptySet
<1>3. /\ job[j].status = "none" /\ job[j].total = 0
      /\ job[j].done = 0 /\ job[j].failed = 0
  BY DEF Init
<1> QED
  BY <1>1, <1>2, <1>3 DEF CountOK

\* A job none of whose tasks, counters and histories change.
LEMMA CountKept ==
    ASSUME NEW j \in Jobs, CountOK(j), job'[j] = job[j],
           TasksOf(j)' = TasksOf(j), OverOf(j)' = OverOf(j),
           j \in recounted => j \in recounted', j \in dropped => j \in dropped'
    PROVE  CountOK(j)'
BY DEF CountOK

\* A task is over, or it is queued again, and the job may have been told.
TaskMoves(j, s) ==
    /\ task[j][s].at \notin {"none", "over"}
    /\ \E t \in Task : t.at # "none" /\ task' = [task EXCEPT ![j][s] = t]
    /\ job' = job \/ \E ok \in BOOLEAN : IncrementProgress(j, ok)
    /\ recounted \subseteq recounted'
    /\ dropped \subseteq dropped'
    /\ task'[j][s].at # "over" /\ job' # job => j \in recounted'
    /\ task'[j][s].at = "over" /\ job' = job => j \in dropped'

LEMMA TaskMovesSets ==
    ASSUME TaskInv, NEW j \in Jobs, NEW s \in Students, TaskMoves(j, s)
    PROVE  /\ \A k \in Jobs : TasksOf(k)' = TasksOf(k)
           /\ \A k \in Jobs \ {j} : OverOf(k)' = OverOf(k)
           /\ s \notin OverOf(j)
           /\ task'[j][s].at # "over" => OverOf(j)' = OverOf(j)
           /\ task'[j][s].at = "over" => OverOf(j)' = OverOf(j) \cup {s}
<1>1. PICK t \in Task : t.at # "none" /\ task' = [task EXCEPT ![j][s] = t]
  BY DEF TaskMoves
<1>2. \A k \in Jobs, r \in Students :
          task'[k][r] = IF k = j /\ r = s THEN t ELSE task[k][r]
  BY <1>1 DEF TaskInv
<1>3. task[j][s].at \notin {"none", "over"}
  BY DEF TaskMoves
<1>4. \A k \in Jobs : TasksOf(k)' = TasksOf(k)
  BY <1>1, <1>2, <1>3 DEF TasksOf
<1>5. \A k \in Jobs \ {j} : OverOf(k)' = OverOf(k)
  BY <1>2 DEF OverOf
<1>6. s \notin OverOf(j)
  BY <1>3 DEF OverOf
<1>7. task'[j][s].at # "over" => OverOf(j)' = OverOf(j)
  BY <1>2, <1>3 DEF OverOf
<1>8. task'[j][s].at = "over" => OverOf(j)' = OverOf(j) \cup {s}
  BY <1>2, <1>3 DEF OverOf
<1> QED
  BY <1>4, <1>5, <1>6, <1>7, <1>8

LEMMA CountMoves ==
    ASSUME IndInv, CountInv, NEW j \in Jobs, NEW s \in Students, TaskMoves(j, s)
    PROVE  CountInv'
<1>1. /\ \A k \in Jobs : TasksOf(k)' = TasksOf(k)
      /\ \A k \in Jobs \ {j} : OverOf(k)' = OverOf(k)
      /\ s \notin OverOf(j)
      /\ task'[j][s].at # "over" => OverOf(j)' = OverOf(j)
      /\ task'[j][s].at = "over" => OverOf(j)' = OverOf(j) \cup {s}
  BY TaskMovesSets DEF IndInv
<1>2. job \in [Jobs -> Job] /\ recounted \subseteq recounted' /\ dropped \subseteq dropped'
  BY DEF IndInv, RestInv, TaskMoves
<1>3. ASSUME NEW k \in Jobs \ {j} PROVE CountOK(k)'
  <2>1. job'[k] = job[k]
    BY <1>2, <1>3 DEF TaskMoves, IncrementProgress
  <2> QED
    BY <1>1, <1>2, <1>3, <2>1, CountKept DEF CountInv
<1> DEFINE sum  == job[j].done + job[j].failed
           over == Cardinality(OverOf(j))
<1>4. sum \in Nat /\ job[j].total \in Nat /\ over \in Nat
  BY <1>2, CountFacts DEF Job
<1>5. /\ task'[j][s].at # "over" => Cardinality(OverOf(j)') = over
      /\ task'[j][s].at = "over" => Cardinality(OverOf(j)') = over + 1
  BY <1>1, CountFacts, FS_AddElement
<1>6. CountOK(j)
  BY DEF CountInv
<1>7. \/ job'[j] = job[j] /\ job' = job
      \/ /\ job' # job
         /\ job'[j].done + job'[j].failed = sum + 1
         /\ job'[j].total = job[j].total
         /\ job'[j].status = "completed" => sum + 1 >= job[j].total
         /\ job'[j].status # "completed" => sum + 1 < job[j].total
         /\ job'[j].status \in {"running", "completed"}
  <2>1. CASE job' = job
    BY <2>1
  <2>2. ASSUME NEW ok \in BOOLEAN, IncrementProgress(j, ok)
        PROVE  /\ job' # job
               /\ job'[j].done + job'[j].failed = sum + 1
               /\ job'[j].total = job[j].total
               /\ job'[j].status = "completed" => sum + 1 >= job[j].total
               /\ job'[j].status # "completed" => sum + 1 < job[j].total
               /\ job'[j].status \in {"running", "completed"}
    <3>1. job'[j] = Reported(j, ok)
      BY <1>2, <2>2 DEF IncrementProgress
    <3>2. /\ job'[j].done + job'[j].failed = sum + 1
          /\ job'[j].total = job[j].total
          /\ job'[j].status = "completed" => sum + 1 >= job[j].total
          /\ job'[j].status # "completed" => sum + 1 < job[j].total
          /\ job'[j].status \in {"running", "completed"}
      BY <1>2, <3>1, ReportedFacts
    <3>3. job' # job
      BY <1>4, <3>2
    <3> QED
      BY <3>2, <3>3
  <2> QED
    BY <2>1, <2>2 DEF TaskMoves
<1>8. /\ task'[j][s].at # "over" /\ job' # job => j \in recounted'
      /\ task'[j][s].at = "over" /\ job' = job => j \in dropped'
  BY DEF TaskMoves
<1> HIDE DEF sum, over
<1>9. CountOK(j)'
  <2>1. /\ Cardinality(TasksOf(j)') = Cardinality(TasksOf(j))
        /\ Cardinality(TasksOf(j)) \in Nat
    BY <1>1, CountFacts
  <2>2. TasksOf(j) # {}
    BY DEF TasksOf, TaskMoves
  <2>3. job[j].status # "none"
    BY <1>6, <2>2 DEF CountOK
  <2>4. CASE job' = job
    BY <1>1, <1>2, <1>4, <1>5, <1>6, <1>8, <2>1, <2>3, <2>4 DEF CountOK, sum, over
  <2>5. CASE job' # job
    BY <1>1, <1>2, <1>4, <1>5, <1>6, <1>7, <1>8, <2>1, <2>3, <2>5 DEF CountOK, sum, over
  <2> QED
    BY <2>4, <2>5
<1> QED
  BY <1>3, <1>9 DEF CountInv

LEMMA CountStart ==
    ASSUME IndInv, CountInv, NEW j \in Jobs, StartAIGrading(j)
    PROVE  CountInv'
<1> DEFINE new == [s \in Students |-> IF s \in Eligible THEN Due ELSE NoTask]
<1>1. /\ job \in [Jobs -> Job] /\ task \in [Jobs -> [Students -> Task]]
      /\ task' = [task EXCEPT ![j] = new]
      /\ UNCHANGED <<recounted, dropped>>
  BY DEF IndInv, RestInv, TaskInv, StartAIGrading
<1>2. Eligible \in SUBSET Students /\ Eligible # {}
  BY DEF Eligible, StartAIGrading
<1>3. PICK mode \in {"suggest", "apply"}, force \in BOOLEAN :
        job' = [job EXCEPT ![j] = [status |-> "pending", mode |-> mode, force |-> force,
                   total |-> Cardinality(Eligible), done |-> 0, failed |-> 0]]
  BY DEF StartAIGrading
<1>4. \A s \in Students : new[s].at = IF s \in Eligible THEN "due" ELSE "none"
  BY TaskValues
<1> HIDE DEF new
<1>5. ASSUME NEW k \in Jobs \ {j} PROVE CountOK(k)'
  <2>1. job'[k] = job[k] /\ task'[k] = task[k]
    BY <1>1, <1>3
  <2>2. TasksOf(k)' = TasksOf(k) /\ OverOf(k)' = OverOf(k)
    BY <2>1 DEF TasksOf, OverOf
  <2>3. CountOK(k)
    BY DEF CountInv
  <2> QED
    BY <1>1, <2>1, <2>2, <2>3, CountKept
<1>6. task'[j] = new
  BY <1>1
<1>7. TasksOf(j)' = Eligible /\ OverOf(j)' = {}
  BY <1>2, <1>4, <1>6 DEF TasksOf, OverOf
<1>8. Cardinality(Eligible) \in Nat /\ Cardinality(Eligible) # 0
  BY <1>2, SomeFinite, FS_EmptySet
<1>9. /\ job'[j].status = "pending" /\ job'[j].total = Cardinality(Eligible)
      /\ job'[j].done = 0 /\ job'[j].failed = 0
  BY <1>1, <1>3
<1>10. Cardinality({}) = 0
  BY FS_EmptySet
<1>11. CountOK(j)'
  BY <1>7, <1>8, <1>9, <1>10 DEF CountOK
<1> QED
  BY <1>5, <1>11 DEF CountInv

LEMMA CountDies ==
    ASSUME IndInv, CountInv, NEW j \in Jobs, StartDies(j)
    PROVE  CountInv'
<1>1. \A k \in Jobs, s \in Students :
          task'[k][s] = IF k = j /\ task[k][s].at = "due" THEN Over ELSE task[k][s]
  BY TasksAfterDeath DEF IndInv
<1>2. job' = job /\ recounted' = recounted /\ dropped' = dropped \cup {j}
  BY DEF StartDies
<1>3. \A k \in Jobs : TasksOf(k)' = TasksOf(k)
  BY <1>1, TaskValues DEF TasksOf
<1>4. \A k \in Jobs \ {j} : OverOf(k)' = OverOf(k)
  BY <1>1 DEF OverOf
<1>5. ASSUME NEW k \in Jobs \ {j} PROVE CountOK(k)'
  BY <1>2, <1>3, <1>4, CountKept DEF CountInv
<1>6. /\ OverOf(j) \subseteq OverOf(j)' /\ IsFiniteSet(OverOf(j)')
      /\ Cardinality(OverOf(j)') \in Nat
  <2>1. OverOf(j) \subseteq OverOf(j)' /\ OverOf(j)' \in SUBSET Students
    BY <1>1, TaskValues DEF OverOf
  <2> QED
    BY <2>1, SomeFinite
<1>7. /\ Cardinality(OverOf(j)) <= Cardinality(OverOf(j)')
      /\ Cardinality(OverOf(j)) \in Nat
  BY <1>6, CountFacts, FS_Subset
<1>8. /\ CountOK(j)
      /\ job[j].done + job[j].failed \in Nat
  BY DEF CountInv, IndInv, RestInv, Job
<1>9. CountOK(j)'
  BY <1>2, <1>3, <1>6, <1>7, <1>8 DEF CountOK
<1> QED
  BY <1>5, <1>9 DEF CountInv

\* A step that leaves tasks and jobs alone.
LEMMA CountUnchanged ==
    ASSUME CountInv, UNCHANGED <<job, task, recounted, dropped>>
    PROVE  CountInv'
<1> SUFFICES ASSUME NEW k \in Jobs PROVE CountOK(k)'
  BY DEF CountInv
<1>1. TasksOf(k)' = TasksOf(k) /\ OverOf(k)' = OverOf(k)
  BY DEF TasksOf, OverOf
<1>2. CountOK(k)
  BY DEF CountInv
<1> QED
  BY <1>1, <1>2, CountKept

LEMMA RetryMoves ==
    ASSUME TaskInv, NEW j \in Jobs, NEW s \in Students, Retry(j, s)
    PROVE  /\ \E t \in Task : t.at # "none" /\ task' = [task EXCEPT ![j][s] = t]
           /\ dropped \subseteq dropped'
           /\ \/ task'[j][s].at # "over"
              \/ task'[j][s].at = "over" /\ j \in dropped'
<1>1. task[j][s].tries \in 0..MaxRetry
  BY DEF TaskInv, Task
<1>2. CASE task[j][s].tries < MaxRetry
  <2> DEFINE t == Queued(task[j][s].tries + 1)
  <2>1. task[j][s].tries + 1 \in 0..MaxRetry
    BY <1>1, <1>2
  <2>2. t \in Task /\ t.at = "queued"
    BY <2>1, NoRowFacts DEF Queued, TaskAt, Task
  <2>3. task' = [task EXCEPT ![j][s] = t] /\ dropped' = dropped
    BY <1>2 DEF Retry
  <2> HIDE DEF t
  <2>4. task'[j][s] = t
    BY <2>3 DEF TaskInv
  <2> QED
    BY <2>2, <2>3, <2>4
<1>3. CASE ~(task[j][s].tries < MaxRetry)
  <2>1. task' = [task EXCEPT ![j][s] = Over] /\ dropped' = dropped \cup {j}
    BY <1>3 DEF Retry
  <2>2. Over \in Task /\ Over.at = "over"
    BY NoRowFacts DEF Over, TaskAt, Task
  <2>3. task'[j][s] = Over
    BY <2>1 DEF TaskInv
  <2> QED
    BY <2>1, <2>2, <2>3
<1> QED
  BY <1>2, <1>3

\* Everything a task does is one move.
LEMMA WorkMoves ==
    ASSUME IndInv, NEW j \in Jobs, NEW s \in Students,
           \/ EnqueueAIGrade(j, s) \/ LoadSubmission(j, s) \/ SaveScores(j, s)
           \/ Report(j, s) \/ SkipDisabled(j, s)
           \/ WorkFails(j, s) \/ ReportFails(j, s) \/ AckLost(j, s)
    PROVE  TaskMoves(j, s)
<1>1. /\ task \in [Jobs -> [Students -> Task]] /\ row \in [Students -> Row]
      /\ task[j][s] \in Task
  BY DEF IndInv, TaskInv, RowInv
<1>2. task[j][s].at \notin {"none", "over"}
  BY DEF EnqueueAIGrade, LoadSubmission, SaveScores, Report, SkipDisabled, WorkFails,
         ReportFails, AckLost
<1>3. task[j][s].ok \in BOOLEAN /\ task[j][s].tries \in 0..MaxRetry /\ row[s] \in Row
  BY <1>1 DEF Task
<1>4. CASE LoadSubmission(j, s)
  <2> DEFINE t == TaskAt("loaded", task[j][s].tries, row[s], FALSE)
  <2>1. /\ task' = [task EXCEPT ![j][s] = t]
        /\ UNCHANGED <<job, recounted, dropped>>
    BY <1>4 DEF LoadSubmission
  <2>2. t \in Task /\ t.at = "loaded"
    BY <1>3 DEF TaskAt, Task
  <2> HIDE DEF t
  <2>3. task'[j][s] = t
    BY <1>1, <2>1
  <2> QED
    BY <1>2, <2>1, <2>2, <2>3 DEF TaskMoves
<1>5. CASE SaveScores(j, s)
  <2>1. PICK ok \in BOOLEAN :
          task' = [task EXCEPT ![j][s] = TaskAt("saved", task[j][s].tries, NoRow, ok)]
    BY <1>5 DEF SaveScores
  <2> DEFINE t == TaskAt("saved", task[j][s].tries, NoRow, ok)
  <2>2. /\ task' = [task EXCEPT ![j][s] = t]
        /\ UNCHANGED <<job, recounted, dropped>>
    BY <1>5, <2>1 DEF SaveScores
  <2>3. t \in Task /\ t.at = "saved"
    BY <1>3, NoRowFacts DEF TaskAt, Task
  <2> HIDE DEF t
  <2>4. task'[j][s] = t
    BY <1>1, <2>2
  <2> QED
    BY <1>2, <2>2, <2>3, <2>4 DEF TaskMoves
<1>6. ASSUME task' = [task EXCEPT ![j][s] = Over]
      PROVE  /\ \E t \in Task : t.at # "none" /\ task' = [task EXCEPT ![j][s] = t]
             /\ task'[j][s].at = "over"
  <2>1. Over \in Task /\ Over.at = "over"
    BY NoRowFacts DEF Over, TaskAt, Task
  <2>2. task'[j][s] = Over
    BY <1>1, <1>6
  <2> QED
    BY <1>6, <2>1, <2>2
<1>7. ASSUME NEW ok \in BOOLEAN, IncrementProgress(j, ok) PROVE job' # job
  <2>1. /\ job \in [Jobs -> Job] /\ job'[j] = Reported(j, ok)
        /\ job[j].done + job[j].failed \in Nat
    BY <1>7 DEF IndInv, RestInv, IncrementProgress, Job
  <2>2. job'[j].done + job'[j].failed = job[j].done + job[j].failed + 1
    BY <2>1, ReportedFacts
  <2> QED
    BY <2>1, <2>2
<1>8. CASE Report(j, s)
  BY <1>2, <1>3, <1>6, <1>7, <1>8 DEF Report, TaskMoves
<1>9. CASE WorkFails(j, s)
  <2>1. /\ recounted' = recounted
        /\ \/ Retry(j, s) /\ job' = job
           \/ /\ IncrementProgress(j, FALSE)
              /\ task' = [task EXCEPT ![j][s] = Over] /\ dropped' = dropped
    BY <1>9 DEF WorkFails
  <2>2. CASE Retry(j, s) /\ job' = job
    BY <1>2, <2>1, <2>2, RetryMoves DEF IndInv, TaskMoves
  <2>3. CASE /\ IncrementProgress(j, FALSE)
             /\ task' = [task EXCEPT ![j][s] = Over] /\ dropped' = dropped
    BY <1>2, <1>6, <1>7, <2>1, <2>3 DEF TaskMoves
  <2> QED
    BY <2>1, <2>2, <2>3
<1>10. CASE ReportFails(j, s)
  <2>1. Retry(j, s) /\ job' = job /\ recounted' = recounted
    BY <1>10 DEF ReportFails
  <2> QED
    BY <1>2, <2>1, RetryMoves DEF IndInv, TaskMoves
<1>11. CASE AckLost(j, s)
  <2>1. /\ Retry(j, s) /\ IncrementProgress(j, task[j][s].ok)
        /\ recounted' = recounted \cup {j}
    BY <1>11 DEF AckLost
  <2>2. job' # job
    BY <1>3, <1>7, <2>1
  <2> QED
    BY <1>2, <1>3, <2>1, <2>2, RetryMoves DEF IndInv, TaskMoves
<1>12. CASE EnqueueAIGrade(j, s)
  <2>1. /\ job' = job /\ recounted' = recounted
        /\ \/ task' = [task EXCEPT ![j][s] = Queued(0)] /\ dropped' = dropped
           \/ task' = [task EXCEPT ![j][s] = Over] /\ dropped' = dropped \cup {j}
    BY <1>12 DEF EnqueueAIGrade
  <2>2. CASE task' = [task EXCEPT ![j][s] = Queued(0)] /\ dropped' = dropped
    <3>1. Queued(0) \in Task /\ Queued(0).at = "queued"
      BY TaskValues
    <3>2. task'[j][s] = Queued(0)
      BY <1>1, <2>2
    <3> QED
      BY <1>2, <2>1, <2>2, <3>1, <3>2 DEF TaskMoves
  <2>3. CASE task' = [task EXCEPT ![j][s] = Over] /\ dropped' = dropped \cup {j}
    BY <1>2, <1>6, <2>1, <2>3 DEF TaskMoves
  <2> QED
    BY <2>1, <2>2, <2>3
<1>13. CASE SkipDisabled(j, s)
  <2>1. CASE /\ IncrementProgress(j, FALSE) /\ task' = [task EXCEPT ![j][s] = Over]
             /\ UNCHANGED <<recounted, dropped>>
    BY <1>2, <1>6, <1>7, <2>1 DEF TaskMoves
  <2>2. CASE /\ task' = [task EXCEPT ![j][s] = Over] /\ dropped' = dropped \cup {j}
             /\ UNCHANGED <<job, recounted>>
    BY <1>2, <1>6, <2>2 DEF TaskMoves
  <2>3. CASE /\ IncrementProgress(j, FALSE) /\ Retry(j, s)
             /\ recounted' = recounted \cup {j}
    <3>1. job' # job
      BY <1>7, <2>3
    <3> QED
      BY <1>2, <2>3, <3>1, RetryMoves DEF IndInv, TaskMoves
  <2> QED
    BY <1>13, <2>1, <2>2, <2>3 DEF SkipDisabled
<1> QED
  BY <1>4, <1>5, <1>8, <1>9, <1>10, <1>11, <1>12, <1>13

LEMMA CountNext == IndInv /\ CountInv /\ [Next]_vars => CountInv'
<1> SUFFICES ASSUME IndInv, CountInv, [Next]_vars PROVE CountInv'
  OBVIOUS
<1>1. CASE UNCHANGED vars
  BY <1>1, CountUnchanged DEF vars
<1>2. CASE \E r \in Rooms : StartRoom(r) \/ EndRoom(r) \/ GraceOver(r)
  BY <1>2, CountUnchanged DEF StartRoom, EndRoom, GraceOver, jobVars
<1>3. CASE \E s \in Students : DurationOver(s)
  BY <1>3, CountUnchanged DEF DurationOver, jobVars
<1>4. ASSUME NEW p \in Requests,
             \/ \E s \in Students, r \in Rooms : StartSubmission(p, s, r)
             \/ \E s \in Students, op \in {"save", "submit", "get", "grade"} : Load(p, op, s)
             \/ CreateSubmission(p) \/ FinalizeExpired(p) \/ PassDeadline(p)
             \/ SaveAnswer(p) \/ SubmitQuiz(p) \/ GradeSubmission(p)
      PROVE  CountInv'
  BY <1>4, CountUnchanged DEF StartSubmission, Load, Begin, CreateSubmission, FinalizeExpired,
       PassDeadline, SaveAnswer, SubmitQuiz, GradeSubmission, jobVars
<1>5. ASSUME NEW j \in Jobs, StartAIGrading(j) \/ StartDies(j) PROVE CountInv'
  BY <1>5, CountStart, CountDies
<1>6. ASSUME NEW j \in Jobs, NEW s \in Students,
             \/ EnqueueAIGrade(j, s) \/ LoadSubmission(j, s) \/ SaveScores(j, s)
             \/ Report(j, s) \/ SkipDisabled(j, s)
             \/ WorkFails(j, s) \/ ReportFails(j, s) \/ AckLost(j, s)
      PROVE  CountInv'
  BY <1>6, WorkMoves, CountMoves
<1> QED
  BY <1>1, <1>2, <1>3, <1>4, <1>5, <1>6 DEF Next, Work

LEMMA Counted == Spec => [](IndInv /\ CountInv)
<1>1. IndInv /\ CountInv /\ [Next]_vars => IndInv' /\ CountInv'
  BY RowsNext, HandlersNext, TasksNext, RestNext, CountNext DEF IndInv
<1> QED
  BY <1>1, Initially, CountInit, PTL DEF Spec

\* A completed job's tasks are all over: as many reports as tasks, and none
\* counted twice, mean that every task has reported.
THEOREM CompletedIsOver == Spec => []CompletedMeansOver
<1>1. IndInv /\ CountInv => CompletedMeansOver
  <2> SUFFICES ASSUME IndInv, CountInv, NEW j \in Jobs, j \notin recounted,
                      job[j].status = "completed"
               PROVE  \A s \in Students : task[j][s].at \in {"none", "over"}
    BY DEF CompletedMeansOver
  <2>1. CountOK(j) /\ job[j].total \in Nat /\ job[j].done + job[j].failed \in Nat
    BY DEF CountInv, IndInv, RestInv, Job
  <2>2. Cardinality(TasksOf(j)) <= Cardinality(OverOf(j))
    BY <2>1, CountFacts DEF CountOK
  <2>3. Cardinality(OverOf(j)) <= Cardinality(TasksOf(j))
    BY CountFacts, FS_Subset
  <2>4. Cardinality(OverOf(j)) = Cardinality(TasksOf(j))
    BY <2>2, <2>3, CountFacts
  <2>5. OverOf(j) = TasksOf(j)
    BY <2>4, CountFacts, FS_Subset
  <2> QED
    BY <2>5 DEF OverOf, TasksOf
<1> QED
  BY <1>1, Counted, PTL

\* A job that is not completed has a task due, queued or running, if none was dropped.
THEOREM NeverStuck == Spec => []JobNotStuck
<1>1. IndInv /\ CountInv => JobNotStuck
  <2> SUFFICES ASSUME IndInv, CountInv, NEW j \in Jobs, j \notin dropped,
                      job[j].status \in {"pending", "running"},
                      \A s \in Students : task[j][s].at \notin {"due", "queued", "loaded", "saved"}
               PROVE  FALSE
    BY DEF JobNotStuck
  <2>1. CountOK(j) /\ job[j].total \in Nat /\ job[j].done + job[j].failed \in Nat
    BY DEF CountInv, IndInv, RestInv, Job
  <2>2. \A s \in Students : task[j][s].at \in {"none", "over"}
    BY DEF IndInv, TaskInv, Task
  <2>3. OverOf(j) = TasksOf(j)
    BY <2>2 DEF OverOf, TasksOf
  <2> QED
    BY <2>1, <2>3, CountFacts DEF CountOK
<1> QED
  BY <1>1, Counted, PTL

\* A completed job is not started again and no late report reopens it.
THEOREM CompletedStays == Spec => CompletedIsFinal
<1> DEFINE Step == \A j \in Jobs : job[j].status = "completed" => job'[j].status = "completed"
<1>1. IndInv /\ CountInv /\ [Next]_vars => [Step]_vars
  <2> SUFFICES ASSUME IndInv, CountInv, Next, NEW j \in Jobs, job[j].status = "completed"
               PROVE  job'[j].status = "completed"
    OBVIOUS
  <2>1. job \in [Jobs -> Job] /\ CountOK(j)
    BY DEF IndInv, RestInv, CountInv
  <2>2. CASE job' = job
    BY <2>2
  <2>3. ASSUME NEW k \in Jobs, StartAIGrading(k) PROVE job'[j].status = "completed"
    <3>1. k # j
      BY <2>3 DEF StartAIGrading
    <3>2. job'[j] = job[j]
      BY <2>1, <2>3, <3>1 DEF StartAIGrading
    <3> QED
      BY <3>2
  <2>4. ASSUME NEW k \in Jobs, NEW ok \in BOOLEAN, IncrementProgress(k, ok)
        PROVE  job'[j].status = "completed"
    <3>1. CASE k # j
      BY <2>1, <2>4, <3>1 DEF IncrementProgress
    <3>2. CASE k = j
      <4>1. job'[j] = Reported(j, ok)
        BY <2>1, <2>4, <3>2 DEF IncrementProgress
      <4>2. job[j].done + job[j].failed \in Nat /\ job[j].total \in Nat
        BY <2>1 DEF Job
      <4>3. job[j].total <= job[j].done + job[j].failed
        BY <2>1 DEF CountOK
      <4> QED
        BY <2>1, <4>1, <4>2, <4>3, ReportedFacts
    <3> QED
      BY <3>1, <3>2
  <2>5. \/ job' = job
        \/ \E k \in Jobs : StartAIGrading(k)
        \/ \E k \in Jobs, ok \in BOOLEAN : IncrementProgress(k, ok)
    <3>1. CASE \E r \in Rooms : StartRoom(r) \/ EndRoom(r) \/ GraceOver(r)
      BY <3>1 DEF StartRoom, EndRoom, GraceOver, jobVars
    <3>2. CASE \E s \in Students : DurationOver(s)
      BY <3>2 DEF DurationOver, jobVars
    <3>3. ASSUME NEW p \in Requests,
             \/ \E s \in Students, r \in Rooms : StartSubmission(p, s, r)
             \/ \E s \in Students, op \in {"save", "submit", "get", "grade"} : Load(p, op, s)
             \/ CreateSubmission(p) \/ FinalizeExpired(p) \/ PassDeadline(p)
             \/ SaveAnswer(p) \/ SubmitQuiz(p) \/ GradeSubmission(p)
          PROVE job' = job
      BY <3>3 DEF StartSubmission, Load, Begin, CreateSubmission, FinalizeExpired,
           PassDeadline, SaveAnswer, SubmitQuiz, GradeSubmission, jobVars
    <3>4. ASSUME NEW k \in Jobs, NEW s \in Students,
             \/ EnqueueAIGrade(k, s) \/ LoadSubmission(k, s) \/ SaveScores(k, s)
             \/ Report(k, s) \/ SkipDisabled(k, s)
             \/ WorkFails(k, s) \/ ReportFails(k, s) \/ AckLost(k, s)
          PROVE job' = job \/ \E ok \in BOOLEAN : IncrementProgress(k, ok)
      BY <3>4, WorkMoves DEF TaskMoves
    <3>5. CASE \E k \in Jobs : StartDies(k)
      BY <3>5 DEF StartDies
    <3> QED
      BY <3>1, <3>2, <3>3, <3>4, <3>5 DEF Next, Work
  <2> QED
    BY <2>2, <2>3, <2>4, <2>5
<1> QED
  BY <1>1, Counted, PTL DEF Spec, CompletedIsFinal

=============================================================================
