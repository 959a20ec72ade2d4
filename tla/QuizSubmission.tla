--------------------------- MODULE QuizSubmission ---------------------------
(***************************************************************************)
(* Quiz submissions in internal/quizzes: a student's row from start to     *)
(* grade, the deadline that is enforced lazily, the teacher, and the       *)
(* AI-grading tasks of a job with their retries and progress counters.     *)
(*                                                                         *)
(* Every handler reads a row, works on its copy and saves the whole copy   *)
(* (gorm's Save in submissionRepository.Update), whatever became of the    *)
(* row since. Time is kept as far as the code looks at it: a room is       *)
(* planned, open, ended, or ended for longer than the grace period, and    *)
(* the student's own duration is up or not.                                *)
(***************************************************************************)
EXTENDS Integers, FiniteSets, FiniteSetsExt

CONSTANTS
    Students,     \* one submission each: the row is unique per quiz and student
    NoStudent,
    Questions,
    Descriptive,  \* the questions only a teacher or the AI can score
    Values,       \* what a student can answer
    NoValue,
    Scores,       \* the scores a question can earn
    Mark,         \* the automatic score of a value
    Rooms,
    NoRoom,
    Requests,     \* handlers in flight
    Jobs,
    MaxRequests,  \* bound: requests that ever read a submission
    MaxRetry,     \* asynq.MaxRetry of an AI task
    MaxFaults     \* bound: failed calls and worker crashes

ASSUME QuizAssumption ==
    /\ NoStudent \notin Students
    /\ Descriptive \subseteq Questions
    /\ NoValue \notin Values
    /\ Scores \subseteq Int /\ 0 \in Scores
    /\ Mark \in [Values -> Scores]
    /\ NoRoom \notin Rooms
    /\ IsFiniteSet(Students)
    /\ MaxRequests \in Nat
    /\ MaxRetry \in Nat
    /\ MaxFaults \in Nat

VARIABLES
    noBack,    \* quizzes.no_back_navigation
    room,      \* where each room's window stands
    timeUp,    \* students whose duration and grace are over
    row,       \* quiz_submissions
    proc,      \* the handlers
    requests,  \* how many there were
    job,       \* ai_grading_jobs
    task,      \* the queued or running task of a job for a student
    faults,
    overwritten, \* history: students one of whose rows was saved over a newer one
    marked,    \* history: answers a teacher scored by hand
    recounted, \* history: jobs a task of which reported and then ran again
    dropped    \* history: jobs a task of which never reported

rowVars  == <<row, overwritten, marked>>
jobVars  == <<job, task, recounted, dropped>>
timeVars == <<noBack, room, timeUp>>
vars == <<noBack, room, timeUp, row, proc, requests, job, task, faults,
          overwritten, marked, recounted, dropped>>

-----------------------------------------------------------------------------

Final == {"submitted", "graded"}

\* sub.TotalScore as every writer recomputes it.
Total(earned) == MapThenSumSet(LAMBDA q : earned[q], Questions)

Row == [status : {"none", "in_progress"} \cup Final, room : Rooms \cup {NoRoom},
        value : [Questions -> Values \cup {NoValue}], earned : [Questions -> Scores],
        by : [Questions -> {"", "ai"}],
        total : {0} \cup {Total(e) : e \in [Questions -> Scores]}]

NoRow == [status |-> "none", room |-> NoRoom, value |-> [q \in Questions |-> NoValue],
          earned |-> [q \in Questions |-> 0], by |-> [q \in Questions |-> ""], total |-> 0]

Handler == [op : {"idle", "start", "save", "submit", "get", "grade"},
            at : {"idle", "create", "loaded", "checked"},
            student : Students \cup {NoStudent}, copy : Row]

Idle == [op |-> "idle", at |-> "idle", student |-> NoStudent, copy |-> NoRow]

Job == [status : {"none", "pending", "running", "completed"}, mode : {"suggest", "apply"},
        force : BOOLEAN, total : Nat, done : Nat, failed : Nat]

\* A task is due until StartAIGrading's loop has enqueued it.
Task == [at : {"none", "due", "queued", "loaded", "saved", "over"}, tries : 0..MaxRetry,
         copy : Row, ok : BOOLEAN]

TaskAt(at, tries, copy, ok) == [at |-> at, tries |-> tries, copy |-> copy, ok |-> ok]

NoTask == TaskAt("none", 0, NoRow, FALSE)
Due == TaskAt("due", 0, NoRow, FALSE)
Queued(tries) == TaskAt("queued", tries, NoRow, FALSE)
Over == TaskAt("over", 0, NoRow, FALSE)

TypeOK ==
    /\ noBack \in BOOLEAN
    /\ room \in [Rooms -> {"planned", "open", "ended", "closed"}]
    /\ timeUp \subseteq Students
    /\ row \in [Students -> Row]
    /\ proc \in [Requests -> Handler]
    /\ requests \in 0..MaxRequests
    /\ job \in [Jobs -> Job]
    /\ task \in [Jobs -> [Students -> Task]]
    /\ faults \in 0..MaxFaults
    /\ overwritten \subseteq Students
    /\ marked \subseteq Students \X Questions
    /\ recounted \subseteq Jobs
    /\ dropped \subseteq Jobs

Init ==
    /\ noBack \in BOOLEAN
    /\ room \in [Rooms -> {"planned", "open"}]
    /\ timeUp = {}
    /\ row = [s \in Students |-> NoRow]
    /\ proc = [p \in Requests |-> Idle]
    /\ requests = 0
    /\ job = [j \in Jobs |-> [status |-> "none", mode |-> "suggest", force |-> FALSE,
                              total |-> 0, done |-> 0, failed |-> 0]]
    /\ task = [j \in Jobs |-> [s \in Students |-> NoTask]]
    /\ faults = 0
    /\ overwritten = {}
    /\ marked = {}
    /\ recounted = {}
    /\ dropped = {}

-----------------------------------------------------------------------------
(* The room's window and the clock *)

\* A room that has ended is refused, but a StartRoom that read it before saves its
\* copy, without the end, over it.
StartRoom(r) ==
    /\ room[r] # "open"
    /\ room' = [room EXCEPT ![r] = "open"]
    /\ UNCHANGED <<noBack, timeUp, rowVars, proc, requests, jobVars, faults>>

\* By hand or on schedule.
EndRoom(r) ==
    /\ room[r] \in {"planned", "open"}
    /\ room' = [room EXCEPT ![r] = "ended"]
    /\ UNCHANGED <<noBack, timeUp, rowVars, proc, requests, jobVars, faults>>

\* SubmissionGracePeriod after the end.
GraceOver(r) ==
    /\ room[r] = "ended"
    /\ room' = [room EXCEPT ![r] = "closed"]
    /\ UNCHANGED <<noBack, timeUp, rowVars, proc, requests, jobVars, faults>>

DurationOver(s) ==
    /\ row[s].status # "none"
    /\ s \notin timeUp
    /\ timeUp' = timeUp \cup {s}
    /\ UNCHANGED <<noBack, room, rowVars, proc, requests, jobVars, faults>>

Expired(s, copy) == s \in timeUp \/ (copy.room \in Rooms /\ room[copy.room] = "closed")

-----------------------------------------------------------------------------
(* Saving a row *)

\* submissionRepository.Update: the whole row, over whatever is there. base is
\* the row as the handler read it.
Update(s, base, new) ==
    /\ row' = [row EXCEPT ![s] = new]
    /\ overwritten' = IF row[s] = base THEN overwritten ELSE overwritten \cup {s}

AutoScore(q, v) == IF q \in Descriptive THEN 0 ELSE Mark[v]

\* variant: the total is not recomputed.
WithoutTotal(copy, earned) == [copy EXCEPT !.earned = earned]

WithScores(copy, earned) == [copy EXCEPT !.earned = earned, !.total = Total(earned)]

Rescored(copy, score) ==
    WithScores(copy, [q \in Questions |-> IF q \in DOMAIN score THEN score[q]
                                          ELSE copy.earned[q]])

\* gradeAndFinalize: every answer that is there is scored afresh, graded_by
\* stays as it is.
GradeAll(copy) ==
    LET earned == [q \in Questions |-> IF copy.value[q] = NoValue THEN copy.earned[q]
                                       ELSE AutoScore(q, copy.value[q])]
    IN  [WithScores(copy, earned) EXCEPT !.status = "submitted"]

\* variant: the answers sent along replace the stored ones.
MergeOver(old, new) == [q \in Questions |-> IF new[q] = NoValue THEN old[q] ELSE new[q]]

\* The answers sent go into the answers already there; with no back navigation the
\* first one stays.
Merge(old, new) ==
    [q \in Questions |-> IF new[q] = NoValue \/ (noBack /\ old[q] # NoValue)
                         THEN old[q] ELSE new[q]]

-----------------------------------------------------------------------------
(* The handlers *)

Finish(p) == proc' = [proc EXCEPT ![p] = Idle]

Begin(p, op, at, s, copy) ==
    /\ proc[p] = Idle
    /\ proc' = [proc EXCEPT ![p] = [op |-> op, at |-> at, student |-> s, copy |-> copy]]
    /\ UNCHANGED <<timeVars, rowVars, jobVars, faults>>

\* The room is open and the student has no submission yet.
StartSubmission(p, s, r) ==
    /\ room[r] = "open"
    /\ row[s].status = "none"
    /\ Begin(p, "start", "create", s, [NoRow EXCEPT !.status = "in_progress", !.room = r])
    /\ UNCHANGED requests

\* submissions.Create: the unique index turns the second one away.
CreateSubmission(p) ==
    LET s == proc[p].student IN
    /\ proc[p].at = "create"
    /\ row' = IF row[s].status = "none" THEN [row EXCEPT ![s] = proc[p].copy] ELSE row
    /\ Finish(p)
    /\ UNCHANGED <<timeVars, requests, jobVars, faults, overwritten, marked>>

\* SaveAnswer, SubmitQuiz, GetSubmission and GradeSubmission read the row.
Load(p, op, s) ==
    /\ op \in {"save", "submit", "get", "grade"}
    /\ row[s].status # "none"
    /\ requests < MaxRequests
    /\ requests' = requests + 1
    /\ Begin(p, op, "loaded", s, row[s])

\* variant: SaveAnswer does not look at the status.
AcceptsLateSave(op, copy) ==
    \/ op = "save"
    \/ op = "submit" /\ copy.status = "in_progress" /\ \E r \in Rooms : room[r] = "open"
    \/ op = "grade" /\ copy.status \in Final

\* What each handler demands once the deadline is dealt with.
Accepts(op, copy) ==
    \/ op = "save" /\ copy.status = "in_progress"
    \/ op = "submit" /\ copy.status = "in_progress" /\ \E r \in Rooms : room[r] = "open"
    \/ op = "grade" /\ copy.status \in Final

\* finalizeIfExpired: a submission past its deadline is scored from the saved
\* answers and stored; the teacher goes on to grade it, the others are through.
FinalizeExpired(p) ==
    LET h == proc[p] IN
    /\ h.at = "loaded"
    /\ h.copy.status = "in_progress" /\ Expired(h.student, h.copy)
    /\ Update(h.student, h.copy, GradeAll(h.copy))
    /\ IF h.op = "grade"
       THEN proc' = [proc EXCEPT ![p] = [op |-> "grade", at |-> "checked",
                                         student |-> h.student, copy |-> GradeAll(h.copy)]]
       ELSE Finish(p)
    /\ UNCHANGED <<timeVars, requests, jobVars, faults, marked>>

\* ... and before the deadline, or with the submission already finished.
PassDeadline(p) ==
    LET h == proc[p] IN
    /\ h.at = "loaded"
    /\ ~(h.copy.status = "in_progress" /\ Expired(h.student, h.copy))
    /\ IF Accepts(h.op, h.copy) THEN proc' = [proc EXCEPT ![p].at = "checked"] ELSE Finish(p)
    /\ UNCHANGED <<timeVars, requests, jobVars, faults, rowVars>>

\* SaveAnswer: one answer; with no back navigation an answered question is refused.
SaveAnswer(p) ==
    LET h == proc[p] IN
    /\ h.op = "save" /\ h.at = "checked"
    /\ \/ \E q \in Questions, v \in Values :
            /\ ~(noBack /\ h.copy.value[q] # NoValue)
            /\ Update(h.student, h.copy, [h.copy EXCEPT !.value[q] = v])
       \/ /\ noBack /\ \E q \in Questions : h.copy.value[q] # NoValue
          /\ UNCHANGED <<row, overwritten>>
    /\ Finish(p)
    /\ UNCHANGED <<timeVars, requests, jobVars, faults, marked>>

\* SubmitQuiz merges the answers sent along and scores the whole.
SubmitQuiz(p) ==
    LET h == proc[p] IN
    /\ h.op = "submit" /\ h.at = "checked"
    /\ \E sent \in [Questions -> Values \cup {NoValue}] :
         Update(h.student, h.copy,
                GradeAll([h.copy EXCEPT !.value = Merge(h.copy.value, sent)]))
    /\ Finish(p)
    /\ UNCHANGED <<timeVars, requests, jobVars, faults, marked>>

\* GradeSubmission: the teacher scores some of the answers. graded_by is not set.
GradeSubmission(p) ==
    LET h == proc[p]
        answered == {q \in Questions : h.copy.value[q] # NoValue} IN
    /\ h.op = "grade" /\ h.at = "checked"
    /\ \E scored \in SUBSET answered : \E score \in [scored -> Scores] :
         /\ Update(h.student, h.copy, [Rescored(h.copy, score) EXCEPT !.status = "graded"])
         /\ marked' = marked \cup ({h.student} \X scored)
    /\ Finish(p)
    /\ UNCHANGED <<timeVars, requests, jobVars, faults>>

-----------------------------------------------------------------------------
(* AI grading *)

Fault == faults < MaxFaults /\ faults' = faults + 1

HasDescriptive(copy) == \E q \in Descriptive : copy.value[q] # NoValue

\* variant: submissions in progress are graded too.
EligibleAnyStatus == {s \in Students : HasDescriptive(row[s])}

Eligible == {s \in Students : row[s].status \in Final /\ HasDescriptive(row[s])}

\* StartAIGrading: a job over the finished submissions with an answer to grade,
\* one task due for each.
StartAIGrading(j) ==
    /\ job[j].status = "none"
    /\ Eligible # {}
    /\ \E mode \in {"suggest", "apply"}, force \in BOOLEAN :
         job' = [job EXCEPT ![j] = [status |-> "pending", mode |-> mode, force |-> force,
                                    total |-> Cardinality(Eligible), done |-> 0, failed |-> 0]]
    /\ task' = [task EXCEPT ![j] = [s \in Students |-> IF s \in Eligible THEN Due ELSE NoTask]]
    /\ UNCHANGED <<timeVars, rowVars, proc, requests, faults, recounted, dropped>>

\* Its loop enqueues them one by one, with the first ones running. A task that
\* cannot be enqueued is logged and forgotten.
EnqueueAIGrade(j, s) ==
    /\ task[j][s].at = "due"
    /\ \/ /\ task' = [task EXCEPT ![j][s] = Queued(0)]
          /\ UNCHANGED <<faults, dropped>>
       \/ /\ Fault
          /\ task' = [task EXCEPT ![j][s] = Over]
          /\ dropped' = dropped \cup {j}
    /\ UNCHANGED <<timeVars, rowVars, proc, requests, job, recounted>>

\* The request dies in the loop: the tasks still due are never enqueued.
StartDies(j) ==
    /\ \E s \in Students : task[j][s].at = "due"
    /\ Fault
    /\ task' = [task EXCEPT ![j] = [s \in Students |-> IF task[j][s].at = "due" THEN Over
                                                      ELSE task[j][s]]]
    /\ dropped' = dropped \cup {j}
    /\ UNCHANGED <<timeVars, rowVars, proc, requests, job, recounted>>

\* variant: exactly the total completes a job, one report more reopens it.
ReportedExactly(j, ok) ==
    LET done   == job[j].done + (IF ok THEN 1 ELSE 0)
        failed == job[j].failed + (IF ok THEN 0 ELSE 1)
    IN  [status |-> IF done + failed = job[j].total THEN "completed" ELSE "running",
         mode |-> job[j].mode, force |-> job[j].force, total |-> job[j].total,
         done |-> done, failed |-> failed]

\* variant: off by one, the last report does not complete the job.
ReportedShort(j, ok) ==
    LET done   == job[j].done + (IF ok THEN 1 ELSE 0)
        failed == job[j].failed + (IF ok THEN 0 ELSE 1)
    IN  [status |-> IF done + failed > job[j].total THEN "completed" ELSE "running",
         mode |-> job[j].mode, force |-> job[j].force, total |-> job[j].total,
         done |-> done, failed |-> failed]

\* JobRepository.IncrementProgress, one atomic UPDATE.
Reported(j, ok) ==
    LET done   == job[j].done + (IF ok THEN 1 ELSE 0)
        failed == job[j].failed + (IF ok THEN 0 ELSE 1)
    IN  [status |-> IF done + failed >= job[j].total THEN "completed" ELSE "running",
         mode |-> job[j].mode, force |-> job[j].force, total |-> job[j].total,
         done |-> done, failed |-> failed]

IncrementProgress(j, ok) == job' = [job EXCEPT ![j] = Reported(j, ok)]

\* gradeSubmissionAI reads the row, asks the model, and works on its copy.
LoadSubmission(j, s) ==
    /\ task[j][s].at = "queued"
    /\ task' = [task EXCEPT ![j][s] = TaskAt("loaded", task[j][s].tries, row[s], FALSE)]
    /\ UNCHANGED <<timeVars, rowVars, proc, requests, job, faults, recounted, dropped>>

\* shouldGrade: "manual" would be exempt, but no code writes it.
ShouldGrade(j, copy) ==
    {q \in Descriptive : /\ copy.value[q] # NoValue
                         /\ (copy.by[q] = "ai" => job[j].force)}

\* The copy with the answers the model scored, a subset of the eligible ones.
Scored(j, copy, score) ==
    LET by == [q \in Questions |-> IF q \in DOMAIN score THEN "ai" ELSE copy.by[q]]
        new == [Rescored(copy, score) EXCEPT !.by = by]
    IN  IF job[j].mode = "suggest" THEN WithScores(copy, copy.earned)
        ELSE IF \A q \in Descriptive : copy.value[q] # NoValue => by[q] # ""
             THEN [new EXCEPT !.status = "graded"] ELSE new

\* gradeAnswersAI and the save. Nothing scored of what there was to score is a failure.
SaveScores(j, s) ==
    LET t == task[j][s] IN
    /\ t.at = "loaded"
    /\ \E done \in SUBSET ShouldGrade(j, t.copy) : \E score \in [done -> Scores] :
         /\ Update(s, t.copy, Scored(j, t.copy, score))
         /\ task' = [task EXCEPT ![j][s] =
                TaskAt("saved", t.tries, NoRow, done # {} \/ ShouldGrade(j, t.copy) = {})]
    /\ UNCHANGED <<timeVars, marked, proc, requests, job, faults, recounted, dropped>>

\* The task reports and is acknowledged.
Report(j, s) ==
    /\ task[j][s].at = "saved"
    /\ IncrementProgress(j, task[j][s].ok)
    /\ task' = [task EXCEPT ![j][s] = Over]
    /\ UNCHANGED <<timeVars, rowVars, proc, requests, faults, recounted, dropped>>

\* variant: no last attempt.
RetryForever(j, s) ==
    /\ task' = [task EXCEPT ![j][s] = Queued(task[j][s].tries + 1)]
    /\ UNCHANGED dropped

\* Asynq runs a failed task again, up to MaxRetry times, and then archives it.
Retry(j, s) ==
    LET t == task[j][s] IN
    IF t.tries < MaxRetry
    THEN /\ task' = [task EXCEPT ![j][s] = Queued(t.tries + 1)]
         /\ UNCHANGED dropped
    ELSE /\ task' = [task EXCEPT ![j][s] = Over]
         /\ dropped' = dropped \cup {j}

\* variant: every failed attempt is reported.
WorkFailsCounted(j, s) ==
    /\ task[j][s].at \in {"queued", "loaded"}
    /\ Fault
    /\ IncrementProgress(j, FALSE)
    /\ Retry(j, s)
    /\ UNCHANGED <<timeVars, rowVars, proc, requests, recounted>>

\* gradeSubmissionAI with the model switched off since: a failure is reported and
\* the task is acknowledged whether that went through or not, unless the worker
\* dies in between.
SkipDisabled(j, s) ==
    /\ task[j][s].at = "queued"
    /\ \/ /\ IncrementProgress(j, FALSE)
          /\ task' = [task EXCEPT ![j][s] = Over]
          /\ UNCHANGED <<faults, recounted, dropped>>
       \/ /\ Fault
          /\ task' = [task EXCEPT ![j][s] = Over]
          /\ dropped' = dropped \cup {j}
          /\ UNCHANGED <<job, recounted>>
       \/ /\ Fault
          /\ IncrementProgress(j, FALSE)
          /\ Retry(j, s)
          /\ recounted' = recounted \cup {j}
    /\ UNCHANGED <<timeVars, rowVars, proc, requests>>

\* countFailureIfExhausted: a read or a save fails. On the last attempt the
\* failure is reported, or that fails too and is only logged.
WorkFails(j, s) ==
    LET t == task[j][s] IN
    /\ t.at \in {"queued", "loaded"}
    /\ Fault
    /\ \/ t.tries < MaxRetry /\ Retry(j, s) /\ UNCHANGED job
       \/ /\ t.tries = MaxRetry
          /\ IncrementProgress(j, FALSE)
          /\ task' = [task EXCEPT ![j][s] = Over]
          /\ UNCHANGED dropped
       \/ t.tries = MaxRetry /\ Retry(j, s) /\ UNCHANGED job
    /\ UNCHANGED <<timeVars, rowVars, proc, requests, recounted>>

\* The report fails, or the worker dies before it.
ReportFails(j, s) ==
    /\ task[j][s].at \in {"loaded", "saved"}
    /\ Fault
    /\ Retry(j, s)
    /\ UNCHANGED <<timeVars, rowVars, proc, requests, job, recounted>>

\* The worker dies after the report and before the acknowledgement.
AckLost(j, s) ==
    /\ task[j][s].at = "saved"
    /\ Fault
    /\ IncrementProgress(j, task[j][s].ok)
    /\ Retry(j, s)
    /\ recounted' = recounted \cup {j}
    /\ UNCHANGED <<timeVars, rowVars, proc, requests>>

-----------------------------------------------------------------------------

Work(j, s) ==
    EnqueueAIGrade(j, s) \/ LoadSubmission(j, s) \/ SaveScores(j, s) \/ Report(j, s)

Next ==
    \/ \E r \in Rooms : StartRoom(r) \/ EndRoom(r) \/ GraceOver(r)
    \/ \E s \in Students : DurationOver(s)
    \/ \E p \in Requests :
         \/ \E s \in Students, r \in Rooms : StartSubmission(p, s, r)
         \/ \E s \in Students, op \in {"save", "submit", "get", "grade"} : Load(p, op, s)
         \/ CreateSubmission(p)
         \/ FinalizeExpired(p)
         \/ PassDeadline(p)
         \/ SaveAnswer(p)
         \/ SubmitQuiz(p)
         \/ GradeSubmission(p)
    \/ \E j \in Jobs : StartAIGrading(j) \/ StartDies(j)
    \/ \E j \in Jobs, s \in Students :
         \/ Work(j, s) \/ SkipDisabled(j, s)
         \/ WorkFails(j, s) \/ ReportFails(j, s) \/ AckLost(j, s)

Spec == Init /\ [][Next]_vars

-----------------------------------------------------------------------------
(* Properties *)

\* A finished submission's total is the sum of what its answers earned, however
\* many graders worked from copies of it, and every copy in flight agrees.
TotalAgrees ==
    \A s \in Students : row[s].status \in Final => row[s].total = Total(row[s].earned)

\* Handed in is handed in: no answer changes and no submission is reopened
\* afterwards, whoever reads, grades or saves, unless a handler saved its copy
\* over a row that had changed since it read it.
SheetIsFinal ==
    [][\A s \in Students \ overwritten' : row[s].status \in Final =>
           row'[s].status \in Final /\ row'[s].value = row[s].value]_vars

\* With no back navigation a stored answer is never changed, by SaveAnswer or
\* by the answers SubmitQuiz merges, short of such an overwrite.
AnswerIsLocked ==
    [][noBack => \A s \in Students \ overwritten' : \A q \in Questions :
           row[s].value[q] # NoValue => row'[s].value[q] = row[s].value[q]]_vars

\* The AI scores finished submissions only: StartAIGrading checks the status,
\* the task that reads the row later does not, and an overwrite in between is
\* the only way it meets an unfinished one.
OnlyFinishedGraded ==
    [][\A j \in Jobs, s \in Students \ overwritten :
           SaveScores(j, s) => row[s].status \in Final]_vars

\* A completed job stays completed, also when a task reports twice.
CompletedIsFinal ==
    [][\A j \in Jobs : job[j].status = "completed" => job'[j].status = "completed"]_vars

\* A job says it is completed only when each of its tasks is over, unless a
\* worker died between a report and its acknowledgement.
CompletedMeansOver ==
    \A j \in Jobs \ recounted : job[j].status = "completed" =>
        \A s \in Students : task[j][s].at \in {"none", "over"}

\* A job is never stuck: as long as it is not completed, one of its tasks is
\* due, queued or running, whatever fails and is retried, unless a task was lost at
\* the enqueue or could not report on its last attempt.
JobNotStuck ==
    \A j \in Jobs \ dropped : job[j].status \in {"pending", "running"} =>
        \E s \in Students : task[j][s].at \in {"due", "queued", "loaded", "saved"}

\* A score the teacher gave is not overwritten by the AI ("Manual is sacred: AI
\* never overwrites a manual grade", domain/ai_grading.go).
ManualIsSacred ==
    [][\A j \in Jobs, s \in Students, q \in Questions :
           SaveScores(j, s) /\ <<s, q>> \in marked => row'[s].earned[q] = row[s].earned[q]]_vars
=============================================================================
