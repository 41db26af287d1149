----------------------------- MODULE AuditProofs -----------------------------
(***************************************************************************)
(* Proofs about Audit, for any servers, configurations, advisories,        *)
(* callers and bound, and for any number of administrators' requests in    *)
(* flight.                                                                 *)
(***************************************************************************)
EXTENDS Audit, TLAPS, SequenceTheorems

JobRec == [id : Ids \cup {Nobody}, by : Callers \cup {Self, Nobody},
           at : {"none", "engine", "stopping", "done"}, row : Row \cup {Nobody}]
LaunchRec == [at : {"no", "admitFill", "admit", "specFill", "launch"}, row : Row \cup {Nobody}]
StopRec == [at : {"no", "close", "spawn", "halt", "done"}, srv : Servers \cup {Nobody}]
AdminRec == [at : {"none", "patchBody", "patchFill", "patch", "patchStop", "deleteStop",
                   "ignore", "settings"},
             srv : Servers \cup {Nobody}, row : Row \cup {Nobody}, fill : Row \cup {Nobody},
             patch : Patch, todo : SUBSET Servers]

(***************************************************************************)
(* The shape of what is suspended: an audit has the row it decides about,  *)
(* a launch the row it resolved, a request what it has read, and nobody    *)
(* stops a server before deciding to.                                      *)
(***************************************************************************)
JobShape ==
    /\ worker # "loop" => job = NoJob
    /\ worker = "none" => queue = <<>>
    /\ job.at = "engine" => job.id \in Ids /\ (job.id # Self => job.row # Nobody)
    /\ stops[Self].at # "no" => job.at = "stopping"

LaunchShape == \A s \in Servers : launch[s].at # "no" => launch[s].row # Nobody

StopShape == \A x \in Stoppers : stops[x].at # "no" => stops[x].srv \in Servers

Fits(request, stopping) ==
    /\ request.at \in {"none", "patchBody", "patchFill", "patch"} => stopping = "no"
    /\ request.at \in {"patchBody", "patchFill", "patch"} =>
           request.srv \in Servers /\ request.row # Nobody
    /\ request.at = "patchFill" => request.fill # Nobody
    /\ request.at \in {"patchStop", "deleteStop"} => request.srv \in Servers

AdminShape == \A a \in Admins : Fits(admin[a], stops[a].at)

Shape == TypeOK /\ JobShape /\ LaunchShape /\ StopShape /\ AdminShape

History == overtaken \subseteq Servers /\ outdated \subseteq Servers

-----------------------------------------------------------------------------
(***************************************************************************)
(* Records and the queue.                                                  *)
(***************************************************************************)
LEMMA Empties ==
  /\ NoJob \in JobRec /\ NoLaunch \in LaunchRec /\ NoStop \in StopRec /\ NoAdmin \in AdminRec
  /\ NoRun \in [at : {"none", "next", "waiting"}, todo : SUBSET Ids]
  /\ NoJob.at = "none" /\ NoLaunch.at = "no" /\ NoStop.at = "no" /\ NoAdmin.at = "none"
BY DEF NoJob, NoLaunch, NoStop, NoAdmin, NoRun, NoPatch, Patch, JobRec, LaunchRec, StopRec, AdminRec

LEMMA InitShape == Init => Shape
<1> SUFFICES ASSUME Init
             PROVE  Shape
  OBVIOUS
<1>1. TypeOK
  <2>1. \A c \in Configs, b, on \in BOOLEAN : [NewRow(c, b) EXCEPT !.enabled = on] \in Row
    BY DEF NewRow, Row
  <2>2. rows \in [Servers -> Row \cup {Nobody}]
    BY <2>1 DEF Init
  <2>3. <<>> \in Seq(Waiting)
    OBVIOUS
  <2>4. /\ launch \in [Servers -> LaunchRec] /\ stops \in [Stoppers -> StopRec]
        /\ admin \in [Admins -> AdminRec] /\ job \in JobRec
    BY Empties DEF Init
  <2>5. /\ fresh \subseteq Servers /\ results \in [Servers -> Result \cup {Nobody}]
        /\ ignores \in [Servers -> SUBSET Advisories] /\ actions \in ActionMaps /\ auditOn \in BOOLEAN
        /\ overtaken \subseteq Servers /\ outdated \subseteq Servers
        /\ cache \in [Servers -> Row \cup {Nobody}] /\ live \in [Servers -> Configs \cup {Nobody}]
        /\ queue = <<>> /\ worker = "none" /\ run = NoRun /\ callers = {} /\ stopped = FALSE
        /\ ops \in 0..MaxOps
    BY DEF Init
  <2> QED
    BY <2>2, <2>3, <2>4, <2>5, Empties DEF TypeOK, JobRec, LaunchRec, StopRec, AdminRec
<1>2. JobShape
  BY Empties DEF Init, JobShape, Stoppers
<1> QED
  BY <1>1, <1>2, Empties DEF Init, Shape, LaunchShape, StopShape, AdminShape, Fits, Stoppers

LEMMA SanctionedRow ==
  ASSUME NEW now \in Row \cup {Nobody}, NEW seen, NEW active \in SUBSET Advisories, NEW act
  PROVE  Sanctioned(now, seen, active, act) \in Row \cup {Nobody}
<1>1. CASE now = Nobody
  BY <1>1 DEF Sanctioned
<1>2. CASE now # Nobody
  <2>1. now \in Row
    BY <1>2
  <2>2. /\ [now EXCEPT !.enabled = FALSE, !.disabledFor = active] \in Row
        /\ [now EXCEPT !.quarantined = TRUE, !.reason = active] \in Row
        /\ [now EXCEPT !.reason = active] \in Row
        /\ [now EXCEPT !.quarantined = FALSE, !.reason = {}] \in Row
    BY <2>1 DEF Row
  <2> QED
    BY <1>2, <2>1, <2>2 DEF Sanctioned
<1> QED
  BY <1>1, <1>2

\* What apply changes.
LEMMA ApplyTypes ==
  ASSUME Shape, NEW x \in Stoppers, NEW s \in Servers, NEW seen, NEW active \in SUBSET Advisories,
         NEW act, Apply(x, s, seen, active, act)
  PROVE  /\ rows' \in [Servers -> Row \cup {Nobody}]
         /\ cache' \in [Servers -> Row \cup {Nobody}]
         /\ stops' \in [Stoppers -> StopRec]
         /\ StopShape'
         /\ \A y \in Stoppers : y # x => stops'[y] = stops[y]
         /\ stops'[x].at # stops[x].at => NewSanction(seen, act)
<1>1. [at |-> "close", srv |-> s] \in StopRec
  BY DEF StopRec
<1>2. stops \in [Stoppers -> StopRec]
  BY DEF Shape, TypeOK, StopRec
<1>3. rows' \in [Servers -> Row \cup {Nobody}]
  BY SanctionedRow DEF Apply, Shape, TypeOK
<1>4. cache' \in [Servers -> Row \cup {Nobody}]
  BY DEF Apply, Shape, TypeOK
<1> QED
  BY <1>1, <1>2, <1>3, <1>4 DEF Apply, Shape, StopShape

-----------------------------------------------------------------------------
(***************************************************************************)
(* The queue.                                                              *)
(***************************************************************************)
Waits(c) == (\E i \in DOMAIN queue : queue[i].by = c) \/ job.by = c

LEMMA TakesTypes ==
  ASSUME TypeOK, NEW w \in Waiting, NEW row \in Row \cup {Nobody}, Takes(w, row)
  PROVE  /\ worker' = "loop" /\ job' \in JobRec /\ job'.by = w.by /\ job'.at \in {"engine", "done"}
         /\ job'.id \in Ids /\ (job'.at = "engine" /\ job'.id # Self => job'.row # Nobody)
         /\ results' \in [Servers -> Result \cup {Nobody}]
<1>1. w.id \in Ids /\ w.by \in Callers \cup {Self, Nobody}
  BY DEF Waiting
<1>2. /\ worker' = "loop" /\ job' \in JobRec /\ job'.by = w.by /\ job'.at \in {"engine", "done"}
      /\ job'.id \in Ids /\ (job'.at = "engine" /\ job'.id # Self => job'.row # Nobody)
  BY <1>1 DEF Takes, JobRec
<1>3. results' \in [Servers -> Result \cup {Nobody}]
  <2>1. row # Nobody =>
          [status |-> "unsupported", findings |-> {}, cfg |-> row.cfg] \in Result
    BY DEF Row, Result
  <2> QED
    BY <1>1, <2>1 DEF Takes, TypeOK, Ids
<1> QED
  BY <1>2, <1>3

LEMMA TailRest ==
  ASSUME NEW S, NEW q \in Seq(S), q # <<>>
  PROVE  /\ Head(q) \in S /\ Tail(q) \in Seq(S)
         /\ \A i \in DOMAIN q : q[i] = Head(q) \/ \E j \in DOMAIN Tail(q) : Tail(q)[j] = q[i]
<1>1. Head(q) \in S /\ Tail(q) \in Seq(S) /\ Head(q) = q[1] /\ Len(q) \in Nat /\ Len(q) > 0
  BY HeadTailProperties, LenProperties
<1>2. ASSUME NEW i \in DOMAIN q, i # 1
      PROVE  i - 1 \in DOMAIN Tail(q) /\ Tail(q)[i - 1] = q[i]
  BY <1>1, <1>2, HeadTailProperties, LenProperties
<1> QED
  BY <1>1, <1>2

LEMMA AppendRest ==
  ASSUME NEW S, NEW q \in Seq(S), NEW e \in S
  PROVE  /\ Append(q, e) \in Seq(S) /\ Append(q, e) # <<>>
         /\ \A i \in DOMAIN q : i \in DOMAIN Append(q, e) /\ Append(q, e)[i] = q[i]
         /\ \E i \in DOMAIN Append(q, e) : Append(q, e)[i] = e
BY AppendProperties, LenProperties

LEMMA PushTypes ==
  ASSUME Shape, NEW w \in Waiting, NEW row \in Row \cup {Nobody}, Push(w, row),
         stops'[Self].at = "no" <=> stops[Self].at = "no"
  PROVE  /\ queue' \in Seq(Waiting) /\ worker' \in {"none", "loop", "ending"} /\ job' \in JobRec
         /\ results' \in [Servers -> Result \cup {Nobody}]
         /\ JobShape'
         /\ Waits(w.by)' /\ \A c : c # Nobody /\ Waits(c) => Waits(c)'
<1>1. CASE worker = "none"
  <2>1. Takes(w, row) /\ queue' = queue /\ queue = <<>>
    BY <1>1 DEF Push, Shape, JobShape
  <2>2. job.at = "none" /\ job.by = Nobody
    BY <1>1 DEF Shape, JobShape, NoJob
  <2>3. ASSUME NEW c, c # Nobody PROVE ~Waits(c)
    BY <2>1, <2>2, <2>3 DEF Waits
  <2>4. stops'[Self].at = "no" /\ queue' \in Seq(Waiting)
    BY <2>1, <2>2 DEF Shape, JobShape, TypeOK
  <2>5. /\ worker' = "loop" /\ job' \in JobRec /\ job'.by = w.by /\ job'.id \in Ids
        /\ (job'.at = "engine" /\ job'.id # Self => job'.row # Nobody)
        /\ results' \in [Servers -> Result \cup {Nobody}]
    BY <2>1, TakesTypes DEF Shape
  <2> QED
    BY <2>3, <2>4, <2>5 DEF JobShape, Waits
<1>2. CASE worker # "none"
  <2>1. queue' = Append(queue, w) /\ UNCHANGED <<worker, job, results>> /\ queue \in Seq(Waiting)
    BY <1>2 DEF Push, Shape, TypeOK
  <2>2. Waits(w.by)' /\ \A c : Waits(c) => Waits(c)'
    BY <2>1, AppendRest DEF Waits
  <2>3. queue' \in Seq(Waiting)
    BY <2>1, AppendRest
  <2>4. JobShape'
    BY <1>2, <2>1 DEF Shape, JobShape
  <2> QED
    BY <2>1, <2>2, <2>3, <2>4 DEF Shape, TypeOK, JobRec
<1> QED
  BY <1>1, <1>2

LEMMA EnqueueTypes ==
  ASSUME Shape, NEW s \in Servers, NEW row \in Row \cup {Nobody}, Enqueue(s, row),
         stops'[Self].at = "no" <=> stops[Self].at = "no"
  PROVE  /\ queue' \in Seq(Waiting) /\ worker' \in {"none", "loop", "ending"} /\ job' \in JobRec
         /\ results' \in [Servers -> Result \cup {Nobody}]
         /\ JobShape'
         /\ \A c : c # Nobody /\ Waits(c) => Waits(c)'
<1>1. [id |-> s, by |-> Nobody] \in Waiting
  BY DEF Waiting, Ids
<1>2. CASE UNCHANGED <<queue, worker, job, results>>
  BY <1>2 DEF Shape, TypeOK, JobRec, JobShape, Waits
<1>3. CASE Push([id |-> s, by |-> Nobody], row)
  BY <1>1, <1>3, PushTypes
<1> QED
  BY <1>2, <1>3 DEF Enqueue

-----------------------------------------------------------------------------
(***************************************************************************)
(* Every action keeps the shape.                                           *)
(***************************************************************************)
LEMMA EngineAnswersShape ==
  ASSUME Shape, History', NEW f \in Reports, EngineAnswers(f)
  PROVE  Shape'
<1> DEFINE s == job.id
           active == f \ ignores[s]
           act == Verdict(active, actions)
<1>1. /\ job.at = "engine" /\ worker = "loop" /\ f \in SUBSET Advisories /\ job \in JobRec
      /\ worker' = worker /\ queue' = queue
  BY Empties DEF EngineAnswers, Advisories, Shape, TypeOK, JobShape, JobRec
<1>2. CASE s = Self
  <2>1. job' = [job EXCEPT !.at = "done"] /\ UNCHANGED <<results, rows, cache, stops>>
    BY <1>2 DEF EngineAnswers
  <2>2. job' \in JobRec /\ job'.at = "done"
    BY <1>1, <2>1 DEF JobRec
  <2>3. TypeOK'
    BY <2>1, <2>2 DEF EngineAnswers, Shape, TypeOK, History, settings, process, JobRec, Ids
  <2>4. JobShape' /\ LaunchShape' /\ StopShape' /\ AdminShape'
    BY <1>1, <2>1, <2>2 DEF EngineAnswers, Shape, JobShape, LaunchShape, StopShape, AdminShape, Fits,
                            settings, known, process
  <2> QED
    BY <2>3, <2>4 DEF Shape
<1>3. CASE s # Self
  <2>1. s \in Servers /\ job.row \in Row /\ active \in SUBSET Advisories
    BY <1>1, <1>3 DEF Shape, JobShape, Ids, JobRec
  <2>2. /\ results' = [results EXCEPT ![s] =
                          [status |-> Status(active), findings |-> f, cfg |-> job.row.cfg]]
        /\ Apply(Self, s, job.row, active, act)
        /\ job' = [job EXCEPT !.at = IF NewSanction(job.row, act) THEN "stopping" ELSE "done"]
    BY <1>3 DEF EngineAnswers
  <2>3. results' \in [Servers -> Result \cup {Nobody}]
    <3>1. [status |-> Status(active), findings |-> f, cfg |-> job.row.cfg] \in Result
      BY <1>1, <2>1 DEF Status, Result, Row
    <3> QED
      BY <2>2, <3>1 DEF Shape, TypeOK
  <2>4. job' \in JobRec /\ job'.at = (IF NewSanction(job.row, act) THEN "stopping" ELSE "done")
    BY <1>1, <2>2 DEF JobRec
  <2>5. /\ rows' \in [Servers -> Row \cup {Nobody}]
        /\ cache' \in [Servers -> Row \cup {Nobody}]
        /\ stops' \in [Stoppers -> StopRec] /\ StopShape'
        /\ \A y \in Stoppers : y # Self => stops'[y] = stops[y]
        /\ stops'[Self].at # stops[Self].at => NewSanction(job.row, act)
    <3>1. Self \in Stoppers
      BY DEF Stoppers
    <3> QED
      BY <2>1, <2>2, <3>1, ApplyTypes
  <2>6. TypeOK'
    BY <2>3, <2>4, <2>5 DEF EngineAnswers, Shape, TypeOK, History, settings, process, JobRec, StopRec
  <2>7. JobShape'
    BY <1>1, <2>4, <2>5 DEF EngineAnswers, Shape, JobShape
  <2>8. LaunchShape' /\ AdminShape'
    BY <2>5, AuditAssumption DEF EngineAnswers, Shape, LaunchShape, AdminShape, Fits, AuditAssumption,
                                 settings, known, process, Stoppers
  <2> QED
    BY <2>5, <2>6, <2>7, <2>8 DEF Shape
<1> QED
  BY <1>2, <1>3

LEMMA EngineFailsShape ==
  ASSUME Shape, EngineFails
  PROVE  Shape'
<1>1. /\ job.at = "engine" /\ worker = "loop" /\ job \in JobRec /\ job.id \in Ids
      /\ job.id # Self => job.row \in Row
  BY Empties DEF EngineFails, Shape, TypeOK, JobShape, JobRec
<1>2. job' \in JobRec /\ job'.at = "done"
  BY <1>1 DEF EngineFails, JobRec
<1>3. results' \in [Servers -> Result \cup {Nobody}]
  <2>1. CASE job.id = Self
    BY <2>1 DEF EngineFails, Shape, TypeOK
  <2>2. CASE job.id # Self
    <3>1. [status |-> "error", findings |-> {}, cfg |-> job.row.cfg] \in Result
      BY <1>1, <2>2 DEF Result, Row
    <3> QED
      BY <1>1, <2>2, <3>1 DEF EngineFails, Shape, TypeOK, Ids
  <2> QED
    BY <2>1, <2>2
<1>4. TypeOK'
  BY <1>2, <1>3 DEF EngineFails, Shape, TypeOK, settings, known, process, JobRec
<1>5. JobShape' /\ LaunchShape' /\ StopShape' /\ AdminShape'
  BY <1>1, <1>2 DEF EngineFails, Shape, JobShape, LaunchShape, StopShape, AdminShape, Fits,
                    settings, known, process
<1> QED
  BY <1>4, <1>5 DEF Shape

\* The worker takes the job at the head of the queue.
LEMMA TakesHead ==
  ASSUME Shape, queue # <<>>, Takes(Head(queue), RowOf(Head(queue).id)), queue' = Tail(queue)
  PROVE  /\ queue' \in Seq(Waiting) /\ worker' = "loop" /\ job' \in JobRec
         /\ job'.id \in Ids /\ (job'.at = "engine" /\ job'.id # Self => job'.row # Nobody)
         /\ results' \in [Servers -> Result \cup {Nobody}]
         /\ \A c : (\E i \in DOMAIN queue : queue[i].by = c) => Waits(c)'
<1>1. /\ Head(queue) \in Waiting /\ queue' \in Seq(Waiting)
      /\ \A i \in DOMAIN queue :
            queue[i] = Head(queue) \/ \E j \in DOMAIN queue' : queue'[j] = queue[i]
  BY TailRest DEF Shape, TypeOK
<1>2. RowOf(Head(queue).id) \in Row \cup {Nobody}
  BY <1>1 DEF RowOf, Waiting, Ids, Shape, TypeOK
<1>3. /\ worker' = "loop" /\ job' \in JobRec /\ job'.by = Head(queue).by
      /\ job'.id \in Ids /\ (job'.at = "engine" /\ job'.id # Self => job'.row # Nobody)
      /\ results' \in [Servers -> Result \cup {Nobody}]
  BY <1>1, <1>2, TakesTypes DEF Shape
<1> QED
  BY <1>1, <1>3 DEF Waits

LEMMA JobEndsShape ==
  ASSUME Shape, JobEnds
  PROVE  Shape'
<1>1. stops' \in [Stoppers -> StopRec] /\ stops'[Self].at = "no"
      /\ StopShape' /\ \A x \in Stoppers : x # Self => stops'[x] = stops[x]
  <2>1. Self \in Stoppers /\ stops \in [Stoppers -> StopRec]
    BY DEF Stoppers, Shape, TypeOK, StopRec
  <2> QED
    BY <2>1, Empties DEF JobEnds, Shape, StopShape
<1>2. /\ queue' \in Seq(Waiting) /\ worker' \in {"loop", "ending"} /\ job' \in JobRec
      /\ results' \in [Servers -> Result \cup {Nobody}]
      /\ worker' # "loop" => job' = NoJob
      /\ job'.at = "engine" => job'.id \in Ids /\ (job'.id # Self => job'.row # Nobody)
  <2>1. CASE queue # <<>>
    BY <2>1, TakesHead DEF JobEnds
  <2>2. CASE queue = <<>>
    BY <2>2, Empties DEF JobEnds, Shape, TypeOK
  <2> QED
    BY <2>1, <2>2
<1>3. run' \in [at : {"none", "next", "waiting"}, todo : SUBSET Ids] /\ callers' \subseteq Callers
  BY DEF JobEnds, Shape, TypeOK
<1>4. TypeOK'
  BY <1>1, <1>2, <1>3 DEF JobEnds, Shape, TypeOK, settings, known, process, JobRec, StopRec
<1>5. JobShape'
  BY <1>1, <1>2 DEF JobShape
<1>6. LaunchShape' /\ AdminShape'
  BY <1>1, AuditAssumption DEF JobEnds, Shape, LaunchShape, AdminShape, Fits, AuditAssumption, Stoppers,
                               settings, known, process
<1> QED
  BY <1>1, <1>4, <1>5, <1>6 DEF Shape

LEMMA WorkerEndsShape ==
  ASSUME Shape, WorkerEnds
  PROVE  Shape'
<1>1. /\ queue' \in Seq(Waiting) /\ worker' \in {"loop", "none"} /\ job' \in JobRec
      /\ results' \in [Servers -> Result \cup {Nobody}]
      /\ worker' # "loop" => job' = NoJob /\ queue' = <<>>
      /\ job'.at = "engine" => job'.id \in Ids /\ (job'.id # Self => job'.row # Nobody)
  <2>1. CASE queue # <<>>
    BY <2>1, TakesHead DEF WorkerEnds
  <2>2. CASE queue = <<>>
    BY <2>2, Empties DEF WorkerEnds, Shape, TypeOK, JobShape
  <2> QED
    BY <2>1, <2>2
<1>2. stops[Self].at = "no"
  BY Empties DEF WorkerEnds, Shape, JobShape
<1>3. TypeOK'
  BY <1>1 DEF WorkerEnds, Shape, TypeOK, settings, known, process, JobRec, StopRec
<1>4. JobShape' /\ LaunchShape' /\ StopShape' /\ AdminShape'
  BY <1>1, <1>2 DEF WorkerEnds, Shape, JobShape, LaunchShape, StopShape, AdminShape, Fits, settings, known, process
<1> QED
  BY <1>3, <1>4 DEF Shape

\* Who asks for an audit changes the service only.
LEMMA ServiceShape ==
  ASSUME Shape, UNCHANGED <<rows, ignores, settings, known, cache, process, stops, admin>>,
         queue' \in Seq(Waiting), worker' \in {"none", "loop", "ending"}, job' \in JobRec,
         results' \in [Servers -> Result \cup {Nobody}], JobShape',
         run' \in [at : {"none", "next", "waiting"}, todo : SUBSET Ids], callers' \subseteq Callers,
         stopped' \in BOOLEAN, ops' \in 0..MaxOps
  PROVE  Shape'
<1>1. TypeOK'
  BY DEF Shape, TypeOK, settings, known, process, JobRec
<1>2. LaunchShape' /\ StopShape' /\ AdminShape'
  BY DEF Shape, LaunchShape, StopShape, AdminShape, Fits, settings, known, process
<1> QED
  BY <1>1, <1>2 DEF Shape

LEMMA CountedOps ==
  ASSUME Shape, Counted
  PROVE  ops' \in 0..MaxOps
BY AuditAssumption DEF Shape, TypeOK, Counted, AuditAssumption

LEMMA AskShape ==
  ASSUME Shape, (\E c \in Callers, id \in Ids : ManualAudit(c, id)) \/ RunStart \/ RunStep
  PROVE  Shape'
<1>1. ASSUME NEW c \in Callers, NEW id \in Ids, ManualAudit(c, id)
      PROVE  Shape'
  <2>1. [id |-> id, by |-> c] \in Waiting /\ RowOf(id) \in Row \cup {Nobody}
    BY DEF Waiting, RowOf, Ids, Shape, TypeOK
  <2>2. Push([id |-> id, by |-> c], RowOf(id)) /\ stops' = stops
    BY <1>1 DEF ManualAudit
  <2>3. ops' \in 0..MaxOps
    BY <1>1, CountedOps DEF ManualAudit
  <2>4. run' = run /\ callers' \subseteq Callers /\ stopped' = stopped
        /\ UNCHANGED <<rows, ignores, settings, known, cache, process, stops, admin>>
    BY <1>1 DEF ManualAudit, Shape, TypeOK
  <2>5. /\ queue' \in Seq(Waiting) /\ worker' \in {"none", "loop", "ending"} /\ job' \in JobRec
        /\ results' \in [Servers -> Result \cup {Nobody}] /\ JobShape'
    BY <2>1, <2>2, PushTypes
  <2> QED
    BY <2>3, <2>4, <2>5, ServiceShape DEF Shape, TypeOK
<1>2. ASSUME NEW id \in Ids, NEW todo \in SUBSET Ids, RunServer(id, todo), stops' = stops
      PROVE  /\ queue' \in Seq(Waiting) /\ worker' \in {"none", "loop", "ending"} /\ job' \in JobRec
             /\ results' \in [Servers -> Result \cup {Nobody}] /\ JobShape'
             /\ run' \in [at : {"none", "next", "waiting"}, todo : SUBSET Ids]
  <2>1. [id |-> id, by |-> Self] \in Waiting /\ RowOf(id) \in Row \cup {Nobody}
    BY DEF Waiting, RowOf, Ids, Shape, TypeOK
  <2> QED
    BY <1>2, <2>1, PushTypes DEF RunServer
<1>3. CASE RunStart
  <2>1. /\ \E id \in Ids, todo \in SUBSET Ids : RunServer(id, todo)
        /\ UNCHANGED <<rows, ignores, settings, known, cache, callers, stopped, process, stops, admin>>
    BY <1>3 DEF RunStart, Ids
  <2>2. ops' \in 0..MaxOps
    BY <1>3, CountedOps DEF RunStart
  <2> QED
    BY <1>2, <2>1, <2>2, ServiceShape DEF Shape, TypeOK
<1>4. CASE RunStep
  <2>1. /\ UNCHANGED <<rows, ignores, settings, known, cache, callers, stopped, process, stops, admin, ops>>
        /\ \/ run' = NoRun /\ UNCHANGED <<queue, worker, job, results>>
           \/ \E id \in Ids : RunServer(id, run.todo)
    BY <1>4 DEF RunStep, Shape, TypeOK
  <2>2. CASE \E id \in Ids : RunServer(id, run.todo)
    <3>1. run.todo \in SUBSET Ids
      BY DEF Shape, TypeOK
    <3> QED
      BY <1>2, <2>1, <2>2, <3>1, ServiceShape DEF Shape, TypeOK
  <2>3. CASE run' = NoRun /\ UNCHANGED <<queue, worker, job, results>>
    <3>1. JobShape'
      BY <2>1, <2>3 DEF Shape, JobShape
    <3> QED
      BY <2>1, <2>3, <3>1, Empties, ServiceShape DEF Shape, TypeOK, JobRec
  <2> QED
    BY <2>1, <2>2, <2>3
<1> QED
  BY <1>1, <1>3, <1>4

\* What changes of a stop call when a spawn has settled.
Resumed(x, s) ==
    /\ stops'[x].srv = stops[x].srv
    /\ stops'[x].at = IF stops[x].at = "spawn" /\ stops[x].srv = s THEN "halt" ELSE stops[x].at

LEMMA SettleTypes ==
  ASSUME Shape, NEW s \in Servers, Settle(s)
  PROVE  /\ launch' \in [Servers -> LaunchRec] /\ stops' \in [Stoppers -> StopRec]
         /\ LaunchShape'
         /\ \A x \in Stoppers : Resumed(x, s)
<1>1. stops \in [Stoppers -> StopRec] /\ launch \in [Servers -> LaunchRec]
  BY DEF Shape, TypeOK, StopRec, LaunchRec
<1>2. ASSUME NEW x \in Stoppers
      PROVE  stops'[x] \in StopRec /\ Resumed(x, s)
  <2>1. stops[x] \in StopRec
    BY <1>1
  <2>2. stops'[x] = IF stops[x] = [at |-> "spawn", srv |-> s]
                    THEN [stops[x] EXCEPT !.at = "halt"] ELSE stops[x]
    BY DEF Settle
  <2>3. stops[x].at = "spawn" /\ stops[x].srv = s => stops[x] = [at |-> "spawn", srv |-> s]
    BY <2>1 DEF StopRec
  <2>4. CASE stops[x] = [at |-> "spawn", srv |-> s]
    BY <2>1, <2>2, <2>4 DEF StopRec, Resumed
  <2>5. CASE stops[x] # [at |-> "spawn", srv |-> s]
    <3>1. stops'[x] = stops[x]
      BY <2>2, <2>5
    <3>2. ~(stops[x].at = "spawn" /\ stops[x].srv = s)
      BY <2>3, <2>5
    <3> QED
      BY <2>1, <3>1, <3>2 DEF Resumed
  <2> QED
    BY <2>4, <2>5
<1>3. launch' \in [Servers -> LaunchRec]
  BY <1>1, Empties DEF Settle
<1>4. stops' \in [Stoppers -> StopRec]
  BY <1>2 DEF Settle
<1>5. LaunchShape'
  BY <1>1, Empties DEF Settle, Shape, LaunchShape
<1> QED
  BY <1>2, <1>3, <1>4, <1>5

\* A launch, and whoever stops what it launches, leave the audits and the requests alone.
LEMMA LaunchKindShape ==
  ASSUME Shape, UNCHANGED <<rows, ignores, settings, known, run, callers, stopped, admin, ops>>,
         UNCHANGED <<queue, worker, job, results>>
           \/ (\E s \in Servers : Enqueue(s, rows[s])),
         cache' \in [Servers -> Row \cup {Nobody}], launch' \in [Servers -> LaunchRec],
         stops' \in [Stoppers -> StopRec], live' \in [Servers -> Configs \cup {Nobody}],
         LaunchShape',
         \A x \in Stoppers : stops'[x].srv = stops[x].srv /\ (stops'[x].at = "no" <=> stops[x].at = "no")
  PROVE  Shape'
<1>1. /\ queue' \in Seq(Waiting) /\ worker' \in {"none", "loop", "ending"} /\ job' \in JobRec
      /\ results' \in [Servers -> Result \cup {Nobody}]
      /\ JobShape'
  <2>1. CASE UNCHANGED <<queue, worker, job, results>>
    BY <2>1 DEF Shape, TypeOK, JobRec, JobShape, Stoppers
  <2>2. CASE \E s \in Servers : Enqueue(s, rows[s])
    <3>1. PICK s \in Servers : Enqueue(s, rows[s])
      BY <2>2
    <3>2. rows[s] \in Row \cup {Nobody} /\ (stops'[Self].at = "no" <=> stops[Self].at = "no")
      BY DEF Shape, TypeOK, Stoppers
    <3> QED
      BY <3>1, <3>2, EnqueueTypes
  <2> QED
    BY <2>1, <2>2
<1>2. TypeOK'
  BY <1>1 DEF Shape, TypeOK, settings, known, JobRec, StopRec, LaunchRec
<1>3. StopShape' /\ AdminShape'
  BY DEF Shape, StopShape, AdminShape, Fits, known, Stoppers
<1> QED
  BY <1>1, <1>2, <1>3 DEF Shape

LEMMA LaunchShapes ==
  ASSUME Shape, NEW s \in Servers, Acquire(s) \/ LaunchStep(s) \/ ProcessEnds(s)
  PROVE  Shape'
<1>1. /\ launch \in [Servers -> LaunchRec] /\ stops \in [Stoppers -> StopRec]
      /\ rows \in [Servers -> Row \cup {Nobody}] /\ cache \in [Servers -> Row \cup {Nobody}]
      /\ live \in [Servers -> Configs \cup {Nobody}]
  BY DEF Shape, TypeOK, StopRec, LaunchRec
<1>2. ASSUME NEW filling \in {"admitFill", "specFill"}, NEW next \in {"admit", "launch"},
             Resolve(s, filling, next), Known(s)
      PROVE  /\ cache' \in [Servers -> Row \cup {Nobody}] /\ launch' \in [Servers -> LaunchRec]
             /\ LaunchShape'
  <2> DEFINE row == IF cache[s] # Nobody THEN cache[s] ELSE rows[s]
             at == IF cache[s] = Nobody /\ row.secret THEN filling ELSE next
  <2>1. row \in Row \cup {Nobody} /\ row # Nobody
    BY <1>1, <1>2 DEF Known
  <2>2. launch' = [launch EXCEPT ![s] = [at |-> at, row |-> row]]
    BY <1>2 DEF Resolve
  <2>3. [at |-> at, row |-> row] \in LaunchRec
    BY <1>2, <2>1 DEF LaunchRec
  <2>4. cache' \in [Servers -> Row \cup {Nobody}]
    BY <1>1, <1>2, <2>1 DEF Resolve
  <2>5. launch' \in [Servers -> LaunchRec] /\ launch'[s].at = at /\ launch'[s].row = row
        /\ \A r \in Servers : r # s => launch'[r] = launch[r]
    BY <1>1, <2>2, <2>3
  <2>6. LaunchShape'
    BY <1>2, <2>1, <2>5 DEF Shape, LaunchShape
  <2> QED
    BY <2>4, <2>5, <2>6
<1>3. ASSUME NEW filling \in {"admitFill", "specFill"}, NEW next \in {"admit", "launch"},
             Fill(s, filling, next)
      PROVE  Shape'
  <2>1. launch[s] \in LaunchRec /\ launch[s].row \in Row /\ launch[s].row # Nobody
    BY <1>1, <1>3 DEF Fill, Shape, LaunchShape, LaunchRec
  <2>2. [launch[s] EXCEPT !.at = next] \in LaunchRec
        /\ [launch[s] EXCEPT !.at = next].at = next /\ [launch[s] EXCEPT !.at = next].row = launch[s].row
    BY <1>3, <2>1 DEF LaunchRec
  <2>3. launch' = [launch EXCEPT ![s] = [launch[s] EXCEPT !.at = next]]
    BY <1>3 DEF Fill
  <2>4. launch' \in [Servers -> LaunchRec] /\ cache' \in [Servers -> Row \cup {Nobody}]
    BY <1>1, <1>3, <2>1, <2>2, <2>3 DEF Fill
  <2>5. LaunchShape'
    BY <1>1, <1>3, <2>1, <2>2, <2>3 DEF Shape, LaunchShape
  <2> QED
    BY <1>1, <1>3, <2>4, <2>5, LaunchKindShape DEF Fill, service
<1>4. CASE Acquire(s)
  BY <1>1, <1>2, <1>4, LaunchKindShape DEF Acquire, service, known
<1>5. CASE AdmitFill(s) \/ SpecFill(s)
  BY <1>3, <1>5 DEF AdmitFill, SpecFill
<1>6. CASE AdmitOk(s)
  BY <1>1, <1>2, <1>6, LaunchKindShape DEF AdmitOk, service, known
<1>7. ASSUME Settle(s), UNCHANGED <<rows, ignores, settings, known, run, callers, stopped, admin, ops, cache>>,
             live' \in [Servers -> Configs \cup {Nobody}],
             UNCHANGED <<queue, worker, job, results>> \/ Enqueue(s, rows[s])
      PROVE  Shape'
  <2>1. /\ launch' \in [Servers -> LaunchRec] /\ stops' \in [Stoppers -> StopRec] /\ LaunchShape'
        /\ \A x \in Stoppers : /\ stops'[x].srv = stops[x].srv
                               /\ (stops'[x].at = "no" <=> stops[x].at = "no")
    BY <1>7, SettleTypes DEF known, Resumed
  <2> QED
    BY <1>1, <1>7, <2>1, LaunchKindShape
<1>8. CASE AdmitRefused(s)
  BY <1>1, <1>7, <1>8 DEF AdmitRefused
<1>9. CASE Launch(s)
  <2>1. launch[s].row \in Row
    BY <1>1, <1>9 DEF Launch, Shape, LaunchShape, LaunchRec
  <2>2. live' \in [Servers -> Configs \cup {Nobody}]
    BY <1>1, <1>9, <2>1 DEF Launch, Row
  <2> QED
    BY <1>7, <1>9, <2>2 DEF Launch, service
<1>10. CASE LaunchFails(s)
  BY <1>1, <1>7, <1>10 DEF LaunchFails, service
<1>11. CASE ProcessEnds(s)
  <2>1. live' \in [Servers -> Configs \cup {Nobody}] /\ LaunchShape'
    BY <1>1, <1>11 DEF ProcessEnds, Shape, LaunchShape, known
  <2> QED
    BY <1>1, <1>11, <2>1, LaunchKindShape DEF ProcessEnds, service
<1> QED
  BY <1>4, <1>5, <1>6, <1>8, <1>9, <1>10, <1>11 DEF LaunchStep

LEMMA StopShapes ==
  ASSUME Shape, NEW x \in Stoppers, StopClosed(x) \/ StopHalted(x)
  PROVE  Shape'
<1>1. /\ launch \in [Servers -> LaunchRec] /\ stops \in [Stoppers -> StopRec]
      /\ cache \in [Servers -> Row \cup {Nobody}] /\ live \in [Servers -> Configs \cup {Nobody}]
  BY DEF Shape, TypeOK, StopRec, LaunchRec
<1>2. PICK next \in {"spawn", "halt", "done"} : stops' = [stops EXCEPT ![x].at = next]
  BY DEF StopClosed, StopHalted
<1>3. stops[x].at # "no" /\ stops[x] \in StopRec
  BY <1>1 DEF StopClosed, StopHalted
<1>4. /\ [stops[x] EXCEPT !.at = next] \in StopRec
      /\ [stops[x] EXCEPT !.at = next].at = next /\ [stops[x] EXCEPT !.at = next].srv = stops[x].srv
  BY <1>3 DEF StopRec
<1>5. /\ stops' \in [Stoppers -> StopRec]
      /\ \A y \in Stoppers : stops'[y].srv = stops[y].srv /\ (stops'[y].at = "no" <=> stops[y].at = "no")
  BY <1>1, <1>2, <1>3, <1>4
<1>6. live' \in [Servers -> Configs \cup {Nobody}] /\ LaunchShape'
  BY <1>1 DEF StopClosed, StopHalted, process, Shape, LaunchShape, known
<1> QED
  BY <1>1, <1>5, <1>6, LaunchKindShape DEF StopClosed, StopHalted, service, process

\* The steps of an administrator's request: it goes on as `request`.
LEMMA AdminKindShape ==
  ASSUME Shape, NEW a \in Admins, NEW request \in AdminRec, admin' = [admin EXCEPT ![a] = request],
         UNCHANGED <<launch, live>>, History',
         rows' \in [Servers -> Row \cup {Nobody}], cache' \in [Servers -> Row \cup {Nobody}],
         ignores' \in [Servers -> SUBSET Advisories], results' \in [Servers -> Result \cup {Nobody}],
         actions' \in ActionMaps, auditOn' \in BOOLEAN, fresh' \subseteq Servers,
         run' \in [at : {"none", "next", "waiting"}, todo : SUBSET Ids], callers' \subseteq Callers,
         stopped' \in BOOLEAN, ops' \in 0..MaxOps,
         queue' \in Seq(Waiting), worker' \in {"none", "loop", "ending"}, job' \in JobRec, JobShape',
         stops' \in [Stoppers -> StopRec], StopShape',
         \A y \in Stoppers : y # a => stops'[y] = stops[y],
         Fits(request, stops'[a].at)
  PROVE  Shape'
<1>1. admin \in [Admins -> AdminRec]
  BY DEF Shape, TypeOK, AdminRec
<1>2. admin' \in [Admins -> AdminRec]
  BY <1>1
<1>3. TypeOK'
  BY <1>2 DEF Shape, TypeOK, History, JobRec, StopRec, AdminRec
<1>4. AdminShape'
  BY <1>1 DEF Shape, AdminShape, Fits, Stoppers
<1>5. LaunchShape'
  BY DEF Shape, LaunchShape
<1> QED
  BY <1>3, <1>4, <1>5 DEF Shape

LEMMA QuietJob ==
  ASSUME Shape, UNCHANGED <<queue, worker, job>>, stops'[Self].at = stops[Self].at
  PROVE  /\ JobShape' /\ queue' \in Seq(Waiting) /\ worker' \in {"none", "loop", "ending"}
         /\ job' \in JobRec
BY DEF Shape, TypeOK, JobShape, JobRec

Stage == {"none", "patchBody", "patchFill", "patch", "patchStop", "deleteStop", "ignore", "settings"}

\* What every request in flight and every stop call looks like.
LEMMA ShapeFacts ==
  ASSUME Shape, NEW a \in Admins
  PROVE  /\ admin \in [Admins -> AdminRec] /\ stops \in [Stoppers -> StopRec]
         /\ rows \in [Servers -> Row \cup {Nobody}] /\ cache \in [Servers -> Row \cup {Nobody}]
         /\ ignores \in [Servers -> SUBSET Advisories] /\ results \in [Servers -> Result \cup {Nobody}]
         /\ actions \in ActionMaps /\ auditOn \in BOOLEAN /\ fresh \subseteq Servers
         /\ run \in [at : {"none", "next", "waiting"}, todo : SUBSET Ids] /\ callers \subseteq Callers
         /\ stopped \in BOOLEAN /\ ops \in 0..MaxOps
         /\ admin[a] \in AdminRec /\ stops[a] \in StopRec /\ Fits(admin[a], stops[a].at)
         /\ a \in Stoppers /\ a # Self /\ Self \in Stoppers /\ StopShape
BY AuditAssumption DEF Shape, TypeOK, AdminShape, AdminRec, StopRec, Stoppers, AuditAssumption

\* A step of a request that leaves the audits alone.
LEMMA RequestShape ==
  ASSUME Shape, NEW a \in Admins, NEW request \in AdminRec, admin' = [admin EXCEPT ![a] = request],
         UNCHANGED <<fresh, process, service, auditOn>>, History',
         ops' \in 0..MaxOps, actions' \in ActionMaps,
         rows' \in [Servers -> Row \cup {Nobody}], cache' \in [Servers -> Row \cup {Nobody}],
         ignores' \in [Servers -> SUBSET Advisories], results' \in [Servers -> Result \cup {Nobody}],
         stops' \in [Stoppers -> StopRec], StopShape',
         \A y \in Stoppers : y # a => stops'[y] = stops[y],
         Fits(request, stops'[a].at)
  PROVE  Shape'
<1>1. /\ run' \in [at : {"none", "next", "waiting"}, todo : SUBSET Ids] /\ callers' \subseteq Callers
      /\ stopped' \in BOOLEAN /\ auditOn' \in BOOLEAN /\ fresh' \subseteq Servers
      /\ UNCHANGED <<queue, worker, job, launch, live>> /\ stops'[Self].at = stops[Self].at
  BY ShapeFacts DEF service, process
<1>2. /\ JobShape' /\ queue' \in Seq(Waiting) /\ worker' \in {"none", "loop", "ending"} /\ job' \in JobRec
  BY <1>1, QuietJob
<1> QED
  BY <1>1, <1>2, AdminKindShape

LEMMA PatchShape ==
  ASSUME Shape, History', NEW a \in Admins,
         (\E s \in Servers, p \in Patches : PatchBegin(a, s, p)) \/ PatchResolve(a) \/ PatchFill(a)
  PROVE  Shape'
<1>1. ASSUME NEW s \in Servers, NEW p \in Patches, PatchBegin(a, s, p)
      PROVE  Shape'
  <2>0. PICK request : request = [NoAdmin EXCEPT !.at = "patchBody", !.srv = s, !.row = rows[s], !.patch = p]
    OBVIOUS
  <2>1. p \in Patch /\ rows[s] \in Row \cup {Nobody} /\ rows[s] # Nobody
    BY <1>1, ShapeFacts, AuditAssumption DEF PatchBegin, Patch, AuditAssumption
  <2>2. request \in AdminRec /\ request.at = "patchBody" /\ request.srv = s /\ request.row = rows[s]
    <3>1. "patchBody" \in Stage /\ NoAdmin \in AdminRec
      BY Empties DEF Stage
    <3> QED
      BY <2>0, <2>1, <3>1 DEF AdminRec, Stage
  <2>3. admin[a].at = "none" /\ ops' \in 0..MaxOps /\ admin' = [admin EXCEPT ![a] = request]
    BY <1>1, <2>0, CountedOps DEF PatchBegin, Asks
  <2>4. Fits(request, stops[a].at)
    BY <2>1, <2>2, <2>3, ShapeFacts DEF Fits
  <2> QED
    BY <1>1, <2>2, <2>3, <2>4, ShapeFacts, RequestShape DEF PatchBegin, settings, known, StopShape
<1>2. CASE PatchResolve(a)
  <2> DEFINE s == admin[a].srv
             fill == IF cache[s] # Nobody THEN cache[s] ELSE rows[s]
             fills == cache[s] = Nobody /\ fill # Nobody /\ fill.secret
             at == IF fills THEN "patchFill" ELSE "patch"
  <2>0. PICK request : request = [admin[a] EXCEPT !.at = at, !.fill = fill]
    OBVIOUS
  <2>1. admin[a].at = "patchBody" /\ s \in Servers /\ admin[a].row # Nobody /\ stops[a].at = "no"
    BY <1>2, ShapeFacts DEF PatchResolve, Fits
  <2>2. admin' = [admin EXCEPT ![a] = request]
    BY <1>2, <2>0, ShapeFacts DEF PatchResolve, AdminRec
  <2>3. fill \in Row \cup {Nobody} /\ at \in Stage
    BY <2>1, ShapeFacts DEF Stage
  <2>4. /\ request \in AdminRec /\ request.srv = s /\ request.row = admin[a].row
        /\ request.at = at /\ request.fill = fill
    <3> HIDE DEF at, fill
    <3>1. admin[a] \in AdminRec
      BY ShapeFacts
    <3> QED
      BY <2>0, <2>3, <3>1 DEF AdminRec, Stage
  <2>5. Fits(request, stops[a].at)
    BY <2>1, <2>4 DEF Fits
  <2>6. cache' \in [Servers -> Row \cup {Nobody}]
    BY <1>2, <2>1, ShapeFacts DEF PatchResolve
  <2> HIDE DEF s, fills, at, fill
  <2> QED
    BY <1>2, <2>2, <2>4, <2>5, <2>6, ShapeFacts, RequestShape DEF PatchResolve, settings, known, StopShape
<1>3. CASE PatchFill(a)
  <2>0. PICK request : request = [admin[a] EXCEPT !.at = "patch"]
    OBVIOUS
  <2>1. /\ admin[a].at = "patchFill" /\ admin[a].srv \in Servers /\ admin[a].row # Nobody
        /\ stops[a].at = "no" /\ admin[a].fill \in Row \cup {Nobody}
    BY <1>3, ShapeFacts DEF PatchFill, Fits, AdminRec
  <2>2. admin' = [admin EXCEPT ![a] = request]
    BY <1>3, <2>0, ShapeFacts DEF PatchFill, AdminRec
  <2>3. request \in AdminRec /\ request.srv = admin[a].srv /\ request.row = admin[a].row /\ request.at = "patch"
    <3>1. "patch" \in Stage /\ Nobody \in Row \cup {Nobody} /\ admin[a] \in AdminRec
      BY ShapeFacts DEF Stage
    <3> QED
      BY <2>0, <3>1 DEF AdminRec, Stage
  <2>4. Fits(request, stops[a].at)
    BY <2>1, <2>3 DEF Fits
  <2>5. cache' \in [Servers -> Row \cup {Nobody}]
    BY <1>3, <2>1, ShapeFacts DEF PatchFill
  <2> QED
    BY <1>3, <2>2, <2>3, <2>4, <2>5, ShapeFacts, RequestShape DEF PatchFill, settings, known, StopShape
<1> QED
  BY <1>1, <1>2, <1>3

\* A step of a request that asks for an audit at the end.
LEMMA EnqueueShape ==
  ASSUME Shape, History', NEW a \in Admins, NEW request \in AdminRec,
         admin' = [admin EXCEPT ![a] = request], NEW s \in Servers, NEW row \in Row \cup {Nobody}, Enqueue(s, row),
         UNCHANGED <<ignores, settings, cache, run, callers, stopped, process>>,
         rows' \in [Servers -> Row \cup {Nobody}], fresh' \subseteq Servers, ops' \in 0..MaxOps,
         stops' \in [Stoppers -> StopRec], StopShape',
         \A y \in Stoppers : y # a => stops'[y] = stops[y],
         Fits(request, stops'[a].at)
  PROVE  Shape'
<1>1. /\ stops'[Self] = stops[Self]
      /\ UNCHANGED <<ignores, actions, auditOn, cache, run, callers, stopped, launch, live>>
  BY ShapeFacts DEF settings, process
<1>2. /\ queue' \in Seq(Waiting) /\ worker' \in {"none", "loop", "ending"} /\ job' \in JobRec
      /\ results' \in [Servers -> Result \cup {Nobody}] /\ JobShape'
  BY <1>1, EnqueueTypes
<1>3. /\ ignores' \in [Servers -> SUBSET Advisories] /\ cache' \in [Servers -> Row \cup {Nobody}]
      /\ actions' \in ActionMaps /\ auditOn' \in BOOLEAN
      /\ run' \in [at : {"none", "next", "waiting"}, todo : SUBSET Ids] /\ callers' \subseteq Callers
      /\ stopped' \in BOOLEAN
  BY <1>1, ShapeFacts
<1> QED
  BY <1>1, <1>2, <1>3, AdminKindShape

LEMMA PatchedRow ==
  ASSUME NEW now \in Row, NEW seen, NEW patch \in Patch
  PROVE  /\ Patched(now, seen, patch) \in Row
         /\ Patched(now, seen, patch).quarantined = now.quarantined
         /\ Patched(now, seen, patch).enabled =
                IF patch.enabled = "keep" THEN now.enabled ELSE patch.enabled = "on"
BY DEF Patched, Row, Patch

LEMMA PatchEndsShape ==
  ASSUME Shape, History', NEW a \in Admins, PatchRefused(a) \/ PatchWrite(a) \/ PatchStopped(a)
  PROVE  Shape'
<1>1. NoAdmin \in AdminRec /\ Fits(NoAdmin, "no") /\ NoStop \in StopRec /\ NoStop.at = "no"
  BY Empties DEF Fits
<1>2. admin[a].srv \in Servers => RowOf(admin[a].srv) \in Row \cup {Nobody}
  BY ShapeFacts DEF RowOf
<1>3. CASE PatchRefused(a)
  <2>1. admin[a].srv \in Servers /\ stops[a].at = "no"
    BY <1>3, ShapeFacts DEF PatchRefused, Fits
  <2>2. /\ admin' = [admin EXCEPT ![a] = NoAdmin] /\ Enqueue(admin[a].srv, RowOf(admin[a].srv))
        /\ UNCHANGED <<rows, ignores, settings, fresh, cache, run, callers, stopped, process, stops, ops>>
    BY <1>3 DEF PatchRefused, known
  <2>3. /\ rows' \in [Servers -> Row \cup {Nobody}] /\ fresh' \subseteq Servers /\ ops' \in 0..MaxOps
        /\ stops' \in [Stoppers -> StopRec] /\ StopShape'
    BY <2>2, ShapeFacts DEF StopShape
  <2> QED
    BY <1>1, <1>2, <2>1, <2>2, <2>3, EnqueueShape
<1>4. CASE PatchStopped(a)
  <2>1. admin[a].srv \in Servers
    BY <1>4, ShapeFacts DEF PatchStopped, Fits
  <2>2. /\ stops' \in [Stoppers -> StopRec] /\ stops'[a].at = "no" /\ StopShape'
        /\ \A y \in Stoppers : y # a => stops'[y] = stops[y]
    BY <1>1, <1>4, ShapeFacts DEF PatchStopped, StopShape
  <2>3. /\ admin' = [admin EXCEPT ![a] = NoAdmin] /\ Enqueue(admin[a].srv, RowOf(admin[a].srv))
        /\ UNCHANGED <<rows, ignores, settings, fresh, cache, run, callers, stopped, process, ops>>
    BY <1>4 DEF PatchStopped, known
  <2>4. rows' \in [Servers -> Row \cup {Nobody}] /\ fresh' \subseteq Servers /\ ops' \in 0..MaxOps
    BY <2>3, ShapeFacts
  <2> QED
    BY <1>1, <1>2, <2>1, <2>2, <2>3, <2>4, EnqueueShape
<1>5. CASE PatchWrite(a)
  <2> DEFINE s == admin[a].srv
             seen == admin[a].row
             new == IF rows[s] = Nobody THEN Nobody ELSE Patched(rows[s], seen, admin[a].patch)
             affects == new # Nobody /\ Affects(new, seen, admin[a].fill, admin[a].patch)
  <2>1. s \in Servers /\ stops[a].at = "no" /\ admin[a].patch \in Patch
    BY <1>5, ShapeFacts DEF PatchWrite, Fits, AdminRec
  <2>2. new \in Row \cup {Nobody}
    BY <2>1, ShapeFacts, PatchedRow
  <2>3. rows' \in [Servers -> Row \cup {Nobody}] /\ cache' \in [Servers -> Row \cup {Nobody}]
    BY <1>5, <2>1, <2>2, ShapeFacts DEF PatchWrite
  <2>4. /\ UNCHANGED <<fresh, process, service, auditOn, actions, ignores, results, ops>>
    BY <1>5 DEF PatchWrite, settings
  <2>5. /\ ops' \in 0..MaxOps /\ actions' \in ActionMaps
        /\ ignores' \in [Servers -> SUBSET Advisories] /\ results' \in [Servers -> Result \cup {Nobody}]
    BY <2>4, ShapeFacts
  <2>6. CASE affects
    <3>0. PICK request : request = [NoAdmin EXCEPT !.at = "patchStop", !.srv = s]
      OBVIOUS
    <3>1. request \in AdminRec /\ request.at = "patchStop" /\ request.srv = s
      BY <1>1, <2>1, <3>0 DEF AdminRec
    <3>2. [at |-> "close", srv |-> s] \in StopRec
      BY <2>1 DEF StopRec
    <3>3. /\ admin' = [admin EXCEPT ![a] = request]
          /\ stops' = [stops EXCEPT ![a] = [at |-> "close", srv |-> s]]
      BY <1>5, <2>6, <3>0 DEF PatchWrite
    <3>4. /\ stops' \in [Stoppers -> StopRec] /\ StopShape'
          /\ \A y \in Stoppers : y # a => stops'[y] = stops[y]
      BY <2>1, <3>2, <3>3, ShapeFacts DEF StopShape
    <3>5. Fits(request, stops'[a].at)
      BY <2>1, <3>1 DEF Fits
    <3> QED
      BY <2>3, <2>4, <2>5, <3>1, <3>3, <3>4, <3>5, RequestShape
  <2>7. CASE ~affects
    <3>1. stops' = stops /\ admin' = [admin EXCEPT ![a] = NoAdmin]
      BY <1>5, <2>7 DEF PatchWrite
    <3>2. /\ stops' \in [Stoppers -> StopRec] /\ StopShape' /\ stops'[a].at = "no"
          /\ \A y \in Stoppers : y # a => stops'[y] = stops[y]
      BY <2>1, <3>1, ShapeFacts DEF StopShape
    <3> QED
      BY <1>1, <2>3, <2>4, <2>5, <3>1, <3>2, RequestShape
  <2> QED
    BY <2>6, <2>7
<1> QED
  BY <1>3, <1>4, <1>5

LEMMA DeleteShape ==
  ASSUME Shape, History', NEW a \in Admins, (\E s \in Servers : Delete(a, s)) \/ DeleteStopped(a)
  PROVE  Shape'
<1>1. NoAdmin \in AdminRec /\ Fits(NoAdmin, "no") /\ NoStop \in StopRec /\ NoStop.at = "no"
  BY Empties DEF Fits
<1>2. ASSUME NEW s \in Servers, Delete(a, s)
      PROVE  Shape'
  <2>0. PICK request : request = [NoAdmin EXCEPT !.at = "deleteStop", !.srv = s]
    OBVIOUS
  <2>1. request \in AdminRec /\ request.at = "deleteStop" /\ request.srv = s
    BY <1>1, <2>0 DEF AdminRec
  <2>2. [at |-> "close", srv |-> s] \in StopRec
    BY DEF StopRec
  <2>3. /\ admin' = [admin EXCEPT ![a] = request] /\ ops' \in 0..MaxOps
        /\ stops' = [stops EXCEPT ![a] = [at |-> "close", srv |-> s]]
    BY <1>2, <2>0, CountedOps DEF Delete, Asks
  <2>4. /\ stops' \in [Stoppers -> StopRec] /\ StopShape'
        /\ \A y \in Stoppers : y # a => stops'[y] = stops[y]
    BY <2>2, <2>3, ShapeFacts DEF StopShape
  <2>5. Fits(request, stops'[a].at)
    BY <2>1 DEF Fits
  <2> QED
    BY <1>2, <2>1, <2>3, <2>4, <2>5, ShapeFacts, RequestShape DEF Delete, settings, known
<1>3. CASE DeleteStopped(a)
  <2>1. admin[a].srv \in Servers
    BY <1>3, ShapeFacts DEF DeleteStopped, Fits
  <2>2. /\ rows' \in [Servers -> Row \cup {Nobody}] /\ cache' \in [Servers -> Row \cup {Nobody}]
        /\ ignores' \in [Servers -> SUBSET Advisories] /\ results' \in [Servers -> Result \cup {Nobody}]
    BY <1>3, <2>1, ShapeFacts DEF DeleteStopped
  <2>3. /\ stops' \in [Stoppers -> StopRec] /\ stops'[a].at = "no" /\ StopShape'
        /\ \A y \in Stoppers : y # a => stops'[y] = stops[y]
    BY <1>1, <1>3, ShapeFacts DEF DeleteStopped, StopShape
  <2> QED
    BY <1>1, <1>3, <2>2, <2>3, ShapeFacts, RequestShape DEF DeleteStopped, settings
<1> QED
  BY <1>2, <1>3

LEMMA ReevaluateShape ==
  ASSUME Shape, NEW a \in Admins, NEW s \in Servers, NEW ig \in SUBSET Advisories, NEW map,
         NEW at \in {"ignore", "settings"}, NEW rest \in SUBSET Servers,
         Reevaluate(a, s, ig, map, at, rest),
         UNCHANGED <<fresh, process, service, auditOn>>, History',
         ops' \in 0..MaxOps, actions' \in ActionMaps,
         ignores' \in [Servers -> SUBSET Advisories]
  PROVE  Shape'
<1> DEFINE seen == results[s]
           active == seen.findings \ ig
           act == Verdict(active, map)
<1>0. PICK request : request = [NoAdmin EXCEPT !.at = at, !.srv = s, !.todo = rest]
  OBVIOUS
<1>1. request \in AdminRec /\ request.at = at
  BY <1>0, Empties DEF AdminRec
<1>2. admin' = [admin EXCEPT ![a] = request]
  BY <1>0 DEF Reevaluate
<1>3. \A stopping : Fits(request, stopping)
  BY <1>1 DEF Fits
<1>4. CASE rows[s] # Nobody /\ seen # Nobody /\ seen.status \in {"ok", "vulnerable"}
  <2>1. seen \in Result /\ active \in SUBSET Advisories
    BY <1>4, ShapeFacts DEF Result
  <2>2. results' \in [Servers -> Result \cup {Nobody}]
    <3>1. results' = [results EXCEPT ![s].status = Status(active)]
      BY <1>4 DEF Reevaluate
    <3>2. [seen EXCEPT !.status = Status(active)] \in Result
      BY <2>1 DEF Result, Status
    <3> QED
      BY <3>1, <3>2, ShapeFacts
  <2>3. Apply(a, s, rows[s], active, act)
    BY <1>4 DEF Reevaluate
  <2>4. /\ rows' \in [Servers -> Row \cup {Nobody}] /\ cache' \in [Servers -> Row \cup {Nobody}]
        /\ stops' \in [Stoppers -> StopRec] /\ StopShape'
        /\ \A y \in Stoppers : y # a => stops'[y] = stops[y]
    BY <2>1, <2>3, ShapeFacts, ApplyTypes
  <2> QED
    BY <1>1, <1>2, <1>3, <2>2, <2>4, RequestShape
<1>5. CASE ~(rows[s] # Nobody /\ seen # Nobody /\ seen.status \in {"ok", "vulnerable"})
  <2>1. UNCHANGED <<results, rows, cache, stops>>
    BY <1>5 DEF Reevaluate
  <2> QED
    BY <1>1, <1>2, <1>3, <2>1, ShapeFacts, RequestShape DEF StopShape
<1> QED
  BY <1>4, <1>5

LEMMA PolicyShape ==
  ASSUME Shape, History', NEW a \in Admins,
         \/ \E s \in Servers, v \in Advisories : Ignore(a, s, v)
         \/ \E map \in ActionMaps : SetActions(a, map)
         \/ ReevaluateNext(a) \/ ReevaluateEnds(a)
  PROVE  Shape'
<1>1. ASSUME NEW s \in Servers, NEW v \in Advisories, Ignore(a, s, v)
      PROVE  Shape'
  <2>1. PICK ig \in SUBSET Advisories :
           ignores' = [ignores EXCEPT ![s] = ig] /\ Reevaluate(a, s, ig, actions, "ignore", {})
    BY <1>1, ShapeFacts DEF Ignore
  <2>2. ops' \in 0..MaxOps /\ actions' \in ActionMaps /\ ignores' \in [Servers -> SUBSET Advisories]
    BY <1>1, <2>1, ShapeFacts, CountedOps DEF Ignore, Asks, settings
  <2>3. UNCHANGED <<fresh, process, service, auditOn>>
    BY <1>1 DEF Ignore, settings
  <2> QED
    BY <2>1, <2>2, <2>3, ReevaluateShape
<1>2. ASSUME NEW map \in ActionMaps, SetActions(a, map)
      PROVE  Shape'
  <2>1. /\ ops' \in 0..MaxOps /\ actions' \in ActionMaps /\ ignores' \in [Servers -> SUBSET Advisories]
        /\ UNCHANGED <<fresh, process, service, auditOn>>
    BY <1>2, ShapeFacts, CountedOps DEF SetActions, Asks
  <2>2. CASE \E s \in Servers, rest \in SUBSET Servers : Reevaluate(a, s, ignores[s], map, "settings", rest)
    BY <2>1, <2>2, ShapeFacts, ReevaluateShape
  <2>3. CASE /\ admin' = [admin EXCEPT ![a] = [NoAdmin EXCEPT !.at = "settings"]]
             /\ UNCHANGED <<results, rows, cache, stops>>
    <3>0. PICK request : request = [NoAdmin EXCEPT !.at = "settings"]
      OBVIOUS
    <3>1. request \in AdminRec /\ request.at = "settings"
      BY <3>0, Empties DEF AdminRec
    <3>2. \A stopping : Fits(request, stopping)
      BY <3>1 DEF Fits
    <3> QED
      BY <2>1, <2>3, <3>0, <3>1, <3>2, ShapeFacts, RequestShape DEF StopShape
  <2> QED
    BY <1>2, <2>2, <2>3 DEF SetActions
<1>3. CASE ReevaluateNext(a)
  <2>1. PICK s \in admin[a].todo : Reevaluate(a, s, ignores[s], actions, "settings", admin[a].todo \ {s})
    BY <1>3 DEF ReevaluateNext
  <2>2. s \in Servers /\ admin[a].todo \ {s} \in SUBSET Servers /\ ignores[s] \in SUBSET Advisories
    BY <2>1, ShapeFacts DEF AdminRec
  <2>3. /\ ops' \in 0..MaxOps /\ actions' \in ActionMaps /\ ignores' \in [Servers -> SUBSET Advisories]
        /\ UNCHANGED <<fresh, process, service, auditOn>>
    BY <1>3, ShapeFacts DEF ReevaluateNext, settings
  <2> QED
    BY <2>1, <2>2, <2>3, ReevaluateShape
<1>4. CASE ReevaluateEnds(a)
  <2>1. NoAdmin \in AdminRec /\ Fits(NoAdmin, "no") /\ NoStop \in StopRec /\ NoStop.at = "no"
    BY Empties DEF Fits
  <2>2. /\ stops' \in [Stoppers -> StopRec] /\ stops'[a].at = "no" /\ StopShape'
        /\ \A y \in Stoppers : y # a => stops'[y] = stops[y]
    BY <1>4, <2>1, ShapeFacts DEF ReevaluateEnds, StopShape
  <2>3. /\ ops' \in 0..MaxOps /\ actions' \in ActionMaps /\ ignores' \in [Servers -> SUBSET Advisories]
        /\ rows' \in [Servers -> Row \cup {Nobody}] /\ cache' \in [Servers -> Row \cup {Nobody}]
        /\ results' \in [Servers -> Result \cup {Nobody}]
        /\ UNCHANGED <<fresh, process, service, auditOn>> /\ admin' = [admin EXCEPT ![a] = NoAdmin]
    BY <1>4, ShapeFacts DEF ReevaluateEnds, settings, known
  <2> QED
    BY <2>1, <2>2, <2>3, RequestShape
<1> QED
  BY <1>1, <1>2, <1>3, <1>4

LEMMA CancelTypes ==
  ASSUME Shape, Cancel
  PROVE  /\ queue' = <<>> /\ callers' \subseteq Callers
         /\ run' \in [at : {"none", "next", "waiting"}, todo : SUBSET Ids]
BY DEF Cancel, Shape, TypeOK

LEMMA EditShape ==
  ASSUME Shape, History', NEW a \in Admins,
         \/ \E s \in Servers :
               (\E c \in Configs, b \in BOOLEAN : Create(a, s, c, b)) \/ LiftByHand(a, s)
         \/ SwitchAudit(a)
  PROVE  Shape'
<1>1. /\ admin[a] \in AdminRec
      /\ admin' = admin => admin' = [admin EXCEPT ![a] = admin[a]]
      /\ stops' = stops => /\ stops' \in [Stoppers -> StopRec] /\ StopShape'
                           /\ \A y \in Stoppers : y # a => stops'[y] = stops[y]
                           /\ Fits(admin[a], stops'[a].at)
  BY ShapeFacts DEF StopShape
<1>2. ASSUME NEW s \in Servers, NEW c \in Configs, NEW b \in BOOLEAN, Create(a, s, c, b)
      PROVE  Shape'
  <2>1. NewRow(c, b) \in Row
    BY DEF NewRow, Row
  <2>2. /\ UNCHANGED <<ignores, settings, cache, run, callers, stopped, process, stops, admin>>
        /\ Enqueue(s, NewRow(c, b)) /\ fresh' \subseteq Servers /\ ops' \in 0..MaxOps
        /\ rows' \in [Servers -> Row \cup {Nobody}]
    BY <1>2, <2>1, ShapeFacts, CountedOps DEF Create, Asks
  <2> QED
    BY <1>1, <2>1, <2>2, EnqueueShape
<1>3. ASSUME NEW s \in Servers, LiftByHand(a, s)
      PROVE  Shape'
  <2>1. rows[s] \in Row
    BY <1>3, ShapeFacts DEF LiftByHand
  <2>2. [rows[s] EXCEPT !.quarantined = FALSE, !.reason = {}] \in Row
    BY <2>1 DEF Row
  <2>3. rows' = [rows EXCEPT ![s] = [rows[s] EXCEPT !.quarantined = FALSE, !.reason = {}]]
    BY <1>3 DEF LiftByHand
  <2>4. /\ rows' \in [Servers -> Row \cup {Nobody}] /\ cache' \in [Servers -> Row \cup {Nobody}]
        /\ ops' \in 0..MaxOps /\ actions' \in ActionMaps /\ ignores' \in [Servers -> SUBSET Advisories]
        /\ results' \in [Servers -> Result \cup {Nobody}]
        /\ UNCHANGED <<fresh, process, service, auditOn, stops, admin>>
    BY <1>3, <2>2, <2>3, ShapeFacts, CountedOps DEF LiftByHand, Asks, settings
  <2> QED
    BY <1>1, <2>4, RequestShape
<1>4. CASE SwitchAudit(a)
  <2>1. /\ queue' \in Seq(Waiting)
        /\ worker = "none" => queue' = <<>>
        /\ run' \in [at : {"none", "next", "waiting"}, todo : SUBSET Ids] /\ callers' \subseteq Callers
    <3>1. CASE auditOn
      BY <1>4, <3>1, CancelTypes DEF SwitchAudit
    <3>2. CASE ~auditOn
      BY <1>4, <3>2 DEF SwitchAudit, Shape, TypeOK, JobShape
    <3> QED
      BY <3>1, <3>2
  <2>2. JobShape'
    BY <1>4, <2>1 DEF SwitchAudit, Shape, JobShape
  <2>3. /\ auditOn' \in BOOLEAN /\ ops' \in 0..MaxOps /\ cache' \in [Servers -> Row \cup {Nobody}]
        /\ rows' \in [Servers -> Row \cup {Nobody}] /\ results' \in [Servers -> Result \cup {Nobody}]
        /\ ignores' \in [Servers -> SUBSET Advisories] /\ actions' \in ActionMaps
        /\ fresh' \subseteq Servers /\ stopped' \in BOOLEAN
        /\ worker' \in {"none", "loop", "ending"} /\ job' \in JobRec
        /\ UNCHANGED <<launch, live, stops, admin>>
    BY <1>4, ShapeFacts, CountedOps DEF SwitchAudit, Asks, known, process, Shape, TypeOK, JobRec
  <2> QED
    BY <1>1, <2>1, <2>2, <2>3, AdminKindShape
<1> QED
  BY <1>2, <1>3, <1>4

LEMMA ShutdownShape ==
  ASSUME Shape, Stop \/ Restart
  PROVE  Shape'
<1>1. CASE Stop
  <2>1. /\ queue' = <<>> /\ callers' \subseteq Callers
        /\ run' \in [at : {"none", "next", "waiting"}, todo : SUBSET Ids]
    BY <1>1, CancelTypes DEF Stop
  <2>2. ops' \in 0..MaxOps
    BY <1>1, CountedOps DEF Stop
  <2>3. TypeOK'
    <3>1. queue' \in Seq(Waiting)
      BY <2>1
    <3> QED
      BY <1>1, <2>1, <2>2, <3>1 DEF Stop, Shape, TypeOK, settings, known, process
  <2>4. JobShape' /\ LaunchShape' /\ StopShape' /\ AdminShape'
    BY <1>1, <2>1 DEF Stop, Shape, JobShape, LaunchShape, StopShape, AdminShape, Fits,
                      settings, known, process
  <2> QED
    BY <2>3, <2>4 DEF Shape
<1>2. CASE Restart
  <2>1. ops' \in 0..MaxOps
    BY <1>2, CountedOps DEF Restart
  <2>2. /\ launch' \in [Servers -> LaunchRec] /\ stops' \in [Stoppers -> StopRec]
        /\ admin' \in [Admins -> AdminRec] /\ job' \in JobRec
        /\ run' \in [at : {"none", "next", "waiting"}, todo : SUBSET Ids]
        /\ live' \in [Servers -> Configs \cup {Nobody}] /\ cache' \in [Servers -> Row \cup {Nobody}]
    BY <1>2, Empties DEF Restart
  <2>3. results' \in [Servers -> Result \cup {Nobody}] /\ queue' \in Seq(Waiting)
    BY <1>2 DEF Restart, Shape, TypeOK
  <2>4. TypeOK'
    BY <1>2, <2>1, <2>2, <2>3 DEF Restart, Shape, TypeOK, settings, known, LaunchRec, StopRec, AdminRec, JobRec
  <2>5. JobShape'
    <3>1. stops'[Self].at = "no"
      BY <1>2, Empties DEF Restart, Stoppers
    <3> QED
      BY <1>2, <3>1, Empties DEF Restart, JobShape
  <2>6. LaunchShape' /\ StopShape' /\ AdminShape'
    BY <1>2, Empties DEF Restart, LaunchShape, StopShape, AdminShape, Fits, Stoppers
  <2> QED
    BY <2>4, <2>5, <2>6 DEF Shape
<1> QED
  BY <1>1, <1>2

\* What a step writes down about the races it sees.
Logged ==
    /\ Overtakes \/ UNCHANGED <<rows, overtaken>>
    /\ \/ outdated' = outdated
       \/ \E a \in Admins : admin[a].at = "patch" /\ outdated' = outdated \cup {admin[a].srv}

LEMMA NextLogged ==
  ASSUME [Next]_vars, ~Restart
  PROVE  Logged
<1>1. CASE UNCHANGED vars
  BY <1>1 DEF vars, known, Logged
<1>2. CASE \/ JobEnds \/ WorkerEnds \/ RunStart \/ RunStep \/ Stop
           \/ \E c \in Callers, id \in Ids : ManualAudit(c, id)
           \/ \E x \in Stoppers : StopClosed(x) \/ StopHalted(x)
  BY <1>2 DEF JobEnds, WorkerEnds, RunStart, RunStep, Stop, ManualAudit, StopClosed, StopHalted,
              known, Logged
<1>3. CASE EngineStep
  BY <1>3 DEF EngineStep, EngineAnswers, EngineFails, known, Logged
<1>4. CASE \E s \in Servers : Acquire(s) \/ LaunchStep(s) \/ ProcessEnds(s)
  BY <1>4 DEF Acquire, LaunchStep, AdmitFill, SpecFill, Fill, AdmitOk, AdmitRefused, Launch,
              LaunchFails, ProcessEnds, known, Logged
<1>5. ASSUME NEW a \in Admins, AdminStep(a)
      PROVE  Logged
  <2>1. CASE PatchWrite(a)
    BY <2>1 DEF PatchWrite, Logged
  <2>2. CASE PatchRefused(a) \/ PatchResolve(a) \/ PatchFill(a) \/ PatchStopped(a)
    BY <2>2 DEF PatchRefused, PatchResolve, PatchFill, PatchStopped, known, Logged
  <2>3. CASE DeleteStopped(a) \/ ReevaluateNext(a) \/ ReevaluateEnds(a)
    BY <2>3 DEF DeleteStopped, ReevaluateNext, ReevaluateEnds, known, Logged
  <2> QED
    BY <1>5, <2>1, <2>2, <2>3 DEF AdminStep
<1>6. ASSUME NEW a \in Admins, AdminCall(a)
      PROVE  Logged
  BY <1>6 DEF AdminCall, Create, PatchBegin, Ignore, Delete, LiftByHand, SetActions, SwitchAudit,
              known, Logged
<1> QED
  BY <1>1, <1>2, <1>3, <1>4, <1>5, <1>6 DEF Next

LEMMA NextHistory ==
  ASSUME Shape, [Next]_vars
  PROVE  History'
<1>1. CASE Restart
  BY <1>1 DEF Restart, History
<1>2. CASE ~Restart
  <2>1. Logged /\ overtaken \subseteq Servers /\ outdated \subseteq Servers
    BY <1>2, NextLogged DEF Shape, TypeOK
  <2>2. \A a \in Admins : admin[a].at = "patch" => admin[a].srv \in Servers
    BY ShapeFacts DEF Fits
  <2> QED
    BY <2>1, <2>2 DEF Logged, Overtakes, History
<1> QED
  BY <1>1, <1>2

LEMMA NextShape == Shape /\ [Next]_vars => Shape'
<1> SUFFICES ASSUME Shape, [Next]_vars
             PROVE  Shape'
  OBVIOUS
<1>1. CASE UNCHANGED vars
  <2>1. TypeOK'
    BY <1>1 DEF vars, settings, known, service, process, Shape, TypeOK
  <2>2. JobShape' /\ LaunchShape' /\ StopShape' /\ AdminShape'
    BY <1>1 DEF vars, settings, known, service, process, Shape, JobShape, LaunchShape, StopShape,
                AdminShape, Fits
  <2> QED
    BY <2>1, <2>2 DEF Shape
<1> History'
  BY NextHistory
<1>2. CASE EngineStep \/ JobEnds \/ WorkerEnds
  BY <1>2, EngineAnswersShape, EngineFailsShape, JobEndsShape, WorkerEndsShape DEF EngineStep
<1>3. CASE RunStart \/ RunStep \/ \E c \in Callers, id \in Ids : ManualAudit(c, id)
  BY <1>3, AskShape
<1>4. CASE \E s \in Servers : Acquire(s) \/ LaunchStep(s) \/ ProcessEnds(s)
  BY <1>4, LaunchShapes
<1>5. CASE \E x \in Stoppers : StopClosed(x) \/ StopHalted(x)
  BY <1>5, StopShapes
<1>6. CASE \E a \in Admins : AdminCall(a) \/ AdminStep(a)
  <2>1. PICK a \in Admins : AdminCall(a) \/ AdminStep(a)
    BY <1>6
  <2>2. CASE AdminStep(a)
    BY <2>2, PatchShape, PatchEndsShape, DeleteShape, PolicyShape DEF AdminStep
  <2>3. CASE AdminCall(a)
    BY <2>3, PatchShape, DeleteShape, PolicyShape, EditShape DEF AdminCall
  <2> QED
    BY <2>1, <2>2, <2>3
<1>7. CASE Stop \/ Restart
  BY <1>7, ShutdownShape
<1> QED
  BY <1>1, <1>2, <1>3, <1>4, <1>5, <1>6, <1>7 DEF Next

\* The rows, the results, the queue and everything suspended keep their types, and no step meets
\* a row that is gone without looking.
THEOREM ShapeHolds == Spec => []Shape
BY InitShape, NextShape, PTL DEF Spec

-----------------------------------------------------------------------------
(***************************************************************************)
(* Whoever waits is waited for by a job.                                   *)
(***************************************************************************)
Served ==
    /\ \A c \in callers : Waits(c)
    /\ run.at = "waiting" => Waits(Self)

LEMMA ServedKept ==
  ASSUME Shape, Served, callers' = callers, run' = run,
         \A c : c # Nobody /\ Waits(c) => Waits(c)'
  PROVE  Served'
BY AuditAssumption DEF Shape, TypeOK, Served, AuditAssumption

LEMMA ServedQuietly ==
  ASSUME Shape, Served, UNCHANGED <<queue, job, callers, run>>
  PROVE  Served'
BY DEF Served, Waits

LEMMA ServedByWorker ==
  ASSUME Shape, Served, JobEnds \/ WorkerEnds
  PROVE  Served'
<1>1. ASSUME queue # <<>>, Takes(Head(queue), RowOf(Head(queue).id)), queue' = Tail(queue)
      PROVE  \A c : (\E i \in DOMAIN queue : queue[i].by = c) => Waits(c)'
  BY <1>1, TakesHead
<1>2. ASSUME queue = <<>>, NEW c
      PROVE  ~\E i \in DOMAIN queue : queue[i].by = c
  BY <1>2
<1>3. CASE JobEnds
  <2>1. /\ callers' = callers \ {job.by}
        /\ run' = IF job.by = Self THEN [run EXCEPT !.at = "next"] ELSE run
        /\ queue # <<>> => Takes(Head(queue), RowOf(Head(queue).id)) /\ queue' = Tail(queue)
    BY <1>3 DEF JobEnds
  <2>2. ASSUME NEW c, c # job.by, Waits(c)
        PROVE  Waits(c)'
    <3>1. \E i \in DOMAIN queue : queue[i].by = c
      BY <2>2 DEF Waits
    <3> QED
      BY <1>1, <1>2, <2>1, <3>1
  <2>3. run'.at = "waiting" => run.at = "waiting" /\ job.by # Self
    BY <2>1 DEF Shape, TypeOK
  <2> QED
    BY <2>1, <2>2, <2>3 DEF Served
<1>4. CASE WorkerEnds
  <2>1. /\ callers' = callers /\ run' = run
        /\ queue # <<>> => Takes(Head(queue), RowOf(Head(queue).id)) /\ queue' = Tail(queue)
    BY <1>4 DEF WorkerEnds
  <2>2. job.by = Nobody
    BY <1>4 DEF WorkerEnds, Shape, JobShape, NoJob
  <2>3. ASSUME NEW c, c # Nobody, Waits(c)
        PROVE  Waits(c)'
    <3>1. \E i \in DOMAIN queue : queue[i].by = c
      BY <2>2, <2>3 DEF Waits
    <3> QED
      BY <1>1, <1>2, <2>1, <3>1
  <2> QED
    BY <2>1, <2>3, ServedKept
<1> QED
  BY <1>3, <1>4

LEMMA ServedByRequest ==
  ASSUME Shape, Served,
         (\E c \in Callers, id \in Ids : ManualAudit(c, id)) \/ RunStart \/ RunStep
  PROVE  Served'
<1>1. ASSUME NEW id \in Ids, NEW by \in Callers \cup {Self}, Push([id |-> id, by |-> by], RowOf(id)),
             stops' = stops
      PROVE  Waits(by)' /\ \A c : c # Nobody /\ Waits(c) => Waits(c)'
  <2>1. PICK w : w = [id |-> id, by |-> by]
    OBVIOUS
  <2>2. w \in Waiting /\ w.by = by /\ RowOf(id) \in Row \cup {Nobody}
    BY <2>1 DEF Waiting, RowOf, Ids, Shape, TypeOK
  <2> QED
    BY <1>1, <2>1, <2>2, PushTypes
<1>2. ASSUME NEW c \in Callers, NEW id \in Ids, ManualAudit(c, id)
      PROVE  Served'
  <2>1. /\ Push([id |-> id, by |-> c], RowOf(id)) /\ stops' = stops /\ run' = run
        /\ callers' = callers \cup {c}
    BY <1>2 DEF ManualAudit
  <2>2. Waits(c)' /\ \A d : d # Nobody /\ Waits(d) => Waits(d)'
    BY <1>1, <2>1
  <2> QED
    BY <2>1, <2>2, AuditAssumption DEF Served, Shape, TypeOK, AuditAssumption
<1>3. ASSUME NEW id \in Ids, NEW todo, RunServer(id, todo), stops' = stops, callers' = callers
      PROVE  Served'
  <2>1. Waits(Self)' /\ \A d : d # Nobody /\ Waits(d) => Waits(d)'
    BY <1>1, <1>3 DEF RunServer
  <2> QED
    BY <1>3, <2>1, AuditAssumption DEF Served, Shape, TypeOK, AuditAssumption
<1>4. CASE RunStart
  BY <1>3, <1>4 DEF RunStart, Ids
<1>5. CASE RunStep
  <2>1. CASE \E id \in run.todo : RunServer(id, run.todo)
    BY <1>3, <1>5, <2>1 DEF RunStep, Shape, TypeOK
  <2>2. CASE run' = NoRun /\ UNCHANGED <<queue, worker, job, results>>
    BY <1>5, <2>2 DEF RunStep, Served, Waits, NoRun
  <2> QED
    BY <1>5, <2>1, <2>2 DEF RunStep
<1> QED
  BY <1>2, <1>4, <1>5

LEMMA ServedAtEnqueue ==
  ASSUME Shape, Served, NEW s \in Servers, NEW row \in Row \cup {Nobody}, Enqueue(s, row),
         stops'[Self].at = "no" <=> stops[Self].at = "no", UNCHANGED <<callers, run>>
  PROVE  Served'
BY EnqueueTypes, ServedKept

LEMMA ServedByLaunch ==
  ASSUME Shape, Served, NEW s \in Servers, AdmitRefused(s)
  PROVE  Served'
<1>1. /\ Settle(s) /\ UNCHANGED <<callers, run>> /\ rows[s] \in Row \cup {Nobody}
      /\ UNCHANGED <<queue, worker, job, results>> \/ Enqueue(s, rows[s])
  BY DEF AdmitRefused, Shape, TypeOK
<1>2. stops'[Self].at = "no" <=> stops[Self].at = "no"
  BY <1>1, SettleTypes DEF Resumed, Stoppers
<1> QED
  BY <1>1, <1>2, ServedAtEnqueue, ServedQuietly

LEMMA ServedAfterCancel ==
  ASSUME Shape, Served, Cancel, job' = job
  PROVE  Served'
<1>1. /\ callers' = callers \ {queue[i].by : i \in DOMAIN queue}
      /\ run' = IF Self \in {queue[i].by : i \in DOMAIN queue} THEN [run EXCEPT !.at = "next"] ELSE run
  BY DEF Cancel
<1>2. run'.at = "waiting" => run.at = "waiting" /\ Self \notin {queue[i].by : i \in DOMAIN queue}
  BY <1>1 DEF Shape, TypeOK
<1>3. \A c : c \notin {queue[i].by : i \in DOMAIN queue} /\ Waits(c) => Waits(c)'
  BY DEF Waits
<1> QED
  BY <1>1, <1>2, <1>3 DEF Served

LEMMA ServedByAdmin ==
  ASSUME Shape, Served, NEW a \in Admins, AdminCall(a) \/ AdminStep(a)
  PROVE  Served'
<1>1. CASE AdminStep(a)
  <2>1. admin[a].srv \in Servers => RowOf(admin[a].srv) \in Row \cup {Nobody}
    BY ShapeFacts DEF RowOf
  <2>2. CASE PatchRefused(a)
    <3>1. admin[a].srv \in Servers
      BY <2>2, ShapeFacts DEF PatchRefused, Fits
    <3> QED
      BY <2>1, <2>2, <3>1, ServedAtEnqueue DEF PatchRefused
  <2>3. CASE PatchStopped(a)
    <3>1. admin[a].srv \in Servers /\ stops'[Self] = stops[Self]
      BY <2>3, ShapeFacts DEF PatchStopped, Fits
    <3> QED
      BY <2>1, <2>3, <3>1, ServedAtEnqueue DEF PatchStopped
  <2>4. CASE PatchResolve(a) \/ PatchFill(a) \/ PatchWrite(a) \/ DeleteStopped(a)
             \/ ReevaluateNext(a) \/ ReevaluateEnds(a)
    BY <2>4, ServedQuietly DEF PatchResolve, PatchFill, PatchWrite, DeleteStopped, ReevaluateNext,
                               ReevaluateEnds, service
  <2> QED
    BY <1>1, <2>2, <2>3, <2>4 DEF AdminStep
<1>2. CASE AdminCall(a)
  <2>1. ASSUME NEW s \in Servers, NEW c \in Configs, NEW b \in BOOLEAN, Create(a, s, c, b)
        PROVE  Served'
    <3>1. NewRow(c, b) \in Row
      BY DEF NewRow, Row
    <3> QED
      BY <2>1, <3>1, ServedAtEnqueue DEF Create
  <2>2. CASE SwitchAudit(a)
    BY <2>2, ServedAfterCancel, ServedQuietly DEF SwitchAudit
  <2>3. ASSUME NEW s \in Servers,
               \/ \E p \in Patches : PatchBegin(a, s, p)
               \/ \E v \in Advisories : Ignore(a, s, v)
               \/ Delete(a, s) \/ LiftByHand(a, s)
        PROVE  Served'
    BY <2>3, ServedQuietly DEF PatchBegin, Ignore, Delete, LiftByHand, service
  <2>4. CASE \E map \in ActionMaps : SetActions(a, map)
    BY <2>4, ServedQuietly DEF SetActions, service
  <2> QED
    BY <1>2, <2>1, <2>2, <2>3, <2>4 DEF AdminCall
<1> QED
  BY <1>1, <1>2

LEMMA NextServed == Shape /\ Served /\ [Next]_vars => Served'
<1> SUFFICES ASSUME Shape, Served, [Next]_vars
             PROVE  Served'
  OBVIOUS
<1>1. CASE UNCHANGED vars
  BY <1>1, ServedQuietly DEF vars, service
<1>2. CASE EngineStep
  <2>1. /\ UNCHANGED <<queue, callers, run>>
        /\ \E at \in {"done", "stopping"} : job' = [job EXCEPT !.at = at]
    BY <1>2 DEF EngineStep, EngineAnswers, EngineFails
  <2>2. job'.by = job.by
    BY <2>1 DEF Shape, TypeOK
  <2> QED
    BY <2>1, <2>2 DEF Served, Waits
<1>3. CASE JobEnds \/ WorkerEnds
  BY <1>3, ServedByWorker
<1>4. CASE RunStart \/ RunStep \/ \E c \in Callers, id \in Ids : ManualAudit(c, id)
  BY <1>4, ServedByRequest
<1>5. ASSUME NEW s \in Servers, Acquire(s) \/ LaunchStep(s) \/ ProcessEnds(s)
      PROVE  Served'
  BY <1>5, ServedByLaunch, ServedQuietly
     DEF LaunchStep, Acquire, AdmitFill, SpecFill, Fill, AdmitOk, Launch, LaunchFails, ProcessEnds, service
<1>6. ASSUME NEW x \in Stoppers, StopClosed(x) \/ StopHalted(x)
      PROVE  Served'
  BY <1>6, ServedQuietly DEF StopClosed, StopHalted, service
<1>7. CASE \E a \in Admins : AdminCall(a) \/ AdminStep(a)
  BY <1>7, ServedByAdmin
<1>8. CASE Stop
  BY <1>8, ServedAfterCancel DEF Stop
<1>9. CASE Restart
  BY <1>9 DEF Restart, Served, NoRun
<1> QED
  BY <1>1, <1>2, <1>3, <1>4, <1>5, <1>6, <1>7, <1>8, <1>9 DEF Next

\* Every job that waits has a worker to take it, and every caller and the run over all servers
\* have a job, whatever is cancelled, stopped or asked for meanwhile (service.ts).
THEOREM Waiters == Spec => []WaitersAreServed
<1>1. Init => Served
  BY DEF Init, Served, NoRun
<1>2. Shape /\ Served => WaitersAreServed
  BY DEF Shape, JobShape, Served, Waits, WaitersAreServed, JobsOf
<1> QED
  BY <1>1, <1>2, InitShape, NextShape, NextServed, PTL DEF Spec

-----------------------------------------------------------------------------
(***************************************************************************)
(* What is suspended in a resolve was read from the table, and a write of  *)
(* the row meanwhile is written down.                                      *)
(***************************************************************************)
ReadsNow ==
    /\ \A s \in Servers : launch'[s].at \in {"admitFill", "specFill"} =>
           launch'[s] = launch[s] \/ launch'[s].row = rows'[s]
    /\ \A a \in Admins : admin'[a].at = "patchFill" =>
           admin'[a] = admin[a] \/ admin'[a].fill = rows'[admin'[a].srv]

Remembers ==
    /\ overtaken \subseteq overtaken' /\ outdated \subseteq outdated'
    /\ \A s \in Servers \ overtaken' : Decrypting(s) => rows'[s] = rows[s]

LEMMA NextRemembers ==
  ASSUME [Next]_vars, ~Restart
  PROVE  Remembers
<1>1. Logged
  BY NextLogged
<1>2. outdated \subseteq outdated'
  BY <1>1 DEF Logged
<1>3. CASE UNCHANGED <<rows, overtaken>>
  BY <1>2, <1>3 DEF Remembers
<1>4. CASE Overtakes
  BY <1>2, <1>4 DEF Overtakes, Remembers
<1> QED
  BY <1>1, <1>3, <1>4 DEF Logged

LEMMA LaunchReads ==
  ASSUME Shape, NEW s \in Servers, Acquire(s) \/ LaunchStep(s) \/ ProcessEnds(s)
  PROVE  ReadsNow
<1>1. launch \in [Servers -> LaunchRec] /\ admin' = admin /\ rows' = rows
  BY DEF Shape, TypeOK, LaunchRec, Acquire, LaunchStep, AdmitFill, SpecFill, Fill, AdmitOk,
         AdmitRefused, Launch, LaunchFails, ProcessEnds
<1>2. ASSUME NEW next, launch' = [launch EXCEPT ![s] = next],
             next.at \in {"admitFill", "specFill"} => next.row = rows[s]
      PROVE  ReadsNow
  BY <1>1, <1>2 DEF ReadsNow
<1>3. ASSUME NEW filling, NEW next \in {"admit", "launch"}, Resolve(s, filling, next)
      PROVE  ReadsNow
  <2> DEFINE row == IF cache[s] # Nobody THEN cache[s] ELSE rows[s]
             at == IF cache[s] = Nobody /\ row.secret THEN filling ELSE next
  <2>1. launch' = [launch EXCEPT ![s] = [at |-> at, row |-> row]]
    BY <1>3 DEF Resolve
  <2>2. at \in {"admitFill", "specFill"} => row = rows[s]
    BY <1>3
  <2> HIDE DEF row, at
  <2> QED
    BY <1>2, <2>1, <2>2
<1>4. CASE Acquire(s) \/ AdmitOk(s)
  BY <1>3, <1>4 DEF Acquire, AdmitOk
<1>5. CASE AdmitFill(s) \/ SpecFill(s)
  <2>1. PICK next \in {"admit", "launch"} : launch' = [launch EXCEPT ![s] = [launch[s] EXCEPT !.at = next]]
    BY <1>1, <1>5 DEF AdmitFill, SpecFill, Fill
  <2>2. [launch[s] EXCEPT !.at = next].at = next
    BY <1>1 DEF LaunchRec
  <2> QED
    BY <1>2, <2>1, <2>2
<1>6. CASE AdmitRefused(s) \/ Launch(s) \/ LaunchFails(s)
  BY <1>2, <1>6, Empties DEF AdmitRefused, Launch, LaunchFails, Settle
<1>7. CASE ProcessEnds(s)
  BY <1>1, <1>7 DEF ProcessEnds, ReadsNow
<1> QED
  BY <1>4, <1>5, <1>6, <1>7 DEF LaunchStep

LEMMA AdminReads ==
  ASSUME Shape, NEW a \in Admins, AdminCall(a) \/ AdminStep(a)
  PROVE  ReadsNow
<1>1. admin \in [Admins -> AdminRec] /\ launch' = launch
  BY DEF Shape, TypeOK, AdminRec, AdminCall, AdminStep, Create, PatchBegin, Ignore, Delete, LiftByHand,
         SetActions, SwitchAudit, PatchRefused, PatchResolve, PatchFill, PatchWrite, PatchStopped,
         DeleteStopped, ReevaluateNext, ReevaluateEnds, process
<1>2. ASSUME NEW request, admin' = [admin EXCEPT ![a] = request], request.at # "patchFill"
      PROVE  ReadsNow
  BY <1>1, <1>2 DEF ReadsNow
<1>3. CASE admin' = admin
  BY <1>1, <1>3 DEF ReadsNow
<1>4. ASSUME NEW at, at # "patchFill", NEW s, NEW todo,
             admin' = [admin EXCEPT ![a] = [NoAdmin EXCEPT !.at = at, !.srv = s, !.todo = todo]]
      PROVE  ReadsNow
  <2>1. [NoAdmin EXCEPT !.at = at, !.srv = s, !.todo = todo].at = at
    BY DEF NoAdmin
  <2> QED
    BY <1>2, <1>4, <2>1
<1>5. ASSUME NEW s, NEW ig, NEW map, NEW at \in {"ignore", "settings"}, NEW rest,
             Reevaluate(a, s, ig, map, at, rest)
      PROVE  ReadsNow
  BY <1>4, <1>5 DEF Reevaluate
<1>6. CASE AdminCall(a)
  <2>1. CASE \/ SwitchAudit(a) \/ \E s \in Servers : LiftByHand(a, s)
             \/ \E s \in Servers, c \in Configs, b \in BOOLEAN : Create(a, s, c, b)
    BY <1>3, <2>1 DEF SwitchAudit, LiftByHand, Create
  <2>2. ASSUME NEW s \in Servers, NEW p \in Patches, PatchBegin(a, s, p)
        PROVE  ReadsNow
    <3>1. [NoAdmin EXCEPT !.at = "patchBody", !.srv = s, !.row = rows[s], !.patch = p].at = "patchBody"
      BY DEF NoAdmin
    <3> QED
      BY <1>2, <2>2, <3>1 DEF PatchBegin
  <2>3. ASSUME NEW s \in Servers, Delete(a, s)
        PROVE  ReadsNow
    <3>1. [NoAdmin EXCEPT !.at = "deleteStop", !.srv = s].at = "deleteStop"
      BY DEF NoAdmin
    <3> QED
      BY <1>2, <2>3, <3>1 DEF Delete
  <2>4. ASSUME NEW map \in ActionMaps, SetActions(a, map)
        PROVE  ReadsNow
    <3>1. [NoAdmin EXCEPT !.at = "settings"].at = "settings"
      BY DEF NoAdmin
    <3> QED
      BY <1>2, <1>5, <2>4, <3>1 DEF SetActions
  <2>5. ASSUME NEW s \in Servers, NEW v \in Advisories, Ignore(a, s, v)
        PROVE  ReadsNow
    BY <1>5, <2>5 DEF Ignore
  <2> QED
    BY <1>6, <2>1, <2>2, <2>3, <2>4, <2>5 DEF AdminCall
<1>7. CASE AdminStep(a)
  <2>1. CASE PatchResolve(a)
    <3> DEFINE s == admin[a].srv
               fill == IF cache[s] # Nobody THEN cache[s] ELSE rows[s]
               fills == cache[s] = Nobody /\ fill # Nobody /\ fill.secret
               at == IF fills THEN "patchFill" ELSE "patch"
    <3>0. PICK request : request = [admin[a] EXCEPT !.at = at, !.fill = fill]
      OBVIOUS
    <3>1. admin' = [admin EXCEPT ![a] = request] /\ rows' = rows
      BY <1>1, <2>1, <3>0 DEF PatchResolve
    <3>2. at = "patchFill" => fill = rows[s]
      OBVIOUS
    <3>3. request.at = at /\ request.fill = fill /\ request.srv = s
      <4> HIDE DEF at, fill
      <4> QED
        BY <1>1, <3>0 DEF AdminRec
    <3> HIDE DEF at, fill, s
    <3> QED
      BY <1>1, <3>1, <3>2, <3>3 DEF ReadsNow
  <2>2. CASE PatchFill(a)
    <3>1. [admin[a] EXCEPT !.at = "patch"].at = "patch"
      BY <1>1 DEF AdminRec
    <3>2. admin' = [admin EXCEPT ![a] = [admin[a] EXCEPT !.at = "patch"]]
      BY <1>1, <2>2 DEF PatchFill
    <3> QED
      BY <1>2, <3>1, <3>2
  <2>3. CASE PatchRefused(a) \/ PatchStopped(a) \/ DeleteStopped(a) \/ ReevaluateEnds(a)
    BY <1>2, <2>3, Empties DEF PatchRefused, PatchStopped, DeleteStopped, ReevaluateEnds
  <2>4. CASE PatchWrite(a)
    <3>1. [NoAdmin EXCEPT !.at = "patchStop", !.srv = admin[a].srv].at = "patchStop"
      BY DEF NoAdmin
    <3> QED
      BY <1>2, <2>4, <3>1, Empties DEF PatchWrite
  <2>5. CASE ReevaluateNext(a)
    BY <1>5, <2>5 DEF ReevaluateNext
  <2> QED
    BY <1>7, <2>1, <2>2, <2>3, <2>4, <2>5 DEF AdminStep
<1> QED
  BY <1>6, <1>7

LEMMA NextReads ==
  ASSUME Shape, [Next]_vars, ~Restart
  PROVE  ReadsNow
<1>1. CASE UNCHANGED vars
  BY <1>1 DEF vars, process, ReadsNow
<1>2. CASE \/ JobEnds \/ WorkerEnds \/ RunStart \/ RunStep \/ Stop
           \/ \E c \in Callers, id \in Ids : ManualAudit(c, id)
           \/ \E x \in Stoppers : StopClosed(x) \/ StopHalted(x)
  BY <1>2 DEF JobEnds, WorkerEnds, RunStart, RunStep, Stop, ManualAudit, StopClosed, StopHalted,
              process, ReadsNow
<1>3. CASE EngineStep
  BY <1>3 DEF EngineStep, EngineAnswers, EngineFails, process, ReadsNow
<1>4. CASE \E s \in Servers : Acquire(s) \/ LaunchStep(s) \/ ProcessEnds(s)
  BY <1>4, LaunchReads
<1>5. CASE \E a \in Admins : AdminCall(a) \/ AdminStep(a)
  BY <1>5, AdminReads
<1> QED
  BY <1>1, <1>2, <1>3, <1>4, <1>5 DEF Next

-----------------------------------------------------------------------------
(***************************************************************************)
(* The cache of the registry follows the table, and so does the row that a *)
(* resolve is about to put there.  A server to come has no row, and so     *)
(* nothing of it is cached when its row is inserted.                       *)
(***************************************************************************)
Follows(s) ==
    /\ cache[s] \in {Nobody, rows[s]}
    /\ launch[s].at \in {"admitFill", "specFill"} => launch[s].row = rows[s]
    /\ \A a \in Admins : admin[a].at = "patchFill" /\ admin[a].srv = s => admin[a].fill = rows[s]

Coherent ==
    /\ \A s \in fresh : rows[s] = Nobody
    /\ \A s \in Servers \ overtaken : Follows(s)

LEMMA CoherentKept ==
  ASSUME Shape, Coherent, ReadsNow, Remembers, fresh' \subseteq fresh,
         \A s \in Servers : s \in fresh' /\ rows[s] = Nobody => rows'[s] = Nobody,
         \A s \in Servers \ overtaken' :
            cache'[s] \in {Nobody, rows'[s]} \/ (cache'[s] = cache[s] /\ rows'[s] = rows[s])
  PROVE  Coherent'
<1>1. fresh \subseteq Servers
  BY DEF Shape, TypeOK
<1>2. ASSUME NEW s \in Servers \ overtaken'
      PROVE  Follows(s)'
  <2>1. s \in Servers \ overtaken /\ Follows(s)
    BY <1>2 DEF Remembers, Coherent
  <2>2. Decrypting(s) => rows'[s] = rows[s]
    BY <1>2 DEF Remembers
  <2>3. cache'[s] \in {Nobody, rows'[s]}
    BY <1>2, <2>1 DEF Follows
  <2>4. launch'[s].at \in {"admitFill", "specFill"} => launch'[s].row = rows'[s]
    BY <1>2, <2>1, <2>2 DEF ReadsNow, Follows, Decrypting
  <2>5. ASSUME NEW a \in Admins, admin'[a].at = "patchFill", admin'[a].srv = s
        PROVE  admin'[a].fill = rows'[s]
    BY <1>2, <2>1, <2>2, <2>5 DEF ReadsNow, Follows, Decrypting
  <2> QED
    BY <2>3, <2>4, <2>5 DEF Follows
<1> QED
  BY <1>1, <1>2 DEF Coherent

LEMMA CoherentQuietly ==
  ASSUME Shape, Coherent, ReadsNow, Remembers, UNCHANGED <<rows, cache, fresh>>
  PROVE  Coherent'
BY CoherentKept

LEMMA CoherentApply ==
  ASSUME Shape, Coherent, ReadsNow, Remembers, NEW x, NEW s \in Servers, NEW seen, NEW active, NEW act,
         Apply(x, s, seen, active, act), fresh' = fresh
  PROVE  Coherent'
<1>1. /\ rows \in [Servers -> Row \cup {Nobody}] /\ cache \in [Servers -> Row \cup {Nobody}]
  BY DEF Shape, TypeOK
<1>2. ASSUME NEW y \in Servers, y # s
      PROVE  rows'[y] = rows[y] /\ cache'[y] = cache[y]
  BY <1>1, <1>2 DEF Apply
<1>3. rows'[s] = Sanctioned(rows[s], seen, active, act)
  BY <1>1 DEF Apply
<1>4. rows[s] = Nobody => rows'[s] = Nobody
  BY <1>3 DEF Sanctioned
<1>5. rows'[s] # rows[s] => cache'[s] = Nobody
  BY <1>1, <1>3 DEF Sanctioned, Apply
<1>6. rows'[s] = rows[s] => cache'[s] \in {Nobody, cache[s]}
  BY <1>1 DEF Apply
<1> QED
  BY <1>1, <1>2, <1>4, <1>5, <1>6, CoherentKept

LEMMA CoherentLaunch ==
  ASSUME Shape, Coherent, ReadsNow, Remembers, NEW s \in Servers,
         Acquire(s) \/ LaunchStep(s) \/ ProcessEnds(s)
  PROVE  Coherent'
<1>1. cache \in [Servers -> Row \cup {Nobody}]
  BY DEF Shape, TypeOK
<1>2. CASE Acquire(s) \/ AdmitOk(s)
  <2>1. /\ UNCHANGED <<rows, fresh>>
        /\ \E filling, next : Resolve(s, filling, next)
    BY <1>2 DEF Acquire, AdmitOk, known
  <2>2. \A y \in Servers : \/ cache'[y] = cache[y]
                           \/ y = s /\ cache[y] = Nobody /\ cache'[y] = rows[y]
    BY <1>1, <2>1 DEF Resolve
  <2> QED
    BY <2>1, <2>2, CoherentKept
<1>3. CASE AdmitFill(s) \/ SpecFill(s)
  <2>1. /\ UNCHANGED <<rows, fresh>> /\ cache' = [cache EXCEPT ![s] = launch[s].row]
        /\ launch[s].at \in {"admitFill", "specFill"}
    BY <1>3 DEF AdmitFill, SpecFill, Fill, known
  <2>2. \A y \in Servers \ overtaken' : cache'[y] = cache[y] \/ cache'[y] = rows[y]
    BY <1>1, <2>1 DEF Remembers, Coherent, Follows
  <2> QED
    BY <2>1, <2>2, CoherentKept
<1>4. CASE AdmitRefused(s) \/ Launch(s) \/ LaunchFails(s) \/ ProcessEnds(s)
  BY <1>4, CoherentQuietly DEF AdmitRefused, Launch, LaunchFails, ProcessEnds, known
<1> QED
  BY <1>2, <1>3, <1>4 DEF LaunchStep

LEMMA CoherentPatch ==
  ASSUME Shape, Coherent, ReadsNow, Remembers, NEW a \in Admins,
         PatchResolve(a) \/ PatchFill(a) \/ PatchWrite(a) \/ DeleteStopped(a)
  PROVE  Coherent'
<1> DEFINE s == admin[a].srv
<1>1. /\ rows \in [Servers -> Row \cup {Nobody}] /\ cache \in [Servers -> Row \cup {Nobody}]
      /\ s \in Servers
  BY ShapeFacts DEF PatchResolve, PatchFill, PatchWrite, DeleteStopped, Fits
<1>2. CASE PatchResolve(a)
  <2>1. UNCHANGED <<rows, fresh>>
    BY <1>2 DEF PatchResolve, known
  <2>2. \A y \in Servers : cache'[y] \in {cache[y], rows[y]}
    BY <1>1, <1>2 DEF PatchResolve
  <2> QED
    BY <2>1, <2>2, CoherentKept
<1>3. CASE PatchFill(a)
  <2>1. /\ UNCHANGED <<rows, fresh>> /\ cache' = [cache EXCEPT ![s] = admin[a].fill]
        /\ admin[a].at = "patchFill"
    BY <1>3 DEF PatchFill, known
  <2>2. \A y \in Servers \ overtaken' : cache'[y] = cache[y] \/ cache'[y] = rows[y]
    BY <1>1, <2>1 DEF Remembers, Coherent, Follows
  <2> QED
    BY <2>1, <2>2, CoherentKept
<1>4. CASE PatchWrite(a) \/ DeleteStopped(a)
  <2>1. fresh' = fresh /\ cache' = [cache EXCEPT ![s] = Nobody]
    BY <1>4 DEF PatchWrite, DeleteStopped
  <2>2. \E new : rows' = [rows EXCEPT ![s] = new] /\ (rows[s] = Nobody => new = Nobody)
    BY <1>4 DEF PatchWrite, DeleteStopped
  <2>3. \A y \in Servers : /\ rows[y] = Nobody => rows'[y] = Nobody
                           /\ y # s => cache'[y] = cache[y] /\ rows'[y] = rows[y]
                           /\ cache'[s] = Nobody
    BY <1>1, <2>1, <2>2
  <2> HIDE DEF s
  <2> QED
    BY <2>1, <2>3, CoherentKept
<1> QED
  BY <1>2, <1>3, <1>4

LEMMA CoherentReevaluate ==
  ASSUME Shape, Coherent, ReadsNow, Remembers, NEW a, NEW s \in Servers, NEW ig, NEW map, NEW at, NEW rest,
         Reevaluate(a, s, ig, map, at, rest), fresh' = fresh
  PROVE  Coherent'
<1>1. CASE UNCHANGED <<results, rows, cache, stops>>
  BY <1>1, CoherentQuietly
<1>2. CASE \E active, act : Apply(a, s, rows[s], active, act)
  BY <1>2, CoherentApply
<1> QED
  BY <1>1, <1>2 DEF Reevaluate

LEMMA CoherentCall ==
  ASSUME Shape, Coherent, ReadsNow, Remembers, NEW a \in Admins, AdminCall(a)
  PROVE  Coherent'
<1>1. /\ rows \in [Servers -> Row \cup {Nobody}] /\ cache \in [Servers -> Row \cup {Nobody}]
      /\ fresh \subseteq Servers
  BY DEF Shape, TypeOK
<1>2. ASSUME NEW s \in Servers, NEW c \in Configs, NEW b \in BOOLEAN, Create(a, s, c, b)
      PROVE  Coherent'
  <2>1. /\ s \in fresh /\ fresh' = fresh \ {s} /\ cache' = cache
        /\ rows' = [rows EXCEPT ![s] = NewRow(c, b)]
    BY <1>2 DEF Create
  <2>2. rows[s] = Nobody /\ (s \notin overtaken' => cache[s] = Nobody)
    BY <2>1 DEF Coherent, Follows, Remembers
  <2>3. \A y \in Servers : y # s => rows'[y] = rows[y]
    BY <1>1, <2>1
  <2> QED
    BY <2>1, <2>2, <2>3, CoherentKept
<1>3. ASSUME NEW s \in Servers, LiftByHand(a, s)
      PROVE  Coherent'
  <2>1. /\ rows[s] # Nobody /\ fresh' = fresh /\ cache' = [cache EXCEPT ![s] = Nobody]
        /\ \E new : rows' = [rows EXCEPT ![s] = new]
    BY <1>3 DEF LiftByHand
  <2>2. \A y \in Servers : y # s => rows'[y] = rows[y] /\ cache'[y] = cache[y]
    BY <1>1, <2>1
  <2> QED
    BY <1>1, <2>1, <2>2, CoherentKept
<1>4. CASE SwitchAudit(a)
  <2>1. UNCHANGED <<rows, fresh>> /\ cache' = [s \in Servers |-> Nobody]
    BY <1>4 DEF SwitchAudit, known
  <2> QED
    BY <2>1, CoherentKept
<1>5. CASE (\E s \in Servers, v \in Advisories : Ignore(a, s, v)) \/ (\E map \in ActionMaps : SetActions(a, map))
  BY <1>5, CoherentReevaluate, CoherentQuietly DEF Ignore, SetActions
<1>6. CASE \E s \in Servers : Delete(a, s) \/ (\E p \in Patches : PatchBegin(a, s, p))
  BY <1>6, CoherentQuietly DEF Delete, PatchBegin, known
<1> QED
  BY <1>2, <1>3, <1>4, <1>5, <1>6 DEF AdminCall

LEMMA NextCoherent == Shape /\ Coherent /\ [Next]_vars => Coherent'
<1> SUFFICES ASSUME Shape, Coherent, [Next]_vars
             PROVE  Coherent'
  OBVIOUS
<1>4. CASE Restart
  BY <1>4, Empties DEF Restart, Coherent, Follows
<1> SUFFICES ASSUME ~Restart
             PROVE  Coherent'
  BY <1>4
<1> ReadsNow /\ Remembers
  BY NextReads, NextRemembers
<1>1. CASE UNCHANGED vars
  BY <1>1, CoherentQuietly DEF vars, known
<1>2. CASE EngineStep
  <2>1. CASE EngineFails
    BY <2>1, CoherentQuietly DEF EngineFails, known
  <2>2. ASSUME NEW f \in Reports, EngineAnswers(f)
        PROVE  Coherent'
    <3>1. CASE job.id = Self
      BY <2>2, <3>1, CoherentQuietly DEF EngineAnswers
    <3>2. CASE job.id # Self
      <4>1. job.id \in Servers
        BY <2>2, <3>2 DEF EngineAnswers, Shape, JobShape, Ids
      <4>2. fresh' = fresh /\ \E active, act : Apply(Self, job.id, job.row, active, act)
        BY <2>2, <3>2 DEF EngineAnswers
      <4> QED
        BY <4>1, <4>2, CoherentApply
    <3> QED
      BY <3>1, <3>2
  <2> QED
    BY <1>2, <2>1, <2>2 DEF EngineStep
<1>3. CASE JobEnds \/ WorkerEnds \/ RunStart \/ RunStep \/ Stop
           \/ \E c \in Callers, id \in Ids : ManualAudit(c, id)
  BY <1>3, CoherentQuietly DEF JobEnds, WorkerEnds, RunStart, RunStep, ManualAudit, Stop, known
<1>5. CASE \E s \in Servers : Acquire(s) \/ LaunchStep(s) \/ ProcessEnds(s)
  BY <1>5, CoherentLaunch
<1>6. CASE \E x \in Stoppers : StopClosed(x) \/ StopHalted(x)
  BY <1>6, CoherentQuietly DEF StopClosed, StopHalted, known
<1>7. ASSUME NEW a \in Admins, AdminStep(a)
      PROVE  Coherent'
  <2>1. CASE PatchResolve(a) \/ PatchFill(a) \/ PatchWrite(a) \/ DeleteStopped(a)
    BY <2>1, CoherentPatch
  <2>2. CASE PatchRefused(a) \/ PatchStopped(a)
    BY <2>2, CoherentQuietly DEF PatchRefused, PatchStopped, known
  <2>3. CASE ReevaluateNext(a)
    <3>1. admin[a].todo \subseteq Servers
      BY ShapeFacts DEF AdminRec
    <3> QED
      BY <2>3, <3>1, CoherentReevaluate DEF ReevaluateNext
  <2>4. CASE ReevaluateEnds(a)
    <3>1. UNCHANGED <<rows, fresh>> /\ \A s \in Servers : cache'[s] \in {Nobody, cache[s]}
      BY <2>4 DEF ReevaluateEnds, known
    <3> QED
      BY <3>1, CoherentKept
  <2> QED
    BY <1>7, <2>1, <2>2, <2>3, <2>4 DEF AdminStep
<1>8. ASSUME NEW a \in Admins, AdminCall(a)
      PROVE  Coherent'
  BY <1>8, CoherentCall
<1> QED
  BY <1>1, <1>2, <1>3, <1>4, <1>5, <1>6, <1>7, <1>8 DEF Next

\* The registry holds no row older than the table's, and no resolve is about to put one there, of a
\* server that was not written while a resolve decrypted its old row: every write of a row, of an
\* audit as of a request, is followed by the invalidation before anything else runs
\* (upstream/registry.ts).
THEOREM Fresh == Spec => []CacheIsFresh
<1>1. Init => Coherent
  <2> SUFFICES ASSUME Init
               PROVE  Coherent
    OBVIOUS
  <2> QED
    BY Empties DEF Init, Coherent, Follows
<1>2. Shape /\ Coherent => CacheIsFresh
  BY DEF Shape, Coherent, Follows, CacheIsFresh
<1> QED
  BY <1>1, <1>2, InitShape, NextShape, NextCoherent, PTL DEF Spec

-----------------------------------------------------------------------------
(***************************************************************************)
(* A sanction that is called for is lost to a human only.  A step that     *)
(* leaves the requests and their number alone writes a row only by a       *)
(* verdict, and a result only with it or without findings.                 *)
(***************************************************************************)
Blank(r) == r # Nobody => r.findings = {}

LEMMA StillInForce ==
  ASSUME NEW s \in Servers, InForce(s), rows'[s] = rows[s], ignores' = ignores, actions' = actions,
         results'[s] = results[s] \/ Blank(results'[s])
  PROVE  InForce(s)'
<1>1. CASE results'[s] = results[s]
  BY <1>1 DEF InForce, Enforced
<1>2. CASE Blank(results'[s])
  <2>1. ASSUME results'[s] # Nobody
        PROVE  Verdict(results'[s].findings \ ignores'[s], actions') = "none"
    BY <1>2, <2>1 DEF Blank, Verdict
  <2> QED
    BY <2>1 DEF InForce, Enforced
<1> QED
  BY <1>1, <1>2

LEMMA TakesBlank ==
  ASSUME Shape, NEW w \in Waiting, NEW row, Takes(w, row), NEW s \in Servers
  PROVE  results'[s] = results[s] \/ Blank(results'[s])
<1>1. results \in [Servers -> Result \cup {Nobody}]
  BY DEF Shape, TypeOK
<1> QED
  BY <1>1 DEF Takes, Blank

LEMMA EnqueueBlank ==
  ASSUME Shape, NEW id \in Servers, NEW row, Enqueue(id, row), NEW s \in Servers
  PROVE  results'[s] = results[s] \/ Blank(results'[s])
<1>1. [id |-> id, by |-> Nobody] \in Waiting
  BY DEF Waiting, Ids
<1> QED
  BY <1>1, TakesBlank DEF Enqueue, Push

LEMMA HeadBlank ==
  ASSUME Shape, queue # <<>>, NEW row, Takes(Head(queue), row), NEW s \in Servers
  PROVE  results'[s] = results[s] \/ Blank(results'[s])
<1>1. Head(queue) \in Waiting
  BY TailRest DEF Shape, TypeOK
<1> QED
  BY <1>1, TakesBlank

LEMMA SanctionDone ==
  ASSUME NEW now \in Row, now # Nobody, NEW active, NEW act
  PROVE  /\ act = "disable" => ~Sanctioned(now, now, active, act).enabled
         /\ act = "quarantine" => Sanctioned(now, now, active, act).quarantined
BY DEF Sanctioned, NewSanction, Renames, Lifts, Row

\* A verdict decided on the row there is does what it calls for.
LEMMA VerdictInForce ==
  ASSUME Shape, NEW f \in Reports, EngineAnswers(f), NEW s \in Servers, InForce(s),
         job.id = s => job.row = rows[s]
  PROVE  InForce(s)'
<1>1. /\ rows \in [Servers -> Row \cup {Nobody}] /\ results \in [Servers -> Result \cup {Nobody}]
      /\ UNCHANGED <<ignores, actions>> /\ Self \notin Servers
      /\ job.id # Self => job.id \in Servers /\ job.row # Nobody
  BY AuditAssumption DEF EngineAnswers, settings, Shape, TypeOK, JobShape, Ids, AuditAssumption
<1>2. CASE job.id # s
  <2>1. rows'[s] = rows[s] /\ results'[s] = results[s]
    BY <1>1, <1>2 DEF EngineAnswers, Apply
  <2> QED
    BY <1>1, <2>1, StillInForce
<1>3. CASE job.id = s
  <2> DEFINE active == f \ ignores[s]
             act == Verdict(active, actions)
  <2>1. /\ results'[s] = [status |-> Status(active), findings |-> f, cfg |-> job.row.cfg]
        /\ Apply(Self, s, rows[s], active, act) /\ rows[s] \in Row /\ rows[s] # Nobody
    BY <1>1, <1>3 DEF EngineAnswers
  <2>2. results'[s].findings = f
    BY <2>1
  <2>3. rows'[s] = Sanctioned(rows[s], rows[s], active, act)
    BY <1>1, <2>1 DEF Apply
  <2> HIDE DEF act
  <2>4. act = "disable" => ~rows'[s].enabled
    BY <2>1, <2>3, SanctionDone
  <2>5. act = "quarantine" => rows'[s].quarantined
    BY <2>1, <2>3, SanctionDone
  <2>6. Verdict(results'[s].findings \ ignores'[s], actions') = act
    BY <1>1, <2>2 DEF act
  <2> QED
    BY <2>4, <2>5, <2>6 DEF InForce, Enforced
<1> QED
  BY <1>2, <1>3

\* Every request leaves a trace: it is counted when it is made, and each of its steps moves it on.
LEMMA RequestsShow ==
  ASSUME Shape, NEW a \in Admins, AdminCall(a) \/ AdminStep(a)
  PROVE  admin' # admin \/ ops' # ops
<1>1. ops \in Nat /\ admin[a] \in AdminRec
  BY AuditAssumption, ShapeFacts DEF AuditAssumption
<1>2. CASE AdminCall(a)
  <2>1. Counted
    BY <1>2 DEF AdminCall, Create, PatchBegin, Ignore, Delete, LiftByHand, SetActions, SwitchAudit, Asks
  <2> QED
    BY <1>1, <2>1 DEF Counted
<1>3. CASE PatchRefused(a) \/ PatchWrite(a) \/ PatchStopped(a) \/ DeleteStopped(a) \/ ReevaluateEnds(a)
  <2>1. admin[a].at \notin {"none"} /\ \E request : admin' = [admin EXCEPT ![a] = request] /\ request.at \in {"none", "patchStop"}
    <3>1. CASE PatchWrite(a)
      <4>1. [NoAdmin EXCEPT !.at = "patchStop", !.srv = admin[a].srv].at = "patchStop"
        BY DEF NoAdmin
      <4> QED
        BY <3>1, <4>1, Empties DEF PatchWrite
    <3>2. CASE PatchRefused(a) \/ PatchStopped(a) \/ DeleteStopped(a) \/ ReevaluateEnds(a)
      BY <3>2, Empties DEF PatchRefused, PatchStopped, DeleteStopped, ReevaluateEnds
    <3> QED
      BY <1>3, <3>1, <3>2
  <2>2. admin[a].at # "patchStop" \/ PatchStopped(a)
    BY <1>3 DEF PatchRefused, PatchWrite, DeleteStopped, ReevaluateEnds
  <2>3. PatchStopped(a) => admin'[a].at = "none"
    BY Empties, ShapeFacts DEF PatchStopped
  <2> QED
    BY <2>1, <2>2, <2>3, ShapeFacts
<1>4. CASE PatchResolve(a) \/ PatchFill(a)
  <2>1. /\ admin[a].at \in {"patchBody", "patchFill"}
        /\ \E at \in {"patchFill", "patch"} : \E fill :
              /\ admin' = [admin EXCEPT ![a] = [admin[a] EXCEPT !.at = at, !.fill = fill]]
              /\ at # admin[a].at
    <3>1. CASE PatchResolve(a)
      BY <3>1, ShapeFacts DEF PatchResolve
    <3>2. CASE PatchFill(a)
      BY <3>2, ShapeFacts DEF PatchFill
    <3> QED
      BY <1>4, <3>1, <3>2
  <2>2. PICK at, fill : /\ admin' = [admin EXCEPT ![a] = [admin[a] EXCEPT !.at = at, !.fill = fill]]
                        /\ at # admin[a].at
    BY <2>1
  <2>3. [admin[a] EXCEPT !.at = at, !.fill = fill].at = at
    BY <1>1 DEF AdminRec
  <2>4. admin'[a] = [admin[a] EXCEPT !.at = at, !.fill = fill]
    BY <2>2, ShapeFacts
  <2> QED
    BY <2>2, <2>3, <2>4
<1>5. CASE ReevaluateNext(a)
  <2>1. PICK s \in admin[a].todo :
           admin' = [admin EXCEPT ![a] = [NoAdmin EXCEPT !.at = "settings", !.srv = s, !.todo = admin[a].todo \ {s}]]
    BY <1>5 DEF ReevaluateNext, Reevaluate
  <2>2. [NoAdmin EXCEPT !.at = "settings", !.srv = s, !.todo = admin[a].todo \ {s}].todo = admin[a].todo \ {s}
    BY DEF NoAdmin
  <2>3. admin'[a].todo # admin[a].todo
    BY <2>1, <2>2, ShapeFacts
  <2> QED
    BY <2>3
<1> QED
  BY <1>2, <1>3, <1>4, <1>5 DEF AdminStep

Lifted(s) ==
    InForce(s) /\ ~InForce(s)' =>
        admin' # admin \/ ops' # ops \/ (job.id = s /\ job.row # rows[s])

LEMMA NextLifted ==
  ASSUME Shape, [Next]_vars, NEW s \in Servers
  PROVE  Lifted(s)
<1> SUFFICES ASSUME InForce(s), admin' = admin, ops' = ops, job.id = s => job.row = rows[s]
             PROVE  InForce(s)'
  BY DEF Lifted
<1>0. ops \in Nat
  BY AuditAssumption DEF Shape, TypeOK, AuditAssumption
<1>1. CASE UNCHANGED <<rows, results, ignores, settings>>
  BY <1>1, StillInForce DEF settings
<1>2. CASE EngineFails
  <2>1. /\ rows' = rows /\ ignores' = ignores /\ actions' = actions
        /\ results' = IF job.id = Self THEN results
                      ELSE [results EXCEPT ![job.id] =
                               [status |-> "error", findings |-> {}, cfg |-> job.row.cfg]]
        /\ results \in [Servers -> Result \cup {Nobody}]
    BY <1>2 DEF EngineFails, settings, Shape, TypeOK
  <2>2. results'[s] = results[s] \/ Blank(results'[s])
    BY <2>1 DEF Blank
  <2> QED
    BY <2>1, <2>2, StillInForce
<1>3. ASSUME NEW f \in Reports, EngineAnswers(f)
      PROVE  InForce(s)'
  BY <1>3, VerdictInForce
<1>4. CASE JobEnds \/ WorkerEnds
  <2>1. /\ rows' = rows /\ ignores' = ignores /\ actions' = actions
        /\ results' = results \/ (queue # <<>> /\ \E row : Takes(Head(queue), row))
    BY <1>4 DEF JobEnds, WorkerEnds, settings
  <2>2. results'[s] = results[s] \/ Blank(results'[s])
    BY <2>1, HeadBlank
  <2> QED
    BY <2>1, <2>2, StillInForce
<1>5. CASE RunStep
  <2>1. /\ rows' = rows /\ ignores' = ignores /\ actions' = actions
        /\ results' = results \/ \E id \in Ids : \E row : Takes([id |-> id, by |-> Self], row)
    BY <1>5 DEF RunStep, RunServer, Push, settings, Shape, TypeOK
  <2>2. \A id \in Ids : [id |-> id, by |-> Self] \in Waiting
    BY DEF Waiting
  <2>3. results'[s] = results[s] \/ Blank(results'[s])
    BY <2>1, <2>2, TakesBlank
  <2> QED
    BY <2>1, <2>3, StillInForce
<1>6. ASSUME NEW t \in Servers, AdmitRefused(t)
      PROVE  InForce(s)'
  <2>1. /\ rows' = rows /\ ignores' = ignores /\ actions' = actions
        /\ results' = results \/ Enqueue(t, rows[t])
    BY <1>6 DEF AdmitRefused, settings
  <2>2. results'[s] = results[s] \/ Blank(results'[s])
    BY <2>1, EnqueueBlank
  <2> QED
    BY <2>1, <2>2, StillInForce
<1>7. ASSUME NEW t \in Servers, Acquire(t) \/ LaunchStep(t) \/ ProcessEnds(t)
      PROVE  InForce(s)'
  BY <1>1, <1>6, <1>7
     DEF LaunchStep, Acquire, AdmitFill, SpecFill, Fill, AdmitOk, Launch, LaunchFails, ProcessEnds
<1>8. ASSUME NEW x \in Stoppers, StopClosed(x) \/ StopHalted(x)
      PROVE  InForce(s)'
  BY <1>1, <1>8 DEF StopClosed, StopHalted
<1>9. CASE RunStart \/ Stop \/ Restart \/ \E c \in Callers, id \in Ids : ManualAudit(c, id)
  <2>1. Counted
    BY <1>9 DEF RunStart, Stop, Restart, ManualAudit
  <2> QED
    BY <1>0, <2>1 DEF Counted
<1>10. CASE \E a \in Admins : AdminCall(a) \/ AdminStep(a)
  BY <1>10, RequestsShow
<1>11. CASE UNCHANGED vars
  BY <1>1, <1>11 DEF vars
<1> QED
  BY <1>2, <1>3, <1>4, <1>5, <1>7, <1>8, <1>9, <1>10, <1>11 DEF Next, EngineStep

\* The quarantine or the disabling that the stored findings call for stays until an administrator
\* acts, or until the verdict of an audit that began before an administrator did
\* (apply of service.ts decides on the row it has read before the engine ran).
THEOREM HumansLift == Spec => OnlyHumansLift
<1>1. Shape /\ [Next]_vars =>
        [\A s \in Servers :
            InForce(s) /\ ~InForce(s)' =>
                admin' # admin \/ ops' # ops \/ (job.id = s /\ job.row # rows[s])]_vars
  BY NextLifted DEF Lifted
<1> QED
  BY <1>1, InitShape, NextShape, PTL DEF Spec, OnlyHumansLift

-----------------------------------------------------------------------------
(***************************************************************************)
(* A sanctioned server does not run.  Whoever bars a server stops it, and  *)
(* awaits the spawn that the gate has let through.  A PATCH bars a server  *)
(* unawares only if another request has switched it on since the PATCH     *)
(* read it (api/servers.ts), which the step writes down.                   *)
(***************************************************************************)
Barred(s) == rows[s] # Nobody /\ ~Allowed(rows[s])
Awaited(s) == \E x \in Stoppers : stops[x].srv = s /\ stops[x].at \in {"close", "spawn"}

Guarded(s) ==
    /\ Barred(s) /\ live[s] # Nobody => BeingStopped(s)
    /\ Barred(s) /\ launch[s].at \in {"specFill", "launch"} => Awaited(s)
    /\ Barred(s) /\ launch[s].at = "admit" /\ Allowed(launch[s].row) => Awaited(s)

Bites == \A s \in Servers \ (overtaken \cup outdated) : Guarded(s)

LEMMA BitesKept ==
  ASSUME Bites, Remembers,
         \A s \in Servers \ outdated' : Awaited(s)' \/ (Barred(s)' => Barred(s)),
         \A s \in Servers :
            /\ launch'[s] = launch[s] \/ launch'[s].at = "no"
            /\ live'[s] \in {live[s], Nobody}
            /\ BeingStopped(s) => BeingStopped(s)' \/ live'[s] = Nobody
            /\ Awaited(s) => Awaited(s)' \/ launch'[s].at = "no"
  PROVE  Bites'
<1>1. \A s \in Servers : Awaited(s)' => BeingStopped(s)'
  BY DEF Awaited, BeingStopped
<1> QED
  BY <1>1 DEF Bites, Guarded, Remembers

\* No stop call that goes on is forgotten.
LEMMA StopsGoOn ==
  ASSUME NEW x \in Stoppers, stops[x].at \in {"no", "done"},
         \A y \in Stoppers : y # x => stops'[y] = stops[y], NEW s
  PROVE  (BeingStopped(s) => BeingStopped(s)') /\ (Awaited(s) => Awaited(s)')
BY DEF BeingStopped, Awaited

LEMMA BitesQuietly ==
  ASSUME Bites, Remembers, UNCHANGED <<launch, live>>,
         stops' = stops
           \/ (\E x \in Stoppers : /\ stops[x].at \in {"no", "done"}
                                   /\ \A y \in Stoppers : y # x => stops'[y] = stops[y]),
         \A s \in Servers \ outdated' : Barred(s)' => Barred(s)
  PROVE  Bites'
<1>1. \A s \in Servers : (BeingStopped(s) => BeingStopped(s)') /\ (Awaited(s) => Awaited(s)')
  <2>1. CASE stops' = stops
    BY <2>1 DEF BeingStopped, Awaited
  <2>2. CASE \E x \in Stoppers : /\ stops[x].at \in {"no", "done"}
                                 /\ \A y \in Stoppers : y # x => stops'[y] = stops[y]
    BY <2>2, StopsGoOn
  <2> QED
    BY <2>1, <2>2
<1> QED
  BY <1>1, BitesKept

LEMMA SanctionedBars ==
  ASSUME NEW now \in Row, now # Nobody, NEW seen, NEW active, NEW act
  PROVE  LET new == Sanctioned(now, seen, active, act)
         IN  ~NewSanction(seen, act) /\ ~Allowed(new) => ~Allowed(now)
BY DEF Sanctioned, Lifts, Allowed, Row

\* A verdict that bars a server stops it.
LEMMA ApplyBites ==
  ASSUME Shape, Bites, Remembers, NEW x \in Stoppers, stops[x].at \in {"no", "done"}, NEW s \in Servers,
         NEW seen, NEW active, NEW act, Apply(x, s, seen, active, act),
         UNCHANGED <<launch, live>>
  PROVE  Bites'
<1>1. /\ rows \in [Servers -> Row \cup {Nobody}] /\ stops \in [Stoppers -> StopRec]
  BY DEF Shape, TypeOK, StopRec
<1>2. \A t \in Servers : t # s => rows'[t] = rows[t]
  BY <1>1 DEF Apply
<1>3. rows'[s] = Sanctioned(rows[s], seen, active, act) /\ (rows[s] = Nobody => rows'[s] = Nobody)
  BY <1>1 DEF Apply, Sanctioned
<1>4. ~NewSanction(seen, act) /\ Barred(s)' => Barred(s)
  BY <1>1, <1>3, SanctionedBars DEF Barred
<1>5. CASE ~NewSanction(seen, act)
  <2>1. stops' = stops
    BY <1>5 DEF Apply
  <2>2. \A t \in Servers : Barred(t)' => Barred(t)
    BY <1>2, <1>4, <1>5 DEF Barred
  <2> QED
    BY <2>1, <2>2, BitesQuietly
<1>6. CASE NewSanction(seen, act)
  <2>1. stops' = [stops EXCEPT ![x] = [at |-> "close", srv |-> s]]
    BY <1>6 DEF Apply
  <2>2. \A y \in Stoppers : y # x => stops'[y] = stops[y]
    BY <1>1, <2>1
  <2>3. Awaited(s)'
    BY <1>1, <2>1 DEF Awaited
  <2>4. \A t \in Servers : (BeingStopped(t) => BeingStopped(t)') /\ (Awaited(t) => Awaited(t)')
    BY <2>2, StopsGoOn
  <2>5. \A t \in Servers : Awaited(t)' \/ (Barred(t)' => Barred(t))
    BY <1>2, <2>3 DEF Barred
  <2> QED
    BY <2>4, <2>5, BitesKept
<1> QED
  BY <1>5, <1>6

LEMMA ReevaluateBites ==
  ASSUME Shape, Bites, Remembers, NEW a \in Admins, stops[a].at \in {"no", "done"}, NEW s \in Servers,
         NEW ig, NEW map, NEW at, NEW rest, Reevaluate(a, s, ig, map, at, rest),
         UNCHANGED <<launch, live>>
  PROVE  Bites'
<1>1. a \in Stoppers
  BY DEF Stoppers
<1>2. CASE UNCHANGED <<results, rows, cache, stops>>
  BY <1>2, BitesQuietly DEF Barred
<1>3. CASE \E active, act : Apply(a, s, rows[s], active, act)
  BY <1>1, <1>3, ApplyBites
<1> QED
  BY <1>2, <1>3 DEF Reevaluate

\* The gate looks at the row there is, and what it lets through is awaited.
LEMMA LaunchBites ==
  ASSUME Shape, Coherent, Bites, Remembers, NEW s \in Servers,
         Acquire(s) \/ LaunchStep(s) \/ ProcessEnds(s)
  PROVE  Bites'
<1>1. /\ launch \in [Servers -> LaunchRec] /\ stops \in [Stoppers -> StopRec]
      /\ rows' = rows
      /\ \A t \in Servers : Barred(t)' <=> Barred(t)
  BY DEF Shape, TypeOK, LaunchRec, StopRec, Acquire, LaunchStep, AdmitFill, SpecFill, Fill, AdmitOk,
         AdmitRefused, Launch, LaunchFails, ProcessEnds, Barred
<1>2. \A t \in Servers \ (overtaken' \cup outdated') : Guarded(t) /\ Follows(t)
  BY DEF Bites, Coherent, Remembers
<1>3. ASSUME live' = live, stops' = stops, NEW next, launch' = [launch EXCEPT ![s] = next],
             s \notin overtaken' \cup outdated' =>
                /\ next.at \in {"admitFill", "admit"} => next.row = rows[s]
                /\ next.at \in {"admitFill", "admit"} \/ (Barred(s) => Awaited(s))
      PROVE  Bites'
  <2>1. \A t \in Servers : (BeingStopped(t)' <=> BeingStopped(t)) /\ (Awaited(t)' <=> Awaited(t))
    BY <1>3 DEF BeingStopped, Awaited
  <2>2. launch'[s] = next /\ \A t \in Servers : t # s => launch'[t] = launch[t]
    BY <1>1, <1>3
  <2>3. ASSUME NEW t \in Servers \ (overtaken' \cup outdated'), t # s
        PROVE  Guarded(t)'
    <3>1. Guarded(t) /\ launch'[t] = launch[t] /\ live'[t] = live[t]
      BY <1>2, <1>3, <2>2, <2>3
    <3> QED
      BY <1>1, <2>1, <3>1 DEF Guarded, Allowed
  <2>4. ASSUME s \notin overtaken' \cup outdated'
        PROVE  Guarded(s)'
    <3>1. Barred(s) /\ live[s] # Nobody => BeingStopped(s)
      BY <1>2, <2>4 DEF Guarded
    <3>2. next.at = "admit" => ~(Barred(s)' /\ Allowed(next.row))
      BY <1>1, <1>3, <2>4 DEF Barred, Allowed
    <3>3. Barred(s)' /\ launch'[s].at \in {"specFill", "launch"} => Awaited(s)'
      BY <1>1, <1>3, <2>1, <2>2, <2>4
    <3>4. Barred(s)' /\ live'[s] # Nobody => BeingStopped(s)'
      BY <1>1, <1>3, <2>1, <3>1
    <3>5. Allowed(launch[s].row)' => Allowed(next.row)
      BY <2>2 DEF Allowed
    <3> QED
      BY <2>2, <3>2, <3>3, <3>4, <3>5 DEF Guarded, Allowed
  <2> QED
    BY <2>3, <2>4 DEF Bites
<1>4. ASSUME NEW filling, NEW step, Resolve(s, filling, step), live' = live, stops' = stops,
             \/ filling = "admitFill" /\ step = "admit"
             \/ s \notin overtaken' \cup outdated' => (Barred(s) => Awaited(s))
      PROVE  Bites'
  <2> DEFINE row == IF cache[s] # Nobody THEN cache[s] ELSE rows[s]
             at == IF cache[s] = Nobody /\ row.secret THEN filling ELSE step
  <2>0. PICK next : next = [at |-> at, row |-> row]
    OBVIOUS
  <2>1. launch' = [launch EXCEPT ![s] = next]
    BY <1>4, <2>0 DEF Resolve
  <2>2. s \notin overtaken' \cup outdated' => row = rows[s]
    BY <1>2 DEF Follows
  <2>3. at \in {filling, step}
    OBVIOUS
  <2> HIDE DEF row, at
  <2> QED
    BY <1>3, <1>4, <2>0, <2>1, <2>2, <2>3
<1>5. CASE Acquire(s) \/ AdmitOk(s)
  <2>1. CASE Acquire(s)
    BY <1>4, <2>1 DEF Acquire
  <2>2. CASE AdmitOk(s)
    <3>1. s \notin overtaken' \cup outdated' => (Barred(s) => Awaited(s))
      BY <1>2, <2>2 DEF AdmitOk, Guarded
    <3> QED
      BY <1>4, <2>2, <3>1 DEF AdmitOk
  <2> QED
    BY <1>5, <2>1, <2>2
<1>10. CASE AdmitFill(s) \/ SpecFill(s)
  <2>1. PICK step \in {"admit", "launch"} :
           /\ launch' = [launch EXCEPT ![s] = [launch[s] EXCEPT !.at = step]]
           /\ launch[s].at = IF step = "admit" THEN "admitFill" ELSE "specFill"
    BY <1>1, <1>10 DEF AdmitFill, SpecFill, Fill
  <2>0. PICK next : next = [launch[s] EXCEPT !.at = step]
    OBVIOUS
  <2>2. next.at = step /\ next.row = launch[s].row
    BY <1>1, <2>0 DEF LaunchRec
  <2>3. live' = live /\ stops' = stops
    BY <1>10 DEF AdmitFill, SpecFill, Fill
  <2>4. s \notin overtaken' \cup outdated' =>
           /\ step = "admit" => launch[s].row = rows[s]
           /\ step = "admit" \/ (Barred(s) => Awaited(s))
    BY <1>2, <2>1 DEF Guarded, Follows
  <2> QED
    BY <1>3, <2>0, <2>1, <2>2, <2>3, <2>4
<1>6. ASSUME Settle(s)
      PROVE  /\ launch'[s].at = "no" /\ \A t \in Servers : t # s => launch'[t] = launch[t]
             /\ \A t \in Servers : BeingStopped(t) => BeingStopped(t)'
             /\ \A t \in Servers : t # s /\ Awaited(t) => Awaited(t)'
             /\ Awaited(s) => BeingStopped(s)'
  <2>1. launch'[s].at = "no" /\ \A t \in Servers : t # s => launch'[t] = launch[t]
    BY <1>1, <1>6, Empties DEF Settle
  <2>2. \A x \in Stoppers : Resumed(x, s)
    BY <1>6, SettleTypes
  <2> QED
    BY <2>1, <2>2 DEF Resumed, BeingStopped, Awaited
<1>7. CASE AdmitRefused(s) \/ LaunchFails(s)
  <2>1. Settle(s) /\ live' = live
    BY <1>7 DEF AdmitRefused, LaunchFails
  <2> QED
    BY <1>1, <1>6, <2>1, BitesKept
<1>8. CASE Launch(s)
  <2>1. /\ Settle(s) /\ \A t \in Servers : t # s => live'[t] = live[t]
    BY <1>8 DEF Launch, Shape, TypeOK
  <2>2. s \notin overtaken' \cup outdated' /\ Barred(s) => BeingStopped(s)'
    BY <1>2, <1>6, <1>8, <2>1 DEF Launch, Guarded
  <2> QED
    BY <1>1, <1>2, <1>6, <2>1, <2>2 DEF Bites, Guarded, Allowed
<1>9. CASE ProcessEnds(s)
  <2>1. /\ launch' = launch /\ stops' = stops /\ \A t \in Servers : live'[t] \in {live[t], Nobody}
    BY <1>9 DEF ProcessEnds, Shape, TypeOK
  <2>2. \A t \in Servers : (BeingStopped(t)' <=> BeingStopped(t)) /\ (Awaited(t)' <=> Awaited(t))
    BY <2>1 DEF BeingStopped, Awaited
  <2> QED
    BY <1>1, <2>1, <2>2, BitesKept
<1> QED
  BY <1>5, <1>7, <1>8, <1>9, <1>10 DEF LaunchStep

\* A stop call ends when the process has.
LEMMA StopBites ==
  ASSUME Shape, Bites, Remembers, NEW x \in Stoppers, StopClosed(x) \/ StopHalted(x)
  PROVE  Bites'
<1>1. /\ stops \in [Stoppers -> StopRec] /\ stops[x] \in StopRec /\ stops[x].srv \in Servers
      /\ live \in [Servers -> Configs \cup {Nobody}]
      /\ UNCHANGED <<rows, launch>> /\ \A s \in Servers : Barred(s)' <=> Barred(s)
  BY DEF Shape, TypeOK, StopShape, StopRec, StopClosed, StopHalted, known, process, Barred
<1>2. PICK next \in {"spawn", "halt", "done"} : stops' = [stops EXCEPT ![x].at = next]
  BY DEF StopClosed, StopHalted
<1>3. /\ stops'[x].at = next /\ stops'[x].srv = stops[x].srv
      /\ \A y \in Stoppers : y # x => stops'[y] = stops[y]
  BY <1>1, <1>2 DEF StopRec
<1>4. CASE StopClosed(x)
  <2>1. /\ next \in {"spawn", "halt"} /\ live' = live
        /\ launch[stops[x].srv].at # "no" => next = "spawn"
    BY <1>1, <1>3, <1>4 DEF StopClosed, process
  <2>2. \A s \in Servers : BeingStopped(s) => BeingStopped(s)'
    BY <1>3, <2>1 DEF BeingStopped
  <2>3. \A s \in Servers : Awaited(s) => Awaited(s)' \/ launch[s].at = "no"
    BY <1>3, <2>1 DEF Awaited
  <2> QED
    BY <1>1, <2>1, <2>2, <2>3, BitesKept
<1>5. CASE StopHalted(x)
  <2>1. /\ stops[x].at = "halt" /\ live'[stops[x].srv] = Nobody
        /\ \A s \in Servers : live'[s] \in {live[s], Nobody}
    BY <1>1, <1>5 DEF StopHalted
  <2>2. \A s \in Servers : BeingStopped(s) => BeingStopped(s)' \/ s = stops[x].srv
    BY <1>3, <2>1 DEF BeingStopped
  <2>3. \A s \in Servers : Awaited(s) => Awaited(s)'
    BY <1>3, <2>1 DEF Awaited
  <2> QED
    BY <1>1, <2>1, <2>2, <2>3, BitesKept
<1> QED
  BY <1>4, <1>5

\* A request that patches a server knows whether it is enabled, or another was faster.
LEMMA PatchBites ==
  ASSUME Shape, Bites, Remembers, NEW a \in Admins, PatchWrite(a)
  PROVE  Bites'
<1>0. PICK s \in Servers : s = admin[a].srv
  BY ShapeFacts DEF PatchWrite, Fits
<1> DEFINE seen == admin[a].row
           new == IF rows[s] = Nobody THEN Nobody ELSE Patched(rows[s], seen, admin[a].patch)
           affects == new # Nobody /\ Affects(new, seen, admin[a].fill, admin[a].patch)
<1>1. /\ stops[a].at = "no" /\ admin[a].patch \in Patch /\ a \in Stoppers
      /\ rows \in [Servers -> Row \cup {Nobody}] /\ stops \in [Stoppers -> StopRec]
      /\ UNCHANGED <<launch, live>>
  BY ShapeFacts DEF PatchWrite, Fits, AdminRec, known, process
<1>2. /\ rows'[s] = new /\ \A t \in Servers : t # s => rows'[t] = rows[t]
  BY <1>0, <1>1 DEF PatchWrite
<1>3. s \notin outdated' /\ admin[a].patch.enabled = "off" => ~SwitchedOn(rows[s], seen)
  BY <1>0 DEF PatchWrite
<1>4. rows[s] = Nobody => new = Nobody
  OBVIOUS
<1>5. rows[s] # Nobody => new = Patched(rows[s], seen, admin[a].patch)
  OBVIOUS
<1>6. new # Nobody /\ new.enabled # seen.enabled => affects
  BY DEF Affects
<1>7. IF affects THEN stops' = [stops EXCEPT ![a] = [at |-> "close", srv |-> s]] ELSE stops' = stops
  BY <1>0 DEF PatchWrite
<1> HIDE DEF seen, new, affects
<1>8. s \notin outdated' /\ Barred(s)' /\ ~Barred(s) => affects
  <2>1. SUFFICES ASSUME s \notin outdated', Barred(s)', ~Barred(s)
                 PROVE  affects
    OBVIOUS
  <2>2. /\ rows[s] \in Row /\ rows[s] # Nobody /\ new = Patched(rows[s], seen, admin[a].patch)
        /\ new # Nobody /\ ~Allowed(new) /\ Allowed(rows[s])
    BY <1>1, <1>2, <1>4, <1>5, <2>1 DEF Barred
  <2>3. ~new.enabled /\ admin[a].patch.enabled = "off"
    <3>1. admin[a].patch.enabled \in {"keep", "on", "off"}
      BY <1>1 DEF Patch
    <3>2. /\ new.quarantined = rows[s].quarantined
          /\ new.enabled = IF admin[a].patch.enabled = "keep" THEN rows[s].enabled
                           ELSE admin[a].patch.enabled = "on"
      BY <1>1, <2>2, PatchedRow
    <3> QED
      BY <2>2, <3>1, <3>2 DEF Allowed
  <2>4. seen.enabled
    BY <1>3, <2>1, <2>2, <2>3 DEF SwitchedOn, Allowed
  <2> QED
    BY <1>6, <2>2, <2>3, <2>4
<1>9. CASE ~affects
  <2>1. stops' = stops
    BY <1>9, <1>7
  <2>2. \A t \in Servers \ outdated' : Barred(t)' => Barred(t)
    BY <1>2, <1>8, <1>9 DEF Barred
  <2> QED
    BY <1>1, <2>1, <2>2, BitesQuietly
<1>10. CASE affects
  <2>1. stops' = [stops EXCEPT ![a] = [at |-> "close", srv |-> s]]
    BY <1>10, <1>7
  <2>2. Awaited(s)' /\ \A y \in Stoppers : y # a => stops'[y] = stops[y]
    BY <1>1, <2>1 DEF Awaited
  <2>3. \A t \in Servers : (BeingStopped(t) => BeingStopped(t)') /\ (Awaited(t) => Awaited(t)')
    BY <1>1, <2>2, StopsGoOn
  <2>4. \A t \in Servers : Awaited(t)' \/ (Barred(t)' => Barred(t))
    BY <1>2, <2>2 DEF Barred
  <2> QED
    BY <1>1, <2>3, <2>4, BitesKept
<1> QED
  BY <1>9, <1>10

LEMMA AdminBites ==
  ASSUME Shape, Bites, Remembers, NEW a \in Admins, AdminCall(a) \/ AdminStep(a)
  PROVE  Bites'
<1>1. /\ a \in Stoppers /\ rows \in [Servers -> Row \cup {Nobody}] /\ stops \in [Stoppers -> StopRec]
      /\ admin[a].at \in {"none", "patchBody", "patchFill", "patch"} => stops[a].at = "no"
      /\ admin[a].todo \subseteq Servers
  BY ShapeFacts DEF Fits, AdminRec
<1>2. ASSUME NEW s \in Servers, NEW c \in Configs, NEW b \in BOOLEAN, Create(a, s, c, b)
      PROVE  Bites'
  <2>1. /\ UNCHANGED <<launch, live, stops>> /\ rows' = [rows EXCEPT ![s] = NewRow(c, b)]
    BY <1>2 DEF Create, process
  <2>2. Allowed(NewRow(c, b))
    BY DEF Allowed, NewRow
  <2>3. \A t \in Servers : Barred(t)' => Barred(t)
    BY <1>1, <2>1, <2>2 DEF Barred
  <2> QED
    BY <2>1, <2>3, BitesQuietly
<1>3. ASSUME NEW s \in Servers, LiftByHand(a, s)
      PROVE  Bites'
  <2>0. PICK new : new = [rows[s] EXCEPT !.quarantined = FALSE, !.reason = {}]
    OBVIOUS
  <2>1. /\ UNCHANGED <<launch, live, stops>> /\ rows' = [rows EXCEPT ![s] = new]
        /\ rows[s] # Nobody /\ rows[s].quarantined
    BY <1>3, <2>0 DEF LiftByHand, known, process
  <2>2. ~Allowed(rows[s])
    BY <2>1 DEF Allowed
  <2>3. \A t \in Servers : Barred(t)' => Barred(t)
    BY <1>1, <2>1, <2>2 DEF Barred
  <2> QED
    BY <2>1, <2>3, BitesQuietly
<1>4. ASSUME NEW s \in Servers, Delete(a, s)
      PROVE  Bites'
  <2>1. /\ UNCHANGED <<rows, launch, live>> /\ stops[a].at = "no"
        /\ stops' = [stops EXCEPT ![a] = [at |-> "close", srv |-> s]]
    BY <1>1, <1>4 DEF Delete, Asks, known, process
  <2>2. \A y \in Stoppers : y # a => stops'[y] = stops[y]
    BY <1>1, <2>1
  <2> QED
    BY <1>1, <2>1, <2>2, BitesQuietly DEF Barred
<1>5. CASE SwitchAudit(a) \/ \E s \in Servers, p \in Patches : PatchBegin(a, s, p)
  BY <1>5, BitesQuietly DEF SwitchAudit, PatchBegin, known, process, Barred
<1>6. CASE (\E s \in Servers, v \in Advisories : Ignore(a, s, v)) \/ (\E map \in ActionMaps : SetActions(a, map))
  <2>1. stops[a].at = "no" /\ UNCHANGED <<launch, live>>
    BY <1>1, <1>6 DEF Ignore, SetActions, Asks, known, process
  <2>2. \/ UNCHANGED <<results, rows, cache, stops>>
        \/ \E s \in Servers : \E ig, map, at, rest : Reevaluate(a, s, ig, map, at, rest)
    BY <1>6 DEF Ignore, SetActions
  <2> QED
    BY <2>1, <2>2, ReevaluateBites, BitesQuietly DEF Barred
<1>7. CASE ReevaluateNext(a)
  BY <1>1, <1>7, ReevaluateBites DEF ReevaluateNext, Settled, known, process
<1>8. CASE PatchRefused(a) \/ PatchResolve(a) \/ PatchFill(a)
  BY <1>8, BitesQuietly DEF PatchRefused, PatchResolve, PatchFill, known, process, Barred
<1>9. CASE PatchStopped(a) \/ ReevaluateEnds(a)
  <2>1. /\ UNCHANGED <<rows, launch, live>> /\ stops[a].at \in {"no", "done"}
        /\ stops' = [stops EXCEPT ![a] = NoStop]
    BY <1>9 DEF PatchStopped, ReevaluateEnds, Settled, known, process
  <2>2. \A y \in Stoppers : y # a => stops'[y] = stops[y]
    BY <1>1, <2>1
  <2> QED
    BY <1>1, <2>1, <2>2, BitesQuietly DEF Barred
<1>10. CASE DeleteStopped(a)
  <2>1. /\ UNCHANGED <<launch, live>> /\ stops[a].at = "done"
        /\ stops' = [stops EXCEPT ![a] = NoStop] /\ rows' = [rows EXCEPT ![admin[a].srv] = Nobody]
    BY <1>10 DEF DeleteStopped, known, process
  <2>2. \A y \in Stoppers : y # a => stops'[y] = stops[y]
    BY <1>1, <2>1
  <2>3. \A t \in Servers : Barred(t)' => Barred(t)
    BY <1>1, <2>1 DEF Barred
  <2> QED
    BY <1>1, <2>1, <2>2, <2>3, BitesQuietly
<1> QED
  BY <1>2, <1>3, <1>4, <1>5, <1>6, <1>7, <1>8, <1>9, <1>10, PatchBites DEF AdminCall, AdminStep

LEMMA NextBites == Shape /\ Coherent /\ Bites /\ [Next]_vars => Bites'
<1> SUFFICES ASSUME Shape, Coherent, Bites, [Next]_vars
             PROVE  Bites'
  OBVIOUS
<1>6. CASE Restart
  BY <1>6, Empties DEF Restart, Bites, Guarded
<1> SUFFICES ASSUME ~Restart
             PROVE  Bites'
  BY <1>6
<1> Remembers
  BY NextRemembers
<1>1. Self \in Stoppers
  BY DEF Stoppers
<1>2. CASE UNCHANGED vars
  BY <1>2, BitesQuietly DEF vars, known, process, Barred
<1>3. CASE EngineFails \/ WorkerEnds \/ RunStart \/ RunStep \/ Stop
           \/ \E c \in Callers, id \in Ids : ManualAudit(c, id)
  BY <1>3, BitesQuietly DEF EngineFails, WorkerEnds, RunStart, RunStep, ManualAudit, Stop, known,
                            process, Barred
<1>4. ASSUME NEW f \in Reports, EngineAnswers(f)
      PROVE  Bites'
  <2>1. UNCHANGED <<launch, live>> /\ stops[Self].at = "no"
    BY <1>1, <1>4 DEF EngineAnswers, known, process, Shape, JobShape, TypeOK
  <2>2. CASE job.id = Self
    BY <1>4, <2>1, <2>2, BitesQuietly DEF EngineAnswers, Barred
  <2>3. CASE job.id # Self
    <3>1. job.id \in Servers /\ \E active, act : Apply(Self, job.id, job.row, active, act)
      BY <1>4, <2>3 DEF EngineAnswers, Shape, JobShape, Ids
    <3> QED
      BY <1>1, <2>1, <3>1, ApplyBites
  <2> QED
    BY <2>2, <2>3
<1>5. CASE JobEnds
  <2>1. /\ UNCHANGED <<rows, launch, live>> /\ stops[Self].at \in {"no", "done"}
        /\ stops' = [stops EXCEPT ![Self] = NoStop]
    BY <1>1, <1>5 DEF JobEnds, known, process, Shape, JobShape
  <2>2. \A y \in Stoppers : y # Self => stops'[y] = stops[y]
    BY <2>1 DEF Shape, TypeOK
  <2> QED
    BY <1>1, <2>1, <2>2, BitesQuietly DEF Barred
<1>7. CASE \E s \in Servers : Acquire(s) \/ LaunchStep(s) \/ ProcessEnds(s)
  BY <1>7, LaunchBites
<1>8. CASE \E x \in Stoppers : StopClosed(x) \/ StopHalted(x)
  BY <1>8, StopBites
<1>9. CASE \E a \in Admins : AdminCall(a) \/ AdminStep(a)
  BY <1>9, AdminBites
<1> QED
  BY <1>2, <1>3, <1>4, <1>5, <1>7, <1>8, <1>9 DEF Next, EngineStep

\* A process of a server that is disabled or quarantined is about to be stopped, whatever was being
\* launched when the sanction fell and however many requests and audits write: the gate looks at
\* the row there is (gate.ts), and a stop awaits the spawn in flight (instance.ts).  Left out are
\* servers of which a row was written while a resolve decrypted the old one (registry.ts), and those
\* that a PATCH switched off that another had switched on since it read them (api/servers.ts).
THEOREM SanctionsBite == Spec => []NothingSanctionedRuns
<1>1. Init => Bites /\ Coherent
  <2> SUFFICES ASSUME Init
               PROVE  Bites /\ Coherent
    OBVIOUS
  <2> QED
    BY Empties DEF Init, Bites, Guarded, Coherent, Follows
<1>2. Bites => NothingSanctionedRuns
  BY DEF Bites, Guarded, Barred, NothingSanctionedRuns
<1> QED
  BY <1>1, <1>2, InitShape, NextShape, NextCoherent, NextBites, PTL DEF Spec
=============================================================================
