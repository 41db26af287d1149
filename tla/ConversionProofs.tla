--------------------------- MODULE ConversionProofs ---------------------------
(***************************************************************************)
(* Proofs about the two components in which what is named goes through     *)
(* conversions: Engines, where a package that is named in a registry entry *)
(* or a command line is saved, launched and audited, and becomes a list of *)
(* advisories, for any entries, texts and arguments, any audits, answers   *)
(* of uv, bun and osv.dev, batches and workers, and any number of failed   *)
(* calls, expired details and aborts; and Namespaces, where the name of a  *)
(* tool is joined with a prefix and split again, for any servers,          *)
(* namespaces, names, separators and requests.                             *)
(***************************************************************************)
EXTENDS Engines, Namespaces, SequenceTheorems, WellFoundedInduction, TLAPS

-----------------------------------------------------------------------------
(***************************************************************************)
(* The least of a set of numbers: the first of the advisories with one     *)
(* canonical id, and the first separator in a name.                        *)
(***************************************************************************)
Below == {ss \in Nat \X Nat : ss[1] < ss[2]}

LEMMA LeastNat ==
  ASSUME NEW S, S \subseteq Nat, S # {}
  PROVE  \E k \in S : \A l \in S : k <= l
<1>1. IsWellFoundedOn(Below, Nat)
  <2>1. Below = OpToRel(<, Nat)
    BY Zenon DEF OpToRel, Below
  <2> QED
    BY <2>1, NatLessThanWellFounded, Zenon
<1>2. PICK k \in S : \A l \in S : ~(<<l, k>> \in Below)
  BY <1>1, WFMin
<1>3. ASSUME NEW l \in S
      PROVE  k <= l
  <2>1. k \in Nat /\ l \in Nat
    OBVIOUS
  <2>2. l < k => <<l, k>> \in Below
    BY <2>1 DEF Below
  <2> QED
    BY <1>2, <2>1, <2>2
<1> QED
  BY <1>3

-----------------------------------------------------------------------------
(***************************************************************************)
(* Engines.                                                                *)
(***************************************************************************)
Kinds == {"unsupported", "npm", "pypi", "node-project", "self"}
NpmKinds == {"npm", "node-project", "self"}
States == {"idle", "resolve", "audit", "query", "details", "aliases", "done", "failed", "unsupported"}

(***************************************************************************)
(* What is known of a job j of audit a.  Until its packages have been      *)
(* looked up no worker waits.  Then each of their advisories is to be      *)
(* fetched, being fetched, there or withdrawn, and once the aliases are    *)
(* fetched they are all there; so they are when the findings are made.     *)
(***************************************************************************)
Fields == {"pc", "packages", "hits", "queue", "waiting", "workers", "got", "also", "findings"}

Shaped(j) ==
    /\ j = [field \in Fields |-> j[field]]
    /\ j.pc \in States /\ j.packages \in Seq(DOMAIN Vulns)

LookedUp(j) ==
    DOMAIN j.hits = DOMAIN j.packages /\ \A i \in DOMAIN j.packages : j.hits[i] = Vulns[j.packages[i]]

AllIn(j, ids) ==
    \A i \in DOMAIN j.packages : \A id \in Range(Vulns[j.packages[i]]) \ Withdrawn : id \in ids

Accounted(j) ==
    /\ j.pc \in {"idle", "resolve", "audit", "query"} => j.waiting = {}
    /\ j.pc \in {"idle", "resolve", "audit"} => j.packages = <<>>
    /\ j.pc = "details" => LookedUp(j) /\ AllIn(j, j.queue \cup j.waiting \cup j.got)
    /\ j.pc = "aliases" => LookedUp(j) /\ AllIn(j, j.got)

OfItsKind(j, kind) ==
    /\ j.pc \in {"query", "details", "aliases"} => kind = "pypi"
    /\ j.pc = "audit" => kind \in NpmKinds

\* Every advisory has its finding.
PypiComplete(j) ==
    \A i \in DOMAIN j.packages : \A id \in Range(Vulns[j.packages[i]]) \ Withdrawn :
        \E f \in j.findings : f.package = j.packages[i] /\ f.id = canonicalId(id)

NpmComplete(j, versions) ==
    {f.id : f \in j.findings} =
        {v.id : v \in {w \in NpmAdvisories : \E i \in versions :
                          i.package = w.package /\ i.version \in w.range}}

Reports(j, kind, versions) ==
    j.pc = "done" => PypiComplete(j) /\ (kind \in NpmKinds => NpmComplete(j, versions))

Good(j, kind, versions) ==
    Shaped(j) /\ Accounted(j) /\ OfItsKind(j, kind) /\ Reports(j, kind, versions)

Jobs ==
    /\ job = [a \in Auditors |-> job[a]]
    /\ \A a \in Auditors : Good(job[a], Kind(a), Versions(a))

\* Only what has come, or is known to be gone, is remembered.
Remembered ==
    /\ details = [id \in Ids |-> details[id]]
    /\ \A id \in Ids : /\ details[id].state \in {"none", "pending", "ok", "gone"}
                       /\ details[id].state = "gone" => id \in Withdrawn

\* A failed audit had a failed call, and who has a directory has not ended.
Traces ==
    /\ \A a \in Auditors : job[a].pc = "failed" => a \in hurt
    /\ \A a \in Auditors : a \in dirs => job[a].pc \in {"resolve", "audit"}

Inv == server \in [Auditors -> Saved \cup {Self}] /\ Jobs /\ Remembered /\ Traces

-----------------------------------------------------------------------------
(***************************************************************************)
(* Targets.                                                                *)
(***************************************************************************)
LEMMA TargetKinds ==
  ASSUME NEW kind \in Kinds, NEW specs
  PROVE  Target(kind, specs).kind \in Kinds
BY DEF Target, unsupported, Kinds

LEMMA AuditTargetKinds == \A row : auditTarget(row).kind \in Kinds
<1>1. \A specs : Target("npm", specs).kind \in Kinds /\ Target("pypi", specs).kind \in Kinds
  BY TargetKinds DEF Kinds
<1>2. unsupported.kind \in Kinds
  BY DEF unsupported, Kinds
<1>3. \A args : parseNpxArgs(args).kind \in Kinds
  BY <1>1, <1>2 DEF parseNpxArgs
<1>4. \A args : parseBunxArgs(args).kind \in Kinds
  BY <1>1, <1>2 DEF parseBunxArgs
<1>5. \A args : parseUvxArgs(args).kind \in Kinds
  BY <1>1, <1>2 DEF parseUvxArgs
<1>6. \A args : parseUvArgs(args).kind \in Kinds
  BY <1>1, <1>2, <1>5 DEF parseUvArgs
<1>7. \A row : [kind |-> "node-project", specs |-> {<<row.cwd>>}].kind \in Kinds
  BY DEF Kinds
<1> QED
  BY <1>2, <1>3, <1>4, <1>5, <1>6, <1>7 DEF auditTarget

LEMMA KindIs ==
  ASSUME NEW a \in Auditors
  PROVE  Kind(a) \in Kinds
BY AuditTargetKinds DEF Kind, TargetOf, Kinds

LEMMA KindStays ==
  ASSUME server' = server, NEW a \in Auditors
  PROVE  Kind(a)' = Kind(a) /\ Specs(a)' = Specs(a) /\ Versions(a)' = Versions(a)
BY DEF Kind, Specs, Versions

LEMMA CompiledIs ==
  ASSUME Inv, NEW a \in Auditors, Kind(a) = "pypi"
  PROVE  Compiled(Specs(a)) \in Seq(DOMAIN Vulns)
<1>1. server[a] # Self
  BY DEF Kind, TargetOf, Self, Server
<1>2. server[a] \in Saved
  BY <1>1 DEF Inv
<1> QED
  BY <1>2, CompiledAssumption DEF Specs

-----------------------------------------------------------------------------
(***************************************************************************)
(* The first of the advisories with one canonical id.                      *)
(***************************************************************************)
\* Of the advisories of a package that have come each has its finding.
LEMMA FindingsOfAll ==
  ASSUME NEW a \in Auditors, Shaped(job[a]), LookedUp(job[a]), AllIn(job[a], job[a].got),
         NEW i \in DOMAIN job[a].packages, NEW id \in Range(Vulns[job[a].packages[i]]) \ Withdrawn
  PROVE  \E f \in OsvFindings(a) : f.package = job[a].packages[i] /\ f.id = canonicalId(id)
<1> DEFINE hits == job[a].hits
           came == {k \in DOMAIN hits[i] : hits[i][k] \in job[a].got}
           same == {k \in came : canonicalId(hits[i][k]) = canonicalId(id)}
           finding(k) == [package |-> job[a].packages[i], id |-> canonicalId(hits[i][k]),
                          severity |-> severityFromOsv(hits[i][k], job[a].also)]
<1>1. hits[i] = Vulns[job[a].packages[i]] /\ i \in DOMAIN hits /\ id \in job[a].got
  BY DEF LookedUp, AllIn
<1>2. job[a].packages[i] \in DOMAIN Vulns
  BY DEF Shaped
<1>3. DOMAIN hits[i] \subseteq Nat
  <2>1. hits[i] \in Seq(DOMAIN Advisory)
    BY <1>1, <1>2, EnginesAssumption
  <2> QED
    BY <2>1
<1>4. PICK l \in DOMAIN hits[i] : hits[i][l] = id
  BY <1>1 DEF Range
<1>5. l \in same
  BY <1>1, <1>4
<1>6. same \subseteq Nat
  BY <1>3
<1>7. PICK k \in same : \A m \in same : k <= m
  BY <1>5, <1>6, LeastNat
<1>8. ASSUME NEW m \in came, m < k
      PROVE  canonicalId(hits[i][m]) # canonicalId(hits[i][k])
  <2>1. m \notin same
    BY <1>3, <1>6, <1>7, <1>8
  <2> QED
    BY <1>7, <1>8, <2>1
<1>9. finding(k) \in OsvFindings(a)
  <2>1. k \in {m \in came : \A n \in came :
                 n < m => canonicalId(hits[i][n]) # canonicalId(hits[i][m])}
    BY <1>7, <1>8
  <2> QED
    BY <1>1, <2>1 DEF OsvFindings
<1>10. finding(k).package = job[a].packages[i] /\ finding(k).id = canonicalId(id)
  BY <1>7
<1> QED
  BY <1>9, <1>10

-----------------------------------------------------------------------------
(***************************************************************************)
(* What the end of a fetch does to a job.                                  *)
(***************************************************************************)
LEMMA AfterIs ==
  ASSUME NEW jobs, NEW b \in Auditors, NEW id, NEW outcome \in {"ok", "gone", "rejected"},
         Shaped(jobs[b])
  PROVE  LET j == jobs[b]
             new == After(jobs, id, outcome)[b]
         IN  /\ Shaped(new) /\ new.packages = j.packages /\ new.hits = j.hits
             /\ new.queue = j.queue /\ new.findings = j.findings
             /\ id \notin j.waiting => new = j
             /\ id \in j.waiting =>
                   /\ new.waiting = j.waiting \ {id}
                   /\ \/ new.pc = j.pc /\ outcome = "gone" /\ new.got = j.got
                      \/ new.pc = j.pc /\ new.got = j.got /\ j.pc = "aliases"
                      \/ new.pc = j.pc /\ outcome = "ok" /\ new.got = j.got \cup {id}
                      \/ new.pc = "failed" /\ outcome = "rejected"
<1> DEFINE j == jobs[b]
           less == [j EXCEPT !.waiting = @ \ {id}]
<1>1. CASE id \notin j.waiting
  BY <1>1 DEF After
<1>2. CASE id \in j.waiting
  <2>1. After(jobs, id, outcome)[b] =
           CASE outcome = "gone" -> less
             [] outcome = "ok" /\ Tolerant(less) -> [less EXCEPT !.also = @ \cup {id}]
             [] outcome = "ok" /\ ~Tolerant(less) -> [less EXCEPT !.got = @ \cup {id}]
             [] outcome = "rejected" /\ Tolerant(less) -> less
             [] OTHER -> [less EXCEPT !.pc = "failed", !.workers = @ - 1]
    BY <1>2 DEF After
  <2>2. /\ Shaped(less) /\ less.pc = j.pc /\ less.packages = j.packages /\ less.hits = j.hits
        /\ less.queue = j.queue /\ less.waiting = j.waiting \ {id} /\ less.got = j.got
        /\ less.findings = j.findings
    BY DEF Shaped, Fields
  <2> HIDE DEF less
  <2>3. Tolerant(less) <=> j.pc = "aliases"
    BY <2>2 DEF Tolerant
  <2>4. CASE outcome = "gone" \/ (outcome = "rejected" /\ Tolerant(less))
    <3>1. After(jobs, id, outcome)[b] = less
      BY <2>1, <2>4
    <3> QED
      BY <1>2, <2>2, <2>3, <2>4, <3>1
  <2>5. CASE outcome = "ok" /\ Tolerant(less)
    <3> DEFINE new == [less EXCEPT !.also = @ \cup {id}]
    <3>1. /\ Shaped(new) /\ new.pc = less.pc /\ new.packages = less.packages /\ new.hits = less.hits
          /\ new.queue = less.queue /\ new.waiting = less.waiting /\ new.got = less.got
          /\ new.findings = less.findings
      BY <2>2 DEF Shaped, Fields
    <3>2. After(jobs, id, outcome)[b] = new
      BY <2>1, <2>5
    <3> HIDE DEF new
    <3> QED
      BY <1>2, <2>2, <2>3, <2>5, <3>1, <3>2
  <2>6. CASE outcome = "ok" /\ ~Tolerant(less)
    <3> DEFINE new == [less EXCEPT !.got = @ \cup {id}]
    <3>1. /\ Shaped(new) /\ new.pc = less.pc /\ new.packages = less.packages /\ new.hits = less.hits
          /\ new.queue = less.queue /\ new.waiting = less.waiting /\ new.got = less.got \cup {id}
          /\ new.findings = less.findings
      BY <2>2 DEF Shaped, Fields
    <3>2. After(jobs, id, outcome)[b] = new
      BY <2>1, <2>6
    <3> HIDE DEF new
    <3> QED
      BY <1>2, <2>2, <2>6, <3>1, <3>2
  <2>7. CASE outcome = "rejected" /\ ~Tolerant(less)
    <3> DEFINE new == [less EXCEPT !.pc = "failed", !.workers = @ - 1]
    <3>1. /\ Shaped(new) /\ new.pc = "failed" /\ new.packages = less.packages /\ new.hits = less.hits
          /\ new.queue = less.queue /\ new.waiting = less.waiting /\ new.findings = less.findings
      BY <2>2 DEF Shaped, Fields, States
    <3>2. After(jobs, id, outcome)[b] = new
      BY <2>1, <2>7
    <3> HIDE DEF new
    <3> QED
      BY <1>2, <2>2, <2>7, <3>1, <3>2
  <2> QED
    BY <2>4, <2>5, <2>6, <2>7
<1> QED
  BY <1>1, <1>2

\* It keeps a job good, and fails only who waited for a fetch that failed.
LEMMA AfterGood ==
  ASSUME NEW jobs, NEW b \in Auditors, NEW id, NEW outcome \in {"ok", "gone", "rejected"},
         NEW kind, NEW versions, Good(jobs[b], kind, versions), outcome = "gone" => id \in Withdrawn
  PROVE  LET j == jobs[b]
             new == After(jobs, id, outcome)[b]
         IN  /\ Good(new, kind, versions)
             /\ \/ new.pc = j.pc
                \/ new.pc = "failed" /\ outcome = "rejected" /\ id \in j.waiting
<1> DEFINE j == jobs[b]
           new == After(jobs, id, outcome)[b]
<1>1. /\ Shaped(new) /\ new.packages = j.packages /\ new.hits = j.hits
      /\ new.queue = j.queue /\ new.findings = j.findings
      /\ id \notin j.waiting => new = j
      /\ id \in j.waiting =>
            /\ new.waiting = j.waiting \ {id}
            /\ \/ new.pc = j.pc /\ outcome = "gone" /\ new.got = j.got
               \/ new.pc = j.pc /\ new.got = j.got /\ j.pc = "aliases"
               \/ new.pc = j.pc /\ outcome = "ok" /\ new.got = j.got \cup {id}
               \/ new.pc = "failed" /\ outcome = "rejected"
  BY AfterIs DEF Good
<1>2. Shaped(j) /\ Accounted(j) /\ OfItsKind(j, kind) /\ Reports(j, kind, versions)
  BY DEF Good
<1> HIDE DEF new, j
<1>3. ASSUME id \notin j.waiting
      PROVE  Good(new, kind, versions) /\ new.pc = j.pc
  BY <1>1, <1>2, <1>3 DEF Good
<1>4. ASSUME id \in j.waiting, new.pc = "failed"
      PROVE  Good(new, kind, versions)
  BY <1>1, <1>4 DEF Good, Accounted, OfItsKind, Reports
<1>5. ASSUME id \in j.waiting, new.pc = j.pc, j.pc # "failed"
      PROVE  Good(new, kind, versions)
  <2>1. \/ outcome = "gone" /\ new.got = j.got
        \/ new.got = j.got /\ j.pc = "aliases"
        \/ outcome = "ok" /\ new.got = j.got \cup {id}
    BY <1>1, <1>5
  <2>2. OfItsKind(new, kind) /\ Reports(new, kind, versions)
    <3>1. new.packages = j.packages /\ new.findings = j.findings
      BY <1>1
    <3>2. PypiComplete(j) => PypiComplete(new)
      BY <3>1 DEF PypiComplete
    <3>3. NpmComplete(j, versions) => NpmComplete(new, versions)
      BY <3>1 DEF NpmComplete
    <3> QED
      BY <1>2, <1>5, <3>2, <3>3 DEF OfItsKind, Reports
  <2>3. j.pc = "details" /\ AllIn(j, j.queue \cup j.waiting \cup j.got)
           => AllIn(new, new.queue \cup new.waiting \cup new.got)
    BY <1>1, <1>5, <2>1 DEF AllIn
  <2>4. AllIn(j, j.got) => AllIn(new, new.got)
    BY <1>1, <2>1 DEF AllIn
  <2>5. new.waiting \subseteq j.waiting
    BY <1>1, <1>5
  <2>6. Accounted(new)
    BY <1>1, <1>2, <1>5, <2>3, <2>4, <2>5 DEF Accounted, LookedUp
  <2> QED
    BY <1>1, <2>2, <2>6 DEF Good
<1>6. \/ id \notin j.waiting
      \/ id \in j.waiting /\ new.pc = j.pc
      \/ id \in j.waiting /\ new.pc = "failed" /\ outcome = "rejected"
  BY <1>1
<1> QED
  BY <1>3, <1>4, <1>5, <1>6 DEF new, j

-----------------------------------------------------------------------------
(***************************************************************************)
(* Steps.                                                                  *)
(***************************************************************************)
LEMMA InitInv == Init => Inv
<1> SUFFICES ASSUME Init
             PROVE  Inv
  OBVIOUS
<1>1. ASSUME NEW a \in Auditors
      PROVE  job[a] = Idle /\ Good(job[a], Kind(a), Versions(a))
  <2>1. job[a] = Idle
    BY DEF Init
  <2>2. Shaped(Idle) /\ Idle.pc = "idle" /\ Idle.waiting = {} /\ Idle.packages = <<>>
    <3>1. Idle = [field \in Fields |-> Idle[field]]
      BY DEF Idle, Fields
    <3>2. Idle.pc = "idle" /\ Idle.waiting = {} /\ Idle.packages = <<>>
      BY DEF Idle
    <3>3. <<>> \in Seq(DOMAIN Vulns)
      OBVIOUS
    <3> QED
      BY <3>1, <3>2, <3>3 DEF Shaped, States
  <2> QED
    BY <2>1, <2>2 DEF Good, Accounted, OfItsKind, Reports
<1>2. Jobs
  BY <1>1 DEF Init, Jobs
<1>3. Remembered
  BY DEF Init, Remembered, NoEntry
<1>4. Traces
  BY <1>1 DEF Init, Traces, Idle
<1> QED
  BY <1>2, <1>3, <1>4 DEF Init, Inv

\* What a step of audit a alone has to show.
LEMMA StepInv ==
  ASSUME Inv, NEW a \in Auditors, server' = server,
         job' = [b \in Auditors |-> job'[b]], \A b \in Auditors : b # a => job'[b] = job[b],
         Good(job'[a], Kind(a), Versions(a)), Remembered',
         job'[a].pc = "failed" => a \in hurt', hurt \subseteq hurt',
         \A b \in Auditors : b # a /\ b \in dirs' => b \in dirs,
         a \in dirs' => job'[a].pc \in {"resolve", "audit"}
  PROVE  Inv'
<1>1. Jobs'
  <2> SUFFICES ASSUME NEW b \in Auditors
               PROVE  Good(job[b], Kind(b), Versions(b))'
    BY DEF Jobs
  <2>1. Good(job'[b], Kind(b), Versions(b))
    BY DEF Inv, Jobs
  <2>2. Kind(b)' = Kind(b) /\ Versions(b)' = Versions(b)
    BY KindStays
  <2> QED
    BY <2>1, <2>2
<1>2. Traces'
  BY DEF Inv, Traces
<1> QED
  BY <1>1, <1>2 DEF Inv

LEMMA JobIs ==
  ASSUME Inv, NEW a \in Auditors
  PROVE  /\ job = [b \in Auditors |-> job[b]]
         /\ Shaped(job[a]) /\ Accounted(job[a]) /\ OfItsKind(job[a], Kind(a))
         /\ Good(job[a], Kind(a), Versions(a))
BY DEF Inv, Jobs, Good

\* A change of the program counter alone.
LEMMA GoIs ==
  ASSUME Inv, NEW a \in Auditors, NEW pc \in States, Go(a, pc)
  PROVE  /\ job' = [b \in Auditors |-> job'[b]] /\ \A b \in Auditors : b # a => job'[b] = job[b]
         /\ Shaped(job'[a]) /\ job'[a].pc = pc /\ job'[a].packages = job[a].packages
         /\ job'[a].waiting = job[a].waiting
BY JobIs DEF Go, Shaped, Fields

LEMMA FinishIs ==
  ASSUME Inv, NEW a \in Auditors, NEW findings, Finish(a, findings)
  PROVE  /\ job' = [b \in Auditors |-> job'[b]] /\ \A b \in Auditors : b # a => job'[b] = job[b]
         /\ Shaped(job'[a]) /\ job'[a].pc = "done" /\ job'[a].packages = job[a].packages
         /\ job'[a].findings = findings
BY JobIs DEF Finish, Shaped, Fields, States

LEMMA FailsInv ==
  ASSUME Inv, NEW a \in Auditors, AuditFails(a)
  PROVE  Inv'
<1>1. /\ Go(a, "failed") /\ hurt' = hurt \cup {a} /\ dirs' = dirs \ {a}
      /\ UNCHANGED <<server, details>>
  BY DEF AuditFails, FailedCall
<1>2. /\ job' = [b \in Auditors |-> job'[b]] /\ \A b \in Auditors : b # a => job'[b] = job[b]
      /\ Shaped(job'[a]) /\ job'[a].pc = "failed"
  BY <1>1, GoIs DEF States
<1>3. Good(job'[a], Kind(a), Versions(a))
  BY <1>2 DEF Good, Accounted, OfItsKind, Reports
<1>4. Remembered'
  BY <1>1 DEF Inv, Remembered
<1> QED
  BY <1>1, <1>2, <1>3, <1>4, StepInv

LEMMA StartsInv ==
  ASSUME Inv, NEW a \in Auditors, Start(a) \/ Install(a)
  PROVE  Inv'
<1>1. PICK pc \in {"unsupported", "resolve", "audit"} :
         /\ Go(a, pc) /\ UNCHANGED <<server, details, hurt>>
         /\ \/ dirs' = dirs /\ (a \in dirs => pc = "audit") /\ (pc = "audit" => Kind(a) \in NpmKinds)
            \/ dirs' = dirs \cup {a} /\ pc = "resolve"
  <2>1. CASE Start(a)
    <3>1. a \notin dirs
      BY <2>1 DEF Start, Inv, Traces
    <3>2. UNCHANGED <<server, details, hurt>>
      BY <2>1 DEF Start
    <3>3. \/ Go(a, "unsupported") /\ dirs' = dirs
          \/ Go(a, "resolve") /\ dirs' = dirs \cup {a}
          \/ Go(a, "audit") /\ dirs' = dirs /\ Kind(a) \in NpmKinds
      BY <2>1, KindIs DEF Start, Kinds, NpmKinds
    <3> QED
      BY <3>1, <3>2, <3>3
  <2>2. CASE Install(a)
    BY <2>2 DEF Install, NpmKinds
  <2> QED
    BY <2>1, <2>2
<1>2. /\ job' = [b \in Auditors |-> job'[b]] /\ \A b \in Auditors : b # a => job'[b] = job[b]
      /\ Shaped(job'[a]) /\ job'[a].pc = pc /\ job'[a].packages = job[a].packages
      /\ job'[a].waiting = job[a].waiting
  BY <1>1, GoIs DEF States
<1>3. job[a].packages = <<>> /\ job[a].waiting = {}
  BY JobIs DEF Start, Install, Accounted
<1>4. Good(job'[a], Kind(a), Versions(a))
  <2>1. pc = "audit" => Kind(a) \in NpmKinds
    BY <1>1
  <2> QED
    BY <1>2, <1>3, <2>1 DEF Good, Accounted, OfItsKind, Reports
<1>5. Remembered'
  BY <1>1 DEF Inv, Remembered
<1> QED
  BY <1>1, <1>2, <1>4, <1>5, StepInv

\* What bun audit says concerns what is locked, and what is installed is locked.
LEMMA NpmFindingsAre ==
  ASSUME NEW a \in Auditors
  PROVE  {f.id : f \in NpmFindings(a)} =
             {v.id : v \in {w \in NpmAdvisories : \E i \in Versions(a) :
                               i.package = w.package /\ i.version \in w.range}}
<1> DEFINE hit(v, installed) == \E i \in installed : i.package = v.package /\ i.version \in v.range
           locked == IF Kind(a) = "self" THEN Lock ELSE Versions(a)
           finding(v) == [package |-> v.package, id |-> v.id, severity |-> v.severity]
<1>1. Versions(a) \subseteq locked
  BY EnginesAssumption DEF Versions
<1>2. NpmFindings(a) = {finding(v) : v \in {w \in {v \in NpmAdvisories : hit(v, locked)} : hit(w, Versions(a))}}
  BY DEF NpmFindings
<1>3. {w \in {v \in NpmAdvisories : hit(v, locked)} : hit(w, Versions(a))} = {w \in NpmAdvisories : hit(w, Versions(a))}
  BY <1>1
<1>4. \A v : finding(v).id = v.id
  OBVIOUS
<1> HIDE DEF finding, locked
<1> QED
  BY <1>2, <1>3, <1>4

LEMMA AuditInv ==
  ASSUME Inv, NEW a \in Auditors, Audit(a)
  PROVE  Inv'
<1>1. /\ job[a].pc = "audit" /\ Finish(a, NpmFindings(a)) /\ dirs' = dirs \ {a}
      /\ UNCHANGED <<server, details, hurt>>
  BY DEF Audit
<1>2. /\ job' = [b \in Auditors |-> job'[b]] /\ \A b \in Auditors : b # a => job'[b] = job[b]
      /\ Shaped(job'[a]) /\ job'[a].pc = "done" /\ job'[a].packages = job[a].packages
      /\ job'[a].findings = NpmFindings(a)
  BY <1>1, FinishIs
<1>3. job'[a].packages = <<>>
  BY <1>1, <1>2, JobIs DEF Accounted
<1>4. Good(job'[a], Kind(a), Versions(a))
  <2>1. PypiComplete(job'[a])
    BY <1>3 DEF PypiComplete
  <2>2. NpmComplete(job'[a], Versions(a))
    BY <1>2, NpmFindingsAre DEF NpmComplete
  <2> QED
    BY <1>2, <2>1, <2>2 DEF Good, Accounted, OfItsKind, Reports
<1>5. Remembered'
  BY <1>1 DEF Inv, Remembered
<1> QED
  BY <1>1, <1>2, <1>4, <1>5, StepInv

LEMMA ElsewhereInv ==
  ASSUME Inv, NEW a \in Auditors, AuditElsewhere(a) \/ Abort(a)
  PROVE  Inv'
<1>1. /\ UNCHANGED <<server, job, details, hurt>>
      /\ dirs' = dirs \/ (dirs' = dirs \cup {a} /\ job[a].pc = "audit")
  BY DEF AuditElsewhere, Abort
<1>2. Remembered' /\ job' = [b \in Auditors |-> job'[b]]
  BY <1>1, JobIs DEF Inv, Remembered
<1>3. Good(job'[a], Kind(a), Versions(a))
  BY <1>1, JobIs
<1>4. /\ job'[a].pc = "failed" => a \in hurt'
      /\ a \in dirs' => job'[a].pc \in {"resolve", "audit"}
  BY <1>1 DEF Inv, Traces
<1> QED
  BY <1>1, <1>2, <1>3, <1>4, StepInv

LEMMA CompileInv ==
  ASSUME Inv, NEW a \in Auditors, Compile(a)
  PROVE  Inv'
<1> DEFINE packages == Compiled(Specs(a))
<1>1. /\ job[a].pc = "resolve" /\ Kind(a) = "pypi" /\ dirs' = dirs \ {a}
      /\ UNCHANGED <<server, details, hurt>>
      /\ job' = [job EXCEPT ![a].pc = IF packages = <<>> THEN "done" ELSE "query",
                            ![a].packages = packages]
  BY DEF Compile
<1>2. packages \in Seq(DOMAIN Vulns)
  BY <1>1, CompiledIs
<1> HIDE DEF packages
<1>3. /\ job' = [b \in Auditors |-> job'[b]] /\ \A b \in Auditors : b # a => job'[b] = job[b]
      /\ Shaped(job'[a]) /\ job'[a].pc = (IF packages = <<>> THEN "done" ELSE "query")
      /\ job'[a].packages = packages /\ job'[a].waiting = job[a].waiting
  BY <1>1, <1>2, JobIs DEF Shaped, Fields, States
<1>4. job'[a].waiting = {}
  BY <1>1, <1>3, JobIs DEF Accounted
<1>5. Good(job'[a], Kind(a), Versions(a))
  <2>1. CASE packages = <<>>
    <3>1. job'[a].pc = "done" /\ PypiComplete(job'[a])
      BY <1>3, <2>1 DEF PypiComplete
    <3> QED
      BY <1>1, <1>3, <3>1 DEF Good, Accounted, OfItsKind, Reports, NpmKinds
  <2>2. CASE packages # <<>>
    <3>1. job'[a].pc = "query"
      BY <1>3, <2>2
    <3> QED
      BY <1>1, <1>3, <1>4, <3>1 DEF Good, Accounted, OfItsKind, Reports
  <2> QED
    BY <2>1, <2>2
<1>6. Remembered' /\ a \notin dirs' /\ job'[a].pc # "failed"
  BY <1>1, <1>3 DEF Inv, Remembered
<1> QED
  BY <1>1, <1>3, <1>5, <1>6, StepInv

LEMMA QueryInv ==
  ASSUME Inv, NEW a \in Auditors, Query(a)
  PROVE  Inv'
<1> DEFINE packages == job[a].packages
           end == Len(job[a].hits) + BatchSize
           hits == [i \in 1..(IF end < Len(packages) THEN end ELSE Len(packages)) |-> Vulns[packages[i]]]
           ids == UNION {Range(hits[i]) : i \in DOMAIN hits}
           next == IF end < Len(packages) THEN "query" ELSE IF ids = {} THEN "done" ELSE "details"
           queue == IF next = "query" THEN {} ELSE ids
<1>1. /\ job[a].pc = "query" /\ UNCHANGED <<server, details, hurt, dirs>>
      /\ job' = [job EXCEPT ![a].hits = hits, ![a].pc = next, ![a].queue = queue]
  BY DEF Query
<1>2. next \in {"query", "done", "details"}
  OBVIOUS
<1>3. next # "query" => /\ DOMAIN hits = 1..Len(packages)
                        /\ \A i \in 1..Len(packages) : hits[i] = Vulns[packages[i]]
                        /\ queue = ids
  OBVIOUS
<1>4. next = "done" => ids = {}
  OBVIOUS
<1>5. \A i \in DOMAIN hits : \A id \in Range(hits[i]) : id \in ids
  OBVIOUS
<1> HIDE DEF next, ids, hits, queue
<1>6. /\ job' = [b \in Auditors |-> job'[b]] /\ \A b \in Auditors : b # a => job'[b] = job[b]
      /\ Shaped(job'[a]) /\ job'[a].pc = next /\ job'[a].packages = packages
      /\ job'[a].hits = hits /\ job'[a].queue = queue /\ job'[a].waiting = job[a].waiting
  <2>1. job = [b \in Auditors |-> job[b]] /\ job[a] = [field \in Fields |-> job[a][field]]
    BY JobIs DEF Shaped
  <2>2. /\ job' = [b \in Auditors |-> job'[b]] /\ \A b \in Auditors : b # a => job'[b] = job[b]
        /\ job'[a] = [field \in Fields |-> job'[a][field]]
        /\ job'[a].pc = next /\ job'[a].packages = packages
        /\ job'[a].hits = hits /\ job'[a].queue = queue /\ job'[a].waiting = job[a].waiting
    BY <1>1, <2>1 DEF Fields
  <2>3. next \in States /\ packages \in Seq(DOMAIN Vulns)
    BY <1>2, JobIs DEF Shaped, States
  <2> QED
    BY <2>2, <2>3 DEF Shaped
<1>7. job[a].waiting = {} /\ Kind(a) = "pypi" /\ DOMAIN packages = 1..Len(packages)
  <2>1. packages \in Seq(DOMAIN Vulns)
    BY JobIs DEF Shaped
  <2>2. job[a].waiting = {} /\ Kind(a) = "pypi"
    BY <1>1, JobIs DEF Accounted, OfItsKind
  <2> QED
    BY <2>1, <2>2
<1>8. Good(job'[a], Kind(a), Versions(a))
  <2>1. CASE next = "query"
    BY <1>6, <1>7, <2>1 DEF Good, Accounted, OfItsKind, Reports
  <2>2. CASE next = "done"
    <3>1. \A i \in DOMAIN packages : Range(Vulns[packages[i]]) = {}
      BY <1>3, <1>4, <1>5, <1>7, <2>2
    <3>2. PypiComplete(job'[a])
      BY <1>6, <3>1 DEF PypiComplete
    <3> QED
      BY <1>6, <1>7, <2>2, <3>2 DEF Good, Accounted, OfItsKind, Reports, NpmKinds
  <2>3. CASE next = "details"
    <3>1. LookedUp(job'[a])
      BY <1>3, <1>6, <1>7, <2>3 DEF LookedUp
    <3>2. \A i \in DOMAIN packages : \A id \in Range(Vulns[packages[i]]) : id \in queue
      BY <1>3, <1>5, <1>7, <2>3
    <3>3. AllIn(job'[a], job'[a].queue \cup job'[a].waiting \cup job'[a].got)
      BY <1>6, <3>2 DEF AllIn
    <3> QED
      BY <1>6, <1>7, <2>3, <3>1, <3>3 DEF Good, Accounted, OfItsKind, Reports
  <2> QED
    BY <1>2, <2>1, <2>2, <2>3
<1>9. Remembered' /\ a \notin dirs' /\ job'[a].pc # "failed"
  BY <1>1, <1>2, <1>6 DEF Inv, Remembered, Traces
<1> QED
  BY <1>1, <1>6, <1>8, <1>9, StepInv

\* A step that ends a fetch, or makes one.
LEMMA FetchInv ==
  ASSUME Inv, UNCHANGED <<server, dirs>>, Remembered', job' = [b \in Auditors |-> job'[b]],
         hurt \subseteq hurt',
         \A b \in Auditors : /\ Good(job'[b], Kind(b), Versions(b))
                             /\ job'[b].pc = job[b].pc \/ (job'[b].pc = "failed" /\ b \in hurt' /\ b \notin dirs)
  PROVE  Inv'
<1>1. Jobs'
  <2> SUFFICES ASSUME NEW b \in Auditors
               PROVE  Good(job[b], Kind(b), Versions(b))'
    BY DEF Jobs
  <2>1. Kind(b)' = Kind(b) /\ Versions(b)' = Versions(b)
    BY KindStays
  <2> QED
    BY <2>1
<1>2. Traces'
  BY DEF Inv, Traces
<1> QED
  BY <1>1, <1>2 DEF Inv

\* A fetch that succeeds fails no job.
LEMMA Succeeds ==
  ASSUME NEW jobs, NEW b \in Auditors, NEW id, NEW outcome \in {"ok", "gone"},
         NEW kind, NEW versions, Good(jobs[b], kind, versions), outcome = "gone" => id \in Withdrawn
  PROVE  /\ Good(After(jobs, id, outcome)[b], kind, versions)
         /\ After(jobs, id, outcome)[b].pc = jobs[b].pc
<1>1. outcome \in {"ok", "gone", "rejected"} /\ outcome # "rejected"
  OBVIOUS
<1>2. PICK o \in {"ok", "gone", "rejected"} : o = outcome
  BY <1>1
<1>3. Good(After(jobs, id, o)[b], kind, versions)
  BY <1>2, AfterGood
<1>4. \/ After(jobs, id, o)[b].pc = jobs[b].pc
      \/ After(jobs, id, o)[b].pc = "failed" /\ o = "rejected" /\ id \in jobs[b].waiting
  BY <1>2, AfterGood
<1> QED
  BY <1>1, <1>2, <1>3, <1>4

LEMMA TakeInv ==
  ASSUME Inv, NEW a \in Auditors, NEW id \in Ids, Take(a, id)
  PROVE  Inv'
<1> DEFINE taken == [job EXCEPT ![a].queue = @ \ {id}, ![a].waiting = @ \cup {id}]
<1>1. /\ job[a].pc \in {"details", "aliases", "failed"} /\ UNCHANGED <<server, dirs, hurt>>
      /\ \/ details' = [details EXCEPT ![id] = Pending(a)] /\ job' = taken
         \/ details' = details /\ job' = taken
         \/ details' = details /\ job' = After(taken, id, details[id].state)
               /\ details[id].state \in {"ok", "gone"}
  BY DEF Take, Inv, Remembered
<1>2. /\ taken = [b \in Auditors |-> taken[b]] /\ \A b \in Auditors : b # a => taken[b] = job[b]
      /\ Shaped(taken[a]) /\ taken[a].pc = job[a].pc /\ taken[a].packages = job[a].packages
      /\ taken[a].hits = job[a].hits /\ taken[a].queue = job[a].queue \ {id}
      /\ taken[a].waiting = job[a].waiting \cup {id} /\ taken[a].got = job[a].got
  BY JobIs DEF Shaped, Fields
<1> HIDE DEF taken
<1>3. ASSUME NEW b \in Auditors
      PROVE  Good(taken[b], Kind(b), Versions(b)) /\ taken[b].pc = job[b].pc
  <2>1. CASE b # a
    BY <1>2, <2>1, JobIs
  <2>2. CASE b = a
    <3>1. Accounted(job[a]) /\ OfItsKind(job[a], Kind(a))
      BY JobIs
    <3>2. AllIn(job[a], job[a].queue \cup job[a].waiting \cup job[a].got)
             => AllIn(taken[a], taken[a].queue \cup taken[a].waiting \cup taken[a].got)
      BY <1>2 DEF AllIn
    <3>3. AllIn(job[a], job[a].got) => AllIn(taken[a], taken[a].got)
      BY <1>2 DEF AllIn
    <3>4. LookedUp(job[a]) => LookedUp(taken[a])
      BY <1>2 DEF LookedUp
    <3>5. Accounted(taken[a]) /\ OfItsKind(taken[a], Kind(a)) /\ taken[a].pc # "done"
      BY <1>1, <1>2, <3>1, <3>2, <3>3, <3>4 DEF Accounted, OfItsKind
    <3> QED
      BY <1>2, <2>2, <3>5 DEF Good, Reports
  <2> QED
    BY <2>1, <2>2
<1>4. Remembered'
  <2>1. CASE details' = details
    BY <2>1 DEF Inv, Remembered
  <2>2. CASE details' = [details EXCEPT ![id] = Pending(a)]
    BY <2>2 DEF Inv, Remembered, Pending
  <2> QED
    BY <1>1, <2>1, <2>2
<1>5. CASE job' = taken
  BY <1>1, <1>2, <1>3, <1>4, <1>5, FetchInv
<1>6. CASE job' = After(taken, id, details[id].state) /\ details[id].state \in {"ok", "gone"}
  <2>1. PICK outcome \in {"ok", "gone"} : outcome = details[id].state
    BY <1>6
  <2>2. job' = After(taken, id, outcome) /\ (outcome = "gone" => id \in Withdrawn)
    BY <1>6, <2>1 DEF Inv, Remembered
  <2>3. job' = [b \in Auditors |-> job'[b]]
    BY <2>2 DEF After
  <2>4. ASSUME NEW b \in Auditors
        PROVE  Good(job'[b], Kind(b), Versions(b)) /\ job'[b].pc = job[b].pc
    <3>1. PICK jobs : jobs = taken
      OBVIOUS
    <3>2. Good(jobs[b], Kind(b), Versions(b)) /\ jobs[b].pc = job[b].pc /\ job' = After(jobs, id, outcome)
      BY <1>3, <2>2, <3>1
    <3> QED
      BY <2>2, <3>2, Succeeds
  <2> QED
    BY <1>1, <1>4, <2>3, <2>4, FetchInv
<1> QED
  BY <1>1, <1>5, <1>6

LEMMA AnswersInv ==
  ASSUME Inv, NEW id \in Ids, Answer(id) \/ Reject(id)
  PROVE  Inv'
<1>1. PICK outcome \in {"ok", "gone", "rejected"} :
         /\ job' = After(job, id, outcome) /\ UNCHANGED <<server, dirs>>
         /\ outcome = "gone" => id \in Withdrawn
         /\ details' = [details EXCEPT ![id] = IF outcome = "rejected" THEN NoEntry ELSE Settled(outcome)]
         /\ hurt \subseteq hurt'
         /\ outcome = "rejected" => \A b \in Auditors : id \in job[b].waiting => b \in hurt'
  <2>1. CASE Answer(id)
    BY <2>1 DEF Answer
  <2>2. CASE Reject(id)
    BY <2>2 DEF Reject, FailedEntry
  <2> QED
    BY <2>1, <2>2
<1>2. Remembered'
  BY <1>1 DEF Inv, Remembered, NoEntry, Settled
<1>3. job' = [b \in Auditors |-> job'[b]]
  BY <1>1 DEF After
<1>4. ASSUME NEW b \in Auditors
      PROVE  /\ Good(job'[b], Kind(b), Versions(b))
             /\ job'[b].pc = job[b].pc \/ (job'[b].pc = "failed" /\ b \in hurt' /\ b \notin dirs)
  <2>1. /\ Good(job'[b], Kind(b), Versions(b))
        /\ \/ job'[b].pc = job[b].pc
           \/ job'[b].pc = "failed" /\ outcome = "rejected" /\ id \in job[b].waiting
    BY <1>1, JobIs, AfterGood
  <2>2. id \in job[b].waiting => b \notin dirs
    BY JobIs DEF Accounted, Inv, Traces
  <2> QED
    BY <1>1, <2>1, <2>2
<1> QED
  BY <1>1, <1>2, <1>3, <1>4, FetchInv

LEMMA ExpireInv ==
  ASSUME Inv, NEW id \in Ids, Expire(id)
  PROVE  Inv'
<1>1. UNCHANGED <<server, job, dirs, hurt>> /\ details' = [details EXCEPT ![id] = NoEntry]
  BY DEF Expire
<1>2. Remembered'
  BY <1>1 DEF Inv, Remembered, NoEntry
<1>3. job' = [b \in Auditors |-> job'[b]] /\ \A b \in Auditors : Good(job'[b], Kind(b), Versions(b))
  BY <1>1 DEF Inv, Jobs
<1> QED
  BY <1>1, <1>2, <1>3, FetchInv

LEMMA DetailsDoneInv ==
  ASSUME Inv, NEW a \in Auditors, DetailsDone(a)
  PROVE  Inv'
<1>1. PICK missing : job' = [job EXCEPT ![a].pc = "aliases", ![a].queue = missing]
  BY DEF DetailsDone
<1>2. /\ job[a].pc = "details" /\ job[a].queue = {} /\ job[a].waiting = {}
      /\ UNCHANGED <<server, details, dirs, hurt>>
  BY DEF DetailsDone, Fetched
<1>3. /\ job' = [b \in Auditors |-> job'[b]] /\ \A b \in Auditors : b # a => job'[b] = job[b]
      /\ Shaped(job'[a]) /\ job'[a].pc = "aliases" /\ job'[a].packages = job[a].packages
      /\ job'[a].hits = job[a].hits /\ job'[a].got = job[a].got
  BY <1>1, JobIs DEF Shaped, Fields, States
<1>4. Good(job'[a], Kind(a), Versions(a))
  <2>1. Kind(a) = "pypi" /\ LookedUp(job[a]) /\ AllIn(job[a], job[a].got)
    BY <1>2, JobIs DEF Accounted, OfItsKind
  <2>2. LookedUp(job'[a]) /\ AllIn(job'[a], job'[a].got)
    BY <1>3, <2>1 DEF LookedUp, AllIn
  <2> QED
    BY <1>3, <2>1, <2>2 DEF Good, Accounted, OfItsKind, Reports
<1>5. Remembered' /\ a \notin dirs'
  BY <1>2 DEF Inv, Remembered, Traces
<1> QED
  BY <1>2, <1>3, <1>4, <1>5, StepInv

LEMMA AliasesDoneInv ==
  ASSUME Inv, NEW a \in Auditors, AliasesDone(a)
  PROVE  Inv'
<1>1. /\ job[a].pc = "aliases" /\ Finish(a, OsvFindings(a))
      /\ UNCHANGED <<server, details, dirs, hurt>>
  BY DEF AliasesDone
<1>2. /\ job' = [b \in Auditors |-> job'[b]] /\ \A b \in Auditors : b # a => job'[b] = job[b]
      /\ Shaped(job'[a]) /\ job'[a].pc = "done" /\ job'[a].packages = job[a].packages
      /\ job'[a].findings = OsvFindings(a)
  BY <1>1, FinishIs
<1>3. /\ Kind(a) = "pypi" /\ Shaped(job[a]) /\ LookedUp(job[a]) /\ AllIn(job[a], job[a].got)
  BY <1>1, JobIs DEF Accounted, OfItsKind
<1>4. PypiComplete(job'[a])
  BY <1>2, <1>3, FindingsOfAll DEF PypiComplete
<1>5. Good(job'[a], Kind(a), Versions(a))
  BY <1>2, <1>3, <1>4 DEF Good, Accounted, OfItsKind, Reports, NpmKinds
<1>6. Remembered' /\ a \notin dirs'
  BY <1>1 DEF Inv, Remembered, Traces
<1> QED
  BY <1>1, <1>2, <1>5, <1>6, StepInv

LEMMA NextInv == Inv /\ [Next]_vars => Inv'
<1> SUFFICES ASSUME Inv, [Next]_vars
             PROVE  Inv'
  OBVIOUS
<1>1. CASE Next
  BY <1>1, StartsInv, AuditInv, ElsewhereInv, FailsInv, CompileInv, QueryInv, TakeInv, DetailsDoneInv,
     AliasesDoneInv, AnswersInv, ExpireInv DEF Next
<1>2. CASE UNCHANGED vars
  <2>1. UNCHANGED <<server, job, details, dirs, hurt>>
    BY <1>2 DEF vars
  <2>2. Remembered' /\ job' = [b \in Auditors |-> job'[b]]
    BY <2>1 DEF Inv, Remembered, Jobs
  <2>3. \A b \in Auditors : Good(job'[b], Kind(b), Versions(b))
    BY <2>1 DEF Inv, Jobs
  <2> QED
    BY <2>1, <2>2, <2>3, FetchInv
<1> QED
  BY <1>1, <1>2

-----------------------------------------------------------------------------
\* The invariant of the audits, for any number of them.
THEOREM InvHolds == Spec => []Inv
BY InitInv, NextInv, PTL DEF Spec

\* FindingsAreComplete, for any audits and answers: an audit that ends well reports every
\* advisory of every package, whichever fetches it shared with other audits, and whichever
\* of those failed, expired or were cut off by an abort.
THEOREM Complete == Spec => []FindingsAreComplete
<1>1. Inv => FindingsAreComplete
  <2> SUFFICES ASSUME Inv, NEW a \in Auditors, job[a].pc = "done"
               PROVE  /\ PypiComplete(job[a])
                      /\ Kind(a) \in NpmKinds => NpmComplete(job[a], Versions(a))
    BY DEF FindingsAreComplete, PypiComplete, NpmComplete, NpmKinds
  <2> QED
    BY JobIs DEF Good, Reports
<1> QED
  BY <1>1, InvHolds, PTL

\* FailuresAreForgotten, for any audits and answers: the directory of an audit goes with it,
\* and it fails only of a call that failed while it waited for it.
THEOREM Forgotten == Spec => []FailuresAreForgotten
<1>1. Inv => FailuresAreForgotten
  BY DEF Inv, Traces, FailuresAreForgotten, Ended
<1> QED
  BY <1>1, InvHolds, PTL

-----------------------------------------------------------------------------
(***************************************************************************)
(* Loops over a sequence of arguments, and what they keep.                 *)
(***************************************************************************)

\* What holds at first and is kept from one turn to the next holds at every turn.
LEMMA Turns ==
  ASSUME NEW first \in Nat, NEW last \in Nat, NEW good, first \in good,
         \A i \in first..last : i # last /\ i \in good => i + 1 \in good
  PROVE  \A i \in first..last : i \in good
<1> DEFINE bad == {i \in first..last : i \notin good}
<1>1. ASSUME bad # {}
      PROVE  FALSE
  <2> bad \subseteq Nat
    OBVIOUS
  <2> HIDE DEF bad
  <2>1. PICK k \in bad : \A l \in bad : k <= l
    BY <1>1, LeastNat
  <2> USE DEF bad
  <2>2. k \in first..last /\ k # first /\ k \notin good
    BY <2>1
  <2>3. k - 1 \in first..last /\ k - 1 # last /\ (k - 1) + 1 = k
    BY <2>2
  <2>4. k - 1 \in good
    BY <2>1, <2>3
  <2> QED
    BY <2>2, <2>3, <2>4
<1> QED
  BY <1>1

\* The concatenation of the first parts, of one more at a time.
LEMMA Flattened ==
  ASSUME NEW S, NEW seqs \in Seq(Seq(S)), seqs # <<>>
  PROVE  \E f : /\ f \in [1..Len(seqs) -> Seq(S)] /\ f[1] = seqs[1]
                /\ \A i \in 1..Len(seqs) : i # 1 => f[i] = f[i - 1] \o seqs[i]
                /\ FlattenSeq(seqs) = f[Len(seqs)]
<1> DEFINE n == Len(seqs)
           Def(k, f) == f = [i \in 1..k |-> IF i = 1 THEN seqs[i] ELSE f[i - 1] \o seqs[i]]
<1>1. n \in Nat \ {0}
  OBVIOUS
<1>2. \A k \in 1..n : \E f : Def(k, f)
  <2> DEFINE good == {k \in 1..n : \E f : Def(k, f)}
  <2>1. 1 \in good
    <3>1. Def(1, [i \in 1..1 |-> seqs[i]])
      OBVIOUS
    <3>2. 1 \in 1..n
      BY <1>1
    <3> HIDE DEF Def
    <3> QED
      BY <3>1, <3>2
  <2>2. ASSUME NEW k \in 1..n, k # n, k \in good
        PROVE  k + 1 \in good
    <3>1. PICK f : Def(k, f)
      BY <2>2
    <3> DEFINE g == [i \in 1..(k + 1) |-> IF i = k + 1 THEN f[k] \o seqs[k + 1] ELSE f[i]]
    <3>2. ASSUME NEW i \in 1..(k + 1)
          PROVE  g[i] = IF i = 1 THEN seqs[i] ELSE g[i - 1] \o seqs[i]
      <4>1. CASE i = k + 1
        <5>1. i # 1 /\ i - 1 = k /\ k \in 1..(k + 1) /\ k # k + 1
          BY <1>1, <4>1
        <5>2. g[k] = f[k]
          BY <5>1
        <5>3. g[i] = f[k] \o seqs[i]
          BY <4>1
        <5> QED
          BY <5>1, <5>2, <5>3
      <4>2. CASE i # k + 1
        <5>1. i \in 1..k /\ (i # 1 => i - 1 \in 1..k)
          BY <1>1, <4>2
        <5>2. f[i] = IF i = 1 THEN seqs[i] ELSE f[i - 1] \o seqs[i]
          BY <3>1, <5>1
        <5>3. g[i] = f[i] /\ (i # 1 => g[i - 1] = f[i - 1])
          BY <1>1, <4>2, <5>1
        <5> QED
          BY <5>2, <5>3
      <4> QED
        BY <4>1, <4>2
    <3>3. Def(k + 1, g)
      BY <3>2
    <3> HIDE DEF g, Def
    <3>4. k + 1 \in 1..n
      BY <1>1, <2>2
    <3> QED
      BY <3>3, <3>4
  <2> HIDE DEF good
  <2>3. \A k \in 1..n : k \in good
    BY <1>1, <2>1, <2>2, Turns
  <2> QED
    BY <2>3 DEF good
<1> DEFINE f == CHOOSE g : Def(n, g)
<1>3. Def(n, f)
  <2>1. n \in 1..n
    BY <1>1
  <2> HIDE DEF Def, n
  <2>2. \E g : Def(n, g)
    BY <1>2, <2>1
  <2> QED
    BY <2>2, Zenon
<1>4. FlattenSeq(seqs) = f[n]
  BY <1>1 DEF FlattenSeq
<1> HIDE DEF f
<1>5. f[1] = seqs[1] /\ \A i \in 1..n : i # 1 => f[i] = f[i - 1] \o seqs[i]
  <2>1. \A i \in 1..n : f[i] = IF i = 1 THEN seqs[i] ELSE f[i - 1] \o seqs[i]
    BY <1>3
  <2>2. 1 \in 1..n
    BY <1>1
  <2> HIDE DEF n
  <2>3. f[1] = seqs[1]
    BY <2>1, <2>2
  <2>4. \A i \in 1..n : i # 1 => f[i] = f[i - 1] \o seqs[i]
    BY <2>1
  <2> QED
    BY <2>3, <2>4
<1>6. \A i \in 1..n : f[i] \in Seq(S)
  <2> DEFINE good == {i \in 1..n : f[i] \in Seq(S)}
  <2>1. 1 \in good
    BY <1>1, <1>5
  <2>2. ASSUME NEW i \in 1..n, i # n, i \in good
        PROVE  i + 1 \in good
    <3>1. i + 1 \in 1..n /\ i + 1 # 1 /\ (i + 1) - 1 = i
      BY <1>1, <2>2
    <3>2. f[i + 1] = f[i] \o seqs[i + 1]
      BY <1>5, <3>1
    <3>3. f[i] \in Seq(S) /\ seqs[i + 1] \in Seq(S)
      BY <2>2, <3>1
    <3>4. f[i + 1] \in Seq(S)
      BY <3>2, <3>3, ConcatProperties
    <3> QED
      BY <3>1, <3>4
  <2> HIDE DEF good
  <2>3. \A i \in 1..n : i \in good
    BY <1>1, <2>1, <2>2, Turns
  <2> QED
    BY <2>3 DEF good
<1>7. f \in [1..n -> Seq(S)]
  BY <1>3, <1>6
<1> QED
  BY <1>4, <1>5, <1>7

\* A flattened sequence of sequences, and one with a sequence put before it.
LEMMA FlattenIn ==
  ASSUME NEW S, NEW seqs \in Seq(Seq(S))
  PROVE  FlattenSeq(seqs) \in Seq(S)
<1>1. CASE seqs = <<>>
  <2>1. FlattenSeq(seqs) = <<>>
    BY <1>1 DEF FlattenSeq
  <2> QED
    BY <2>1
<1>2. CASE seqs # <<>>
  <2>1. PICK f : f \in [1..Len(seqs) -> Seq(S)] /\ FlattenSeq(seqs) = f[Len(seqs)]
    BY <1>2, Flattened
  <2>2. Len(seqs) \in 1..Len(seqs)
    BY <1>2
  <2> QED
    BY <2>1, <2>2
<1> QED
  BY <1>1, <1>2

LEMMA FlattenCons ==
  ASSUME NEW S, NEW x \in Seq(S), NEW seqs \in Seq(Seq(S))
  PROVE  FlattenSeq(<<x>> \o seqs) = x \o FlattenSeq(seqs)
<1> DEFINE all == <<x>> \o seqs
           n == Len(seqs)
<1>1. /\ all \in Seq(Seq(S)) /\ all # <<>> /\ Len(all) = n + 1 /\ n \in Nat /\ all[1] = x
      /\ \A i \in 1..n : all[i + 1] = seqs[i]
  <2>1. all \in Seq(Seq(S)) /\ Len(all) = n + 1 /\ n \in Nat
    OBVIOUS
  <2>2. \A i \in 1..(n + 1) : all[i] = IF i = 1 THEN x ELSE seqs[i - 1]
    OBVIOUS
  <2> HIDE DEF all
  <2>3. all # <<>>
    BY <2>1
  <2>4. all[1] = x
    BY <2>1, <2>2
  <2>5. ASSUME NEW i \in 1..n
        PROVE  all[i + 1] = seqs[i]
    <3>1. i + 1 \in 1..(n + 1) /\ i + 1 # 1 /\ (i + 1) - 1 = i
      BY <2>1
    <3> QED
      BY <2>2, <3>1
  <2> QED
    BY <2>1, <2>3, <2>4, <2>5
<1> HIDE DEF all
<1>2. PICK g : /\ g \in [1..Len(all) -> Seq(S)] /\ g[1] = all[1]
               /\ \A i \in 1..Len(all) : i # 1 => g[i] = g[i - 1] \o all[i]
               /\ FlattenSeq(all) = g[Len(all)]
  BY <1>1, Flattened
<1>3. CASE seqs = <<>>
  <2>1. FlattenSeq(seqs) = <<>>
    BY <1>3 DEF FlattenSeq
  <2>2. Len(all) = 1
    BY <1>1, <1>3
  <2> QED
    BY <1>1, <1>2, <2>1, <2>2 DEF all
<1>4. CASE seqs # <<>>
  <2>1. PICK f : /\ f \in [1..n -> Seq(S)] /\ f[1] = seqs[1]
                 /\ \A i \in 1..n : i # 1 => f[i] = f[i - 1] \o seqs[i]
                 /\ FlattenSeq(seqs) = f[n]
    BY <1>4, Flattened
  <2> DEFINE good == {i \in 1..n : g[i + 1] = x \o f[i]}
  <2>2. 1 \in good
    <3>1. 1 \in 1..n /\ 1 + 1 \in 1..Len(all) /\ 1 + 1 # 1 /\ (1 + 1) - 1 = 1
      BY <1>1, <1>4
    <3>2. g[1 + 1] = g[1] \o all[1 + 1]
      BY <1>2, <3>1
    <3>3. all[1 + 1] = seqs[1]
      BY <1>1, <3>1
    <3>4. g[1 + 1] = x \o f[1]
      BY <1>1, <1>2, <2>1, <3>2, <3>3
    <3> QED
      BY <3>1, <3>4
  <2>3. ASSUME NEW i \in 1..n, i # n, i \in good
        PROVE  i + 1 \in good
    <3>1. /\ i + 1 \in 1..n /\ i + 1 # 1 /\ (i + 1) - 1 = i
          /\ (i + 1) + 1 \in 1..Len(all) /\ (i + 1) + 1 # 1 /\ ((i + 1) + 1) - 1 = i + 1
      BY <1>1, <2>3
    <3>2. g[(i + 1) + 1] = g[i + 1] \o seqs[i + 1]
      BY <1>1, <1>2, <3>1
    <3>3. f[i + 1] = f[i] \o seqs[i + 1]
      BY <2>1, <3>1
    <3>4. f[i] \in Seq(S) /\ seqs[i + 1] \in Seq(S)
      <4>1. f[i] \in Seq(S)
        BY <2>1
      <4>2. seqs[i + 1] \in Seq(S)
        BY <3>1, ElementOfSeq
      <4> QED
        BY <4>1, <4>2
    <3>5. (x \o f[i]) \o seqs[i + 1] = x \o (f[i] \o seqs[i + 1])
      <4>1. \A y, z \in Seq(S) : (x \o y) \o z = x \o (y \o z)
        BY ConcatAssociative
      <4> QED
        BY <3>4, <4>1, Zenon
    <3> QED
      BY <2>3, <3>1, <3>2, <3>3, <3>5
  <2> HIDE DEF good
  <2>4. \A i \in 1..n : i \in good
    BY <1>1, <1>4, <2>2, <2>3, Turns
  <2>5. n \in 1..n
    BY <1>1, <1>4
  <2>6. g[n + 1] = x \o f[n]
    BY <2>4, <2>5 DEF good
  <2> QED
    BY <1>1, <1>2, <2>1, <2>6 DEF all
<1> QED
  BY <1>3, <1>4

\* Arguments none of which is empty are kept as they are.
LEMMA FilledSame ==
  ASSUME NEW A, NEW args \in Seq(A), \A i \in 1..Len(args) : args[i] # Blank
  PROVE  Filled(args) = args
<1> DEFINE seqs == [i \in DOMAIN args |-> IF args[i] = Blank THEN <<>> ELSE <<args[i]>>]
           n == Len(args)
<1>1. n \in Nat /\ DOMAIN args = 1..n
  OBVIOUS
<1>2. /\ seqs \in Seq(Seq(A)) /\ Len(seqs) = n
      /\ \A i \in 1..n : seqs[i] = <<args[i]>>
  <2>1. \A i \in 1..n : seqs[i] = <<args[i]>>
    BY <1>1
  <2>2. \A i \in 1..n : <<args[i]>> \in Seq(A)
    OBVIOUS
  <2>3. seqs = [i \in 1..n |-> seqs[i]]
    BY <1>1
  <2>4. \A i \in 1..n : seqs[i] \in Seq(A)
    BY <2>1, <2>2
  <2> HIDE DEF seqs, n
  <2>5. seqs \in Seq(Seq(A)) /\ Len(seqs) = n
    BY <1>1, <2>3, <2>4, IsASeq
  <2> QED
    BY <2>1, <2>5
<1>3. Filled(args) = FlattenSeq(seqs)
  BY DEF Filled
<1> HIDE DEF seqs, n
<1>4. CASE n = 0
  <2>1. FlattenSeq(seqs) = <<>>
    BY <1>2, <1>4 DEF FlattenSeq
  <2> QED
    BY <1>3, <1>4, <2>1 DEF n
<1>5. CASE n # 0
  <2>1. PICK f : /\ f \in [1..n -> Seq(A)] /\ f[1] = seqs[1]
                 /\ \A i \in 1..n : i # 1 => f[i] = f[i - 1] \o seqs[i]
                 /\ FlattenSeq(seqs) = f[n]
    <3>1. seqs # <<>>
      BY <1>1, <1>2, <1>5
    <3> QED
      BY <1>2, <3>1, Flattened
  <2> DEFINE good == {i \in 1..n : f[i] = SubSeq(args, 1, i)}
  <2>2. 1 \in good
    <3>1. 1 \in 1..n
      BY <1>1, <1>5
    <3>2. f[1] = <<args[1]>>
      BY <1>2, <2>1, <3>1
    <3>3. SubSeq(args, 1, 1) = <<args[1]>>
      <4>1. 1 \in 1..Len(args) /\ 1 \in 1..1 /\ 1 + 1 = 2
        BY <3>1 DEF n
      <4>2. SubSeq(args, 1, 1) = <<args[1]>> \o SubSeq(args, 2, 1)
        BY <4>1, SubSeqRecursiveFirst
      <4>3. SubSeq(args, 2, 1) = <<>>
        BY SubSeqEmpty
      <4>4. <<args[1]>> \o <<>> = <<args[1]>>
        OBVIOUS
      <4> QED
        BY <4>2, <4>3, <4>4
    <3> QED
      BY <3>1, <3>2, <3>3
  <2>3. ASSUME NEW i \in 1..n, i # n, i \in good
        PROVE  i + 1 \in good
    <3>1. i + 1 \in 1..n /\ i + 1 # 1 /\ (i + 1) - 1 = i
      BY <1>1, <2>3
    <3>2. f[i + 1] = SubSeq(args, 1, i) \o <<args[i + 1]>>
      BY <1>2, <2>1, <2>3, <3>1
    <3>3. SubSeq(args, 1, i + 1) = SubSeq(args, 1, i) \o <<args[i + 1]>>
      BY <3>1
    <3> QED
      BY <3>1, <3>2, <3>3
  <2> HIDE DEF good
  <2>4. \A i \in 1..n : i \in good
    BY <1>1, <1>5, <2>2, <2>3, Turns
  <2>5. n \in good
    BY <1>1, <1>5, <2>4
  <2>6. f[n] = SubSeq(args, 1, n)
    BY <2>5 DEF good
  <2>7. SubSeq(args, 1, n) = args
    BY DEF n
  <2> QED
    BY <1>3, <2>1, <2>6, <2>7
<1> QED
  BY <1>4, <1>5

\* Filled keeps what is no Blank, in its order.
LEMMA FilledIn ==
  ASSUME NEW A, NEW args \in Seq(A)
  PROVE  Filled(args) \in Seq(A)
<1> DEFINE seqs == [i \in DOMAIN args |-> IF args[i] = Blank THEN <<>> ELSE <<args[i]>>]
<1>1. seqs = [i \in 1..Len(args) |-> seqs[i]] /\ Len(args) \in Nat
  OBVIOUS
<1>2. \A i \in 1..Len(args) : seqs[i] \in Seq(A)
  OBVIOUS
<1>3. Filled(args) = FlattenSeq(seqs)
  BY DEF Filled
<1> HIDE DEF seqs
<1>4. seqs \in Seq(Seq(A))
  BY <1>1, <1>2, IsASeq
<1> QED
  BY <1>3, <1>4, FlattenIn

LEMMA FilledCons ==
  ASSUME NEW A, NEW w \in A, NEW args \in Seq(A), w # Blank
  PROVE  Filled(<<w>> \o args) = <<w>> \o Filled(args)
<1> DEFINE all == <<w>> \o args
           part(b) == IF b = Blank THEN <<>> ELSE <<b>>
           seqs == [i \in DOMAIN args |-> part(args[i])]
           n == Len(args)
<1>1. n \in Nat /\ DOMAIN args = 1..n /\ DOMAIN all = 1..(n + 1)
  OBVIOUS
<1>2. all[1] = w /\ \A i \in 1..(n + 1) : i # 1 => i - 1 \in 1..n /\ all[i] = args[i - 1]
  OBVIOUS
<1>3. seqs \in Seq(Seq(A)) /\ Len(seqs) = n
  <2>1. seqs = [i \in 1..n |-> seqs[i]]
    BY <1>1
  <2>2. \A i \in 1..n : seqs[i] \in Seq(A)
    BY <1>1
  <2> HIDE DEF seqs, n
  <2> QED
    BY <1>1, <2>1, <2>2, IsASeq
<1>4. [i \in DOMAIN all |-> part(all[i])] = <<<<w>>>> \o seqs
  <2>1. part(w) = <<w>>
    OBVIOUS
  <2>2. \A i \in 1..(n + 1) : part(all[i]) = IF i = 1 THEN <<w>> ELSE seqs[i - 1]
    BY <1>1, <1>2, <2>1
  <2> HIDE DEF all, part, seqs, n
  <2>3. <<<<w>>>> \o seqs = [i \in 1..(n + 1) |-> IF i = 1 THEN <<w>> ELSE seqs[i - 1]]
    BY <1>1, <1>3
  <2> QED
    BY <1>1, <2>2, <2>3
<1>5. Filled(all) = FlattenSeq(<<<<w>>>> \o seqs) /\ Filled(args) = FlattenSeq(seqs)
  BY <1>4 DEF Filled
<1>6. <<w>> \in Seq(A)
  OBVIOUS
<1> HIDE DEF seqs
<1> QED
  BY <1>3, <1>5, <1>6, FlattenCons

-----------------------------------------------------------------------------
(***************************************************************************)
(* The arguments that are built of a registry entry, and where the flags   *)
(* of its runner stand in them.                                            *)
(***************************************************************************)
Strings == STRING \cup {NoFlag, "--rm", "-i", "-y", "run", "<value>", "@", "==", ":"}
\* What an argument of a command line is, whatever its registry entry or pasted text is.
Arguments == [flag : Strings, value : Seq(Strings)]

\* An argument that is there: a flag, or a word that is not empty.
Plain == {arg \in Arguments : arg # Blank}

\* The arguments of registry entries and of pasted texts are among them.
LEMMA CommandIs == CommandArgument \subseteq Arguments /\ Blank \in Arguments
<1>1. Seq(STRING) \subseteq Seq(Strings) /\ STRING \subseteq Strings
  BY SeqMonotonic DEF Strings
<1>2. NoFlag \in Strings /\ <<>> \in Seq(Strings)
  BY DEF Strings
<1> HIDE DEF Strings
<1>3. CommandArgument \subseteq Arguments
  BY <1>1 DEF Arguments, CommandArgument
<1>4. Blank \in Arguments
  BY <1>2 DEF Arguments, Blank, Word
<1> QED
  BY <1>3, <1>4

\* What is built of the flags and the values of a registry entry is no Blank.
LEMMA FlagIsPlain == \A f \in Strings : f # NoFlag => Flag(f) \in Plain /\ ~IsWord(Flag(f))
<1> <<>> \in Seq(Strings)
  OBVIOUS
<1> HIDE DEF Strings
<1> QED
  BY DEF Plain, Arguments, IsWord, Flag, Blank, Word

LEMMA WordIsPlain == \A v \in Seq(Strings) : v # <<>> => Word(v) \in Plain /\ IsWord(Word(v))
<1> NoFlag \in Strings
  BY DEF Strings
<1> QED
  BY DEF Plain, Arguments, IsWord, Blank, Word

LEMMA PlainIsFilled == \A arg \in Plain : arg # Blank
BY DEF Plain

LEMMA PlainWord ==
  ASSUME NEW arg \in Plain, IsWord(arg)
  PROVE  /\ arg = Word(arg.value) /\ arg.value # <<>> /\ arg.value \in Seq(Strings)
         /\ Text(arg) = arg.value /\ arg.flag = NoFlag
<1>1. arg = [flag |-> arg.flag, value |-> arg.value] /\ arg.value \in Seq(Strings) /\ arg # Blank
  BY DEF Plain, Arguments
<1>2. arg.flag = NoFlag
  BY DEF IsWord
<1>3. arg = Word(arg.value)
  BY <1>1, <1>2 DEF Word
<1>4. arg.value # <<>>
  BY <1>1, <1>3 DEF Blank
<1> QED
  BY <1>1, <1>2, <1>3, <1>4 DEF Text

\* argumentValues drops what has neither a name nor a value.
LEMMA ArgumentsAre ==
  ASSUME NEW args \in Seq(RegistryArgument)
  PROVE  argumentValues(args) \in Seq(Plain)
<1> DEFINE of(arg) ==
        CASE arg.type # "named" -> <<IF arg.value = Blank THEN Placeholder ELSE arg.value>>
          [] arg.type = "named" /\ arg.name = Blank -> <<>>
          [] arg.type = "named" /\ arg.name # Blank /\ arg.value # Blank ->
               <<arg.name, arg.value>>
          [] OTHER ->
               IF ~arg.isRequired THEN <<>>
               ELSE IF arg.format = "boolean" THEN <<arg.name>>
               ELSE <<arg.name, Placeholder>>
           seqs == [i \in DOMAIN args |-> of(args[i])]
<1>1. Placeholder \in Plain
  <2>1. <<"<value>">> \in Seq(Strings)
    BY DEF Strings
  <2> QED
    BY <2>1, WordIsPlain DEF Placeholder
<1>2. ASSUME NEW arg \in RegistryArgument
      PROVE  of(arg) \in Seq(Plain)
  <2>1. arg.name \in Arguments /\ arg.value \in Arguments
    BY CommandIs DEF RegistryArgument
  <2>2. arg.name # Blank => arg.name \in Plain
    BY <2>1 DEF Plain
  <2>3. arg.value # Blank => arg.value \in Plain
    BY <2>1 DEF Plain
  <2>4. \A x, y \in Plain : <<x>> \in Seq(Plain) /\ <<x, y>> \in Seq(Plain)
    OBVIOUS
  <2>5. <<>> \in Seq(Plain)
    OBVIOUS
  <2> QED
    BY <1>1, <2>2, <2>3, <2>4, <2>5
<1>3. seqs = [i \in 1..Len(args) |-> seqs[i]] /\ Len(args) \in Nat
  OBVIOUS
<1>4. \A i \in 1..Len(args) : seqs[i] \in Seq(Plain)
  <2> HIDE DEF of
  <2>1. \A i \in 1..Len(args) : args[i] \in RegistryArgument /\ seqs[i] = of(args[i])
    OBVIOUS
  <2> QED
    BY <1>2, <2>1
<1>5. argumentValues(args) = FlattenSeq(seqs)
  BY DEF argumentValues
<1> HIDE DEF seqs
<1>6. seqs \in Seq(Seq(Plain))
  BY <1>3, <1>4, IsASeq
<1> QED
  BY <1>5, <1>6, FlattenIn

\* Exactly the values are words, each option that takes a value has one, and Dashes comes last.
Regular(given, takes) ==
    \A i \in 1..Len(given) :
        /\ IsWord(given[i]) <=> i # 1 /\ Awaits(given[i - 1], takes)
        /\ Awaits(given[i], takes) => i # Len(given)
        /\ given[i] = Dashes => i = Len(given)

\* A flag without a value does no harm before arguments that are regular.
LEMMA RegularCons ==
  ASSUME NEW takes, NEW given \in Seq(Plain), Regular(given, takes),
         NEW x \in Plain, ~IsWord(x), x.flag \notin takes, x # Dashes
  PROVE  Regular(<<x>> \o given, takes)
<1> DEFINE all == <<x>> \o given
           n == Len(given)
<1>1. n \in Nat /\ Len(all) = n + 1 /\ all[1] = x
  OBVIOUS
<1>2. \A i \in 1..(n + 1) : i # 1 => i - 1 \in 1..n /\ all[i] = given[i - 1]
  OBVIOUS
<1>3. ~Awaits(x, takes)
  BY DEF Awaits
<1> HIDE DEF all, n
<1>4. ASSUME NEW i \in 1..(n + 1)
      PROVE  /\ IsWord(all[i]) <=> i # 1 /\ Awaits(all[i - 1], takes)
             /\ Awaits(all[i], takes) => i # n + 1
             /\ all[i] = Dashes => i = n + 1
  <2>1. CASE i = 1
    BY <1>1, <1>3, <2>1
  <2>2. CASE i # 1
    <3>1. i - 1 \in 1..n /\ all[i] = given[i - 1]
      BY <1>2, <2>2
    <3>2. /\ IsWord(all[i]) <=> i - 1 # 1 /\ Awaits(given[(i - 1) - 1], takes)
          /\ Awaits(all[i], takes) => i - 1 # n
          /\ all[i] = Dashes => i - 1 = n
      BY <3>1 DEF Regular, n
    <3>3. i - 1 # 1 => all[i - 1] = given[(i - 1) - 1]
      BY <1>1, <1>2, <2>2, <3>1
    <3>4. i - 1 = 1 => all[i - 1] = x
      BY <1>1
    <3>5. (i - 1 # n => i # n + 1) /\ (i - 1 = n => i = n + 1)
      BY <1>1
    <3> QED
      BY <1>3, <2>2, <3>2, <3>3, <3>4, <3>5
  <2> QED
    BY <2>1, <2>2
<1> QED
  BY <1>1, <1>4 DEF Regular, all

\* The flag whose value is to come behind argument i of some.
PendingAt(given, takes, i) ==
    IF i = 0 \/ ~Awaits(given[i], takes) THEN NoFlag ELSE given[i].flag

\* In regular arguments exactly the values are words.
LEMMA ValuesAreWords ==
  ASSUME NEW takes, NEW given \in Seq(Plain), Regular(given, takes),
         NoFlag \notin takes, NEW i \in 1..Len(given)
  PROVE  /\ IsWord(given[i]) <=> PendingAt(given, takes, i - 1) # NoFlag
         /\ PendingAt(given, takes, Len(given)) = NoFlag
<1>1. Len(given) \in Nat
  OBVIOUS
<1>2. \A arg : Awaits(arg, takes) => arg.flag # NoFlag
  BY DEF Awaits
<1>3. IsWord(given[i]) <=> i # 1 /\ Awaits(given[i - 1], takes)
  BY DEF Regular
<1>4. ~Awaits(given[Len(given)], takes)
  <2>1. Len(given) \in 1..Len(given)
    BY <1>1
  <2> QED
    BY <2>1 DEF Regular
<1>5. i = 1 <=> i - 1 = 0
  OBVIOUS
<1> QED
  BY <1>2, <1>3, <1>4, <1>5 DEF PendingAt

\* Of the arguments of a registry entry Filled drops none.
LEMMA PlainFilled ==
  ASSUME NEW args \in Seq(Plain)
  PROVE  Filled(args) = args
<1>1. \A i \in 1..Len(args) : args[i] # Blank
  BY PlainIsFilled
<1> QED
  BY <1>1, FilledSame

\* Arguments before w and behind it.
LEMMA Built ==
  ASSUME NEW given \in Seq(Plain), NEW w \in Plain, NEW own \in Seq(Plain),
         NEW args, args = given \o <<w>> \o own, NEW m, m = Len(given)
  PROVE  /\ args \in Seq(Plain)
         /\ Len(args) \in Nat /\ m \in Nat /\ m < Len(args)
         /\ \A i \in 1..m : i \in 1..Len(args) /\ args[i] = given[i]
         /\ args[m + 1] = w
         /\ \A i \in 1..Len(args) :
               i > m + 1 => i - (m + 1) \in 1..Len(own) /\ args[i] = own[i - (m + 1)]
<1> DEFINE n == Len(own)
<1>1. args \in Seq(Plain) /\ m \in Nat /\ n \in Nat /\ Len(args) = m + 1 + n
  OBVIOUS
<1>2. \A i \in 1..m : args[i] = given[i]
  OBVIOUS
<1>3. args[m + 1] = w
  OBVIOUS
<1>4. \A i \in 1..(m + 1 + n) : i > m + 1 => args[i] = own[i - (m + 1)]
  OBVIOUS
<1> HIDE DEF n
<1>6. \A i \in 1..Len(args) : i > m + 1 => i - (m + 1) \in 1..n
  BY <1>1
<1>7. \A i \in 1..m : i \in 1..Len(args)
  BY <1>1
<1>8. m < Len(args) /\ Len(args) \in Nat
  BY <1>1
<1> QED
  BY <1>1, <1>2, <1>3, <1>4, <1>6, <1>7, <1>8 DEF n

LEMMA TextIs == \A arg \in Arguments : Text(arg) \in Seq(Strings)
<1> SUFFICES ASSUME NEW arg \in Arguments
             PROVE  Text(arg) \in Seq(Strings)
  OBVIOUS
<1>1. arg.flag \in Strings /\ arg.value \in Seq(Strings)
  BY DEF Arguments
<1>2. <<arg.flag>> \o arg.value \in Seq(Strings)
  BY <1>1
<1> QED
  BY <1>1, <1>2 DEF Text

LEMMA DashesIsFlag == ~IsWord(Dashes)
<1>1. Dashes.flag = "--"
  BY DEF Dashes, Flag
<1>2. "--" # NoFlag
  BY Zenon DEF NoFlag
<1> QED
  BY <1>1, <1>2 DEF IsWord

-----------------------------------------------------------------------------
(***************************************************************************)
(* parseOptions of regular arguments: before the name of the package there *)
(* is no positional, and behind it the first positional is that name.      *)
(***************************************************************************)
LEMMA OptionTurns ==
  ASSUME NEW args, Len(args) \in Nat, NEW spec
  PROVE  \E f : /\ f[0] = [collected |-> {}, positionals |-> <<>>, blocked |-> FALSE,
                           terminated |-> FALSE, pending |-> NoFlag]
                /\ \A i \in 1..Len(args) : f[i] = OptionStep(f[i - 1], args[i], spec)
                /\ parseOptions(args, spec) = f[Len(args)]
<1> DEFINE start == [collected |-> {}, positionals |-> <<>>, blocked |-> FALSE,
                     terminated |-> FALSE, pending |-> NoFlag]
           n == Len(args)
           Def(k, f) == f = [i \in 0..k |->
                                IF i = 0 THEN start ELSE OptionStep(f[i - 1], args[i], spec)]
<1>1. \A k \in 0..n : \E f : Def(k, f)
  <2> DEFINE good == {k \in 0..n : \E f : Def(k, f)}
  <2>1. 0 \in good
    <3>1. Def(0, [i \in 0..0 |-> start])
      OBVIOUS
    <3> HIDE DEF Def
    <3> QED
      BY <3>1
  <2>2. ASSUME NEW k \in 0..n, k # n, k \in good
        PROVE  k + 1 \in good
    <3>1. PICK f : Def(k, f)
      BY <2>2
    <3> DEFINE g == [i \in 0..(k + 1) |->
                        IF i = k + 1 THEN OptionStep(f[k], args[k + 1], spec) ELSE f[i]]
    <3>2. ASSUME NEW i \in 0..(k + 1)
          PROVE  g[i] = IF i = 0 THEN start ELSE OptionStep(g[i - 1], args[i], spec)
      <4> HIDE DEF start
      <4>1. CASE i = k + 1
        <5>1. i # 0 /\ i - 1 = k /\ k \in 0..(k + 1) /\ k # k + 1
          BY <4>1
        <5>2. g[k] = f[k]
          BY <5>1
        <5>3. g[i] = OptionStep(f[k], args[i], spec)
          BY <4>1
        <5> QED
          BY <5>1, <5>2, <5>3
      <4>2. CASE i # k + 1
        <5>1. i \in 0..k /\ (i # 0 => i - 1 \in 0..k)
          BY <4>2
        <5>2. f[i] = IF i = 0 THEN start ELSE OptionStep(f[i - 1], args[i], spec)
          BY <3>1, <5>1
        <5>3. g[i] = f[i] /\ (i # 0 => g[i - 1] = f[i - 1])
          BY <4>2, <5>1
        <5> QED
          BY <5>2, <5>3
      <4> QED
        BY <4>1, <4>2
    <3>3. Def(k + 1, g)
      BY <3>2
    <3> HIDE DEF g, Def
    <3>4. k + 1 \in 0..n
      BY <2>2
    <3> QED
      BY <3>3, <3>4
  <2> HIDE DEF good
  <2>3. \A k \in 0..n : k \in good
    BY <2>1, <2>2, Turns
  <2> QED
    BY <2>3 DEF good
<1> DEFINE f == CHOOSE g : Def(n, g)
<1>2. Def(n, f)
  <2>1. n \in 0..n
    OBVIOUS
  <2> HIDE DEF Def, n
  <2>2. \E g : Def(n, g)
    BY <1>1, <2>1
  <2> QED
    BY <2>2, Zenon
<1>3. parseOptions(args, spec) = f[n]
  BY DEF parseOptions
<1> HIDE DEF f
<1>4. \A i \in 0..n : f[i] = IF i = 0 THEN start ELSE OptionStep(f[i - 1], args[i], spec)
  BY <1>2
<1>5. 0 \in 0..n /\ \A i \in 1..n : i \in 0..n /\ i # 0
  OBVIOUS
<1> HIDE DEF start, n
<1>6. f[0] = start
  BY <1>4, <1>5
<1>7. \A i \in 1..n : f[i] = OptionStep(f[i - 1], args[i], spec)
  BY <1>4, <1>5
<1> QED
  BY <1>3, <1>6, <1>7 DEF start, n

\* Before the command: no positional.
Before(st, pending) ==
    st = [collected |-> st.collected, positionals |-> <<>>, blocked |-> st.blocked,
          terminated |-> st.terminated, pending |-> pending]

\* Behind it: the command is the first positional, and what some options say stays.
Behind(st, command, flags, said) ==
    /\ st = [collected |-> st.collected, positionals |-> st.positionals,
             blocked |-> st.blocked, terminated |-> st.terminated, pending |-> st.pending]
    /\ st.pending \notin flags /\ values(st, flags) = said
    /\ st.positionals \in Seq(Seq(Strings)) /\ st.positionals # <<>>
    /\ Head(st.positionals) = command

\* What an option adds that is collected.
Says(flag, value, flags) == IF flag \in flags THEN {value} ELSE {}

Collects(next, st, flag, value) ==
    next.collected = st.collected \cup {[flag |-> flag, value |-> value]}

LEMMA ValuesAdd ==
  ASSUME NEW st, NEW next, NEW flag, NEW value, NEW flags,
         Collects(next, st, flag, value)
  PROVE  values(next, flags) = values(st, flags) \cup Says(flag, value, flags)
<1> DEFINE c == [flag |-> flag, value |-> value]
<1>1. c.flag = flag /\ c.value = value
  OBVIOUS
<1> HIDE DEF c
<1>2. \A d : d \in next.collected <=> d \in st.collected \/ d = c
  BY DEF c, Collects
<1>3. \A v : v \in values(next, flags) <=> \E d \in next.collected : d.flag \in flags /\ v = d.value
  BY DEF values
<1>4. \A v : v \in values(st, flags) <=> \E d \in st.collected : d.flag \in flags /\ v = d.value
  BY DEF values
<1>5. \A v : v \in Says(flag, value, flags) <=> flag \in flags /\ v = value
  BY DEF Says
<1>6. \A v : v \in values(next, flags) <=> v \in values(st, flags) \/ v \in Says(flag, value, flags)
  BY <1>1, <1>2, <1>3, <1>4, <1>5
<1> QED
  BY <1>6

\* What an argument before the command adds to what the options say.
Told(pending, arg, flags) ==
    IF pending # NoFlag THEN Says(pending, Text(arg), flags)
    ELSE IF arg.value = <<>> THEN {} ELSE Says(arg.flag, arg.value, flags)

\* An argument before the command is a flag, or the value of the flag before it.
Comes(arg, st, pending, spec) ==
    /\ Before(st, pending) /\ st.terminated = FALSE
    /\ IsWord(arg) <=> pending # NoFlag
    /\ arg = Dashes => ~Awaits(arg, spec.value)

Went(next, arg, st, pending, spec, flags) ==
    /\ Before(next, IF Awaits(arg, spec.value) THEN arg.flag ELSE NoFlag)
    /\ arg # Dashes => next.terminated = FALSE
    /\ values(next, flags) = values(st, flags) \cup Told(pending, arg, flags)

LEMMA OptionBefore ==
  ASSUME NEW spec, NEW flags, flags \subseteq spec.value, NoFlag \notin spec.value,
         NEW st, NEW pending, NEW arg \in Plain, Comes(arg, st, pending, spec)
  PROVE  Went(OptionStep(st, arg, spec), arg, st, pending, spec, flags)
<1> DEFINE next == OptionStep(st, arg, spec)
           Whole(x) == x = [collected |-> x.collected, positionals |-> x.positionals,
                            blocked |-> x.blocked, terminated |-> x.terminated,
                            pending |-> x.pending]
<1>1. /\ st.pending = pending /\ st.positionals = <<>> /\ Whole(st) /\ st.terminated = FALSE
      /\ IsWord(arg) <=> pending # NoFlag
      /\ arg = Dashes => ~Awaits(arg, spec.value)
  BY DEF Before, Comes
<1>2. \A x : x.collected = st.collected => values(x, flags) = values(st, flags)
  BY DEF values
<1>3. CASE pending # NoFlag
  <2>1. ~Awaits(arg, spec.value)
    BY <1>1, <1>3 DEF IsWord, Awaits
  <2>2. next = [st EXCEPT !.collected = @ \cup {[flag |-> pending, value |-> Text(arg)]},
                          !.pending = NoFlag]
    BY <1>1, <1>3 DEF OptionStep
  <2> HIDE DEF next
  <2>3. /\ next.collected = st.collected \cup {[flag |-> pending, value |-> Text(arg)]}
        /\ next.positionals = <<>> /\ next.terminated = FALSE /\ next.pending = NoFlag
        /\ Whole(next)
    BY <1>1, <2>2
  <2>4. values(next, flags) = values(st, flags) \cup Says(pending, Text(arg), flags)
    <3>1. Collects(next, st, pending, Text(arg))
      BY <2>3 DEF Collects
    <3> QED
      BY <3>1, ValuesAdd
  <2> QED
    BY <1>3, <2>1, <2>3, <2>4 DEF Before, Told, next, Went
<1>4. CASE pending = NoFlag /\ arg = Dashes
  <2>1. next = [st EXCEPT !.terminated = TRUE]
    BY <1>1, <1>4, DashesIsFlag DEF OptionStep
  <2>2. arg.value = <<>>
    BY <1>4 DEF Dashes, Flag
  <2> HIDE DEF next
  <2>3. /\ next.collected = st.collected /\ next.positionals = <<>> /\ next.pending = NoFlag
        /\ Whole(next)
    BY <1>1, <1>4, <2>1
  <2> QED
    BY <1>1, <1>2, <1>4, <2>2, <2>3 DEF Before, Told, next, Went
<1>5. CASE pending = NoFlag /\ arg # Dashes
  <2> DEFINE blocked == st.blocked \/ arg.flag \in spec.blocked
             added == st.collected \cup {[flag |-> arg.flag, value |-> arg.value]}
  <2>1. ~IsWord(arg)
    BY <1>1, <1>5
  <2>2. CASE arg.flag \notin spec.value
    <3>1. next = [st EXCEPT !.blocked = blocked]
      BY <1>1, <1>5, <2>1, <2>2 DEF OptionStep
    <3> HIDE DEF next
    <3>2. /\ next.collected = st.collected /\ next.positionals = <<>> /\ next.pending = NoFlag
          /\ next.terminated = FALSE /\ Whole(next)
      BY <1>1, <1>5, <3>1
    <3>3. ~Awaits(arg, spec.value) /\ Told(pending, arg, flags) = {}
      BY <1>5, <2>2 DEF Awaits, Told, Says
    <3> QED
      BY <1>2, <3>2, <3>3 DEF Before, next, Went
  <2>3. CASE arg.flag \in spec.value /\ arg.value # <<>>
    <3>1. next = [st EXCEPT !.blocked = blocked, !.collected = added]
      BY <1>1, <1>5, <2>1, <2>3 DEF OptionStep
    <3> HIDE DEF next
    <3>2. /\ next.collected = added /\ next.positionals = <<>> /\ next.pending = NoFlag
          /\ next.terminated = FALSE /\ Whole(next)
      BY <1>1, <1>5, <3>1
    <3>3. values(next, flags) = values(st, flags) \cup Says(arg.flag, arg.value, flags)
      <4>1. Collects(next, st, arg.flag, arg.value)
        BY <3>2 DEF Collects
      <4> QED
        BY <4>1, ValuesAdd
    <3>4. ~Awaits(arg, spec.value) /\ Told(pending, arg, flags) = Says(arg.flag, arg.value, flags)
      BY <1>5, <2>3 DEF Awaits, Told
    <3> QED
      BY <3>2, <3>3, <3>4 DEF Before, next, Went
  <2>4. CASE arg.flag \in spec.value /\ arg.value = <<>>
    <3>1. next = [st EXCEPT !.blocked = blocked, !.pending = arg.flag]
      BY <1>1, <1>5, <2>1, <2>4 DEF OptionStep
    <3> HIDE DEF next
    <3>2. /\ next.collected = st.collected /\ next.positionals = <<>> /\ next.pending = arg.flag
          /\ next.terminated = FALSE /\ Whole(next)
      BY <1>1, <3>1
    <3>3. Awaits(arg, spec.value) /\ Told(pending, arg, flags) = {}
      BY <1>5, <2>4 DEF Awaits, Told
    <3> QED
      BY <1>2, <3>2, <3>3 DEF Before, next, Went
  <2> QED
    BY <2>2, <2>3, <2>4
<1> QED
  BY <1>3, <1>4, <1>5

\* The command is the first word that is no flag's value.
LEMMA OptionName ==
  ASSUME NEW spec, NEW flags, NoFlag \notin flags, NEW st, Before(st, NoFlag),
         NEW command \in Seq(Strings)
  PROVE  Behind(OptionStep(st, Word(command), spec), command, flags, values(st, flags))
<1> DEFINE next == OptionStep(st, Word(command), spec)
<1>1. IsWord(Word(command)) /\ Text(Word(command)) = command
  BY DEF IsWord, Word, Text
<1>2. st.pending = NoFlag /\ st.positionals = <<>>
  BY DEF Before
<1>3. next = [st EXCEPT !.positionals = Append(@, command)]
  <2> DEFINE w == Word(command)
  <2>1. IsWord(w) /\ Text(w) = command /\ w # Dashes
    BY <1>1, DashesIsFlag
  <2> HIDE DEF w
  <2>2. OptionStep(st, w, spec) = [st EXCEPT !.positionals = Append(@, command)]
    BY <1>2, <2>1 DEF OptionStep
  <2> QED
    BY <2>2 DEF w
<1> HIDE DEF next
<1>4. next.collected = st.collected /\ next.positionals = <<command>> /\ next.pending = NoFlag
  BY <1>2, <1>3 DEF Before
<1>5. next = [collected |-> next.collected, positionals |-> next.positionals,
              blocked |-> next.blocked, terminated |-> next.terminated, pending |-> next.pending]
  BY <1>3 DEF Before
<1>6. <<command>> \in Seq(Seq(Strings)) /\ <<command>> # <<>> /\ Head(<<command>>) = command
  OBVIOUS
<1>7. values(next, flags) = values(st, flags)
  BY <1>4 DEF values
<1> QED
  BY <1>4, <1>5, <1>6, <1>7 DEF Behind, next

\* Behind the command nothing that is not read as one of those options changes it.
LEMMA OptionBehind ==
  ASSUME NEW spec, NEW flags, NoFlag \notin flags, NEW command, NEW said,
         NEW st, Behind(st, command, flags, said), NEW arg \in Plain, arg.flag \notin flags
  PROVE  Behind(OptionStep(st, arg, spec), command, flags, said)
<1> DEFINE next == OptionStep(st, arg, spec)
           blocked == st.blocked \/ arg.flag \in spec.blocked
           taken(flag, value) == st.collected \cup {[flag |-> flag, value |-> value]}
           s == st.positionals
           e == Text(arg)
           T == Seq(Strings)
           Whole(x) == x = [collected |-> x.collected, positionals |-> x.positionals,
                            blocked |-> x.blocked, terminated |-> x.terminated,
                            pending |-> x.pending]
<1>1. /\ Whole(st) /\ st.pending \notin flags /\ values(st, flags) = said
      /\ s \in Seq(T) /\ s # <<>> /\ Head(s) = command /\ e \in T
  BY TextIs DEF Behind, Plain
<1>2. \A x : x.collected = st.collected => values(x, flags) = said
  BY <1>1 DEF values
<1>3. \/ next = [st EXCEPT !.collected = taken(st.pending, e), !.pending = NoFlag]
      \/ next = [st EXCEPT !.positionals = Append(@, e)]
      \/ next = [st EXCEPT !.terminated = TRUE]
      \/ next = [st EXCEPT !.blocked = blocked]
      \/ next = [st EXCEPT !.blocked = blocked, !.collected = taken(arg.flag, arg.value)]
      \/ next = [st EXCEPT !.blocked = blocked, !.pending = arg.flag]
  BY DEF OptionStep
<1> HIDE DEF next, blocked, e, T
<1>4. Whole(next)
  BY <1>1, <1>3
<1>5. next.pending \notin flags
  BY <1>1, <1>3
<1>6. next.collected \in {st.collected, taken(st.pending, e), taken(arg.flag, arg.value)}
  BY <1>1, <1>3
<1>7. values(next, flags) = said
  <2>1. CASE next.collected = st.collected
    BY <1>2, <2>1
  <2>2. CASE next.collected = taken(st.pending, e)
    <3>1. values(next, flags) = values(st, flags) \cup Says(st.pending, e, flags)
      <4>1. Collects(next, st, st.pending, e)
        BY <2>2 DEF Collects
      <4> QED
        BY <4>1, ValuesAdd
    <3> QED
      BY <1>1, <3>1 DEF Says
  <2>3. CASE next.collected = taken(arg.flag, arg.value)
    <3>1. values(next, flags) = values(st, flags) \cup Says(arg.flag, arg.value, flags)
      <4>1. Collects(next, st, arg.flag, arg.value)
        BY <2>3 DEF Collects
      <4> QED
        BY <4>1, ValuesAdd
    <3> QED
      BY <1>1, <3>1 DEF Says
  <2> QED
    BY <1>6, <2>1, <2>2, <2>3
<1>8. next.positionals \in {s, Append(s, e)}
  BY <1>1, <1>3
<1> HIDE DEF s, Whole
<1>9. Append(s, e) \in Seq(T) /\ Append(s, e) # <<>> /\ Head(Append(s, e)) = Head(s)
  BY <1>1
<1>10. next.positionals \in Seq(T) /\ next.positionals # <<>> /\ Head(next.positionals) = command
  BY <1>1, <1>8, <1>9
<1> QED
  BY <1>4, <1>5, <1>7, <1>10 DEF Behind, next, Whole, T

\* What the options say among the first i arguments; the last may still lack its value.
UpTo(said, given, flags, i) ==
    \A v : v \in said <=>
        \E j \in 1..i :
            /\ given[j].flag \in flags
            /\ \/ given[j].value # <<>> /\ v = given[j].value
               \/ given[j].value = <<>> /\ j # i /\ v = given[j + 1].value

LEMMA UpToNext ==
  ASSUME NEW takes, NoFlag \notin takes, NEW flags, flags \subseteq takes,
         NEW given \in Seq(Plain), Regular(given, takes),
         NEW i \in 0..Len(given), i # Len(given), NEW said, UpTo(said, given, flags, i)
  PROVE  UpTo(said \cup Told(PendingAt(given, takes, i), given[i + 1], flags), given, flags, i + 1)
<1> DEFINE arg == given[i + 1]
           pending == PendingAt(given, takes, i)
           last == given[i]
<1>1. /\ Len(given) \in Nat /\ i \in Nat /\ i + 1 \in 1..Len(given) /\ (i + 1) - 1 = i
      /\ arg \in Plain /\ NoFlag \notin flags
  OBVIOUS
<1>2. IsWord(arg) <=> pending # NoFlag
  BY <1>1, ValuesAreWords
<1>3. \A j : j \in 1..(i + 1) <=> j \in 1..i \/ j = i + 1
  BY <1>1
<1>4. \A j \in 1..i : j # i + 1 /\ (i # 0)
  BY <1>1
<1>5. i # 0 => i \in 1..i
  BY <1>1
<1>6. pending # NoFlag =>
          Text(arg) = arg.value /\ arg.flag = NoFlag /\ i # 0 /\ Awaits(last, takes)
              /\ pending = last.flag
  <2>1. IsWord(arg) => Text(arg) = arg.value /\ arg.flag = NoFlag
    BY <1>1, PlainWord
  <2> QED
    BY <1>2, <2>1 DEF PendingAt
<1>7. i # 0 /\ last.flag \in flags /\ last.value = <<>> => pending = last.flag /\ pending # NoFlag
  BY DEF PendingAt, Awaits
<1> HIDE DEF arg, pending, last
<1>8. ASSUME NEW v
      PROVE  v \in said \cup Told(pending, arg, flags) <=>
                 \E j \in 1..(i + 1) :
                     /\ given[j].flag \in flags
                     /\ \/ given[j].value # <<>> /\ v = given[j].value
                        \/ given[j].value = <<>> /\ j # i + 1 /\ v = given[j + 1].value
  <2>1. v \in said <=>
            \E j \in 1..i :
                /\ given[j].flag \in flags
                /\ \/ given[j].value # <<>> /\ v = given[j].value
                   \/ given[j].value = <<>> /\ j # i /\ v = given[j + 1].value
    BY DEF UpTo
  <2>2. v \in Told(pending, arg, flags) <=>
            \/ i # 0 /\ last.flag \in flags /\ last.value = <<>> /\ v = arg.value
            \/ arg.flag \in flags /\ arg.value # <<>> /\ v = arg.value
    <3>1. CASE pending # NoFlag
      BY <1>1, <1>6, <3>1 DEF Told, Says, Awaits
    <3>2. CASE pending = NoFlag
      BY <1>1, <1>7, <3>2 DEF Told, Says
    <3> QED
      BY <3>1, <3>2
  <2> DEFINE Gives(j) == /\ given[j].flag \in flags
                         /\ \/ given[j].value # <<>> /\ v = given[j].value
                            \/ given[j].value = <<>> /\ j # i + 1 /\ v = given[j + 1].value
             Gave(j) == /\ given[j].flag \in flags
                        /\ \/ given[j].value # <<>> /\ v = given[j].value
                           \/ given[j].value = <<>> /\ j # i /\ v = given[j + 1].value
  <2>3. \A j \in 1..i : j # i => (Gives(j) <=> Gave(j))
    BY <1>4
  <2>4. i # 0 => (Gives(i) <=> Gave(i) \/ (last.flag \in flags /\ last.value = <<>> /\ v = arg.value))
    BY <1>1 DEF arg, last
  <2>5. Gives(i + 1) <=> arg.flag \in flags /\ arg.value # <<>> /\ v = arg.value
    BY DEF arg
  <2>6. v \in said <=> \E j \in 1..i : Gave(j)
    BY <2>1
  <2> HIDE DEF Gives, Gave
  <2>7. v \in said \cup Told(pending, arg, flags) <=> \E j \in 1..(i + 1) : Gives(j)
    BY <1>3, <1>4, <1>5, <2>2, <2>3, <2>4, <2>5, <2>6
  <2> QED
    BY <2>7 DEF Gives
<1> QED
  BY <1>8 DEF UpTo, arg, pending

LEMMA UpToEnd ==
  ASSUME NEW takes, NEW flags, flags \subseteq takes, NEW given \in Seq(Plain),
         Regular(given, takes), NEW said, UpTo(said, given, flags, Len(given))
  PROVE  said = ValuesOf(given, flags)
<1> DEFINE n == Len(given)
<1>1. n \in Nat /\ DOMAIN given = 1..n
  OBVIOUS
<1>2. \A j \in 1..n : given[j].flag \in flags /\ given[j].value = <<>> => j # n
  BY DEF Regular, Awaits
<1> HIDE DEF n
<1>3. \A v : v \in said <=> v \in ValuesOf(given, flags)
  <2>1. \A v : v \in said <=>
            \E j \in 1..n :
                /\ given[j].flag \in flags
                /\ v = IF given[j].value # <<>> THEN given[j].value ELSE given[j + 1].value
    BY <1>2 DEF UpTo, n
  <2> QED
    BY <1>1, <2>1 DEF ValuesOf
<1> QED
  BY <1>3

\* parseOptions finds the command behind regular arguments, and what the options before it say.
LEMMA OptionsRead ==
  ASSUME NEW spec, NoFlag \notin spec.value, NEW flags, flags \subseteq spec.value,
         NEW given \in Seq(Plain), Regular(given, spec.value),
         NEW command \in Seq(Strings), command # <<>>,
         NEW own \in Seq(Plain), \A i \in 1..Len(own) : own[i].flag \notin flags
  PROVE  LET parsed == parseOptions(given \o <<Word(command)>> \o own, spec)
         IN  First(parsed) = {command} /\ values(parsed, flags) = ValuesOf(given, flags)
<1> DEFINE w == Word(command)
           args == given \o <<w>> \o own
           m == Len(given)
           n == Len(args)
           said == ValuesOf(given, flags)
<1>1. w \in Plain
  BY WordIsPlain
<1>2. /\ args \in Seq(Plain) /\ n \in Nat /\ m \in Nat /\ m < n /\ args[m + 1] = w
      /\ \A i \in 1..m : args[i] = given[i]
      /\ \A i \in 1..n : i > m + 1 => i - (m + 1) \in 1..Len(own)
                                      /\ args[i] = own[i - (m + 1)]
  <2>1. args = given \o <<w>> \o own /\ m = Len(given) /\ n = Len(args)
    OBVIOUS
  <2> HIDE DEF w, args, m, n
  <2> QED
    BY <1>1, <2>1, Built
<1> HIDE DEF args, m, n
<1>3. PICK f : /\ f[0] = [collected |-> {}, positionals |-> <<>>, blocked |-> FALSE,
                          terminated |-> FALSE, pending |-> NoFlag]
               /\ \A i \in 1..n : f[i] = OptionStep(f[i - 1], args[i], spec)
               /\ parseOptions(args, spec) = f[n]
  BY <1>2, OptionTurns DEF n
<1> DEFINE pending(i) == PendingAt(given, spec.value, i)
           Reads(i) == /\ Before(f[i], pending(i)) /\ UpTo(values(f[i], flags), given, flags, i)
                       /\ i # m => f[i].terminated = FALSE
           before == {i \in 0..m : Reads(i)}
           behind == {i \in (m + 1)..n : Behind(f[i], command, flags, said)}
<1>4. 0 \in before
  <2>1. pending(0) = NoFlag
    BY DEF PendingAt
  <2>2. f[0] = [collected |-> f[0].collected, positionals |-> <<>>, blocked |-> f[0].blocked,
                terminated |-> f[0].terminated, pending |-> NoFlag]
        /\ f[0].collected = {} /\ f[0].terminated = FALSE
    BY <1>3
  <2>3. Before(f[0], NoFlag)
    BY <2>2 DEF Before
  <2>4. UpTo(values(f[0], flags), given, flags, 0)
    <3>1. values(f[0], flags) = {}
      BY <2>2 DEF values
    <3>2. \A j : j \notin 1..0
      OBVIOUS
    <3> QED
      BY <3>1, <3>2 DEF UpTo
  <2>5. 0 \in 0..m
    BY <1>2
  <2> QED
    BY <2>1, <2>2, <2>3, <2>4, <2>5
<1>5. ASSUME NEW i \in 0..m, i # m, i \in before
      PROVE  i + 1 \in before
  <2>1. i + 1 \in 0..m /\ i + 1 \in 1..m /\ i + 1 \in 1..n /\ (i + 1) - 1 = i /\ i + 1 # 0
    BY <1>2, <1>5
  <2> DEFINE arg == given[i + 1]
             next == OptionStep(f[i], arg, spec)
  <2>2. f[i + 1] = next
    BY <1>2, <1>3, <2>1
  <2>3. IsWord(arg) <=> pending(i) # NoFlag
    BY <2>1, ValuesAreWords DEF m
  <2>4. /\ arg \in Plain /\ (arg = Dashes => i + 1 = m)
        /\ (Awaits(arg, spec.value) => i + 1 # m)
    BY <2>1 DEF Regular, m
  <2>5. pending(i + 1) = IF Awaits(arg, spec.value) THEN arg.flag ELSE NoFlag
    BY <2>1 DEF PendingAt
  <2>6. Before(f[i], pending(i)) /\ UpTo(values(f[i], flags), given, flags, i)
        /\ f[i].terminated = FALSE
    BY <1>5
  <2>7. UpTo(values(f[i], flags) \cup Told(pending(i), arg, flags), given, flags, i + 1)
    BY <1>5, <2>6, UpToNext DEF m
  <2> HIDE DEF pending, arg, next
  <2>8. /\ Before(next, pending(i + 1)) /\ (arg # Dashes => next.terminated = FALSE)
        /\ values(next, flags) = values(f[i], flags) \cup Told(pending(i), arg, flags)
    <3> DEFINE st == f[i]
               open == pending(i)
    <3>1. Comes(arg, st, open, spec) /\ arg \in Plain
      BY <2>3, <2>4, <2>6 DEF Comes
    <3> HIDE DEF st, open
    <3>2. Went(OptionStep(st, arg, spec), arg, st, open, spec, flags)
      BY <3>1, OptionBefore
    <3> QED
      BY <2>5, <3>2 DEF next, st, open, Went
  <2> QED
    BY <2>1, <2>2, <2>4, <2>7, <2>8
<1>6. Before(f[m], NoFlag) /\ values(f[m], flags) = said
  <2>1. m \in before
    <3> HIDE DEF before
    <3>1. \A i \in 0..m : i \in before
      BY <1>2, <1>4, <1>5, Turns
    <3>2. m \in 0..m
      BY <1>2
    <3> QED
      BY <3>1, <3>2
  <2>2. Before(f[m], pending(m)) /\ UpTo(values(f[m], flags), given, flags, m)
    BY <2>1
  <2>3. pending(m) = NoFlag
    <3>1. CASE m = 0
      BY <3>1 DEF PendingAt
    <3>2. CASE m # 0
      <4>1. m \in 1..Len(given)
        BY <1>2, <3>2 DEF m
      <4> QED
        BY <4>1, ValuesAreWords DEF m
    <3> QED
      BY <3>1, <3>2
  <2> QED
    BY <2>2, <2>3, UpToEnd DEF m
<1> HIDE DEF said
<1>7. m + 1 \in behind
  <2>1. m + 1 \in 1..n /\ (m + 1) - 1 = m /\ m + 1 \in (m + 1)..n
    BY <1>2
  <2>2. f[m + 1] = OptionStep(f[m], w, spec)
    BY <1>2, <1>3, <2>1
  <2>3. Behind(f[m + 1], command, flags, said)
    BY <1>6, <2>2, OptionName
  <2> QED
    BY <2>1, <2>3
<1>8. ASSUME NEW i \in (m + 1)..n, i # n, i \in behind
      PROVE  i + 1 \in behind
  <2>1. i + 1 \in 1..n /\ (i + 1) - 1 = i /\ i + 1 \in (m + 1)..n /\ i + 1 > m + 1
    BY <1>2, <1>8
  <2>2. f[i + 1] = OptionStep(f[i], args[i + 1], spec)
    BY <1>3, <2>1
  <2>3. args[i + 1] \in Plain /\ args[i + 1].flag \notin flags
    <3>1. (i + 1) - (m + 1) \in 1..Len(own) /\ args[i + 1] = own[(i + 1) - (m + 1)]
      BY <1>2, <2>1
    <3> QED
      BY <3>1
  <2>4. Behind(f[i + 1], command, flags, said)
    BY <1>8, <2>2, <2>3, OptionBehind
  <2> QED
    BY <2>1, <2>4
<1>9. Behind(f[n], command, flags, said)
  <2> HIDE DEF behind
  <2>1. \A i \in (m + 1)..n : i \in behind
    <3>1. m + 1 \in Nat
      BY <1>2
    <3> QED
      BY <1>2, <1>7, <1>8, <3>1, Turns
  <2>2. n \in (m + 1)..n
    BY <1>2
  <2> QED
    BY <2>1, <2>2 DEF behind
<1>10. First(f[n]) = {command} /\ values(f[n], flags) = said
  BY <1>9 DEF Behind, First
<1> QED
  BY <1>3, <1>10 DEF args, said

\* What npmSpecs and pypiRequirements make of some packages.
LEMMA TargetOfSome ==
  ASSUME NEW kind, NEW specs, <<>> \notin specs
  PROVE  Target(kind, specs) \in {unsupported, [kind |-> kind, specs |-> specs]}
<1>1. specs \ {<<>>} = specs
  OBVIOUS
<1> QED
  BY <1>1 DEF Target

LEMMA ValuesAreFilled ==
  ASSUME NEW takes, NEW flags, flags \subseteq takes, NEW given \in Seq(Plain),
         Regular(given, takes)
  PROVE  <<>> \notin ValuesOf(given, flags)
<1>1. Len(given) \in Nat /\ DOMAIN given = 1..Len(given)
  OBVIOUS
<1>2. ASSUME NEW i \in 1..Len(given), given[i].flag \in flags, given[i].value = <<>>
      PROVE  given[i + 1].value # <<>>
  <2>1. Awaits(given[i], takes)
    BY <1>2 DEF Awaits
  <2>2. i + 1 \in 1..Len(given) /\ i + 1 # 1 /\ (i + 1) - 1 = i
    <3>1. i # Len(given)
      BY <2>1 DEF Regular
    <3>2. \A n \in Nat : \A j \in 1..n : j # n => j + 1 \in 1..n /\ j + 1 # 1 /\ (j + 1) - 1 = j
      OBVIOUS
    <3> QED
      BY <1>1, <3>1, <3>2
  <2>3. IsWord(given[i + 1]) /\ given[i + 1] \in Plain
    BY <2>1, <2>2 DEF Regular
  <2> QED
    BY <2>3, PlainWord
<1> QED
  BY <1>1, <1>2 DEF ValuesOf

\* Of the options that take a value the audit knows all but the unlisted ones, and docker run all.
LEMMA FlagTables ==
  /\ NPX_OPTIONS.value \subseteq TakesValue["npx"]
  /\ TakesValue["npx"] \subseteq NPX_OPTIONS.value \cup Unlisted["npx"]
  /\ BUNX_OPTIONS.value \subseteq TakesValue["bunx"]
  /\ TakesValue["bunx"] \subseteq BUNX_OPTIONS.value \cup Unlisted["bunx"]
  /\ UVX_OPTIONS.value \subseteq TakesValue["uvx"]
  /\ TakesValue["uvx"] \subseteq UVX_OPTIONS.value \cup Unlisted["uvx"]
  /\ TakesValue["docker"] = VALUE_FLAGS
  /\ NoFlag \notin NPX_OPTIONS.value /\ NoFlag \notin BUNX_OPTIONS.value
  /\ NoFlag \notin UVX_OPTIONS.value /\ NoFlag \notin VALUE_FLAGS
<1>1. /\ NPX_OPTIONS.value \subseteq TakesValue["npx"]
      /\ TakesValue["npx"] \subseteq NPX_OPTIONS.value \cup Unlisted["npx"]
  BY DEF TakesValue, Unlisted, NPX_OPTIONS
<1>2. /\ BUNX_OPTIONS.value \subseteq TakesValue["bunx"]
      /\ TakesValue["bunx"] \subseteq BUNX_OPTIONS.value \cup Unlisted["bunx"]
  BY DEF TakesValue, Unlisted, BUNX_OPTIONS
<1>3. /\ UVX_OPTIONS.value \subseteq TakesValue["uvx"]
      /\ TakesValue["uvx"] \subseteq UVX_OPTIONS.value \cup Unlisted["uvx"]
  BY DEF TakesValue, Unlisted, UVX_OPTIONS
<1>4. TakesValue["docker"] = VALUE_FLAGS
  BY DEF TakesValue, VALUE_FLAGS
<1>5. NoFlag \notin VALUE_FLAGS
  BY Zenon DEF NoFlag, VALUE_FLAGS
<1>6. NoFlag \notin NPX_OPTIONS.value
  <2>1. NPX_OPTIONS.value =
            {"-p", "--package", "-c", "--call", "--userconfig", "--loglevel",
             "--node-options", "--shell"}
    BY DEF NPX_OPTIONS
  <2> QED
    BY <2>1, Zenon DEF NoFlag
<1>7. NoFlag \notin BUNX_OPTIONS.value
  <2>1. BUNX_OPTIONS.value = {"-p", "--package"}
    BY DEF BUNX_OPTIONS
  <2> QED
    BY <2>1, Zenon DEF NoFlag
<1>8. NoFlag \notin UVX_OPTIONS.value
  <2>1. UVX_OPTIONS.value =
            {"--from", "--with", "--with-editable", "--with-requirements",
             "--constraints", "-c", "--python", "-p", "--index", "--index-url",
             "--extra-index-url", "--index-strategy", "--python-preference",
             "--cache-dir", "--refresh-package", "--find-links", "-f"}
    BY DEF UVX_OPTIONS
  <2> QED
    BY <2>1, Zenon DEF NoFlag
<1> QED
  BY <1>1, <1>2, <1>3, <1>4, <1>5, <1>6, <1>7, <1>8

\* The options that name packages are among those the audit knows.
LEMMA NamingTables ==
  /\ Replaces["npx"] = {"-p", "--package"} /\ Adds["npx"] = {}
  /\ Replaces["bunx"] = {"-p", "--package"} /\ Adds["bunx"] = {}
  /\ Replaces["uvx"] = {"--from"} /\ Adds["uvx"] = {"--with"}
  /\ {"-p", "--package"} \subseteq NPX_OPTIONS.value
  /\ {"-p", "--package"} \subseteq BUNX_OPTIONS.value
  /\ {"--from"} \subseteq UVX_OPTIONS.value /\ {"--with"} \subseteq UVX_OPTIONS.value
BY DEF Replaces, Adds, NPX_OPTIONS, BUNX_OPTIONS, UVX_OPTIONS

\* Arguments that have only options the audit knows are regular for it.
LEMMA KnownIsRegular ==
  ASSUME NEW runner, NEW given \in Seq(Plain), OptionsOnly(runner, given), NEW takes,
         NoFlag \notin takes, takes \subseteq TakesValue[runner],
         \A i \in 1..Len(given) :
             Awaits(given[i], TakesValue[runner]) => given[i].flag \in takes
  PROVE  Regular(given, takes)
<1>1. Len(given) \in Nat /\ DOMAIN given = 1..Len(given)
  OBVIOUS
<1>2. \A i \in 1..Len(given) : Awaits(given[i], TakesValue[runner]) <=> Awaits(given[i], takes)
  BY DEF Awaits
<1>3. \A i \in 1..Len(given) : i # 1 => i - 1 \in 1..Len(given)
  BY <1>1
<1> QED
  BY <1>1, <1>2, <1>3 DEF OptionsOnly, Regular

LEMMA AuditIsRegular ==
  ASSUME NEW runner, NEW given \in Seq(Plain), OptionsOnly(runner, given),
         ~UnlistedOption(runner, given), NEW takes, NoFlag \notin takes,
         takes \subseteq TakesValue[runner],
         TakesValue[runner] \subseteq takes \cup Unlisted[runner]
  PROVE  Regular(given, takes)
<1>1. DOMAIN given = 1..Len(given)
  OBVIOUS
<1>2. \A i \in 1..Len(given) :
          Awaits(given[i], TakesValue[runner]) => given[i].flag \in takes
  BY <1>1 DEF UnlistedOption, Awaits
<1> QED
  BY <1>2, KnownIsRegular

\* The arguments of a command that a runner is to run, none of which the audit misreads.
Readable(runner, given, command, own) ==
    /\ given \in Seq(Plain) /\ own \in Seq(Plain)
    /\ command \in Seq(Strings) /\ command # <<>>
    /\ OptionsOnly(runner, given)
    /\ ~UnlistedOption(runner, given) /\ ~OwnFlagMisread(runner, own)

\* So the audit of such a command looks at what the runner installs, if it looks at anything.
LEMMA NpxTarget ==
  ASSUME NEW given, NEW command, NEW own, Readable("npx", given, command, own)
  PROVE  parseNpxArgs(given \o <<Word(command)>> \o own) \in
             {unsupported, [kind |-> "npm", specs |-> Installs("npx", given, command)]}
<1> DEFINE parsed == parseOptions(given \o <<Word(command)>> \o own, NPX_OPTIONS)
           flags == {"-p", "--package"}
           packages == ValuesOf(given, flags)
<1>1. /\ given \in Seq(Plain) /\ own \in Seq(Plain)
      /\ command \in Seq(Strings) /\ command # <<>>
      /\ NoFlag \notin NPX_OPTIONS.value /\ flags \subseteq NPX_OPTIONS.value
  BY FlagTables, NamingTables DEF Readable
<1>2. Regular(given, NPX_OPTIONS.value)
  BY FlagTables, AuditIsRegular DEF Readable
<1>3. \A i \in 1..Len(own) : own[i].flag \notin flags
  BY NamingTables DEF Readable, OwnFlagMisread
<1>4. First(parsed) = {command} /\ values(parsed, flags) = packages
  <2> HIDE DEF flags
  <2> QED
    BY <1>1, <1>2, <1>3, OptionsRead
<1>5. <<>> \notin packages
  <2> HIDE DEF flags
  <2> QED
    BY <1>1, <1>2, ValuesAreFilled
<1>6. Installs("npx", given, command) = IF packages = {} THEN {command} ELSE packages
  BY NamingTables DEF Installs, ValuesOf
<1> HIDE DEF parsed, packages
<1>7. \A specs : <<>> \notin specs =>
          Target("npm", specs) \in {unsupported, [kind |-> "npm", specs |-> specs]}
  BY TargetOfSome
<1>8. parseNpxArgs(given \o <<Word(command)>> \o own) \in
          {unsupported, Target("npm", IF packages = {} THEN {command} ELSE packages)}
  BY <1>4 DEF parseNpxArgs, parsed
<1> QED
  BY <1>1, <1>5, <1>6, <1>7, <1>8

LEMMA BunxTarget ==
  ASSUME NEW given, NEW command, NEW own, Readable("bunx", given, command, own)
  PROVE  parseBunxArgs(given \o <<Word(command)>> \o own) \in
             {unsupported, [kind |-> "npm", specs |-> Installs("bunx", given, command)]}
<1> DEFINE parsed == parseOptions(given \o <<Word(command)>> \o own, BUNX_OPTIONS)
           flags == {"-p", "--package"}
           packages == ValuesOf(given, flags)
<1>1. /\ given \in Seq(Plain) /\ own \in Seq(Plain)
      /\ command \in Seq(Strings) /\ command # <<>>
      /\ NoFlag \notin BUNX_OPTIONS.value /\ flags \subseteq BUNX_OPTIONS.value
  BY FlagTables, NamingTables DEF Readable
<1>2. Regular(given, BUNX_OPTIONS.value)
  BY FlagTables, AuditIsRegular DEF Readable
<1>3. \A i \in 1..Len(own) : own[i].flag \notin flags
  BY NamingTables DEF Readable, OwnFlagMisread
<1>4. First(parsed) = {command} /\ values(parsed, flags) = packages
  <2> HIDE DEF flags
  <2> QED
    BY <1>1, <1>2, <1>3, OptionsRead
<1>5. <<>> \notin packages
  <2> HIDE DEF flags
  <2> QED
    BY <1>1, <1>2, ValuesAreFilled
<1>6. Installs("bunx", given, command) = IF packages = {} THEN {command} ELSE packages
  BY NamingTables DEF Installs, ValuesOf
<1> HIDE DEF parsed, packages
<1>7. \A specs : <<>> \notin specs =>
          Target("npm", specs) \in {unsupported, [kind |-> "npm", specs |-> specs]}
  BY TargetOfSome
<1>8. parseBunxArgs(given \o <<Word(command)>> \o own) \in
          {unsupported, Target("npm", IF packages = {} THEN {command} ELSE packages)}
  BY <1>4 DEF parseBunxArgs, parsed
<1> QED
  BY <1>1, <1>5, <1>6, <1>7, <1>8

LEMMA UvxTarget ==
  ASSUME NEW given, NEW command, NEW own, Readable("uvx", given, command, own)
  PROVE  parseUvxArgs(given \o <<Word(command)>> \o own) \in
             {unsupported, [kind |-> "pypi", specs |-> Installs("uvx", given, command)]}
<1> DEFINE parsed == parseOptions(given \o <<Word(command)>> \o own, UVX_OPTIONS)
           from == ValuesOf(given, {"--from"})
           with == ValuesOf(given, {"--with"})
<1>1. /\ given \in Seq(Plain) /\ own \in Seq(Plain)
      /\ command \in Seq(Strings) /\ command # <<>>
      /\ NoFlag \notin UVX_OPTIONS.value
      /\ {"--from"} \subseteq UVX_OPTIONS.value /\ {"--with"} \subseteq UVX_OPTIONS.value
  BY FlagTables, NamingTables DEF Readable
<1>2. Regular(given, UVX_OPTIONS.value)
  BY FlagTables, AuditIsRegular DEF Readable
<1>3. \A i \in 1..Len(own) : own[i].flag \notin {"--from"} /\ own[i].flag \notin {"--with"}
  BY NamingTables DEF Readable, OwnFlagMisread
<1>4. First(parsed) = {command} /\ values(parsed, {"--from"}) = from
  <2> DEFINE flags == {"--from"}
  <2>1. flags \subseteq UVX_OPTIONS.value /\ \A i \in 1..Len(own) : own[i].flag \notin flags
    BY <1>1, <1>3
  <2> HIDE DEF flags
  <2>2. First(parsed) = {command} /\ values(parsed, flags) = ValuesOf(given, flags)
    BY <1>1, <1>2, <2>1, OptionsRead
  <2> QED
    BY <2>2 DEF flags
<1>5. values(parsed, {"--with"}) = with
  <2> DEFINE flags == {"--with"}
  <2>1. flags \subseteq UVX_OPTIONS.value /\ \A i \in 1..Len(own) : own[i].flag \notin flags
    BY <1>1, <1>3
  <2> HIDE DEF flags
  <2>2. values(parsed, flags) = ValuesOf(given, flags)
    BY <1>1, <1>2, <2>1, OptionsRead
  <2> QED
    BY <2>2 DEF flags
<1>6. <<>> \notin from /\ <<>> \notin with
  BY <1>1, <1>2, ValuesAreFilled
<1>7. Installs("uvx", given, command) = (IF from = {} THEN {command} ELSE from) \cup with
  BY NamingTables DEF Installs
<1> HIDE DEF parsed, from, with
<1>8. \A specs : <<>> \notin specs =>
          Target("pypi", specs) \in {unsupported, [kind |-> "pypi", specs |-> specs]}
  BY TargetOfSome
<1>9. parseUvxArgs(given \o <<Word(command)>> \o own) \in
          {unsupported, Target("pypi", (IF from = {} THEN {command} ELSE from) \cup with)}
  BY <1>4, <1>5 DEF parseUvxArgs, parsed
<1>10. <<>> \notin (IF from = {} THEN {command} ELSE from) \cup with
  BY <1>1, <1>6
<1> QED
  BY <1>7, <1>8, <1>9, <1>10

-----------------------------------------------------------------------------
(***************************************************************************)
(* parseDockerRun, likewise: before the image there is no rest, and behind *)
(* it the rest begins with the image.                                      *)
(***************************************************************************)
RunShaped(st) ==
    st = [reading |-> st.reading, pending |-> st.pending, rest |-> st.rest, env |-> st.env,
          binds |-> st.binds, options |-> st.options, labels |-> st.labels,
          errors |-> st.errors]

\* A flag of docker run changes neither what is read next nor the image.
LEMMA FlagKeeps ==
  ASSUME NEW st, RunShaped(st), NEW flag, NEW value, NEW ambient
  PROVE  LET next == ApplyFlag(st, flag, value, ambient)
         IN  /\ RunShaped(next) /\ next.reading = st.reading /\ next.pending = st.pending
             /\ next.rest = st.rest
<1> DEFINE Keeps(next) == /\ RunShaped(next) /\ next.reading = st.reading
                          /\ next.pending = st.pending /\ next.rest = st.rest
           next == ApplyFlag(st, flag, value, ambient)
<1>1. Keeps(st)
  OBVIOUS
<1>2. \A x : Keeps([st EXCEPT !.env = x])
  BY DEF RunShaped
<1>3. \A x : Keeps([st EXCEPT !.binds = x])
  BY DEF RunShaped
<1>4. \A x : Keeps([st EXCEPT !.options = x])
  BY DEF RunShaped
<1>5. \A x : Keeps([st EXCEPT !.labels = x])
  BY DEF RunShaped
<1>6. \A x : Keeps([st EXCEPT !.errors = x])
  BY DEF RunShaped
<1> HIDE DEF Keeps
<1>7. \A f : Keeps(Refuse(st, f))
  BY <1>6 DEF Refuse
<1>8. \A f, v : Keeps(Setting(st, f, v))
  BY <1>4 DEF Setting
<1>9. Keeps(assignEnv(st, value, ambient))
  BY <1>2, <1>7 DEF assignEnv
<1>10. \/ next = st \/ next = Refuse(st, flag) \/ next = assignEnv(st, value, ambient)
       \/ \E f \in {flag, "init", "network", "workdir", "user"} :
             next = Setting(st, f, value) \/ next = Setting(st, f, <<>>)
       \/ next = [st EXCEPT !.binds = @ \cup {value}]
       \/ next = [st EXCEPT !.binds = @ \cup parseMount(value)]
       \/ next = [st EXCEPT !.labels = @ \cup {value}]
  <2> DEFINE others == {"--init", "-e", "--env", "-v", "--volume", "--mount", "--network",
                        "--net", "-w", "--workdir", "-u", "--user", "--entrypoint",
                        "--pull", "-l", "--label"}
  <2>1. REFUSED \cap (IGNORED \cup {"-i", "--interactive", "--rm"}) = {}
    BY DEF REFUSED, IGNORED
  <2>2. (REFUSED \cup IGNORED) \cap others = {}
    BY DEF REFUSED, IGNORED
  <2>3. CASE flag \in REFUSED
    BY <2>1, <2>2, <2>3 DEF ApplyFlag
  <2>4. CASE flag \in IGNORED
    BY <2>1, <2>2, <2>4 DEF ApplyFlag
  <2>5. CASE flag \notin REFUSED \cup IGNORED
    BY <2>5 DEF ApplyFlag
  <2> QED
    BY <2>3, <2>4, <2>5
<1> HIDE DEF next
<1>11. Keeps(next)
  BY <1>1, <1>3, <1>5, <1>7, <1>8, <1>9, <1>10
<1> QED
  BY <1>11 DEF Keeps, next

\* Before the image, and behind it; Dashes ends the flags.
Reading(st, pending, ended) ==
    /\ RunShaped(st) /\ st.reading \in BOOLEAN /\ st.rest = <<>> /\ st.pending = pending
    /\ ~ended => st.reading = TRUE

Found(st, image) ==
    /\ RunShaped(st) /\ st.reading = FALSE /\ st.pending = NoFlag
    /\ st.rest \in Seq(Seq(Strings)) /\ st.rest # <<>> /\ Head(st.rest) = image

\* An argument before the image is a flag, or the value of the flag before it.
LEMMA RunBefore ==
  ASSUME NEW st, NEW pending, Reading(st, pending, FALSE), NEW ambient,
         NEW arg \in Plain, IsWord(arg) <=> pending # NoFlag,
         arg = Dashes => ~Awaits(arg, VALUE_FLAGS), NoFlag \notin VALUE_FLAGS
  PROVE  Reading(DockerStep(st, arg, ambient),
                 IF Awaits(arg, VALUE_FLAGS) THEN arg.flag ELSE NoFlag, arg = Dashes)
<1> DEFINE next == DockerStep(st, arg, ambient)
           split == splitFlag(arg)
<1>1. st.reading = TRUE /\ st.pending = pending /\ st.rest = <<>> /\ RunShaped(st)
  BY DEF Reading
<1>2. CASE pending # NoFlag
  <2> DEFINE applied == ApplyFlag(st, pending, Text(arg), ambient)
  <2>1. ~Awaits(arg, VALUE_FLAGS)
    BY <1>2 DEF IsWord, Awaits
  <2>2. next = [applied EXCEPT !.pending = NoFlag]
    BY <1>1, <1>2 DEF DockerStep
  <2>3. RunShaped(applied) /\ applied.reading = TRUE /\ applied.rest = <<>>
    BY <1>1, FlagKeeps
  <2> HIDE DEF next, applied
  <2>4. RunShaped(next) /\ next.reading = TRUE /\ next.rest = <<>> /\ next.pending = NoFlag
    BY <2>2, <2>3 DEF RunShaped
  <2> QED
    BY <2>1, <2>4 DEF Reading, next
<1>3. CASE pending = NoFlag /\ arg = Dashes
  <2>1. next = [st EXCEPT !.reading = FALSE]
    BY <1>1, <1>3, DashesIsFlag DEF DockerStep
  <2> HIDE DEF next
  <2>2. RunShaped(next) /\ next.reading = FALSE /\ next.rest = <<>> /\ next.pending = NoFlag
    BY <1>1, <1>3, <2>1 DEF RunShaped
  <2> QED
    BY <1>3, <2>2 DEF Reading, next
<1>4. CASE pending = NoFlag /\ arg # Dashes
  <2>1. ~IsWord(arg)
    BY <1>4
  <2>2. \/ split = arg
        \/ split = Flag("unknown") /\ arg.value # <<>>
    BY DEF splitFlag
  <2>3. CASE Awaits(arg, VALUE_FLAGS)
    <3>1. split = arg /\ arg.flag \in VALUE_FLAGS /\ arg.value = <<>>
      BY <2>2, <2>3 DEF Awaits
    <3>2. next = [st EXCEPT !.pending = arg.flag]
      BY <1>1, <1>4, <2>1, <3>1 DEF DockerStep
    <3> HIDE DEF next
    <3>3. RunShaped(next) /\ next.reading = TRUE /\ next.rest = <<>> /\ next.pending = arg.flag
      BY <1>1, <3>2 DEF RunShaped
    <3> QED
      BY <2>3, <3>3 DEF Reading, next
  <2>4. CASE ~Awaits(arg, VALUE_FLAGS)
    <3>1. ~(split.flag \in VALUE_FLAGS /\ split.value = <<>>)
      <4>1. Flag("unknown").flag \notin VALUE_FLAGS
        BY DEF Flag, VALUE_FLAGS
      <4> QED
        BY <2>2, <2>4, <4>1 DEF Awaits
    <3> HIDE DEF split
    <3>2. next = ApplyFlag(st, split.flag, split.value, ambient)
      BY <1>1, <1>4, <2>1, <3>1 DEF DockerStep, split
    <3> HIDE DEF next
    <3>3. RunShaped(next) /\ next.reading = TRUE /\ next.rest = <<>> /\ next.pending = NoFlag
      BY <1>1, <1>4, <3>2, FlagKeeps
    <3> QED
      BY <2>4, <3>3 DEF Reading, next
  <2> QED
    BY <2>3, <2>4
<1> QED
  BY <1>2, <1>3, <1>4

\* The image is the first word that is no flag's value.
LEMMA RunImage ==
  ASSUME NEW st, NEW ended, Reading(st, NoFlag, ended), NEW ambient, NEW image \in Seq(Strings)
  PROVE  Found(DockerStep(st, Word(image), ambient), image)
<1> DEFINE w == Word(image)
           next == DockerStep(st, w, ambient)
<1>1. IsWord(w) /\ Text(w) = image /\ w # Dashes
  <2>1. IsWord(w) /\ Text(w) = image
    BY DEF IsWord, Word, Text
  <2> QED
    BY <2>1, DashesIsFlag
<1>2. st.pending = NoFlag /\ st.rest = <<>> /\ RunShaped(st)
  BY DEF Reading
<1> HIDE DEF w
<1>3. next = [st EXCEPT !.reading = FALSE, !.rest = Append(@, image)]
  BY <1>1, <1>2 DEF DockerStep
<1> HIDE DEF next
<1>4. RunShaped(next) /\ next.reading = FALSE /\ next.rest = <<image>> /\ next.pending = NoFlag
  <2>1. /\ RunShaped(next) /\ next.reading = FALSE /\ next.rest = Append(st.rest, image)
        /\ next.pending = NoFlag
    BY <1>2, <1>3 DEF RunShaped
  <2>2. Append(<<>>, image) = <<image>>
    OBVIOUS
  <2> QED
    BY <1>2, <2>1, <2>2
<1>5. <<image>> \in Seq(Seq(Strings)) /\ <<image>> # <<>> /\ Head(<<image>>) = image
  OBVIOUS
<1> QED
  BY <1>4, <1>5 DEF Found, next, w

\* What follows the image is the container's.
LEMMA RunBehind ==
  ASSUME NEW st, NEW image, Found(st, image), NEW ambient, NEW arg \in Arguments
  PROVE  Found(DockerStep(st, arg, ambient), image)
<1> DEFINE next == DockerStep(st, arg, ambient)
           s == st.rest
           e == Text(arg)
           T == Seq(Strings)
<1>1. /\ st.reading = FALSE /\ st.pending = NoFlag /\ RunShaped(st)
      /\ s \in Seq(T) /\ s # <<>> /\ Head(s) = image /\ e \in T
  BY TextIs DEF Found
<1>2. next = [st EXCEPT !.reading = FALSE, !.rest = Append(@, e)]
  BY <1>1 DEF DockerStep
<1> HIDE DEF next, T, e
<1>3. /\ RunShaped(next) /\ next.reading = FALSE /\ next.rest = Append(s, e)
      /\ next.pending = NoFlag
  BY <1>1, <1>2 DEF RunShaped
<1> HIDE DEF s
<1>4. Append(s, e) \in Seq(T) /\ Append(s, e) # <<>> /\ Head(Append(s, e)) = image
  BY <1>1
<1> QED
  BY <1>3, <1>4 DEF Found, next, T

\* The loop of parseDockerRun, as the sequence of the states it goes through.
RunStart(ambient) ==
    [reading |-> TRUE, pending |-> NoFlag, rest |-> <<>>, env |-> ambient, binds |-> {},
     options |-> {}, labels |-> {}, errors |-> {}]

LEMMA RunTurns ==
  ASSUME NEW args, NEW ambient, Len(Filled(args)) \in Nat \ {0}, Filled(args) # <<>>,
         parseDockerRun(args, ambient).errors = {}
  PROVE  LET parts == Filled(args)
         IN  \E f : /\ f[1] = RunStart(ambient)
                    /\ \A i \in 1..Len(parts) :
                          i # 1 => f[i] = DockerStep(f[i - 1], parts[i], ambient)
                    /\ f[Len(parts)].rest \notin {<<>>, <<<<>>>>}
                    /\ parseDockerRun(args, ambient).image = Head(f[Len(parts)].rest)
<1> DEFINE parts == Filled(args)
           start == RunStart(ambient)
           n == Len(parts)
           Def(k, f) == f = [i \in 1..k |->
                                IF i = 1 THEN start ELSE DockerStep(f[i - 1], parts[i], ambient)]
<1>1. \A k \in 1..n : \E f : Def(k, f)
  <2> DEFINE good == {k \in 1..n : \E f : Def(k, f)}
  <2>1. 1 \in good
    <3>1. Def(1, [i \in 1..1 |-> start])
      OBVIOUS
    <3>2. 1 \in 1..n
      OBVIOUS
    <3> HIDE DEF Def
    <3> QED
      BY <3>1, <3>2
  <2>2. ASSUME NEW k \in 1..n, k # n, k \in good
        PROVE  k + 1 \in good
    <3>1. PICK f : Def(k, f)
      BY <2>2
    <3> DEFINE g == [i \in 1..(k + 1) |->
                        IF i = k + 1 THEN DockerStep(f[k], parts[k + 1], ambient) ELSE f[i]]
    <3>2. ASSUME NEW i \in 1..(k + 1)
          PROVE  g[i] = IF i = 1 THEN start ELSE DockerStep(g[i - 1], parts[i], ambient)
      <4> HIDE DEF start
      <4>1. CASE i = k + 1
        <5>1. i # 1 /\ i - 1 = k /\ k \in 1..(k + 1) /\ k # k + 1
          BY <4>1
        <5>2. g[k] = f[k]
          BY <5>1
        <5>3. g[i] = DockerStep(f[k], parts[i], ambient)
          BY <4>1
        <5> QED
          BY <5>1, <5>2, <5>3
      <4>2. CASE i # k + 1
        <5>1. i \in 1..k /\ (i # 1 => i - 1 \in 1..k)
          BY <4>2
        <5>2. f[i] = IF i = 1 THEN start ELSE DockerStep(f[i - 1], parts[i], ambient)
          BY <3>1, <5>1
        <5>3. g[i] = f[i] /\ (i # 1 => g[i - 1] = f[i - 1])
          BY <4>2, <5>1
        <5> QED
          BY <5>2, <5>3
      <4> QED
        BY <4>1, <4>2
    <3>3. Def(k + 1, g)
      BY <3>2
    <3> HIDE DEF g, Def
    <3>4. k + 1 \in 1..n
      BY <2>2
    <3> QED
      BY <3>3, <3>4
  <2> HIDE DEF good
  <2>3. \A k \in 1..n : k \in good
    BY <2>1, <2>2, Turns
  <2> QED
    BY <2>3 DEF good
<1> DEFINE f == CHOOSE g : Def(n, g)
<1>2. Def(n, f)
  <2>1. n \in 1..n
    OBVIOUS
  <2> HIDE DEF Def, n
  <2>2. \E g : Def(n, g)
    BY <1>1, <2>1
  <2> QED
    BY <2>2, Zenon
<1> DEFINE end == f[n]
           errors == end.errors \cup (IF end.pending = NoFlag THEN {} ELSE {end.pending})
                                \cup (IF end.rest \in {<<>>, <<<<>>>>} THEN {"image"} ELSE {})
<1>3. parseDockerRun(args, ambient) =
          IF parts = <<>> \/ Head(parts) # Word(<<"run">>)
          THEN [NoRun EXCEPT !.errors = {"run"}]
          ELSE IF errors # {}
          THEN [NoRun EXCEPT !.errors = errors]
          ELSE [NoRun EXCEPT !.image = Head(end.rest), !.cmd = Tail(end.rest), !.env = end.env,
                             !.binds = end.binds, !.options = end.options,
                             !.labels = end.labels]
  BY DEF parseDockerRun, RunStart
<1> HIDE DEF end, f
<1>4. errors = {} /\ parseDockerRun(args, ambient).image = Head(end.rest)
  <2> HIDE DEF errors
  <2> QED
    BY <1>3 DEF NoRun
<1>5. end.rest \notin {<<>>, <<<<>>>>}
  BY <1>4
<1>6. \A i \in 1..n : f[i] = IF i = 1 THEN start ELSE DockerStep(f[i - 1], parts[i], ambient)
  BY <1>2
<1>7. 1 \in 1..n
  OBVIOUS
<1> HIDE DEF start, n, errors
<1>8. f[1] = start
  BY <1>6, <1>7
<1>9. \A i \in 1..n : i # 1 => f[i] = DockerStep(f[i - 1], parts[i], ambient)
  BY <1>6
<1> QED
  BY <1>4, <1>5, <1>8, <1>9 DEF start, n, end

\* parseDockerRun finds the image behind "run" and regular arguments.
RunWord == Word(<<"run">>)

LEMMA RunRead ==
  ASSUME NEW given \in Seq(Plain), Regular(given, VALUE_FLAGS), NoFlag \notin VALUE_FLAGS,
         NEW image \in Seq(Strings), image # <<>>, NEW own \in Seq(Plain), NEW ambient
  PROVE  LET run == parseDockerRun((<<RunWord>> \o given) \o <<Word(image)>> \o own, ambient)
         IN  run.errors = {} => run.image = image
<1> DEFINE before == <<RunWord>> \o given
           w == Word(image)
           args == before \o <<w>> \o own
           m == Len(given)
           n == Len(args)
<1>1. w \in Plain /\ RunWord \in Plain
  <2>1. <<"run">> \in Seq(Strings)
    BY DEF Strings
  <2> QED
    BY <2>1, WordIsPlain DEF RunWord
<1>2. /\ before \in Seq(Plain) /\ Len(before) = m + 1 /\ m \in Nat
      /\ \A i \in 1..m : before[i + 1] = given[i]
  <2> HIDE DEF w
  <2> QED
    BY <1>1
<1>3. /\ args \in Seq(Plain) /\ Filled(args) = args /\ n \in Nat /\ m + 1 < n
      /\ \A i \in 1..(m + 1) : args[i] = before[i]
      /\ args[(m + 1) + 1] = w
  <2> DEFINE k == m + 1
  <2>1. args = before \o <<w>> \o own /\ k = Len(before)
    BY <1>2
  <2>2. before \in Seq(Plain) /\ w \in Plain
    BY <1>1, <1>2
  <2> HIDE DEF w, before, args, k, m, n
  <2>3. /\ args \in Seq(Plain) /\ Len(args) \in Nat /\ k < Len(args)
        /\ \A i \in 1..k : args[i] = before[i]
        /\ args[k + 1] = w
    BY <2>1, <2>2, Built
  <2>4. n = Len(args) /\ k = m + 1
    BY DEF n, k
  <2>5. Filled(args) = args
    BY <2>3, PlainFilled
  <2> QED
    BY <2>3, <2>4, <2>5
<1> HIDE DEF before, args, m, n
<1> SUFFICES ASSUME parseDockerRun(args, ambient).errors = {}
             PROVE  parseDockerRun(args, ambient).image = image
  BY DEF args, before
<1>4. ASSUME NEW i \in 1..m
      PROVE  args[i + 1] = given[i]
  <2>1. i + 1 \in 1..(m + 1)
    BY <1>2
  <2> QED
    BY <1>2, <1>3, <2>1
<1>5. PICK f : /\ f[1] = RunStart(ambient)
               /\ \A i \in 1..n : i # 1 => f[i] = DockerStep(f[i - 1], args[i], ambient)
               /\ parseDockerRun(args, ambient).image = Head(f[n].rest)
  <2> DEFINE parts == Filled(args)
  <2>1. parts = args
    BY <1>3
  <2>2. Len(parts) \in Nat \ {0} /\ parts # <<>>
    <3>1. Len(args) = n
      BY DEF n
    <3>2. n # 0
      BY <1>2, <1>3
    <3> QED
      BY <1>3, <2>1, <3>1, <3>2
  <2>3. PICK f : /\ f[1] = RunStart(ambient)
                 /\ \A i \in 1..Len(parts) :
                       i # 1 => f[i] = DockerStep(f[i - 1], parts[i], ambient)
                 /\ f[Len(parts)].rest \notin {<<>>, <<<<>>>>}
                 /\ parseDockerRun(args, ambient).image = Head(f[Len(parts)].rest)
    BY <2>2, RunTurns
  <2> HIDE DEF parts
  <2>4. Len(parts) = n
    BY <2>1 DEF n
  <2>5. /\ \A i \in 1..n : i # 1 => f[i] = DockerStep(f[i - 1], args[i], ambient)
        /\ parseDockerRun(args, ambient).image = Head(f[n].rest)
    BY <2>1, <2>3, <2>4
  <2> QED
    BY <2>3, <2>5, Zenon
<1> DEFINE pending(i) == PendingAt(given, VALUE_FLAGS, i)
           Reads(i) == Reading(f[i + 1], pending(i), i = m)
           reading == {i \in 0..m : Reads(i)}
           found == {i \in (m + 2)..n : Found(f[i], image)}
<1>6. 0 \in reading
  <2>1. Reading(f[1], NoFlag, 0 = m)
    BY <1>5 DEF RunStart, Reading, RunShaped
  <2>2. 0 \in 0..m /\ 0 + 1 = 1 /\ pending(0) = NoFlag
    BY <1>2 DEF PendingAt
  <2> QED
    BY <2>1, <2>2
<1>7. ASSUME NEW i \in 0..m, i # m, i \in reading
      PROVE  i + 1 \in reading
  <2>1. /\ i + 1 \in 0..m /\ i + 1 \in 1..m /\ (i + 1) + 1 \in 1..n /\ i + 1 # 0
        /\ ((i + 1) + 1) - 1 = i + 1 /\ (i + 1) + 1 # 1 /\ (i + 1) - 1 = i
    BY <1>2, <1>3, <1>7
  <2>2. f[(i + 1) + 1] = DockerStep(f[i + 1], given[i + 1], ambient)
    BY <1>4, <1>5, <2>1
  <2>3. IsWord(given[i + 1]) <=> pending(i) # NoFlag
    BY <2>1, ValuesAreWords DEF m
  <2>4. /\ given[i + 1] \in Plain /\ (given[i + 1] = Dashes => i + 1 = m)
        /\ (Awaits(given[i + 1], VALUE_FLAGS) => i + 1 # m)
    BY <2>1 DEF Regular, m
  <2>5. pending(i + 1) =
            IF Awaits(given[i + 1], VALUE_FLAGS) THEN given[i + 1].flag ELSE NoFlag
    BY <2>1 DEF PendingAt
  <2>6. Reading(f[i + 1], pending(i), FALSE)
    BY <1>7 DEF Reading
  <2> DEFINE st == f[i + 1]
             open == pending(i)
             arg == given[i + 1]
             next == DockerStep(st, arg, ambient)
  <2>7. f[(i + 1) + 1] = next
    BY <2>2
  <2> HIDE DEF pending, st, open, arg
  <2>8. Reading(next, IF Awaits(arg, VALUE_FLAGS) THEN arg.flag ELSE NoFlag, arg = Dashes)
    BY <2>3, <2>4, <2>6, RunBefore DEF st, open, arg
  <2> HIDE DEF next
  <2>9. Reading(next, pending(i + 1), i + 1 = m)
    BY <2>4, <2>5, <2>8 DEF Reading, arg
  <2> QED
    BY <2>1, <2>7, <2>9
<1>8. Reading(f[m + 1], NoFlag, TRUE)
  <2> HIDE DEF reading, pending
  <2>1. \A i \in 0..m : i \in reading
    BY <1>2, <1>6, <1>7, Turns
  <2>2. m \in 0..m
    BY <1>2
  <2>3. Reading(f[m + 1], pending(m), TRUE)
    BY <2>1, <2>2 DEF reading, Reading
  <2>4. pending(m) = NoFlag
    <3>1. CASE m = 0
      BY <3>1 DEF pending, PendingAt
    <3>2. CASE m # 0
      <4>1. m \in 1..Len(given)
        BY <1>2, <3>2 DEF m
      <4> QED
        BY <4>1, ValuesAreWords DEF pending, m
    <3> QED
      BY <3>1, <3>2
  <2> QED
    BY <2>3, <2>4
<1>9. m + 2 \in found
  <2>1. m + 2 \in 1..n /\ m + 2 # 1 /\ (m + 2) - 1 = m + 1 /\ (m + 1) + 1 = m + 2
        /\ m + 2 \in (m + 2)..n
    BY <1>2, <1>3
  <2>2. f[m + 2] = DockerStep(f[m + 1], w, ambient)
    BY <1>3, <1>5, <2>1
  <2>3. Found(f[m + 2], image)
    BY <1>8, <2>2, RunImage
  <2> QED
    BY <2>1, <2>3
<1>10. ASSUME NEW i \in (m + 2)..n, i # n, i \in found
       PROVE  i + 1 \in found
  <2>1. i + 1 \in 1..n /\ (i + 1) - 1 = i /\ i + 1 \in (m + 2)..n /\ i + 1 # 1
    BY <1>2, <1>3, <1>10
  <2>2. f[i + 1] = DockerStep(f[i], args[i + 1], ambient)
    BY <1>5, <2>1
  <2>3. args[i + 1] \in Arguments
    BY <1>3, <2>1 DEF Plain, n
  <2>4. Found(f[i + 1], image)
    BY <1>10, <2>2, <2>3, RunBehind
  <2> QED
    BY <2>1, <2>4
<1>11. Found(f[n], image)
  <2> HIDE DEF found
  <2>1. m + 2 \in Nat /\ n \in Nat /\ n \in (m + 2)..n
    BY <1>2, <1>3
  <2>2. \A i \in (m + 2)..n : i \in found
    BY <1>9, <1>10, <2>1, Turns
  <2> QED
    BY <2>1, <2>2 DEF found
<1> QED
  BY <1>5, <1>11 DEF Found

\* Whatever is run, the image is one of the arguments.
LEMMA ImageIsArgument ==
  ASSUME NEW args \in Seq(Arguments), NEW ambient, parseDockerRun(args, ambient).errors = {}
  PROVE  \E i \in DOMAIN Filled(args) :
             parseDockerRun(args, ambient).image = Text(Filled(args)[i])
<1> DEFINE parts == Filled(args)
           n == Len(parts)
           T == {Text(parts[i]) : i \in 1..n}
<1>1. parts \in Seq(Arguments) /\ n \in Nat /\ DOMAIN parts = 1..n
  <2>1. parts \in Seq(Arguments)
    BY FilledIn
  <2> HIDE DEF parts
  <2> QED
    BY <2>1
<1> HIDE DEF parts
<1>2. parts # <<>>
  <2>1. ASSUME parts = <<>>
        PROVE  parseDockerRun(args, ambient).errors = {"run"}
    BY <2>1 DEF parseDockerRun, parts, NoRun
  <2> QED
    BY <2>1
<1>3. n # 0
  BY <1>1, <1>2
<1>4. PICK f : /\ f[1] = RunStart(ambient)
               /\ \A i \in 1..n : i # 1 => f[i] = DockerStep(f[i - 1], parts[i], ambient)
               /\ f[n].rest # <<>>
               /\ parseDockerRun(args, ambient).image = Head(f[n].rest)
  BY <1>1, <1>2, <1>3, RunTurns DEF parts
<1> DEFINE good == {i \in 1..n : RunShaped(f[i]) /\ f[i].rest \in Seq(T)}
<1> HIDE DEF n
<1>5. 1 \in good
  <2>1. RunShaped(f[1]) /\ f[1].rest = <<>>
    BY <1>4 DEF RunStart, RunShaped
  <2>2. 1 \in 1..n
    BY <1>1, <1>3
  <2> HIDE DEF T
  <2>3. <<>> \in Seq(T)
    OBVIOUS
  <2> QED
    BY <2>1, <2>2, <2>3
<1>6. ASSUME NEW i \in 1..n, i # n, i \in good
      PROVE  i + 1 \in good
  <2> DEFINE st == f[i]
             arg == parts[i + 1]
             next == DockerStep(st, arg, ambient)
  <2>1. i + 1 \in 1..n /\ i + 1 # 1 /\ (i + 1) - 1 = i
    BY <1>1, <1>6
  <2>2. f[i + 1] = next /\ Text(arg) \in T
    BY <1>4, <2>1
  <2>3. RunShaped(st) /\ st.rest \in Seq(T)
    BY <1>6
  <2> HIDE DEF T, st, arg
  <2>4. \/ next = [st EXCEPT !.reading = FALSE]
        \/ next = [st EXCEPT !.reading = FALSE, !.rest = Append(st.rest, Text(arg))]
        \/ next = [st EXCEPT !.pending = splitFlag(arg).flag]
        \/ next = ApplyFlag(st, splitFlag(arg).flag, splitFlag(arg).value, ambient)
        \/ next = [ApplyFlag(st, st.pending, Text(arg), ambient) EXCEPT !.pending = NoFlag]
    BY DEF DockerStep
  <2> DEFINE Fine(st2) == RunShaped(st2) /\ st2.rest \in Seq(T)
  <2>5. \A x : Fine([st EXCEPT !.reading = x])
    BY <2>3 DEF RunShaped
  <2>6. \A x : Fine([st EXCEPT !.reading = x, !.rest = Append(st.rest, Text(arg))])
    <3>1. Append(st.rest, Text(arg)) \in Seq(T)
      BY <2>2, <2>3
    <3>2. ASSUME NEW x, NEW y \in Seq(T)
          PROVE  Fine([st EXCEPT !.reading = x, !.rest = y])
      <4> DEFINE u == [st EXCEPT !.reading = x, !.rest = y]
      <4>1. u = [st EXCEPT !.reading = x, !.rest = y]
        OBVIOUS
      <4> HIDE DEF u
      <4>2. RunShaped(u) /\ u.rest = y
        BY <2>3, <4>1 DEF RunShaped
      <4>3. Fine(u)
        BY <4>2
      <4> QED
        BY <4>3 DEF u
    <3> HIDE DEF Fine
    <3> QED
      BY <3>1, <3>2
  <2>7. \A x : Fine([st EXCEPT !.pending = x])
    BY <2>3 DEF RunShaped
  <2>8. \A flag, value : Fine(ApplyFlag(st, flag, value, ambient))
    BY <2>3, FlagKeeps
  <2>9. ASSUME NEW flag, NEW value
        PROVE  Fine([ApplyFlag(st, flag, value, ambient) EXCEPT !.pending = NoFlag])
    <3> DEFINE applied == ApplyFlag(st, flag, value, ambient)
    <3>1. Fine(applied)
      BY <2>8
    <3> HIDE DEF applied
    <3>2. Fine([applied EXCEPT !.pending = NoFlag])
      BY <3>1 DEF RunShaped
    <3> QED
      BY <3>2 DEF applied
  <2> HIDE DEF Fine, next
  <2>10. Fine(next)
    <3>1. CASE next = [st EXCEPT !.reading = FALSE]
      BY <2>5, <3>1
    <3>2. CASE next = [st EXCEPT !.reading = FALSE, !.rest = Append(st.rest, Text(arg))]
      BY <2>6, <3>2
    <3>3. CASE next = [st EXCEPT !.pending = splitFlag(arg).flag]
      BY <2>7, <3>3
    <3>4. CASE next = ApplyFlag(st, splitFlag(arg).flag, splitFlag(arg).value, ambient)
      BY <2>8, <3>4
    <3>5. CASE next = [ApplyFlag(st, st.pending, Text(arg), ambient) EXCEPT !.pending = NoFlag]
      BY <2>9, <3>5
    <3> QED
      BY <2>4, <3>1, <3>2, <3>3, <3>4, <3>5
  <2> QED
    BY <2>1, <2>2, <2>10 DEF Fine
<1> HIDE DEF good
<1>7. \A i \in 1..n : i \in good
  BY <1>1, <1>3, <1>5, <1>6, Turns
<1>8. f[n].rest \in Seq(T)
  BY <1>1, <1>3, <1>7 DEF good
<1>9. Head(f[n].rest) \in T
  <2> HIDE DEF T
  <2> QED
    BY <1>4, <1>8
<1> QED
  BY <1>1, <1>4, <1>9 DEF parts

-----------------------------------------------------------------------------
(***************************************************************************)
(* The servers that are saved: of a remote, of a package or of a pasted    *)
(* text.                                                                   *)
(***************************************************************************)
OfPackage(s, package) ==
    s = Server(package.registryType, packageIdentifier(package),
               argumentValues(package.runtimeArguments),
               argumentValues(package.packageArguments), packageOption(package))

\* A server of a pasted text.
OfText(s, raw) ==
    s = Server("pasted", <<>>, <<>>, <<Word(<<raw.command>>)>> \o Filled(raw.args), convert(raw))

\* Every saved server is of a remote, of a package or of a pasted text.
LEMMA SavedAre ==
  ASSUME NEW s \in Saved
  PROVE  /\ s.row # NoDraft /\ ServerInput(s.row)
         /\ \/ s.kind = "remote" /\ \E remote : s.row = remoteOption(remote)
            \/ \E package \in RegistryPackage : OfPackage(s, package)
            \/ \E raw \in RawServer : OfText(s, raw)
<1>1. /\ s.row # NoDraft /\ ServerInput(s.row)
      /\ \/ \E entry \in Entries : s \in Registered(entry)
         \/ \E text \in Texts : s \in Pasted(text)
  <2>1. s.row # NoDraft /\ ServerInput(s.row)
    BY DEF Saved
  <2>2. PICK x \in {Registered(entry) : entry \in Entries} \cup {Pasted(t) : t \in Texts} : s \in x
    BY DEF Saved
  <2> QED
    BY <2>1, <2>2
<1>2. ASSUME NEW entry \in Entries, s \in Registered(entry)
      PROVE  \/ s.kind = "remote" /\ \E remote : s.row = remoteOption(remote)
             \/ \E package \in RegistryPackage : OfPackage(s, package)
  <2> DEFINE remotes == entry.remotes
             packages == entry.packages
             first == [i \in DOMAIN remotes |-> remoteOption(remotes[i])]
             second == [i \in DOMAIN packages |-> packageOption(packages[i])]
             m == Len(remotes)
             n == Len(packages)
  <2>1. remotes \in Seq(RegistryTransport) /\ packages \in Seq(RegistryPackage)
    BY EntriesAssumption
  <2>2. /\ m \in Nat /\ n \in Nat /\ DOMAIN remotes = 1..m /\ DOMAIN packages = 1..n
        /\ \A i \in 1..n : packages[i] \in RegistryPackage
    BY <2>1
  <2>3. /\ \A i \in 1..m : installOptions(entry)[i] = remoteOption(remotes[i])
        /\ \A i \in 1..n : installOptions(entry)[m + i] = packageOption(packages[i])
    <3> DEFINE R == {remoteOption(remotes[i]) : i \in 1..m} \cup
                    {packageOption(packages[i]) : i \in 1..n}
    <3>1. first = [i \in 1..m |-> first[i]] /\ second = [i \in 1..n |-> second[i]]
      BY <2>2
    <3>2. /\ \A i \in 1..m : first[i] = remoteOption(remotes[i]) /\ first[i] \in R
          /\ \A i \in 1..n : second[i] = packageOption(packages[i]) /\ second[i] \in R
      BY <2>2
    <3>3. installOptions(entry) = first \o second
      BY DEF installOptions
    <3> HIDE DEF first, second, R, m, n
    <3>4. first \in Seq(R) /\ Len(first) = m /\ second \in Seq(R) /\ Len(second) = n
      BY <2>2, <3>1, <3>2, IsASeq
    <3>5. /\ \A i \in 1..m : (first \o second)[i] = first[i]
          /\ \A i \in 1..n : (first \o second)[m + i] = second[i]
      BY <2>2, <3>4
    <3> QED
      BY <3>2, <3>3, <3>5
  <2>4. CASE \E i \in 1..m : s = Server("remote", <<>>, <<>>, <<>>, installOptions(entry)[i])
    BY <2>3, <2>4 DEF Server
  <2>5. CASE \E i \in 1..n :
                s = Server(packages[i].registryType, packageIdentifier(packages[i]),
                           argumentValues(packages[i].runtimeArguments),
                           argumentValues(packages[i].packageArguments),
                           installOptions(entry)[m + i])
    <3>1. PICK i \in 1..n :
                s = Server(packages[i].registryType, packageIdentifier(packages[i]),
                           argumentValues(packages[i].runtimeArguments),
                           argumentValues(packages[i].packageArguments),
                           installOptions(entry)[m + i])
      BY <2>5
    <3>2. OfPackage(s, packages[i]) /\ packages[i] \in RegistryPackage
      BY <2>2, <2>3, <3>1 DEF OfPackage
    <3> QED
      BY <3>2
  <2> QED
    BY <1>2, <2>2, <2>4, <2>5 DEF Registered
<1>3. ASSUME NEW text \in Texts, s \in Pasted(text)
      PROVE  \E raw \in RawServer : OfText(s, raw)
  <2> DEFINE raws == entriesOf(text)
  <2>1. raws \in Seq(RawServer)
    <3>1. text.entries \in Seq(RawServer)
      BY EntriesAssumption
    <3> QED
      BY <3>1 DEF entriesOf
  <2>2. PICK i \in DOMAIN raws :
            s = Server("pasted", <<>>, <<>>, <<Word(<<raws[i].command>>)>> \o Filled(raws[i].args),
                       parseMcpConfig(text)[i])
    BY <1>3 DEF Pasted
  <2>3. parseMcpConfig(text)[i] = convert(raws[i])
    BY DEF parseMcpConfig
  <2>4. raws[i] \in RawServer
    <3> HIDE DEF raws
    <3> QED
      BY <2>1
  <2> QED
    BY <2>2, <2>3, <2>4 DEF OfText
<1> QED
  BY <1>1, <1>2, <1>3

\* The identifier of a package, with its version, is a text.
LEMMA IdentifierIs ==
  ASSUME NEW package \in RegistryPackage
  PROVE  packageIdentifier(package) \in Seq(Strings)
<1> DEFINE identifier == package.identifier
<1>1. identifier \in Seq(Strings)
  <2>1. identifier \in Seq(STRING)
    BY DEF RegistryPackage
  <2>2. Seq(STRING) \subseteq Seq(Strings)
    BY SeqMonotonic DEF Strings
  <2> QED
    BY <2>1, <2>2
<1>2. package.version # None => package.version \in Strings
  BY DEF RegistryPackage, Strings
<1>3. {"@", "==", ":"} \subseteq Strings
  BY DEF Strings
<1> HIDE DEF identifier
<1>4. \A x, y \in Strings : identifier \o <<x, y>> \in Seq(Strings)
  BY <1>1
<1> QED
  BY <1>1, <1>2, <1>3, <1>4 DEF packageIdentifier, identifier

\* The options of a docker run are those that parseDockerRun reads.
LEMMA DockerIsRegular ==
  ASSUME NEW given \in Seq(Plain), OptionsOnly("docker", given)
  PROVE  Regular(given, VALUE_FLAGS)
<1>1. \A i \in 1..Len(given) :
          Awaits(given[i], TakesValue["docker"]) => given[i].flag \in VALUE_FLAGS
  BY FlagTables DEF Awaits
<1> QED
  BY <1>1, FlagTables, KnownIsRegular

\* A flag that npx does not take a value for, before its arguments.
LEMMA ValuesCons ==
  ASSUME NEW takes, NEW flags, flags \subseteq takes, NEW given \in Seq(Plain),
         Regular(given, takes), NEW x \in Plain, x.flag \notin flags
  PROVE  ValuesOf(<<x>> \o given, flags) = ValuesOf(given, flags)
<1> DEFINE all == <<x>> \o given
           n == Len(given)
           Gives(args, i, v) ==
               /\ args[i].flag \in flags
               /\ v = IF args[i].value # <<>> THEN args[i].value ELSE args[i + 1].value
<1>1. n \in Nat /\ DOMAIN given = 1..n /\ DOMAIN all = 1..(n + 1) /\ all[1] = x
  OBVIOUS
<1>2. \A i \in 1..(n + 1) : i # 1 => i - 1 \in 1..n /\ all[i] = given[i - 1]
  OBVIOUS
<1>3. \A j \in 1..n : j + 1 \in 1..(n + 1) /\ j + 1 # 1 /\ (j + 1) - 1 = j
  BY <1>1
<1>4. \A v : v \in ValuesOf(given, flags) <=> \E j \in 1..n : Gives(given, j, v)
  BY <1>1 DEF ValuesOf
<1>5. \A v : v \in ValuesOf(all, flags) <=> \E i \in 1..(n + 1) : Gives(all, i, v)
  BY <1>1 DEF ValuesOf
<1>6. ASSUME NEW j \in 1..n, NEW v
      PROVE  Gives(all, j + 1, v) <=> Gives(given, j, v)
  <2>1. all[j + 1] = given[j]
    BY <1>2, <1>3
  <2>2. CASE given[j].flag \in flags /\ given[j].value = <<>>
    <3>1. j # n
      BY <2>2 DEF Regular, Awaits
    <3>2. j + 1 \in 1..n
      BY <1>1, <3>1
    <3>3. all[(j + 1) + 1] = given[j + 1]
      BY <1>2, <1>3, <3>2
    <3> QED
      BY <2>1, <2>2, <3>3
  <2>3. CASE ~(given[j].flag \in flags /\ given[j].value = <<>>)
    BY <2>1, <2>3
  <2> QED
    BY <2>2, <2>3
<1>7. \A v : ~Gives(all, 1, v)
  BY <1>1
<1> HIDE DEF Gives, all, n
<1>8. \A v : v \in ValuesOf(all, flags) <=> v \in ValuesOf(given, flags)
  <2>1. ASSUME NEW v, NEW i \in 1..(n + 1), Gives(all, i, v)
        PROVE  \E j \in 1..n : Gives(given, j, v)
    <3>1. i # 1
      BY <1>7, <2>1
    <3>2. i - 1 \in 1..n /\ (i - 1) + 1 = i
      BY <1>1, <1>2, <3>1
    <3>3. Gives(all, (i - 1) + 1, v)
      BY <2>1, <3>2
    <3> QED
      BY <1>6, <3>2, <3>3
  <2>2. ASSUME NEW v, NEW j \in 1..n, Gives(given, j, v)
        PROVE  \E i \in 1..(n + 1) : Gives(all, i, v)
    BY <1>3, <1>6, <2>2
  <2> QED
    BY <1>4, <1>5, <2>1, <2>2
<1> QED
  BY <1>8 DEF all

\* The -y that packageOption puts before the arguments for npx changes nothing.
LEMMA YesFirst ==
  ASSUME NEW given, NEW command, NEW own, Readable("npx", given, command, own)
  PROVE  /\ Readable("npx", <<Flag("-y")>> \o given, command, own)
         /\ Installs("npx", <<Flag("-y")>> \o given, command) = Installs("npx", given, command)
<1> DEFINE x == Flag("-y")
           all == <<x>> \o given
           n == Len(given)
           takes == TakesValue["npx"]
<1>1. /\ given \in Seq(Plain) /\ OptionsOnly("npx", given) /\ ~UnlistedOption("npx", given)
      /\ n \in Nat /\ DOMAIN given = 1..n
  BY DEF Readable
<1>2. x \in Plain /\ ~IsWord(x) /\ x.flag = "-y" /\ x # Dashes
  <2>1. "-y" \in Strings /\ "-y" # NoFlag
    <3>1. "-y" # NoFlag
      BY Zenon DEF NoFlag
    <3> QED
      BY <3>1 DEF Strings
  <2>2. Flag("-y").flag = "-y" /\ Dashes.flag = "--"
    BY DEF Flag, Dashes
  <2> QED
    BY <2>1, <2>2, FlagIsPlain
<1>3. /\ x.flag \notin takes /\ x.flag \notin Unlisted["npx"]
      /\ x.flag \notin {"-p", "--package"}
  <2>1. "-y" \notin takes /\ "-y" \notin Unlisted["npx"] /\ "-y" \notin {"-p", "--package"}
    BY DEF TakesValue, Unlisted
  <2> QED
    BY <1>2, <2>1
<1>4. {"-p", "--package"} \subseteq takes
  BY FlagTables, NamingTables
<1> HIDE DEF x, n, takes
<1>5. Regular(given, takes)
  BY <1>1 DEF OptionsOnly, Regular, takes, n
<1>6. Regular(all, takes) /\ all \in Seq(Plain) /\ DOMAIN all = 1..Len(all)
  <2>1. Regular(all, takes)
    BY <1>1, <1>2, <1>3, <1>5, RegularCons
  <2> QED
    BY <1>1, <1>2, <2>1
<1>7. OptionsOnly("npx", all)
  BY <1>6 DEF OptionsOnly, Regular, takes
<1>8. ~UnlistedOption("npx", all)
  <2>1. \A i \in 1..Len(all) : i # 1 => i - 1 \in 1..n /\ all[i] = given[i - 1]
    BY <1>1 DEF n
  <2>2. all[1] = x
    BY <1>1
  <2>3. \A j \in 1..n : ~Awaits(given[j], Unlisted["npx"])
    BY <1>1 DEF UnlistedOption
  <2>4. ~Awaits(x, Unlisted["npx"])
    BY <1>3 DEF Awaits
  <2> HIDE DEF all
  <2> QED
    BY <1>6, <2>1, <2>2, <2>3, <2>4 DEF UnlistedOption
<1>9. Installs("npx", all, command) = Installs("npx", given, command)
  <2> DEFINE flags == {"-p", "--package"}
  <2>1. ValuesOf(all, flags) = ValuesOf(given, flags)
    <3> HIDE DEF flags
    <3>1. flags \subseteq takes /\ x.flag \notin flags
      BY <1>3, <1>4 DEF flags
    <3> QED
      BY <1>1, <1>2, <1>5, <3>1, ValuesCons
  <2>2. ValuesOf(all, {}) = {} /\ ValuesOf(given, {}) = {}
    BY DEF ValuesOf
  <2> HIDE DEF all, flags
  <2>3. Replaces["npx"] = flags /\ Adds["npx"] = {}
    BY NamingTables DEF flags
  <2> QED
    BY <2>1, <2>2, <2>3 DEF Installs
<1>10. Readable("npx", all, command, own)
  BY <1>6, <1>7, <1>8 DEF Readable
<1> QED
  BY <1>9, <1>10 DEF all, x

\* A remote server is neither launched nor audited by its package.
LEMMA RemoteIs ==
  ASSUME NEW row, row.transport # "stdio"
  PROVE  spawnSpec(row).kind = "refused" /\ auditTarget(row) = unsupported
<1>1. spawnSpec(row).kind = "refused"
  BY DEF spawnSpec
<1>2. auditTarget(row) = unsupported
  BY DEF auditTarget
<1> QED
  BY <1>1, <1>2

LEMMA RemoteOptionIs ==
  ASSUME NEW remote, remoteOption(remote) # NoDraft
  PROVE  remoteOption(remote).transport # "stdio"
<1>1. /\ remote.type \in DOMAIN REMOTE_TRANSPORTS
      /\ remoteOption(remote).transport = REMOTE_TRANSPORTS[remote.type]
  BY DEF remoteOption, baseDraft
<1>2. \A type \in DOMAIN REMOTE_TRANSPORTS : REMOTE_TRANSPORTS[type] # "stdio"
  BY DEF REMOTE_TRANSPORTS
<1> QED
  BY <1>1, <1>2

\* The row of a package, and the arguments in it.
LEMMA PackageRow ==
  ASSUME NEW package \in RegistryPackage, packageIdentifier(package) # <<>>,
         packageOption(package) # NoDraft
  PROVE  LET given == argumentValues(package.runtimeArguments)
             own == argumentValues(package.packageArguments)
             row == packageOption(package)
             w == Word(packageIdentifier(package))
             type == package.registryType
         IN  /\ row.transport = "stdio" /\ row.cwd = None
             /\ given \in Seq(Plain) /\ own \in Seq(Plain) /\ w \in Plain
             /\ \/ /\ type = "npm" /\ row.runtime = "npx"
                   /\ row.args = (<<Flag("-y")>> \o given) \o <<w>> \o own
                \/ /\ type = "pypi" /\ row.runtime = "uvx"
                   /\ row.args = given \o <<w>> \o own
                \/ /\ type = "oci" /\ row.runtime = "docker"
                   /\ \E flags : /\ flags \in {<<>>, <<Flag("--rm")>>}
                                 /\ \E more \in {<<>>, <<Flag("-i")>>} :
                                       row.args = (<<RunWord>> \o (more \o (flags \o given)))
                                                      \o <<w>> \o own
<1> DEFINE given == argumentValues(package.runtimeArguments)
           own == argumentValues(package.packageArguments)
           named == packageIdentifier(package)
           w == Word(named)
           row == packageOption(package)
           type == package.registryType
           rm == (IF Contains(given, Flag("--rm")) THEN <<>> ELSE <<Flag("--rm")>>) \o given
           interactive == IF Contains(rm, Flag("-i")) \/ Contains(rm, Flag("--interactive"))
                          THEN rm ELSE <<Flag("-i")>> \o rm
           runtime == STDIO_RUNTIMES[type]
           runtimeArgs == CASE runtime = "docker" -> <<Word(<<"run">>)>> \o interactive
                            [] runtime = "npx" -> <<Flag("-y")>> \o given
                            [] OTHER -> given
<1>1. given \in Seq(Plain) /\ own \in Seq(Plain)
  BY ArgumentsAre DEF RegistryPackage
<1>2. w \in Plain
  BY IdentifierIs, WordIsPlain
<1>3. /\ type \in DOMAIN STDIO_RUNTIMES
      /\ row = [baseDraft EXCEPT !.runtime = runtime, !.env = package.environmentVariables,
                                 !.args = Filled(runtimeArgs \o <<w>> \o own)]
  BY DEF packageOption
<1>4. \/ type = "npm" /\ runtime = "npx"
      \/ type = "pypi" /\ runtime = "uvx"
      \/ type = "oci" /\ runtime = "docker"
  BY <1>3 DEF STDIO_RUNTIMES
<1>5. /\ row.transport = "stdio" /\ row.cwd = None /\ row.runtime = runtime
      /\ row.args = Filled(runtimeArgs \o <<w>> \o own)
  BY <1>3 DEF baseDraft
<1> HIDE DEF given, own, w, row
<1>6. Flag("-y") \in Plain /\ Flag("-i") \in Plain /\ Flag("--rm") \in Plain /\ RunWord \in Plain
  <2>1. {"-y", "-i", "--rm"} \subseteq Strings /\ <<"run">> \in Seq(Strings)
    BY DEF Strings
  <2>2. NoFlag \notin {"-y", "-i", "--rm"}
    BY Zenon DEF NoFlag
  <2> QED
    BY <2>1, <2>2, FlagIsPlain, WordIsPlain DEF RunWord
<1>7. CASE runtime = "docker"
  <2>1. runtimeArgs = <<RunWord>> \o interactive
    BY <1>7 DEF RunWord
  <2>2. rm \in Seq(Plain) /\ \E flags \in {<<>>, <<Flag("--rm")>>} : rm = flags \o given
    BY <1>1, <1>6
  <2> HIDE DEF rm
  <2>3. interactive \in Seq(Plain) /\ \E more \in {<<>>, <<Flag("-i")>>} : interactive = more \o rm
    <3>1. <<>> \o rm = rm
      BY <2>2
    <3> QED
      BY <1>6, <2>2, <3>1
  <2> HIDE DEF interactive
  <2>4. runtimeArgs \o <<w>> \o own \in Seq(Plain)
    BY <1>1, <1>2, <1>6, <2>1, <2>3
  <2>5. row.args = (<<RunWord>> \o interactive) \o <<w>> \o own
    BY <1>5, <2>1, <2>4, PlainFilled
  <2> QED
    BY <1>1, <1>2, <1>4, <1>5, <1>7, <2>2, <2>3, <2>5 DEF given, own, w, row
<1>8. CASE runtime = "npx"
  <2>1. runtimeArgs = <<Flag("-y")>> \o given
    BY <1>8
  <2>2. runtimeArgs \o <<w>> \o own \in Seq(Plain)
    BY <1>1, <1>2, <1>6, <2>1
  <2>3. row.args = (<<Flag("-y")>> \o given) \o <<w>> \o own
    BY <1>5, <2>1, <2>2, PlainFilled
  <2> QED
    BY <1>1, <1>2, <1>4, <1>5, <1>8, <2>3 DEF given, own, w, row
<1>9. CASE runtime = "uvx"
  <2>1. runtimeArgs = given
    BY <1>9
  <2>2. runtimeArgs \o <<w>> \o own \in Seq(Plain)
    BY <1>1, <1>2, <2>1
  <2>3. row.args = given \o <<w>> \o own
    BY <1>5, <2>1, <2>2, PlainFilled
  <2> QED
    BY <1>1, <1>2, <1>4, <1>5, <1>9, <2>3 DEF given, own, w, row
<1> QED
  BY <1>4, <1>7, <1>8, <1>9

\* The parts of a server that is saved of a package.
LEMMA OfPackageIs ==
  ASSUME NEW s, NEW package, OfPackage(s, package)
  PROVE  /\ s.kind = package.registryType /\ s.named = packageIdentifier(package)
         /\ s.given = argumentValues(package.runtimeArguments)
         /\ s.argv = argumentValues(package.packageArguments)
         /\ s.row = packageOption(package)
BY DEF OfPackage, Server

\* A package of npm or PyPI: what is audited and what is launched.
LEMMA PackageRuns ==
  ASSUME NEW s, NEW package \in RegistryPackage, OfPackage(s, package), s.row # NoDraft,
         s.named # <<>>, s.kind \in {"npm", "pypi"}
  PROVE  /\ LooksAt(TargetOf(s), STDIO_RUNTIMES[s.kind], s.given, s.named, s.argv)
         /\ spawnSpec(s.row).kind = "process" /\ Contains(spawnSpec(s.row).argv, Word(s.named))
         /\ spawnSpec(s.row).env \cap REDIRECTING_ENV = {}
<1> DEFINE given == s.given
           own == s.argv
           named == s.named
           w == Word(named)
           row == s.row
           all == IF s.kind = "npm" THEN <<Flag("-y")>> \o given ELSE given
<1>1. /\ row.transport = "stdio" /\ row.cwd = None
      /\ given \in Seq(Plain) /\ own \in Seq(Plain) /\ w \in Plain
      /\ \/ /\ s.kind = "npm" /\ row.runtime = "npx"
            /\ row.args = (<<Flag("-y")>> \o given) \o <<w>> \o own
         \/ /\ s.kind = "pypi" /\ row.runtime = "uvx"
            /\ row.args = given \o <<w>> \o own
  BY PackageRow, OfPackageIs
<1>2. named \in Seq(Strings)
  BY IdentifierIs, OfPackageIs
<1> HIDE DEF given, own, w, row, named
<1>3. Flag("-y") \in Plain /\ ~IsWord(Flag("-y")) /\ Flag("-y").flag = "-y" /\ Flag("-y") # Dashes
  <2>1. "-y" \in Strings /\ "-y" # NoFlag
    <3>1. "-y" # NoFlag
      BY Zenon DEF NoFlag
    <3> QED
      BY <3>1 DEF Strings
  <2>2. Flag("-y").flag = "-y" /\ Dashes.flag = "--"
    BY DEF Flag, Dashes
  <2> QED
    BY <2>1, <2>2, FlagIsPlain
<1>4. all \in Seq(Plain) /\ row.args = all \o <<w>> \o own
  BY <1>1, <1>3
<1>5. row.args \in Seq(Plain) /\ Filled(row.args) = row.args
  <2>1. row.args \in Seq(Plain)
    BY <1>1, <1>4
  <2> QED
    BY <2>1, PlainFilled
<1>6. LooksAt(TargetOf(s), STDIO_RUNTIMES[s.kind], given, named, own)
  <2>1. TargetOf(s) = auditTarget(row)
    BY <1>1 DEF TargetOf, row
  <2>2. named # <<>>
    BY DEF named
  <2>3. CASE s.kind = "npm"
    <3>1. auditTarget(row) = parseNpxArgs(all \o <<w>> \o own)
      BY <1>1, <1>4, <1>5, <2>3 DEF auditTarget
    <3>2. STDIO_RUNTIMES[s.kind] = "npx" /\ Registry["npx"] = "npm"
      BY <2>3 DEF STDIO_RUNTIMES, Registry
    <3>3. ASSUME Readable("npx", given, named, own)
          PROVE  TargetOf(s) \in {unsupported, [kind |-> "npm", specs |-> Installs("npx", given, named)]}
      <4>1. all = <<Flag("-y")>> \o given
        BY <2>3
      <4> HIDE DEF all
      <4>2. /\ Readable("npx", all, named, own)
            /\ Installs("npx", all, named) = Installs("npx", given, named)
        BY <3>3, <4>1, YesFirst
      <4>3. parseNpxArgs(all \o <<Word(named)>> \o own) \in
                {unsupported, [kind |-> "npm", specs |-> Installs("npx", all, named)]}
        BY <4>2, NpxTarget
      <4> QED
        BY <2>1, <3>1, <4>2, <4>3 DEF w
    <3> QED
      BY <1>1, <1>2, <2>2, <3>2, <3>3 DEF LooksAt, Readable
  <2>4. CASE s.kind = "pypi"
    <3>1. auditTarget(row) = parseUvxArgs(given \o <<w>> \o own)
      BY <1>1, <1>4, <1>5, <2>4 DEF auditTarget
    <3>2. STDIO_RUNTIMES[s.kind] = "uvx" /\ Registry["uvx"] = "pypi"
      BY <2>4 DEF STDIO_RUNTIMES, Registry
    <3>3. ASSUME Readable("uvx", given, named, own)
          PROVE  TargetOf(s) \in {unsupported, [kind |-> "pypi", specs |-> Installs("uvx", given, named)]}
      <4>1. parseUvxArgs(given \o <<Word(named)>> \o own) \in
                {unsupported, [kind |-> "pypi", specs |-> Installs("uvx", given, named)]}
        BY <3>3, UvxTarget
      <4> QED
        BY <2>1, <3>1, <4>1 DEF w
    <3> QED
      BY <1>1, <1>2, <2>2, <3>2, <3>3 DEF LooksAt, Readable
  <2> HIDE DEF all
  <2> QED
    BY <2>3, <2>4
<1>7. /\ spawnSpec(row).kind = "process"
      /\ spawnSpec(row).argv = <<Word(<<row.runtime>>)>> \o row.args
      /\ spawnSpec(row).env = buildChildEnv(row.env, row.runtime)
  <2>1. row.runtime # "docker" /\ row.runtime # "custom" /\ row.transport = "stdio"
    BY <1>1
  <2>2. spawnSpec(row).kind = "process" /\ spawnSpec(row).argv = buildArgv(row.runtime, row.args)
        /\ spawnSpec(row).env = buildChildEnv(row.env, row.runtime)
    BY <2>1 DEF spawnSpec
  <2> QED
    BY <1>5, <2>1, <2>2 DEF buildArgv
<1>8. Contains(spawnSpec(row).argv, w)
  <2> DEFINE args == row.args
             runner == Word(<<row.runtime>>)
             m == Len(all)
  <2>1. /\ args \in Seq(Plain) /\ Len(args) \in Nat /\ m \in Nat /\ m < Len(args)
        /\ args[m + 1] = w
    BY <1>1, <1>4, Built
  <2>2. spawnSpec(row).argv = <<runner>> \o args
    BY <1>7
  <2> HIDE DEF args, m, runner
  <2>3. Len(<<runner>> \o args) = Len(args) + 1 /\ (<<runner>> \o args)[(m + 1) + 1] = args[m + 1]
    BY <2>1
  <2>4. (m + 1) + 1 \in 1..(Len(args) + 1)
    BY <2>1
  <2> QED
    BY <2>1, <2>2, <2>3, <2>4 DEF Contains
<1>9. spawnSpec(row).env \cap REDIRECTING_ENV = {}
  <2>1. row.runtime \in AUDITED_RUNTIMES
    BY <1>1 DEF AUDITED_RUNTIMES
  <2> QED
    BY <1>7, <2>1 DEF buildChildEnv
<1> QED
  BY <1>6, <1>7, <1>8, <1>9 DEF row, w, named, given, own

\* What parseDockerRun says, whatever its loop has found.
LEMMA RunIs ==
  ASSUME NEW args, NEW ambient
  PROVE  LET run == parseDockerRun(args, ambient)
         IN  run = [image |-> run.image, cmd |-> run.cmd, env |-> run.env, binds |-> run.binds,
                    options |-> run.options, labels |-> run.labels, errors |-> run.errors]
<1> DEFINE Whole(run) ==
        run = [image |-> run.image, cmd |-> run.cmd, env |-> run.env, binds |-> run.binds,
               options |-> run.options, labels |-> run.labels, errors |-> run.errors]
<1>1. ASSUME NEW e
      PROVE  Whole([NoRun EXCEPT !.errors = e])
  <2> DEFINE run == [NoRun EXCEPT !.errors = e]
  <2>1. run = [NoRun EXCEPT !.errors = e]
    OBVIOUS
  <2> HIDE DEF run
  <2>2. Whole(run)
    BY <2>1 DEF NoRun
  <2> QED
    BY <2>2 DEF run
<1>2. ASSUME NEW i, NEW c, NEW v, NEW b, NEW o, NEW l
      PROVE  Whole([NoRun EXCEPT !.image = i, !.cmd = c, !.env = v, !.binds = b,
                                 !.options = o, !.labels = l])
  <2> DEFINE run == [NoRun EXCEPT !.image = i, !.cmd = c, !.env = v, !.binds = b,
                                  !.options = o, !.labels = l]
  <2>1. run = [NoRun EXCEPT !.image = i, !.cmd = c, !.env = v, !.binds = b,
                            !.options = o, !.labels = l]
    OBVIOUS
  <2> HIDE DEF run
  <2>2. Whole(run)
    BY <2>1 DEF NoRun
  <2> QED
    BY <2>2 DEF run
<1> HIDE DEF Whole
<1>3. Whole(parseDockerRun(args, ambient))
  BY <1>1, <1>2 DEF parseDockerRun
<1> QED
  BY <1>3 DEF Whole

\* A docker run is launched if it says what to run with the environment there is.
LEMMA DockerSpawns ==
  ASSUME NEW row, row.transport = "stdio", row.runtime = "docker"
  PROVE  LET parsed == parseDockerRun(row.args, row.env \ JUNCTIO_ENV)
             spawned == spawnSpec(row)
         IN  \/ parsed.errors # {} /\ spawned.kind = "refused"
             \/ /\ parsed.errors = {} /\ spawned.kind = "container"
                /\ spawned.run.image = parsed.image
<1> DEFINE parsed == parseDockerRun(row.args, row.env \ JUNCTIO_ENV)
           placed == row.cwd = None \/ \E o \in parsed.options : o[1] = "workdir"
           run == [parsed EXCEPT
                      !.options = IF placed THEN @ ELSE @ \cup {<<"workdir", <<row.cwd>>>>}]
           spawn(kind, argv, env, box) == [kind |-> kind, argv |-> argv, env |-> env, run |-> box]
<1>1. spawnSpec(row) = IF run.errors # {} THEN spawn("refused", <<>>, {}, NoRun)
                       ELSE spawn("container", <<>>, {}, run)
  BY DEF spawnSpec
<1>2. run.errors = parsed.errors /\ run.image = parsed.image
  <2> HIDE DEF placed
  <2>1. parsed = [image |-> parsed.image, cmd |-> parsed.cmd, env |-> parsed.env,
                  binds |-> parsed.binds, options |-> parsed.options,
                  labels |-> parsed.labels, errors |-> parsed.errors]
    BY RunIs
  <2> HIDE DEF parsed
  <2> QED
    BY <2>1
<1> HIDE DEF run, parsed
<1>3. CASE parsed.errors # {}
  <2>1. spawnSpec(row).kind = "refused"
    BY <1>1, <1>2, <1>3
  <2> QED
    BY <1>3, <2>1 DEF parsed
<1>4. CASE parsed.errors = {}
  <2>1. spawnSpec(row).kind = "container" /\ spawnSpec(row).run = run
    BY <1>1, <1>2, <1>4
  <2> QED
    BY <1>2, <1>4, <2>1 DEF parsed
<1> QED
  BY <1>3, <1>4

\* A package of a container registry.
LEMMA ImageRuns ==
  ASSUME NEW s, NEW package \in RegistryPackage, OfPackage(s, package), s.row # NoDraft,
         ServerInput(s.row), s.named # <<>>, s.kind = "oci",
         OptionsOnly("docker", s.given)
  PROVE  \/ spawnSpec(s.row).kind = "container" /\ spawnSpec(s.row).run.image = s.named
         \/ spawnSpec(s.row).kind = "refused" /\ s.row.env \cap JUNCTIO_ENV # {}
<1> DEFINE given == s.given
           own == s.argv
           named == s.named
           w == Word(named)
           row == s.row
           ambient == row.env \ JUNCTIO_ENV
<1>1. PICK flags \in {<<>>, <<Flag("--rm")>>}, more \in {<<>>, <<Flag("-i")>>} :
            /\ row.transport = "stdio" /\ row.runtime = "docker"
            /\ given \in Seq(Plain) /\ own \in Seq(Plain) /\ w \in Plain
            /\ row.args = (<<RunWord>> \o (more \o (flags \o given))) \o <<w>> \o own
  BY PackageRow, OfPackageIs
<1>2. named \in Seq(Strings) /\ named # <<>>
  BY IdentifierIs, OfPackageIs
<1>3. row.env \cap JUNCTIO_ENV = {} => parseDockerRun(row.args, ambient).errors = {}
  <2>1. parseDockerRun(row.args, row.env).errors = {}
    BY <1>1 DEF ServerInput
  <2>2. row.env \cap JUNCTIO_ENV = {} => ambient = row.env
    OBVIOUS
  <2> QED
    BY <2>1, <2>2
<1> HIDE DEF given, own, w, row, named, ambient
<1> DEFINE all == more \o (flags \o given)
<1>4. all \in Seq(Plain) /\ Regular(all, VALUE_FLAGS)
  <2>1. Regular(given, VALUE_FLAGS)
    BY <1>1, DockerIsRegular DEF given
  <2>2. \A f \in {"-i", "--rm"} : /\ Flag(f) \in Plain /\ ~IsWord(Flag(f)) /\ Flag(f) # Dashes
                                  /\ Flag(f).flag \notin VALUE_FLAGS
    <3>1. \A f \in {"-i", "--rm"} : f \in Strings /\ f \notin VALUE_FLAGS /\ f # "--"
      BY DEF Strings, VALUE_FLAGS
    <3>2. \A f \in {"-i", "--rm"} : f # NoFlag
      BY Zenon DEF NoFlag
    <3>3. \A f \in {"-i", "--rm"} : Flag(f).flag = f /\ Dashes.flag = "--"
      BY DEF Flag, Dashes
    <3> QED
      BY <3>1, <3>2, <3>3, FlagIsPlain
  <2> DEFINE inner == flags \o given
  <2>3. inner \in Seq(Plain) /\ Regular(inner, VALUE_FLAGS)
    <3>1. CASE flags = <<>>
      <4>1. inner = given
        BY <1>1, <3>1
      <4> QED
        BY <1>1, <2>1, <4>1
    <3>2. CASE flags = <<Flag("--rm")>>
      BY <1>1, <2>1, <2>2, <3>2, RegularCons
    <3> QED
      BY <3>1, <3>2
  <2> HIDE DEF inner
  <2>4. more \o inner \in Seq(Plain) /\ Regular(more \o inner, VALUE_FLAGS)
    <3>1. CASE more = <<>>
      <4>1. more \o inner = inner
        BY <2>3, <3>1
      <4> QED
        BY <2>3, <4>1
    <3>2. CASE more = <<Flag("-i")>>
      BY <2>2, <2>3, <3>2, RegularCons
    <3> QED
      BY <3>1, <3>2
  <2> QED
    BY <2>4 DEF inner
<1>5. row.args = (<<RunWord>> \o all) \o <<w>> \o own
  BY <1>1
<1> HIDE DEF all
<1>6. parseDockerRun(row.args, ambient).errors = {} =>
          parseDockerRun(row.args, ambient).image = named
  <2> DEFINE args == (<<RunWord>> \o all) \o <<Word(named)>> \o own
  <2>1. parseDockerRun(args, ambient).errors = {} => parseDockerRun(args, ambient).image = named
    <3>1. NoFlag \notin VALUE_FLAGS /\ own \in Seq(Plain)
      BY <1>1, FlagTables
    <3> QED
      BY <1>2, <1>4, <3>1, RunRead, Zenon
  <2>2. row.args = args
    BY <1>5 DEF w
  <2> HIDE DEF args
  <2> QED
    BY <2>1, <2>2
<1>7. \/ parseDockerRun(row.args, ambient).errors # {} /\ spawnSpec(row).kind = "refused"
      \/ /\ parseDockerRun(row.args, ambient).errors = {} /\ spawnSpec(row).kind = "container"
         /\ spawnSpec(row).run.image = parseDockerRun(row.args, ambient).image
  BY <1>1, DockerSpawns DEF ambient
<1> QED
  BY <1>3, <1>6, <1>7 DEF row, named

\* What is left of arguments that may be Blank.
LEMMA FilledPlain ==
  ASSUME NEW args \in Seq(Arguments)
  PROVE  Filled(args) \in Seq(Plain)
<1> DEFINE seqs == [i \in DOMAIN args |-> IF args[i] = Blank THEN <<>> ELSE <<args[i]>>]
<1>1. seqs = [i \in 1..Len(args) |-> seqs[i]] /\ Len(args) \in Nat
  OBVIOUS
<1>2. \A i \in 1..Len(args) : args[i] \in Arguments /\ (args[i] # Blank => args[i] \in Plain)
  BY DEF Plain
<1>3. \A i \in 1..Len(args) : seqs[i] \in Seq(Plain)
  <2> HIDE DEF Plain
  <2> QED
    BY <1>2
<1>4. Filled(args) = FlattenSeq(seqs)
  BY DEF Filled
<1> HIDE DEF seqs
<1>5. seqs \in Seq(Seq(Plain))
  BY <1>1, <1>3, IsASeq
<1> QED
  BY <1>4, <1>5, FlattenIn

\* The arguments of a pasted server and the word it begins with.
LEMMA TextIsOf ==
  ASSUME NEW s, NEW raw \in RawServer, OfText(s, raw)
  PROVE  LET w == Word(<<raw.command>>)
         IN  /\ s.kind = "pasted" /\ s.row = convert(raw) /\ s.argv = <<w>> \o Filled(raw.args)
             /\ w \in Plain /\ raw.args \in Seq(Arguments) /\ Filled(raw.args) \in Seq(Plain)
<1> DEFINE w == Word(<<raw.command>>)
<1>1. s.kind = "pasted" /\ s.row = convert(raw) /\ s.argv = <<w>> \o Filled(raw.args)
  BY DEF OfText, Server
<1>2. raw.args \in Seq(CommandArgument) /\ raw.command \in STRING
  BY DEF RawServer
<1>3. raw.args \in Seq(Arguments)
  BY <1>2, CommandIs, SeqMonotonic
<1>4. w \in Plain
  <2>1. <<raw.command>> \in Seq(Strings) /\ <<raw.command>> # <<>>
    BY <1>2 DEF Strings
  <2> QED
    BY <2>1, WordIsPlain
<1> QED
  BY <1>1, <1>3, <1>4, FilledPlain

\* Arguments around one of them.
LEMMA SplitAt ==
  ASSUME NEW args \in Seq(Plain), NEW k \in DOMAIN args
  PROVE  LET given == SubSeq(args, 1, k - 1)
             own == SubSeq(args, k + 1, Len(args))
         IN  /\ given \in Seq(Plain) /\ own \in Seq(Plain) /\ args[k] \in Plain
             /\ args = given \o <<args[k]>> \o own
<1> DEFINE n == Len(args)
           given == SubSeq(args, 1, k - 1)
           own == SubSeq(args, k + 1, n)
<1>1. n \in Nat /\ k \in 1..n /\ args[k] \in Plain
  OBVIOUS
<1>2. /\ given \in Seq(Plain) /\ Len(given) = k - 1
      /\ \A i \in 1..(k - 1) : given[i] = args[i]
  BY <1>1
<1>3. /\ own \in Seq(Plain) /\ Len(own) = n - k
      /\ \A i \in 1..(n - k) : own[i] = args[k + i]
  BY <1>1
<1> HIDE DEF given, own, n
<1>4. /\ given \o <<args[k]>> \o own \in Seq(Plain)
      /\ Len(given \o <<args[k]>> \o own) = n
  <2>1. given \o <<args[k]>> \o own \in Seq(Plain)
    BY <1>1, <1>2, <1>3
  <2>2. Len(given \o <<args[k]>> \o own) = (Len(given) + 1) + Len(own)
    <3> DEFINE mid == given \o <<args[k]>>
    <3>1. mid \in Seq(Plain) /\ Len(mid) = Len(given) + 1
      BY <1>1, <1>2
    <3>2. own \in Seq(Plain)
      BY <1>3
    <3> HIDE DEF mid
    <3>3. Len(mid \o own) = Len(mid) + Len(own)
      BY <3>1, <3>2
    <3> QED
      BY <3>1, <3>3 DEF mid
  <2>3. ((k - 1) + 1) + (n - k) = n
    BY <1>1
  <2> QED
    BY <1>2, <1>3, <2>1, <2>2, <2>3
<1>5. \A i \in 1..n : (given \o <<args[k]>> \o own)[i] =
          IF i < k THEN given[i] ELSE IF i = k THEN args[k] ELSE own[i - k]
  BY <1>1, <1>2, <1>3
<1>6. \A i \in 1..n : (given \o <<args[k]>> \o own)[i] = args[i]
  <2>1. \A i \in 1..n : i > k => i - k \in 1..(n - k) /\ k + (i - k) = i
    BY <1>1
  <2>2. \A i \in 1..n : i < k => i \in 1..(k - 1)
    BY <1>1
  <2> QED
    BY <1>1, <1>2, <1>3, <1>5, <2>1, <2>2
<1>7. args = given \o <<args[k]>> \o own
  <2>1. args \in Seq(Plain) /\ Len(args) = n
    BY DEF n
  <2> QED
    BY <1>4, <1>6, <2>1, SeqEqual
<1> QED
  BY <1>1, <1>2, <1>3, <1>7 DEF given, own, n

\* What the audit makes of the arguments of a runner.
ParseArgs(runner, args) ==
    CASE runner = "npx" -> parseNpxArgs(args)
      [] runner = "bunx" -> parseBunxArgs(args)
      [] runner = "uvx" -> parseUvxArgs(args)

LEMMA RunnerTarget ==
  ASSUME NEW runner \in {"npx", "bunx", "uvx"}, NEW args \in Seq(Plain),
         NEW k \in DOMAIN args, IsWord(args[k])
  PROVE  LooksAt(ParseArgs(runner, args), runner, SubSeq(args, 1, k - 1), args[k].value,
                 SubSeq(args, k + 1, Len(args)))
<1> DEFINE given == SubSeq(args, 1, k - 1)
           own == SubSeq(args, k + 1, Len(args))
           command == args[k].value
<1>1. /\ given \in Seq(Plain) /\ own \in Seq(Plain) /\ args[k] \in Plain
      /\ args = given \o <<args[k]>> \o own
  BY SplitAt
<1>2. args[k] = Word(command) /\ command \in Seq(Strings) /\ command # <<>>
  BY <1>1, PlainWord
<1> HIDE DEF given, own, command
<1>3. args = given \o <<Word(command)>> \o own
  BY <1>1, <1>2
<1>4. Registry["npx"] = "npm" /\ Registry["bunx"] = "npm" /\ Registry["uvx"] = "pypi"
  BY DEF Registry
<1>5. ASSUME Readable(runner, given, command, own)
      PROVE  ParseArgs(runner, args) \in
                 {unsupported, [kind |-> Registry[runner], specs |-> Installs(runner, given, command)]}
  <2>1. CASE runner = "npx"
    BY <1>3, <1>4, <1>5, <2>1, NpxTarget DEF ParseArgs
  <2>2. CASE runner = "bunx"
    BY <1>3, <1>4, <1>5, <2>2, BunxTarget DEF ParseArgs
  <2>3. CASE runner = "uvx"
    BY <1>3, <1>4, <1>5, <2>3, UvxTarget DEF ParseArgs
  <2> QED
    BY <2>1, <2>2, <2>3
<1>6. LooksAt(ParseArgs(runner, args), runner, given, command, own)
  BY <1>1, <1>2, <1>5 DEF LooksAt, Readable
<1> QED
  BY <1>6 DEF given, own, command

\* The arguments of a pasted runner, however the runner is written.
LEMMA ArgsOfRunner ==
  ASSUME NEW w \in Plain, NEW filled \in Seq(Plain), NEW runner \in DOMAIN Begins,
         NEW args \in RunnerArgs(<<w>> \o filled, runner)
  PROVE  /\ runner \in {"npx", "bunx", "uvx"} /\ args \in Seq(Plain)
         /\ \/ w = Word(<<runner>>) /\ args = filled
            \/ /\ runner = "uvx" /\ w = Word(<<"uv">>)
               /\ IsPrefix(<<Word(<<"tool">>), Word(<<"run">>)>>, filled)
               /\ args = SubSeq(filled, 3, Len(filled))
<1> DEFINE argv == <<w>> \o filled
           n == Len(filled)
           tool == Word(<<"tool">>)
           run == Word(<<"run">>)
<1>1. n \in Nat /\ argv \in Seq(Plain) /\ Len(argv) = n + 1 /\ argv[1] = w
      /\ \A i \in 1..n : argv[i + 1] = filled[i]
  OBVIOUS
<1>2. PICK begin \in Begins[runner] : /\ IsPrefix(begin, argv)
                                      /\ args = SubSeq(argv, Len(begin) + 1, Len(argv))
  BY DEF RunnerArgs
<1>3. /\ runner \in {"npx", "bunx", "uvx"}
      /\ \/ begin = <<Word(<<runner>>)>>
         \/ runner = "uvx" /\ begin = <<Word(<<"uv">>), tool, run>>
  BY DEF Begins
<1> HIDE DEF argv, n, tool, run
<1>4. CASE begin = <<Word(<<runner>>)>>
  <2> DEFINE first == Word(<<runner>>)
  <2>1. begin = <<first>>
    BY <1>4
  <2> HIDE DEF first
  <2>2. Len(begin) = 1 /\ begin[1] = first
    BY <2>1
  <2>3. SubSeq(begin, 1, 1) = SubSeq(argv, 1, 1)
    BY <1>2, <2>2 DEF IsPrefix
  <2>4. SubSeq(argv, 1, 1)[1] = w
    BY <1>1
  <2>5. SubSeq(begin, 1, 1)[1] = first
    BY <2>1
  <2>6. args = SubSeq(argv, 2, n + 1)
    BY <1>1, <1>2, <2>2
  <2>7. SubSeq(argv, 2, n + 1) \in Seq(Plain) /\ Len(SubSeq(argv, 2, n + 1)) = n
        /\ \A i \in 1..n : SubSeq(argv, 2, n + 1)[i] = argv[i + 1]
    BY <1>1
  <2>8. args = filled
    <3>1. \A i \in 1..n : args[i] = filled[i]
      BY <1>1, <2>6, <2>7
    <3>2. Len(filled) = n
      BY DEF n
    <3> QED
      BY <2>6, <2>7, <3>1, <3>2, SeqEqual
  <2> QED
    BY <1>3, <2>3, <2>4, <2>5, <2>8 DEF first
<1>5. CASE runner = "uvx" /\ begin = <<Word(<<"uv">>), tool, run>>
  <2> DEFINE uv == Word(<<"uv">>)
             prefix == <<tool, run>>
  <2>1. begin = <<uv, tool, run>>
    BY <1>5
  <2> HIDE DEF uv
  <2>2. Len(begin) = 3 /\ Len(prefix) = 2
    BY <2>1
  <2>3. SubSeq(begin, 1, 3) = SubSeq(argv, 1, 3) /\ n >= 2
    BY <1>1, <1>2, <2>2 DEF IsPrefix
  <2>4. argv[1] = uv /\ argv[2] = tool /\ argv[3] = run
    <3>1. SubSeq(begin, 1, 3)[1] = uv /\ SubSeq(begin, 1, 3)[2] = tool
          /\ SubSeq(begin, 1, 3)[3] = run
      BY <2>1
    <3>2. SubSeq(argv, 1, 3)[1] = argv[1] /\ SubSeq(argv, 1, 3)[2] = argv[2]
          /\ SubSeq(argv, 1, 3)[3] = argv[3]
      BY <1>1, <2>3
    <3> QED
      BY <2>3, <3>1, <3>2
  <2>5. filled[1] = tool /\ filled[2] = run
    BY <1>1, <2>3, <2>4
  <2>6. IsPrefix(prefix, filled)
    <3>1. Len(filled) = n /\ n \in Nat /\ n >= 2
      BY <1>1, <2>3 DEF n
    <3>2. /\ SubSeq(filled, 1, 2) \in Seq(Plain) /\ Len(SubSeq(filled, 1, 2)) = 2
          /\ SubSeq(filled, 1, 2)[1] = tool /\ SubSeq(filled, 1, 2)[2] = run
      BY <2>5, <3>1
    <3>3. SubSeq(filled, 1, 2) = prefix
      <4> DEFINE two == SubSeq(filled, 1, 2)
      <4>1. two \in Seq(Plain) /\ Len(two) = 2 /\ two[1] = tool /\ two[2] = run
        BY <3>2
      <4> HIDE DEF two
      <4>2. two = <<tool, run>>
        BY <4>1
      <4> QED
        BY <4>2 DEF two
    <3> HIDE DEF prefix
    <3>4. SubSeq(prefix, 1, 2) = prefix
      <4>1. prefix \in Seq(Plain) /\ Len(prefix) = 2
        BY <2>2, <3>2, <3>3
      <4> QED
        BY <4>1, SubSeqFull
    <3> QED
      BY <2>2, <3>1, <3>3, <3>4 DEF IsPrefix
  <2>7. args = SubSeq(argv, 4, n + 1)
    BY <1>1, <1>2, <2>2
  <2>8. /\ SubSeq(argv, 4, n + 1) \in Seq(Plain) /\ Len(SubSeq(argv, 4, n + 1)) = n - 2
        /\ \A i \in 1..(n - 2) : SubSeq(argv, 4, n + 1)[i] = argv[i + 3]
    BY <1>1, <2>3
  <2>9. /\ SubSeq(filled, 3, n) \in Seq(Plain) /\ Len(SubSeq(filled, 3, n)) = n - 2
        /\ \A i \in 1..(n - 2) : SubSeq(filled, 3, n)[i] = filled[i + 2]
    <3>1. Len(filled) = n /\ n \in Nat /\ n >= 2
      BY <1>1, <2>3 DEF n
    <3> QED
      BY <3>1
  <2>10. \A i \in 1..(n - 2) : argv[i + 3] = filled[i + 2]
    <3>1. \A i \in 1..(n - 2) : i + 2 \in 1..n /\ (i + 2) + 1 = i + 3
      BY <1>1, <2>3
    <3> QED
      BY <1>1, <3>1
  <2>11. args = SubSeq(filled, 3, n)
    <3>1. \A i \in 1..(n - 2) : args[i] = SubSeq(filled, 3, n)[i]
      BY <2>7, <2>8, <2>9, <2>10
    <3> QED
      BY <2>7, <2>8, <2>9, <3>1, SeqEqual
  <2>12. w = uv
    BY <1>1, <2>4
  <2> QED
    BY <1>5, <2>6, <2>7, <2>8, <2>11, <2>12 DEF uv, n, tool, run
<1> QED
  BY <1>3, <1>4, <1>5

\* A pasted runner: the audit looks at what it installs.
LEMMA TextAudited ==
  ASSUME NEW s, NEW raw \in RawServer, OfText(s, raw), s.row # NoDraft,
         NEW runner \in DOMAIN Begins, NEW args \in RunnerArgs(s.argv, runner),
         NEW k \in DOMAIN args, IsWord(args[k])
  PROVE  LooksAt(TargetOf(s), runner, SubSeq(args, 1, k - 1), args[k].value,
                 SubSeq(args, k + 1, Len(args)))
<1> DEFINE row == s.row
           filled == Filled(raw.args)
           w == Word(<<raw.command>>)
<1>1. /\ s.kind = "pasted" /\ row = convert(raw) /\ s.argv = <<w>> \o filled
      /\ w \in Plain /\ filled \in Seq(Plain)
  BY TextIsOf
<1>2. TargetOf(s) = auditTarget(row)
  BY <1>1 DEF TargetOf
<1>3. CASE raw.url # None
  <2>1. row.transport \in {"http", "sse"}
    BY <1>1, <1>3 DEF convert, remoteDraft, baseDraft
  <2>2. TargetOf(s) = unsupported
    BY <1>2, <2>1, RemoteIs
  <2> QED
    BY <2>2 DEF LooksAt
<1>4. CASE raw.url = None
  <2>1. row = stdioDraft(raw)
    BY <1>1, <1>4 DEF convert
  <2>2. raw.command \in RUNTIMES =>
            row.transport = "stdio" /\ row.runtime = raw.command /\ row.args = raw.args
    <3>1. raw.command \in RUNTIMES => raw.command \notin CONTAINER
      BY DEF RUNTIMES, CONTAINER
    <3> QED
      BY <2>1, <3>1 DEF stdioDraft, baseDraft
  <2>3. \A c : w = Word(<<c>>) => raw.command = c
    BY DEF Word
  <2> HIDE DEF row, filled, w
  <2>4. /\ runner \in {"npx", "bunx", "uvx"} /\ args \in Seq(Plain)
        /\ \/ w = Word(<<runner>>) /\ args = filled
           \/ /\ runner = "uvx" /\ w = Word(<<"uv">>)
              /\ IsPrefix(<<Word(<<"tool">>), Word(<<"run">>)>>, filled)
              /\ args = SubSeq(filled, 3, Len(filled))
    BY <1>1, ArgsOfRunner
  <2>5. CASE w = Word(<<runner>>) /\ args = filled
    <3>1. raw.command = runner /\ runner \in RUNTIMES
      BY <2>3, <2>4, <2>5 DEF RUNTIMES
    <3>2. auditTarget(row) = ParseArgs(runner, filled)
      BY <2>2, <2>4, <3>1 DEF auditTarget, ParseArgs, filled
    <3> QED
      BY <1>2, <2>4, <2>5, <3>2, RunnerTarget
  <2>6. CASE /\ runner = "uvx" /\ w = Word(<<"uv">>)
             /\ IsPrefix(<<Word(<<"tool">>), Word(<<"run">>)>>, filled)
             /\ args = SubSeq(filled, 3, Len(filled))
    <3>1. raw.command = "uv" /\ "uv" \in RUNTIMES
      BY <2>3, <2>6 DEF RUNTIMES
    <3>2. auditTarget(row) = parseUvArgs(filled)
      BY <2>2, <3>1 DEF auditTarget, filled
    <3>3. parseUvArgs(filled) = ParseArgs(runner, args)
      BY <2>6 DEF parseUvArgs, ParseArgs
    <3> QED
      BY <1>2, <2>4, <3>2, <3>3, RunnerTarget
  <2> QED
    BY <2>4, <2>5, <2>6
<1> QED
  BY <1>3, <1>4

\* A pasted server: what is launched is what was pasted.
LEMMA TextRuns ==
  ASSUME NEW s, NEW raw \in RawServer, OfText(s, raw), s.row # NoDraft
  PROVE  /\ spawnSpec(s.row).kind = "process" => spawnSpec(s.row).argv = s.argv
         /\ spawnSpec(s.row).kind = "container" =>
               \E arg \in Range(s.argv) : spawnSpec(s.row).run.image = Text(arg)
<1> DEFINE row == s.row
           w == Word(<<raw.command>>)
           known == raw.command \in RUNTIMES \cup CONTAINER
<1>1. row = convert(raw) /\ s.argv = <<w>> \o Filled(raw.args)
  BY TextIsOf
<1>2. raw.args \in Seq(Arguments) /\ w \in Arguments /\ w # Blank
  BY TextIsOf, PlainIsFilled DEF Plain
<1>3. CASE raw.url # None
  <2>1. row.transport \in {"http", "sse"}
    BY <1>1, <1>3 DEF convert, remoteDraft, baseDraft
  <2>2. spawnSpec(row).kind = "refused"
    BY <2>1, RemoteIs
  <2> QED
    BY <2>2
<1>4. CASE raw.url = None
  <2>1. row = stdioDraft(raw)
    BY <1>1, <1>4 DEF convert
  <2>2. /\ row.transport = "stdio"
        /\ row.runtime = IF raw.command \in CONTAINER THEN "docker"
                         ELSE IF known THEN raw.command ELSE "custom"
        /\ row.args = IF known THEN raw.args ELSE <<w>> \o raw.args
    BY <2>1 DEF stdioDraft, baseDraft
  <2> HIDE DEF row, w
  <2>3. CASE raw.command \in CONTAINER
    <3>1. row.runtime = "docker" /\ row.args = raw.args
      BY <2>2, <2>3
    <3>2. \/ spawnSpec(row).kind = "refused"
          \/ /\ parseDockerRun(raw.args, row.env \ JUNCTIO_ENV).errors = {}
             /\ spawnSpec(row).kind = "container"
             /\ spawnSpec(row).run.image = parseDockerRun(raw.args, row.env \ JUNCTIO_ENV).image
      BY <2>2, <3>1, DockerSpawns
    <3>3. CASE spawnSpec(row).kind = "container"
      <4>1. PICK i \in DOMAIN Filled(raw.args) :
                    spawnSpec(row).run.image = Text(Filled(raw.args)[i])
        BY <1>2, <3>2, <3>3, ImageIsArgument
      <4>2. Filled(raw.args)[i] \in Range(s.argv)
        <5> DEFINE filled == Filled(raw.args)
        <5>1. filled \in Seq(Arguments)
          BY <1>2, FilledIn
        <5>2. s.argv = <<w>> \o filled /\ i \in DOMAIN filled
          BY <1>1
        <5> HIDE DEF filled
        <5>3. i + 1 \in DOMAIN s.argv /\ s.argv[i + 1] = filled[i]
          BY <1>2, <5>1, <5>2
        <5>4. filled[i] \in Range(s.argv)
          BY <5>3 DEF Range
        <5> QED
          BY <5>4 DEF filled
      <4> QED
        BY <3>3, <4>1, <4>2 DEF row
    <3> QED
      BY <3>2, <3>3 DEF row
  <2>4. CASE raw.command \notin CONTAINER
    <3>1. row.runtime # "docker"
      BY <2>2, <2>4 DEF RUNTIMES
    <3>2. spawnSpec(row).kind = "process" /\ spawnSpec(row).argv = buildArgv(row.runtime, row.args)
      BY <2>2, <3>1 DEF spawnSpec
    <3>3. buildArgv(row.runtime, row.args) = <<w>> \o Filled(raw.args)
      <4>1. CASE known
        <5>1. row.runtime = raw.command /\ row.runtime # "custom" /\ row.args = raw.args
          BY <2>2, <2>4, <4>1 DEF RUNTIMES
        <5> QED
          BY <5>1 DEF buildArgv, w
      <4>2. CASE ~known
        <5>1. row.runtime = "custom" /\ row.args = <<w>> \o raw.args
          BY <2>2, <2>4, <4>2
        <5>2. Filled(<<w>> \o raw.args) = <<w>> \o Filled(raw.args)
          BY <1>2, FilledCons
        <5> QED
          BY <5>1, <5>2 DEF buildArgv
      <4> QED
        BY <4>1, <4>2
    <3> QED
      BY <1>1, <3>2, <3>3 DEF row
  <2> QED
    BY <2>3, <2>4
<1> QED
  BY <1>3, <1>4

\* What RunsWhatWasNamed says of one server.
NamedRuns(s) ==
    LET target == TargetOf(s)
        spawned == spawnSpec(s.row)
    IN  /\ s.kind \in {"npm", "pypi"} /\ s.named # <<>> =>
             /\ LooksAt(target, STDIO_RUNTIMES[s.kind], s.given, s.named, s.argv)
             /\ spawned.kind = "process" /\ Contains(spawned.argv, Word(s.named))
             /\ spawned.env \cap REDIRECTING_ENV = {}
        /\ s.kind = "oci" /\ s.named # <<>> =>
             \/ spawned.kind = "container" /\ spawned.run.image = s.named
             \/ ~OptionsOnly("docker", s.given)
             \/ spawned.kind = "refused" /\ s.row.env \cap JUNCTIO_ENV # {}
        /\ s.kind = "remote" => spawned.kind = "refused" /\ target = unsupported
        /\ s.kind = "pasted" =>
             \A runner \in DOMAIN Begins :
                 \A args \in RunnerArgs(s.argv, runner) : \A k \in DOMAIN args :
                     IsWord(args[k]) =>
                         LooksAt(target, runner, SubSeq(args, 1, k - 1), args[k].value,
                                 SubSeq(args, k + 1, Len(args)))
        /\ s.kind = "pasted" /\ spawned.kind = "process" => spawned.argv = s.argv
        /\ s.kind = "pasted" /\ spawned.kind = "container" =>
             \E arg \in Range(s.argv) : spawned.run.image = Text(arg)

\* Every saved server runs what was named, and so does every audited one.
LEMMA SavedRun ==
  ASSUME NEW s \in Saved \cup {Self}
  PROVE  NamedRuns(s)
<1>1. CASE s = Self
  <2>1. s.kind = "self"
    BY <1>1 DEF Self, Server
  <2> QED
    BY <2>1 DEF NamedRuns
<1>2. CASE s \in Saved
  <2>1. s.row # NoDraft /\ ServerInput(s.row)
    BY <1>2, SavedAre
  <2>2. ASSUME s.kind = "remote", NEW remote, s.row = remoteOption(remote)
        PROVE  NamedRuns(s)
    <3>1. spawnSpec(s.row).kind = "refused" /\ auditTarget(s.row) = unsupported
      BY <2>1, <2>2, RemoteIs, RemoteOptionIs
    <3>2. TargetOf(s) = unsupported
      BY <2>2, <3>1 DEF TargetOf
    <3> QED
      BY <2>2, <3>1, <3>2 DEF NamedRuns
  <2>3. ASSUME NEW package \in RegistryPackage, OfPackage(s, package)
        PROVE  NamedRuns(s)
    <3>1. s.kind \in {"npm", "pypi", "oci"}
      <4>1. packageOption(package) # NoDraft /\ s.kind = package.registryType
        BY <2>1, <2>3, OfPackageIs
      <4>2. package.registryType \in DOMAIN STDIO_RUNTIMES
        BY <4>1 DEF packageOption
      <4> QED
        BY <4>1, <4>2 DEF STDIO_RUNTIMES
    <3>2. CASE s.kind \in {"npm", "pypi"}
      BY <2>1, <2>3, <3>2, PackageRuns DEF NamedRuns
    <3>3. CASE s.kind = "oci"
      BY <2>1, <2>3, <3>3, ImageRuns DEF NamedRuns
    <3> QED
      BY <3>1, <3>2, <3>3
  <2>4. ASSUME NEW raw \in RawServer, OfText(s, raw)
        PROVE  NamedRuns(s)
    <3>1. s.kind = "pasted"
      BY <2>4 DEF OfText, Server
    <3> QED
      BY <2>1, <2>4, <3>1, TextAudited, TextRuns DEF NamedRuns
  <2> QED
    BY <1>2, <2>2, <2>3, <2>4, SavedAre
<1> QED
  BY <1>1, <1>2

LEMMA RunsAll == server \in [Auditors -> Saved \cup {Self}] => RunsWhatWasNamed
<1> SUFFICES ASSUME server \in [Auditors -> Saved \cup {Self}], NEW a \in Auditors
             PROVE  NamedRuns(server[a])
  BY DEF RunsWhatWasNamed, NamedRuns
<1> QED
  BY SavedRun

\* RunsWhatWasNamed, for any registry entries and pasted texts: what a server that was saved as
\* it was drafted launches, and what its audit looks at, is the package or the command that
\* the entry or the text names.
THEOREM RunsNamed == Spec => []RunsWhatWasNamed
<1>1. Inv => RunsWhatWasNamed
  BY RunsAll DEF Inv
<1> QED
  BY <1>1, InvHolds, PTL

-----------------------------------------------------------------------------
(***************************************************************************)
(* Namespaces.  A name that is joined and split again: if the separator    *)
(* does not begin inside the prefix, it is first found behind it.          *)
(***************************************************************************)
LEMMA HeadIsElement ==
  ASSUME NEW S, NEW s \in Seq(S), s # <<>>
  PROVE  Head(s) \in {s[i] : i \in DOMAIN s}
<1>1. Len(s) \in Nat \ {0} /\ DOMAIN s = 1..Len(s)
  BY EmptySeq, LenProperties
<1>2. Head(s) = s[1] /\ 1 \in DOMAIN s
  BY <1>1
<1> QED
  BY <1>2

LEMMA FirstIsLeast ==
  ASSUME NEW s \in Seq(STRING), NEW sep \in Seq(STRING), Occurrences(s, sep) # {}
  PROVE  /\ FirstAt(s, sep) \in Occurrences(s, sep)
         /\ \A j \in Occurrences(s, sep) : FirstAt(s, sep) <= j
<1>1. Occurrences(s, sep) \subseteq Nat
  BY DEF Occurrences
<1>2. \E i \in Occurrences(s, sep) : \A j \in Occurrences(s, sep) : i <= j
  BY <1>1, LeastNat
<1> QED
  BY <1>2 DEF FirstAt

LEMMA SplitJoined ==
  ASSUME NEW p \in Words, NEW sep \in Words, NEW t \in Words,
         FirstAt(p \o sep, sep) = Len(p) + 1
  PROVE  /\ Splits(p \o sep \o t, sep)
         /\ SplitPrefix(p \o sep \o t, sep) = p
         /\ SplitTool(p \o sep \o t, sep) = t
<1> DEFINE head == p \o sep
           whole == head \o t
           here == Len(p) + 1
<1>1. /\ p \in Seq(STRING) /\ sep \in Seq(STRING) /\ t \in Seq(STRING)
      /\ Len(p) \in Nat \ {0} /\ Len(sep) \in Nat \ {0} /\ Len(t) \in Nat \ {0}
  BY EmptySeq, LenProperties DEF Words
<1>2. /\ head \in Seq(STRING) /\ Len(head) = Len(p) + Len(sep)
      /\ whole \in Seq(STRING) /\ Len(whole) = Len(head) + Len(t)
  BY <1>1, ConcatProperties
<1>3. SubSeq(head, here, here + Len(sep) - 1) = sep
  <2>1. SubSeq(head, here, Len(head)) = SubSeq(sep, 1, Len(sep))
    <3>1. here \in Len(p) + 1 .. Len(p) + Len(sep) /\ Len(head) \in Len(p) + 1 .. Len(p) + Len(sep)
      BY <1>1, <1>2
    <3>2. SubSeq(head, here, Len(head)) = SubSeq(sep, here - Len(p), Len(head) - Len(p))
      BY <1>1, <3>1, SubSeqOfConcat2
    <3> QED
      BY <1>1, <1>2, <3>2
  <2> QED
    BY <1>1, <1>2, <2>1, SubSeqFull
<1>4. here \in Occurrences(head, sep)
  BY <1>1, <1>2, <1>3 DEF Occurrences
<1>5. \A j \in Occurrences(head, sep) : here <= j
  BY <1>1, <1>2, <1>4, FirstIsLeast
<1>6. ASSUME NEW j \in 1..here
      PROVE  SubSeq(whole, j, j + Len(sep) - 1) = SubSeq(head, j, j + Len(sep) - 1)
  <2>1. j \in 1..Len(head) /\ j + Len(sep) - 1 \in 1..Len(head)
    BY <1>1, <1>2
  <2> QED
    BY <1>1, <1>2, <2>1, SubSeqOfConcat1
<1>7. here \in Occurrences(whole, sep)
  BY <1>1, <1>2, <1>3, <1>6 DEF Occurrences
<1>8. \A j \in Occurrences(whole, sep) : here <= j
  <2> SUFFICES ASSUME NEW j \in Occurrences(whole, sep), j < here
               PROVE  FALSE
    <3>1. here \in Nat /\ \A j \in Occurrences(whole, sep) : j \in Nat
      BY <1>1, <1>2 DEF Occurrences
    <3> QED
      BY <3>1
  <2>1. j \in 1..here /\ SubSeq(whole, j, j + Len(sep) - 1) = sep
    BY <1>1, <1>2 DEF Occurrences
  <2>2. j \in Occurrences(head, sep)
    BY <1>1, <1>2, <1>6, <2>1 DEF Occurrences
  <2> QED
    BY <1>1, <1>5, <2>1, <2>2
<1>9. FirstAt(whole, sep) = here
  <2>1. FirstAt(whole, sep) \in Occurrences(whole, sep) /\ FirstAt(whole, sep) <= here
    BY <1>1, <1>2, <1>7, FirstIsLeast
  <2>2. FirstAt(whole, sep) \in Nat
    BY <1>1, <1>2, <2>1 DEF Occurrences
  <2> QED
    BY <1>1, <1>8, <2>1, <2>2
<1>10. SubSeq(whole, 1, Len(p)) = p
  <2>1. 1 \in 1..Len(p) /\ Len(p) \in 1..Len(p) /\ 1 \in 1..Len(head) /\ Len(p) \in 1..Len(head)
    BY <1>1, <1>2
  <2>2. SubSeq(whole, 1, Len(p)) = SubSeq(head, 1, Len(p))
    BY <1>1, <1>2, <2>1, SubSeqOfConcat1
  <2>3. SubSeq(head, 1, Len(p)) = SubSeq(p, 1, Len(p))
    BY <1>1, <2>1, SubSeqOfConcat1
  <2> QED
    BY <1>1, <2>2, <2>3, SubSeqFull
<1>11. SubSeq(whole, here + Len(sep), Len(whole)) = t
  <2>1. /\ here + Len(sep) \in Len(head) + 1 .. Len(head) + Len(t)
        /\ Len(whole) \in Len(head) + 1 .. Len(head) + Len(t)
    BY <1>1, <1>2
  <2>2. SubSeq(whole, here + Len(sep), Len(whole))
           = SubSeq(t, here + Len(sep) - Len(head), Len(whole) - Len(head))
    BY <1>1, <1>2, <2>1, SubSeqOfConcat2
  <2>3. here + Len(sep) - Len(head) = 1 /\ Len(whole) - Len(head) = Len(t)
    BY <1>1, <1>2
  <2> QED
    BY <1>1, <2>2, <2>3, SubSeqFull
<1>12. Splits(whole, sep) /\ SplitPrefix(whole, sep) = p /\ SplitTool(whole, sep) = t
  <2>1. here - 1 = Len(p) /\ here > 1 /\ here + Len(sep) <= Len(whole)
    BY <1>1, <1>2
  <2> QED
    BY <1>7, <1>9, <1>10, <1>11, <2>1 DEF Splits, SplitPrefix, SplitTool
<1> QED
  BY <1>12

-----------------------------------------------------------------------------
(***************************************************************************)
(* The invariant.  Who creates a server is alone with it and has its name  *)
(* not written yet; who patches one has read a name of it.  Members have   *)
(* prefixes of their own, but after a PATCH that was overtaken.            *)
(***************************************************************************)
Membership == [in : BOOLEAN, prefix : Given \cup {Default}, enabled : BOOLEAN]
Asked == [at : {"idle", "create", "patch"}, server : Servers \cup {NoName},
            name : Names \cup {NoName}, old : Names \cup {NoName}]

Asking ==
    \A o \in Ops :
        /\ ops[o].at # "idle" => ops[o].server \in Servers /\ ops[o].name \in Names
        /\ ops[o].at = "patch" => ops[o].old \in Names
        /\ ops[o].at = "create" =>
              /\ names[ops[o].server] = NoName
              /\ \A other \in Ops :
                    ops[other].at # "idle" /\ ops[other].server = ops[o].server => other = o

Apart == ~overtaken => \A n \in Spaces : NoCollision(names, members[n])

NamesInv == TypeOK /\ Asking /\ Apart

LEMMA InitNames ==
  ASSUME NamesInit
  PROVE  NamesInv
<1>1. NoMember \in Membership /\ ~NoMember.in /\ NoOp \in Asked /\ NoOp.at = "idle"
  BY DEF NoMember, Membership, NoOp, Asked
<1>2. Head(Separators) \in ToSet(Separators)
  BY HeadIsElement, NamespacesAssumption DEF ToSet
<1>3. TypeOK
  BY <1>1, <1>2, NamespacesAssumption DEF NamesInit, TypeOK, Membership, Asked
<1>4. Asking
  BY <1>1 DEF NamesInit, Asking
<1>5. Apart
  BY <1>1 DEF NamesInit, Apart, NoCollision, Members
<1> QED
  BY <1>3, <1>4, <1>5 DEF NamesInv

(***************************************************************************)
(* What each step does to the rows, and to the requests.                   *)
(***************************************************************************)
\* The names of the servers are distinct, and a server without a name has no rows.
Distinct(nm) == \A s, t \in Servers : nm[s] = nm[t] /\ nm[s] # NoName => s = t
Bare(nm, of, hid) ==
    \A n \in Spaces, s \in Servers : nm[s] = NoName =>
        of[n][s] = NoMember /\ \A t \in Catalog[s] : <<n, s, t>> \notin hid

LEMMA NamesTypeIs ==
  TypeOK <=>
     /\ names \in [Servers -> Names \cup {NoName}]
     /\ members \in [Spaces -> [Servers -> Membership]]
     /\ \A h \in hidden : \E n \in Spaces, s \in Servers : \E t \in Catalog[s] : h = <<n, s, t>>
     /\ separator \in ToSet(Separators)
     /\ ops \in [Ops -> Asked] /\ overtaken \in BOOLEAN
     /\ Distinct(names) /\ Bare(names, members, hidden)
BY DEF TypeOK, Membership, Asked, Distinct, Bare

LEMMA NoRows == NoMember \in Membership /\ ~NoMember.in /\ NoOp \in Asked /\ NoOp.at = "idle"
BY DEF NoMember, Membership, NoOp, Asked

\* A server that is not a member, or no longer, makes no collision.
LEMMA OutsideApart ==
  ASSUME NEW nm, NEW other, NEW of, NEW of2, NEW s \in Servers,
         NoCollision(nm, of), ~of2[s].in,
         \A z \in Servers : z # s => other[z] = nm[z] /\ of2[z] = of[z]
  PROVE  NoCollision(other, of2)
<1>1. \A z \in Members(of2) : z # s /\ z \in Members(of) /\ PrefixIn(other, of2, z) = PrefixIn(nm, of, z)
  BY DEF Members, PrefixIn
<1> QED
  BY <1>1 DEF NoCollision

\* A request that ends asks nothing.
LEMMA FinishAsks ==
  ASSUME TypeOK, Asking, NEW o \in Ops, Reply(o),
         \A other \in Ops : other # o /\ ops[other].at = "create" =>
            names'[ops[other].server] = NoName
  PROVE  Asking' /\ ops' \in [Ops -> Asked]
<1>1. ops' = [ops EXCEPT ![o] = NoOp] /\ ops \in [Ops -> Asked]
  BY NamesTypeIs DEF Reply
<1>2. /\ ops' \in [Ops -> Asked] /\ ops'[o].at = "idle"
      /\ \A other \in Ops : other # o => ops'[other] = ops[other]
  BY <1>1, NoRows
<1>3. ASSUME NEW p \in Ops, ops'[p].at # "idle"
      PROVE  p # o /\ ops'[p] = ops[p]
  BY <1>2, <1>3
<1> QED
  BY <1>2, <1>3 DEF Asking

LEMMA CreateBeginInv ==
  ASSUME NamesInv, NEW o \in Ops, NEW s \in Servers, NEW name \in Names, CreateBegin(o, s, name)
  PROVE  NamesInv'
<1> DEFINE new == [NoOp EXCEPT !.at = "create", !.server = s, !.name = name]
<1>1. /\ ops' = [ops EXCEPT ![o] = new] /\ names[s] = NoName
      /\ \A other \in Ops : ops[other].server # s
      /\ UNCHANGED <<names, members, hidden, separator, overtaken>>
  BY DEF CreateBegin
<1>2. new \in Asked /\ new.at = "create" /\ new.server = s /\ new.name = name
  BY DEF NoOp, Asked
<1> HIDE DEF new
<1>3. /\ ops' \in [Ops -> Asked] /\ ops'[o] = new
      /\ \A other \in Ops : other # o => ops'[other] = ops[other]
  BY <1>1, <1>2, NamesTypeIs DEF NamesInv
<1>4. TypeOK'
  BY <1>1, <1>3, NamesTypeIs DEF NamesInv, TypeOK, Asked
<1>5. Asking'
  BY <1>1, <1>2, <1>3 DEF NamesInv, Asking
<1>6. Apart'
  BY <1>1 DEF NamesInv, Apart, NoCollision, Members, PrefixIn
<1> QED
  BY <1>4, <1>5, <1>6 DEF NamesInv

LEMMA CreateInsertInv ==
  ASSUME NamesInv, NEW o \in Ops, CreateInsert(o)
  PROVE  NamesInv'
<1> DEFINE s == ops[o].server
           name == ops[o].name
<1>1. /\ ops[o].at = "create" /\ Reply(o) /\ UNCHANGED <<members, hidden, separator, overtaken>>
      /\ names' = IF Taken(name, names, s) THEN names ELSE [names EXCEPT ![s] = name]
  BY DEF CreateInsert
<1>2. s \in Servers /\ name \in Names /\ names[s] = NoName
      /\ \A other \in Ops : ops[other].at # "idle" /\ ops[other].server = s => other = o
  BY <1>1 DEF NamesInv, Asking
<1> HIDE DEF s, name
<1>3. /\ names' \in [Servers -> Names \cup {NoName}]
      /\ \A z \in Servers : z # s => names'[z] = names[z]
      /\ names'[s] # NoName => \A z \in Servers \ {s} : names[z] # names'[s]
  BY <1>1, <1>2, NamesTypeIs DEF NamesInv, Taken
<1>4. Asking' /\ ops' \in [Ops -> Asked]
  <2>1. ASSUME NEW other \in Ops, other # o, ops[other].at = "create"
        PROVE  names'[ops[other].server] = NoName
    BY <1>2, <1>3, <2>1 DEF NamesInv, Asking
  <2> QED
    BY <1>1, <2>1, FinishAsks DEF NamesInv
<1>5. TypeOK'
  <2>1. Distinct(names')
    BY <1>2, <1>3, NamesTypeIs DEF NamesInv, Distinct
  <2>2. Bare(names', members', hidden')
    BY <1>1, <1>2, <1>3, NamesTypeIs DEF NamesInv, Bare
  <2> QED
    BY <1>1, <1>3, <1>4, <2>1, <2>2, NamesTypeIs DEF NamesInv, TypeOK, Asked, Membership, Distinct, Bare
<1>6. Apart'
  <2>1. ASSUME NEW n \in Spaces
        PROVE  ~members[n][s].in
    BY <1>2, NoRows, NamesTypeIs DEF NamesInv, Bare
  <2>2. ASSUME ~overtaken, NEW n \in Spaces
        PROVE  NoCollision(names', members[n])
    <3>1. NoCollision(names, members[n]) /\ ~members[n][s].in
      BY <2>1, <2>2 DEF NamesInv, Apart
    <3>2. \A z \in Servers : z # s => names'[z] = names[z] /\ members[n][z] = members[n][z]
      BY <1>3
    <3> QED
      BY <1>2, <3>1, <3>2, OutsideApart
  <2> QED
    BY <1>1, <2>2 DEF Apart
<1> QED
  BY <1>4, <1>5, <1>6 DEF NamesInv

LEMMA PatchBeginInv ==
  ASSUME NamesInv, NEW o \in Ops, NEW s \in Servers, NEW name \in Names, PatchBegin(o, s, name)
  PROVE  NamesInv'
<1> DEFINE new == [at |-> "patch", server |-> s, name |-> name, old |-> names[s]]
<1>1. /\ ops' = [ops EXCEPT ![o] = new] /\ names[s] # NoName
      /\ UNCHANGED <<names, members, hidden, separator, overtaken>>
  BY DEF PatchBegin
<1>2. /\ new \in Asked /\ new.at = "patch" /\ new.server = s /\ new.name = name
      /\ new.old = names[s] /\ names[s] \in Names
  BY <1>1, NamesTypeIs DEF NamesInv, Asked
<1> HIDE DEF new
<1>3. /\ ops' \in [Ops -> Asked] /\ ops'[o] = new
      /\ \A other \in Ops : other # o => ops'[other] = ops[other]
  BY <1>1, <1>2, NamesTypeIs DEF NamesInv
<1>4. TypeOK'
  BY <1>1, <1>3, NamesTypeIs DEF NamesInv, TypeOK, Asked
<1>5. Asking'
  BY <1>1, <1>2, <1>3 DEF NamesInv, Asking
<1>6. Apart'
  BY <1>1 DEF NamesInv, Apart, NoCollision, Members, PrefixIn
<1> QED
  BY <1>4, <1>5, <1>6 DEF NamesInv

(***************************************************************************)
(* The write of a PATCH.  Where nobody has overtaken it the server still   *)
(* has the name that was read, which nobody else has, so that a collision  *)
(* is undone.                                                              *)
(***************************************************************************)
LEMMA PatchWriteInv ==
  ASSUME NamesInv, NEW o \in Ops, PatchWrite(o)
  PROVE  NamesInv'
<1> DEFINE s == ops[o].server
           name == ops[o].name
           old == ops[o].old
           named(new) == [names EXCEPT ![s] = new]
           collides == /\ name # old
                       /\ \E n \in Spaces : members[n][s].in /\ ~NoCollision(named(name), members[n])
           writes == names[s] # NoName /\ ~Taken(name, names, s)
<1>1. /\ ops[o].at = "patch" /\ Reply(o) /\ UNCHANGED <<members, hidden, separator>>
      /\ names' = IF ~writes THEN names
                  ELSE IF collides /\ ~Taken(old, names, s) THEN named(old) ELSE named(name)
      /\ overtaken' = (overtaken \/ (writes /\ names[s] # old /\ (collides \/ name = old)))
  BY DEF PatchWrite
<1>2. s \in Servers /\ name \in Names /\ old \in Names /\ NoName \notin Names
  BY <1>1, NamespacesAssumption DEF NamesInv, Asking
<1> HIDE DEF s, name, old
<1>3. PICK new \in Names \cup {NoName} :
         /\ names' = [names EXCEPT ![s] = new]
         /\ new = names[s] \/ (names[s] # NoName /\ ~Taken(new, names, s) /\ new \in {name, old})
  <2>1. CASE ~writes
    BY <1>1, <2>1, NamesTypeIs, <1>2 DEF NamesInv
  <2>2. CASE writes /\ collides /\ ~Taken(old, names, s)
    BY <1>1, <1>2, <2>2
  <2>3. CASE writes /\ ~(collides /\ ~Taken(old, names, s))
    BY <1>1, <1>2, <2>3
  <2> QED
    BY <2>1, <2>2, <2>3
<1>4. /\ names' \in [Servers -> Names \cup {NoName}] /\ names'[s] = new
      /\ \A z \in Servers : z # s => names'[z] = names[z]
      /\ new = NoName <=> names[s] = NoName
  BY <1>2, <1>3, NamesTypeIs DEF NamesInv
<1>5. Asking' /\ ops' \in [Ops -> Asked]
  <2>1. ASSUME NEW other \in Ops, other # o, ops[other].at = "create"
        PROVE  names'[ops[other].server] = NoName
    <3>1. ops[other].server # s
      BY <1>1, <2>1 DEF NamesInv, Asking, s
    <3> QED
      BY <1>4, <2>1, <3>1 DEF NamesInv, Asking
  <2> QED
    BY <1>1, <2>1, FinishAsks DEF NamesInv
<1>6. TypeOK'
  <2>1. Distinct(names')
    BY <1>2, <1>3, <1>4, NamesTypeIs DEF NamesInv, Distinct, Taken
  <2>2. Bare(names', members', hidden')
    BY <1>1, <1>4, NamesTypeIs DEF NamesInv, Bare
  <2>3. overtaken' \in BOOLEAN
    BY <1>1, NamesTypeIs DEF NamesInv
  <2> QED
    BY <1>1, <1>4, <1>5, <2>1, <2>2, <2>3, NamesTypeIs
       DEF NamesInv, TypeOK, Asked, Membership, Distinct, Bare
<1>7. Apart'
  <2> SUFFICES ASSUME ~overtaken', NEW n \in Spaces
               PROVE  NoCollision(names', members[n])
    BY <1>1 DEF Apart
  <2>1. ~overtaken /\ NoCollision(names, members[n])
    BY <1>1 DEF NamesInv, Apart
  <2>2. CASE names' = names
    BY <2>1, <2>2
  <2>3. CASE ~members[n][s].in
    <3>1. \A z \in Servers : z # s => names'[z] = names[z] /\ members[n][z] = members[n][z]
      BY <1>4
    <3>2. NoCollision(names, members[n]) /\ ~members[n][s].in /\ s \in Servers
      BY <1>2, <2>1, <2>3
    <3> HIDE DEF named, collides, writes
    <3> QED
      BY <3>1, <3>2, OutsideApart
  <2>4. CASE writes /\ names' # names /\ members[n][s].in
    <3>1. name = old => names[s] = old
      BY <1>1, <2>4
    <3>2. CASE collides
      <4>1. names[s] = old
        BY <1>1, <2>4, <3>2
      <4>2. ~Taken(old, names, s)
        BY <1>2, <4>1, NamesTypeIs DEF NamesInv, Distinct, Taken
      <4>3. names' = named(old)
        BY <1>1, <2>4, <3>2, <4>2
      <4> QED
        BY <2>4, <4>1, <4>3, NamesTypeIs DEF NamesInv
    <3>3. CASE ~collides
      <4>1. names' = named(name)
        BY <1>1, <2>4, <3>3
      <4>2. name # old
        BY <2>4, <3>1, <4>1, NamesTypeIs DEF NamesInv
      <4> QED
        BY <2>4, <3>3, <4>1, <4>2
    <3> QED
      BY <3>2, <3>3
  <2> QED
    BY <1>1, <2>2, <2>3, <2>4
<1> QED
  BY <1>5, <1>6, <1>7 DEF NamesInv

LEMMA DeleteServerInv ==
  ASSUME NamesInv, NEW s \in Servers, DeleteServer(s)
  PROVE  NamesInv'
<1>1. /\ names' = [names EXCEPT ![s] = NoName]
      /\ members' = [n \in Spaces |-> [members[n] EXCEPT ![s] = NoMember]]
      /\ hidden' = {override \in hidden : override[2] # s}
      /\ UNCHANGED <<separator, ops, overtaken>>
  BY DEF DeleteServer
<1>2. /\ names' \in [Servers -> Names \cup {NoName}] /\ names'[s] = NoName
      /\ \A z \in Servers : z # s => names'[z] = names[z]
      /\ members' \in [Spaces -> [Servers -> Membership]]
      /\ \A n \in Spaces : members'[n][s] = NoMember
                         /\ \A z \in Servers : z # s => members'[n][z] = members[n][z]
  BY <1>1, NoRows, NamesTypeIs DEF NamesInv
<1>3. TypeOK'
  <2>1. Distinct(names')
    BY <1>2, NamesTypeIs DEF NamesInv, Distinct
  <2>2. Bare(names', members', hidden')
    <3>1. ASSUME NEW n \in Spaces, NEW t \in Catalog[s] PROVE <<n, s, t>> \notin hidden'
      BY <1>1
    <3>2. ASSUME NEW n \in Spaces, NEW z \in Servers, z # s, names'[z] = NoName
          PROVE  members'[n][z] = NoMember /\ \A t \in Catalog[z] : <<n, z, t>> \notin hidden'
      BY <1>1, <1>2, <3>2, NamesTypeIs DEF NamesInv, Bare
    <3> QED
      BY <1>2, <3>1, <3>2 DEF Bare
  <2>3. hidden' \subseteq hidden
    BY <1>1
  <2>4. \A h \in hidden' : \E n \in Spaces, z \in Servers : \E t \in Catalog[z] : h = <<n, z, t>>
    BY <2>3, NamesTypeIs DEF NamesInv
  <2> QED
    BY <1>1, <1>2, <2>1, <2>2, <2>4, NamesTypeIs DEF NamesInv, TypeOK, Asked, Membership, Distinct, Bare
<1>4. Asking'
  BY <1>1, <1>2 DEF NamesInv, Asking
<1>5. Apart'
  <2> SUFFICES ASSUME ~overtaken, NEW n \in Spaces
               PROVE  NoCollision(names', members'[n])
    BY <1>1 DEF Apart
  <2>1. NoCollision(names, members[n]) /\ ~members'[n][s].in
    BY <1>2, NoRows DEF NamesInv, Apart
  <2>2. \A z \in Servers : z # s => names'[z] = names[z] /\ members'[n][z] = members[n][z]
    BY <1>2
  <2> QED
    BY <2>1, <2>2, OutsideApart
<1> QED
  BY <1>3, <1>4, <1>5 DEF NamesInv

\* A step that leaves names, requests and the separator alone.
LEMMA RowsInv ==
  ASSUME NamesInv, UNCHANGED <<names, separator, ops, overtaken>>,
         members' \in [Spaces -> [Servers -> Membership]],
         \A h \in hidden' : \E n \in Spaces, s \in Servers : \E t \in Catalog[s] : h = <<n, s, t>>,
         Bare(names, members', hidden'),
         \A n \in Spaces : NoCollision(names, members[n]) => NoCollision(names, members'[n])
  PROVE  NamesInv'
<1>1. TypeOK'
  BY NamesTypeIs DEF NamesInv, TypeOK, Asked, Membership, Distinct, Bare
<1>2. Asking' /\ Apart'
  BY DEF NamesInv, Asking, Apart
<1> QED
  BY <1>1, <1>2 DEF NamesInv

LEMMA SaveMemberInv ==
  ASSUME NamesInv, NEW n \in Spaces, NEW s \in Servers, NEW prefix \in Given \cup {Default},
         NEW enabled \in BOOLEAN, SaveMember(n, s, prefix, enabled)
  PROVE  NamesInv'
<1> DEFINE saved == [members[n] EXCEPT ![s] = Member(prefix, enabled)]
<1>1. /\ names[s] # NoName /\ NoCollision(names, saved) /\ members' = [members EXCEPT ![n] = saved]
      /\ UNCHANGED <<names, hidden, separator, ops, overtaken>>
  BY DEF SaveMember
<1>2. Member(prefix, enabled) \in Membership
  BY DEF Member, Membership
<1>3. /\ saved \in [Servers -> Membership]
      /\ \A z \in Servers : z # s => saved[z] = members[n][z]
  BY <1>2, NamesTypeIs DEF NamesInv
<1> HIDE DEF saved
<1>4. /\ members' \in [Spaces -> [Servers -> Membership]] /\ members'[n] = saved
      /\ \A other \in Spaces : other # n => members'[other] = members[other]
  BY <1>1, <1>3, NamesTypeIs DEF NamesInv
<1>5. Bare(names, members', hidden')
  BY <1>1, <1>3, <1>4, NamesTypeIs DEF NamesInv, Bare
<1>6. \A other \in Spaces :
         NoCollision(names, members[other]) => NoCollision(names, members'[other])
  BY <1>1, <1>4
<1>7. \A h \in hidden' : \E m \in Spaces, z \in Servers : \E t \in Catalog[z] : h = <<m, z, t>>
  BY <1>1, NamesTypeIs DEF NamesInv
<1> QED
  BY <1>1, <1>4, <1>5, <1>6, <1>7, RowsInv

LEMMA RemoveMemberInv ==
  ASSUME NamesInv, NEW n \in Spaces, NEW s \in Servers, RemoveMember(n, s)
  PROVE  NamesInv'
<1>1. /\ members' = [members EXCEPT ![n][s] = NoMember]
      /\ UNCHANGED <<names, hidden, separator, ops, overtaken>>
  BY DEF RemoveMember
<1>2. /\ members' \in [Spaces -> [Servers -> Membership]]
      /\ members'[n][s] = NoMember /\ ~members'[n][s].in
      /\ \A other \in Spaces, z \in Servers :
            other # n \/ z # s => members'[other][z] = members[other][z]
      /\ \A other \in Spaces : other # n => members'[other] = members[other]
  BY <1>1, NoRows, NamesTypeIs DEF NamesInv
<1>3. Bare(names, members', hidden')
  BY <1>1, <1>2, NamesTypeIs DEF NamesInv, Bare
<1>4. NoCollision(names, members[n]) => NoCollision(names, members'[n])
  <2>1. \A z \in Servers : z # s => names[z] = names[z] /\ members'[n][z] = members[n][z]
    BY <1>2
  <2> QED
    BY <1>2, <2>1, OutsideApart
<1>5. \A other \in Spaces :
         NoCollision(names, members[other]) => NoCollision(names, members'[other])
  BY <1>2, <1>4
<1>6. \A h \in hidden' : \E m \in Spaces, z \in Servers : \E t \in Catalog[z] : h = <<m, z, t>>
  BY <1>1, NamesTypeIs DEF NamesInv
<1> QED
  BY <1>1, <1>2, <1>3, <1>5, <1>6, RowsInv

LEMMA HideInv ==
  ASSUME NamesInv, NEW n \in Spaces, NEW s \in Servers, NEW tool \in Catalog[s],
         Hide(n, s, tool) \/ Show(n, s, tool)
  PROVE  NamesInv'
<1>1. UNCHANGED <<names, members, separator, ops, overtaken>>
  BY DEF Hide, Show
<1>2. \A h \in hidden' : h \in hidden \/ (h = <<n, s, tool>> /\ members[n][s].in)
  BY DEF Hide, Show
<1>3. \A h \in hidden' : \E m \in Spaces, z \in Servers : \E t \in Catalog[z] : h = <<m, z, t>>
  BY <1>2, NamesTypeIs DEF NamesInv
<1>4. Bare(names, members', hidden')
  <2> SUFFICES ASSUME NEW m \in Spaces, NEW z \in Servers, names[z] = NoName
               PROVE  members[m][z] = NoMember /\ \A t \in Catalog[z] : <<m, z, t>> \notin hidden'
    BY <1>1 DEF Bare
  <2>1. members[m][z] = NoMember /\ \A t \in Catalog[z] : <<m, z, t>> \notin hidden
    BY NamesTypeIs DEF NamesInv, Bare
  <2>2. ASSUME NEW t \in Catalog[z], <<m, z, t>> = <<n, s, tool>>
        PROVE  ~members[n][s].in
    BY <2>1, <2>2, NoRows
  <2> QED
    BY <1>2, <2>1, <2>2
<1> QED
  BY <1>1, <1>3, <1>4, NamesTypeIs, RowsInv DEF NamesInv

LEMMA NextNames ==
  ASSUME NamesInv, [NamesNext]_namesVars
  PROVE  NamesInv'
<1>1. CASE \E o \in Ops : CreateInsert(o) \/ PatchWrite(o)
  BY <1>1, CreateInsertInv, PatchWriteInv
<1>2. CASE \E o \in Ops, s \in Servers, name \in Names : CreateBegin(o, s, name) \/ PatchBegin(o, s, name)
  BY <1>2, CreateBeginInv, PatchBeginInv
<1>3. CASE \E s \in Servers : DeleteServer(s)
  BY <1>3, DeleteServerInv
<1>4. CASE \E sep \in ToSet(Separators) : SetSeparator(sep)
  <2>1. separator' \in ToSet(Separators) /\ UNCHANGED <<names, members, hidden, ops, overtaken>>
    BY <1>4 DEF SetSeparator
  <2>2. TypeOK'
    BY <2>1, NamesTypeIs DEF NamesInv, TypeOK, Asked, Membership, Distinct, Bare
  <2>3. Asking' /\ Apart'
    BY <2>1 DEF NamesInv, Asking, Apart, NoCollision, Members, PrefixIn
  <2> QED
    BY <2>2, <2>3 DEF NamesInv
<1>5. CASE \E n \in Spaces, s \in Servers :
              \/ RemoveMember(n, s)
              \/ \E prefix \in Given \cup {Default}, enabled \in BOOLEAN : SaveMember(n, s, prefix, enabled)
              \/ \E tool \in Catalog[s] : Hide(n, s, tool) \/ Show(n, s, tool)
  BY <1>5, RemoveMemberInv, SaveMemberInv, HideInv
<1>6. CASE UNCHANGED namesVars
  BY <1>6 DEF namesVars, NamesInv, TypeOK, Asking, Apart, NoCollision, Members, PrefixIn
<1> QED
  BY <1>1, <1>2, <1>3, <1>4, <1>5, <1>6 DEF NamesNext

\* The invariant of the namespaces, for any number of them.
THEOREM NamesHold == NamesSpec => []NamesInv
<1>1. NamesInit => NamesInv
  BY InitNames
<1>2. NamesInv /\ [NamesNext]_namesVars => NamesInv'
  BY NextNames
<1> QED
  BY <1>1, <1>2, PTL DEF NamesSpec

-----------------------------------------------------------------------------
(***************************************************************************)
(* What the invariant says of names.                                       *)
(***************************************************************************)
LEMMA PrefixIsWord ==
  ASSUME NamesInv, NEW n \in Spaces, NEW s \in Enabled(n)
  PROVE  Prefix(n, s) \in Words /\ s \in Servers /\ s \in Members(members[n])
<1>1. s \in Servers /\ members[n][s].in
  BY DEF Enabled, Members
<1>2. names[s] \in Names
  BY <1>1, NoRows, NamesTypeIs DEF NamesInv, Bare
<1>3. members[n][s].prefix \in Given \cup {Default}
  BY <1>1, NamesTypeIs DEF NamesInv, Membership
<1> QED
  BY <1>1, <1>2, <1>3, NamespacesAssumption DEF Enabled, Prefix, PrefixIn

LEMMA OnePrefix ==
  ASSUME NamesInv, ~overtaken,
         NEW n \in Spaces, NEW s \in Enabled(n), NEW z \in Enabled(n), UriPrefix(Prefix(n, z)) = UriPrefix(Prefix(n, s))
  PROVE  z = s
BY PrefixIsWord DEF NamesInv, Apart, NoCollision, Prefix

LEMMA ToolsAreFound ==
  ASSUME NamesInv, ~overtaken, NEW n \in Spaces
  PROVE  ToolsResolve(n)
<1> SUFFICES ASSUME NEW entry \in Listed(n), WellJoined(Prefix(n, entry.server)), entry.tool # <<>>
             PROVE  Resolved(n, entry.name) = {[server |-> entry.server, tool |-> entry.tool]}
  BY DEF ToolsResolve
<1>1. PICK s \in Enabled(n) : \E t \in {u \in Catalog[s] : <<n, s, u>> \notin hidden} :
                entry = [server |-> s, tool |-> t, name |-> Exposed(Prefix(n, s), t)]
  BY DEF Listed
<1>2. PICK t \in Catalog[s] : <<n, s, t>> \notin hidden
                /\ entry = [server |-> s, tool |-> t, name |-> Exposed(Prefix(n, s), t)]
  BY <1>1
<1> DEFINE p == Prefix(n, s)
           name == p \o separator \o t
<1>3. entry.server = s /\ entry.tool = t /\ entry.name = name
  BY <1>2 DEF Exposed
<1>4. p \in Words /\ s \in Servers
  BY PrefixIsWord
<1>5. separator \in Words /\ t \in Words
  <2>1. separator \in {Separators[i] : i \in DOMAIN Separators}
    BY NamesTypeIs DEF NamesInv, ToSet
  <2>2. \A i \in DOMAIN Separators : Separators[i] \in Words
    BY NamespacesAssumption
  <2> QED
    BY <1>2, <1>3, <1>4, <2>1, <2>2, NamespacesAssumption DEF Words
<1>6. FirstAt(p \o separator, separator) = Len(p) + 1
  BY <1>3 DEF WellJoined
<1>7. /\ Splits(name, separator)
      /\ SplitPrefix(name, separator) = p /\ SplitTool(name, separator) = t
  BY <1>4, <1>5, <1>6, SplitJoined
<1>8. {z \in Enabled(n) : Prefix(n, z) = p /\ <<n, z, t>> \notin hidden} = {s}
  BY <1>2, OnePrefix
<1> HIDE DEF p, name
<1>9. Resolved(n, name) = {[server |-> z, tool |-> t] :
                              z \in {z \in Enabled(n) : Prefix(n, z) = p /\ <<n, z, t>> \notin hidden}}
  BY <1>7 DEF Resolved
<1> QED
  BY <1>3, <1>8, <1>9

LEMMA ResourcesAreFound ==
  ASSUME NamesInv, ~overtaken, NEW n \in Spaces
  PROVE  ResourcesResolve(n)
<1> SUFFICES ASSUME NEW s \in Enabled(n)
             PROVE  ResolvedUri(n, UriPrefix(Prefix(n, s))) = {s}
  BY DEF ResourcesResolve
<1> QED
  BY OnePrefix DEF ResolvedUri

\* ListedNamesResolve, for any names, prefixes and separators the schemas allow, any tools and
\* any number of requests: a tool that has a name and a resource are found where they were
\* listed from, unless the separator begins inside the prefix or a PATCH overtook another.
THEOREM NamesResolve == NamesSpec => []ListedNamesResolve
<1>1. NamesInv => ListedNamesResolve
  BY ToolsAreFound, ResourcesAreFound DEF NamesInv, ListedNamesResolve
<1> QED
  BY <1>1, NamesHold, PTL
===============================================================================
