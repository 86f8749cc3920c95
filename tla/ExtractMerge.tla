---------------------------- MODULE ExtractMerge ----------------------------
(***************************************************************************)
(* What structure and migrate read when one export directory holds several *)
(* extracts of a server (go/internal/structure/extract.go): the newest     *)
(* full extract and the slices made after it.  A record of an older one is *)
(* dropped when a later one extracted its project or portfolio again.      *)
(* Extracts finish, stop on an error or are killed; any that did not       *)
(* finish may be resumed, with or without scope flags (go/internal/        *)
(* extract/resume_scope.go); projects disappear from the server meanwhile. *)
(*                                                                         *)
(* An extract is the record of its directory: extract.json (partial and    *)
(* scope), the done markers, what each task wrote, the failed projects     *)
(* list.  Empty keys or folios in a scope stand for no limit.              *)
(***************************************************************************)
EXTENDS Integers, Sequences, FiniteSets

CONSTANTS Projects, Portfolios,
          ProjectTasks,     \* tasks with records per project
          PortfolioTasks,   \* tasks with records per portfolio
          ServerTasks,      \* tasks that always read the whole server
          ListProjects,     \* getProjects, which the other project tasks fan out over
          Details,          \* getProjectDetails, which projects.csv comes from
          ListFolios,       \* getPortfolios, likewise for the portfolio tasks
          Scopes,           \* bound: the scopes runs are given
          Flags,            \* bound: the scope flags resumed runs are given
          Halves,           \* bound: what the tasks cut off together had written
          Deletable,        \* bound: what may disappear from the server
          MaxExtracts, MaxResumes, MaxFailures   \* bounds

Tasks == ProjectTasks \union PortfolioTasks \union ServerTasks
Scope == [keys : SUBSET Projects, folios : SUBSET Portfolios, tasks : SUBSET Tasks]
NoFlags == [keys |-> {}, folios |-> {}, tasks |-> Tasks]

\* A server-wide task writes one item.
Whole == "server"
Items(t) == CASE t \in ProjectTasks   -> Projects
              [] t \in PortfolioTasks -> Portfolios
              [] OTHER                -> {Whole}

\* Every other task of its kind reads the output of this one; server tasks are alone.
Root(t) == CASE t \in ProjectTasks   -> ListProjects
             [] t \in PortfolioTasks -> ListFolios
             [] OTHER                -> t

\* A plan has the list tasks its tasks go by: dependencies are resolved, and
\* --objects leaves out the tasks of a kind all together.
WithRoots(s) == \A t \in s.tasks : Root(t) \in s.tasks

ASSUME MergeAssumption ==
  /\ {ListProjects, Details} \subseteq ProjectTasks /\ ListFolios \in PortfolioTasks
  /\ ProjectTasks \intersect PortfolioTasks = {}
  /\ ServerTasks \intersect (ProjectTasks \union PortfolioTasks) = {}
  /\ Scopes \subseteq Scope /\ Flags \subseteq Scope
  /\ \A s \in Scopes \union Flags : WithRoots(s)
  /\ Deletable \subseteq Projects \union Portfolios
  /\ {MaxExtracts, MaxResumes, MaxFailures} \subseteq Nat

VARIABLES
  disk,        \* the extract directories, oldest first
  cur,         \* index of the extract under way, 0 if none
  skipped,     \* its failed projects
  gone,        \* projects and portfolios deleted from the server
  asked,       \* history: of each extract and task, the items it asked the server for
  rescoped,    \* history: the extracts resumed with scope flags of their own
  ended,       \* history: the extracts that ended without error
  forgotten,   \* history: projects whose failure a killed run had not written yet
  resumes, failures

mvars == <<disk, cur, skipped, gone, asked, rescoped, ended, forgotten,
           resumes, failures>>

NoOutput == [t \in Tasks |-> {}]
HasScope(s) == s # NoFlags

MergeInit ==
  /\ disk = <<>> /\ cur = 0 /\ skipped = {} /\ gone = {}
  /\ asked = <<>> /\ rescoped = {} /\ ended = {} /\ forgotten = {}
  /\ resumes = 0 /\ failures = 0

\* RunExtract in a new directory, up to its phases.
Begin(s) ==
  /\ cur = 0 /\ Len(disk) < MaxExtracts
  /\ cur' = Len(disk) + 1 /\ skipped' = {}
  /\ disk' = Append(disk, [partial |-> HasScope(s), scope |-> s, marked |-> FALSE,
                           done |-> {}, out |-> NoOutput, failed |-> {}])
  /\ asked' = Append(asked, NoOutput)
  /\ UNCHANGED <<gone, rescoped, ended, forgotten, resumes, failures>>

\* Variant: the flags of the resumed run alone are recorded.
OwnFlags(x, f) == [partial |-> HasScope(f), scope |-> f]

(***************************************************************************)
(* restoreResumeScope: a slice resumed without flags keeps its scope; with *)
(* flags it takes theirs, and the recorded projects if they name none.     *)
(* Either way it stays a slice.                                            *)
(***************************************************************************)
Restored(x, f) ==
  IF ~x.partial THEN [partial |-> HasScope(f), scope |-> f]
  ELSE [partial |-> TRUE,
        scope |-> IF HasScope(f) THEN [f EXCEPT !.keys = IF @ = {} THEN x.scope.keys ELSE @]
                                 ELSE x.scope]

FailedBefore(x) == x.failed

\* RunExtract with --extract_id: extract.json is rewritten, and the output of the
\* tasks of the plan that did not finish deleted.
ResumeExtract(d, f) ==
  LET r == Restored(disk[d], f) IN
  /\ cur = 0 /\ d \notin ended /\ resumes < MaxResumes
  /\ cur' = d /\ skipped' = FailedBefore(disk[d])
  /\ disk' = [disk EXCEPT ![d].partial = r.partial, ![d].scope = r.scope,
                          ![d].out = [t \in Tasks |-> IF t \in r.scope.tasks \ disk[d].done
                                                      THEN {} ELSE @[t]]]
  /\ rescoped' = IF HasScope(f) THEN rescoped \union {d} ELSE rescoped
  /\ resumes' = resumes + 1
  /\ UNCHANGED <<gone, asked, ended, forgotten, failures>>

This == disk[cur]

\* The items a list task or a server-wide one asks the server for.
InScope(t) ==
  CASE t = ListProjects /\ This.scope.keys # {}  -> This.scope.keys
    [] t = ListFolios /\ This.scope.folios # {}  -> This.scope.folios
    [] OTHER                                     -> Items(t)

\* The items a task goes through: what the server has of those, or what the list
\* task of its kind wrote.
Through(t) == IF t = Root(t) THEN InScope(t) \ gone ELSE This.out[Root(t)]

\* The tasks that run side by side: the list and server-wide ones, then the others.
Left == This.scope.tasks \ This.done
Roots == {t \in Left : t = Root(t)}
Phase == IF Roots # {} THEN Roots ELSE Left

(***************************************************************************)
(* What a task writes.  A failed project is skipped by the tasks that fan  *)
(* out over the list; for a project that fails in this phase, the tasks in *)
(* had were through with it by then.                                       *)
(***************************************************************************)
Written(t, failing, had) ==
  IF t = ListProjects THEN Through(t)
  ELSE Through(t) \ (skipped \union (IF t \in had THEN {} ELSE failing))

\* The projects that may fail: some task asks for them first after the list.
Failing(failing, had) ==
  /\ failures + Cardinality(failing) <= MaxFailures
  /\ \A p \in failing : p \notin skipped /\ \E t \in Phase \ had : t # Root(t) /\ p \in Through(t)
  /\ failures' = failures + Cardinality(failing)

(***************************************************************************)
(* The directory after the tasks of a phase ran side by side: those in     *)
(* finished returned and are marked done, the others were cut off, having  *)
(* written what is in half.                                                *)
(***************************************************************************)
Ran(finished, half, failing, had) ==
  [This EXCEPT !.done = @ \union finished,
               !.marked = @ \/ finished # {},
               !.out = [t \in Tasks |->
                  CASE t \in finished         -> Written(t, failing, had)
                    [] t \in Phase \ finished -> Written(t, failing, had) \intersect half
                    [] OTHER                  -> @[t]]]

Asked(finished) == [asked EXCEPT ![cur] = [t \in Tasks |->
                      IF t \notin finished THEN @[t]
                      ELSE IF t = Root(t) THEN InScope(t) ELSE @[Root(t)]]]

\* Every task of the phase returned.
FinishPhase(failing, had) ==
  /\ cur # 0 /\ Left # {} /\ Failing(failing, had)
  /\ disk' = [disk EXCEPT ![cur] = Ran(Phase, {}, failing, had)]
  /\ asked' = Asked(Phase)
  /\ skipped' = skipped \union failing
  /\ UNCHANGED <<cur, gone, rescoped, ended, forgotten, resumes>>

Kept(failed) == failed

\* Every phase is over: keepFailedProjects, and the end of the run.
End ==
  /\ cur # 0 /\ Left = {}
  /\ disk' = [disk EXCEPT ![cur].failed = skipped]
  /\ cur' = 0 /\ skipped' = {} /\ ended' = ended \union {cur}
  /\ UNCHANGED <<gone, asked, rescoped, forgotten, resumes, failures>>

\* An error that is not one project's stops the run; the failed projects are kept.
Stop(finished, half, failing, had) ==
  /\ cur # 0 /\ finished # Phase /\ Failing(failing, had)
  /\ disk' = [disk EXCEPT ![cur] = [Ran(finished, half, failing, had)
                                      EXCEPT !.failed = Kept(skipped \union failing)]]
  /\ asked' = Asked(finished)
  /\ cur' = 0 /\ skipped' = {}
  /\ UNCHANGED <<gone, rescoped, ended, forgotten, resumes>>

\* The process is killed.
KillExtract(finished, half, failing, had) ==
  /\ cur # 0 /\ Failing(failing, had)
  /\ disk' = [disk EXCEPT ![cur] = Ran(finished, half, failing, had)]
  /\ asked' = Asked(finished)
  /\ forgotten' = forgotten \union ((skipped \union failing) \ This.failed)
  /\ cur' = 0 /\ skipped' = {}
  /\ UNCHANGED <<gone, rescoped, ended, resumes>>

RunOn ==
  \E failing \in SUBSET Projects :
  \E had \in IF failing = {} THEN {{}} ELSE SUBSET Phase :
    \/ FinishPhase(failing, had)
    \/ \E finished \in SUBSET Phase, half \in Halves :
          Stop(finished, half, failing, had) \/ KillExtract(finished, half, failing, had)

\* Someone deletes a project or a portfolio on the server.
Delete(i) ==
  /\ cur = 0 /\ i \notin gone
  /\ gone' = gone \union {i}
  /\ UNCHANGED <<disk, cur, skipped, asked, rescoped, ended, forgotten, resumes, failures>>

MergeNext ==
  \/ \E s \in Scopes : Begin(s)
  \/ \E d \in DOMAIN disk, f \in Flags : ResumeExtract(d, f)
  \/ (cur # 0 /\ RunOn) \/ End
  \/ \E i \in Deletable : Delete(i)

MergeSpec == MergeInit /\ [][MergeNext]_mvars
-----------------------------------------------------------------------------
\* The readers.

\* mergedSet: the newest full extract and what follows it; with none, everything.
MergedSet == {d \in DOMAIN disk : \A e \in d + 1 .. Len(disk) : disk[e].partial}

\* Variant: a task that wrote something counts as finished.
HasOutput(d, t) == disk[d].out[t] # {}

\* taskFinished: by its marker; by its output if the extract has no marker at all.
Finished(d, t) == IF disk[d].marked THEN t \in disk[d].done ELSE disk[d].out[t] # {}

\* The projects a slice with a project list replaces.
ReplacedKeys(d, t) == disk[d].scope.keys \union disk[d].out[t]

\* supersessions and portfolioSupersessions: the items of t an extract hides in earlier ones.
Hides(d, t) ==
  IF ~Finished(d, t) THEN {}
  ELSE IF t \in PortfolioTasks THEN disk[d].out[ListFolios]
  ELSE IF ~disk[d].partial THEN {}
  ELSE IF disk[d].scope.keys = {} THEN Projects ELSE ReplacedKeys(d, t)

Later(d) == {e \in MergedSet : e > d}

\* newestFinished: a server-wide task is read from one extract, if one finished it.
ReadFor(t) == IF \E d \in MergedSet : Finished(d, t)
              THEN {d \in MergedSet : Finished(d, t) /\ \A e \in Later(d) : ~Finished(e, t)}
              ELSE MergedSet

\* ExtractItems: the extract and item of each record that is read.
View(t) ==
  IF t \in ServerTasks
  THEN {v \in ReadFor(t) \X Items(t) : v[2] \in disk[v[1]].out[t]}
  ELSE {v \in MergedSet \X Items(t) :
          v[2] \in disk[v[1]].out[t] /\ \A e \in Later(v[1]) : v[2] \notin Hides(e, t)}

Seen(t) == {v[2] : v \in View(t)}

\* failedProjectKeys: an extract after which the earlier failures of p count no more.
Clears(d, p) == \/ p \in disk[d].scope.keys
                \/ disk[d].partial /\ disk[d].scope.keys = {} /\ disk[d].out[Details] # {}

FailedKeys == {p \in Projects : \E d \in MergedSet :
                  p \in disk[d].failed /\ \A e \in Later(d) : ~Clears(e, p)}

\* The projects of projects.csv.
Csv == Seen(Details) \ FailedKeys
-----------------------------------------------------------------------------
\* Types of all variables.
MergeTypeOK ==
  /\ \A d \in DOMAIN disk :
        /\ disk[d].partial \in BOOLEAN /\ disk[d].marked \in BOOLEAN
        /\ disk[d].scope \in Scope /\ (HasScope(disk[d].scope) => disk[d].partial)
        /\ disk[d].done \subseteq Tasks /\ disk[d].failed \subseteq Projects
        /\ \A t \in Tasks : disk[d].out[t] \subseteq Items(t)
        /\ disk[d].done # {} => disk[d].marked
  /\ cur \in 0 .. Len(disk) /\ skipped \subseteq Projects
  /\ DOMAIN asked = DOMAIN disk /\ rescoped \subseteq DOMAIN disk /\ ended \subseteq DOMAIN disk

(***************************************************************************)
(* However extracts are cut off, resumed and merged, no record is read     *)
(* twice, unless the newer copy is what a task that did not finish left    *)
(* behind: "a record is dropped when a later extract of the set            *)
(* re-extracted its project" (ExtractItems).                               *)
(***************************************************************************)
NothingReadTwice ==
  \A t \in Tasks : \A v, w \in View(t) : v[2] = w[2] /\ v[1] < w[1] => t \notin disk[w[1]].done

(***************************************************************************)
(* A record that was written is missing from what is read only if another  *)
(* extract finished the same task and had asked the server for that        *)
(* project or portfolio, and is the newer one unless this one did not      *)
(* finish it; but for extracts resumed with other scope flags, and for     *)
(* those killed before their first task finished.                          *)
(***************************************************************************)
ReadAgain(d, t, i) == \E e \in MergedSet : /\ t \in disk[e].done /\ i \in asked[e][t]
                                           /\ e > d \/ t \notin disk[d].done
Missing(t) == {v \in MergedSet \X Items(t) : v[2] \in disk[v[1]].out[t]} \ View(t)

HiddenWasReadAgain ==
  \A t \in Tasks : \A m \in Missing(t) :
    ReadAgain(m[1], t, m[2]) \/ \E e \in MergedSet : e \in rescoped \/ ~disk[e].marked

(***************************************************************************)
(* "dropping a record when a later extract of the set re-extracted its     *)
(* project" (ExtractItems): no exception for extracts resumed with flags.  *)
(***************************************************************************)
OnlyReExtractedIsDropped ==
  \A t \in Tasks : \A m \in Missing(t) :
    ReadAgain(m[1], t, m[2]) \/ \E e \in MergedSet : ~disk[e].marked

(***************************************************************************)
(* When every extract that is read asked for everything and ended, a       *)
(* project of projects.csv has its records of every task: a failure is     *)
(* forgotten only once a later extract went through the project again.     *)
(***************************************************************************)
WholeProject(p) == \A t \in ProjectTasks : p \in Seen(t)
AllAskedAndEnded == MergedSet \subseteq ended \ rescoped
                      /\ \A d \in MergedSet : disk[d].scope.tasks = Tasks
CsvIsWhole == cur = 0 /\ AllAskedAndEnded => \A p \in Csv \ forgotten : WholeProject(p)

(***************************************************************************)
(* "structure leaves them out of projects.csv, so migrate never migrates a *)
(* project whose data is incomplete" (TROUBLESHOOTING.md): no project is   *)
(* in projects.csv while the records read are those of an extract that     *)
(* ended with the project on its list of failed ones.                      *)
(***************************************************************************)
FailedIsLeftOut ==
  cur = 0 => \A p \in Csv, d \in MergedSet :
    ~ /\ d \in ended /\ p \in disk[d].failed /\ <<d, p>> \in View(Details)
      /\ \E t \in ProjectTasks : t \in disk[d].done /\ p \notin Seen(t)

(***************************************************************************)
(* An extract that is resumed never pushes others out of what is read, and *)
(* a slice stays one: only a new full extract replaces the earlier ones.   *)
(***************************************************************************)
ResumeHidesNoExtract ==
  [][Len(disk') = Len(disk) => /\ MergedSet \subseteq MergedSet'
                               /\ \A d \in DOMAIN disk : disk[d].partial => disk'[d].partial]_mvars

(***************************************************************************)
(* What readers see of several extracts is one extract: each record once,  *)
(* none hidden that was not read again, and projects.csv lists whole       *)
(* projects only.                                                          *)
(***************************************************************************)
ViewInv == MergeTypeOK /\ NothingReadTwice /\ HiddenWasReadAgain /\ CsvIsWhole
=============================================================================
