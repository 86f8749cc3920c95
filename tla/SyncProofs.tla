----------------------------- MODULE SyncProofs -----------------------------
(***************************************************************************)
(* What is proved, for any value of the constants, of the three parts that *)
(* MCSync checks in one run and that share no state: the migration of      *)
(* global settings, that of quality gates, and the sync of issues and      *)
(* hotspots.                                                               *)
(***************************************************************************)
EXTENDS SettingsMigration, GateConditions, IssueSync, LoopFacts
-----------------------------------------------------------------------------
(***************************************************************************)
(* Global settings.  For any projects, organizations, keys, scenarios,     *)
(* attempts and outages: each value of a setting lands at its level and    *)
(* none is lost without a failure counted.  The two tasks never speak to   *)
(* each other; what each of them has settled is stated for its own walk    *)
(* (Walks) or jobs (Jobs), in terms that no step of the other one can      *)
(* undo.                                                                   *)
(***************************************************************************)
Steps == {"org defs", "project defs", "walks", "records", "propagation", "end"}
WalkType == [org : 1..Len(OrgSeq) + 1, rejected : BOOLEAN, fan : SUBSET Proj,
             to : Proj \cup {"none"}, tries : 0..MaxAttempts - 1]
JobType == [at : {"waiting", "calling", "done"}, tries : 0..MaxAttempts - 1]

Types ==
    /\ setup \in Scenarios
    /\ orgValue \in [Orgs -> [Key -> {"default", "global"}]]
    /\ ownValue \in [Proj -> [Key -> {"unset", "global", "own"}]]
    /\ known \subseteq Proj
    /\ step \in [Tasks -> Steps]
    /\ step["globals"] \in {"org defs", "project defs", "walks", "end"}
    /\ step["projects"] \in {"org defs", "project defs", "records", "propagation", "end"}
    /\ defs \in [Tasks -> [org : SUBSET Orgs, project : SUBSET Orgs]]
    /\ walk \in [Key -> WalkType]
    /\ outcome \in [Key -> [Orgs -> Outcome]]
    /\ job \in [Proj -> [Key -> JobType]]
    /\ covered \subseteq Proj \X Key /\ rejected \subseteq Key
    /\ failures \subseteq Tasks \X (Proj \cup Orgs) \X Key
    /\ outages \in 0..MaxOutages
    /\ refusals \in [Key -> Nat]

Unrecorded(p, k) == setup.record[p][k] = "none"

\* What a project and an organization may hold, whoever wrote it.
ValuesFit ==
    /\ \A o \in Orgs, k \in Key : orgValue[o][k] = "global" => k \in setup.orgTakes \cap setup.atOrg
    /\ \A p \in Proj, k \in Key :
          /\ ownValue[p][k] = "own" => HasRecord(p, k)
          /\ ownValue[p][k] = "global" =>
                /\ ~OwnSetting(p, k)
                /\ \/ k \notin setup.orgTakes
                   \/ /\ step["projects"] \in {"propagation", "end"}
                      /\ ~ForOrg("projects", HomeOf[p], k)

\* setGlobalSettings did its part for a project that has no record of the key.
Served(p, k) ==
    \/ orgValue[HomeOf[p]][k] = "global" \/ ownValue[p][k] = "global"
    \/ <<"globals", p, k>> \in failures \/ <<"globals", HomeOf[p], k>> \in failures

\* The walk of a key: what it knows of the key, and what it left behind.
WalkFits(k) ==
    /\ walk[k].to \in walk[k].fan \cup {"none"}
    /\ refusals[k] = IF walk[k].rejected THEN 1 ELSE 0
    /\ walk[k].rejected => k \notin setup.orgTakes
    /\ walk[k].fan # {} => /\ Walking(k) /\ walk[k].rejected /\ walk[k].fan \subseteq FanTargets(k)
                           /\ \A p \in FanTargets(k) \ walk[k].fan : Served(p, k)
    /\ k \in setup.custom /\ step["globals"] \in {"org defs", "project defs"} => walk[k].org = 1
    /\ step["globals"] = "end" => walk[k].org > Len(OrgSeq)
    /\ k \in setup.custom => \A p \in Proj, i \in 1..Len(OrgSeq) :
          i < walk[k].org /\ HomeOf[p] = OrgSeq[i] /\ Unrecorded(p, k) /\ ForOrg("globals", OrgSeq[i], k)
          => Served(p, k)

\* setProjectSettings did its part for a setting the project has of its own.
Settled(p, k) ==
    /\ <<p, k>> \in covered \/ k \in rejected
    /\ <<"projects", p, k>> \in failures \/ ownValue[p][k] = "own"

\* The write of a key for a project, in the pass the task is in.
JobFits(p, k) ==
    /\ <<p, k>> \in covered => HasRecord(p, k)
    /\ step["projects"] \in {"org defs", "project defs"} =>
          job[p][k].at = IF HasRecord(p, k) THEN "waiting" ELSE "done"
    /\ step["projects"] = "records" =>
          /\ job[p][k].at # "done" => HasRecord(p, k)
          /\ job[p][k].at = "calling" => <<p, k>> \in covered
          /\ OwnSetting(p, k) /\ job[p][k].at = "done" => Settled(p, k)
    /\ step["projects"] = "propagation" =>
          /\ job[p][k].at # "done" => Propagates(HomeOf[p], k)
          /\ job[p][k].at = "calling" => ~OwnSetting(p, k)
    /\ step["projects"] = "end" => job[p][k].at = "done"
    /\ step["projects"] \in {"propagation", "end"} =>
          /\ OwnSetting(p, k) => Settled(p, k)
          /\ Propagates(HomeOf[p], k) /\ Unrecorded(p, k) /\ job[p][k].at = "done" =>
                ownValue[p][k] = "global" \/ <<"projects", p, k>> \in failures

Walks == \A k \in Key : WalkFits(k)
Jobs == \A p \in Proj, k \in Key : JobFits(p, k)
SettingsIInv == Types /\ ValuesFit /\ Walks /\ Jobs

-----------------------------------------------------------------------------
LEMMA SettingsInitFits == SettingsInit => SettingsIInv
<1> SUFFICES ASSUME SettingsInit PROVE SettingsIInv
  OBVIOUS
<1>1. Len(OrgSeq) \in Nat /\ MaxAttempts - 1 \in Nat /\ MaxOutages \in Nat
  BY SettingsAssumption
<1>2. Types
  <2>1. walk \in [Key -> WalkType]
    <3>1. 0 \in 0..MaxAttempts - 1 /\ 1 \in 1..Len(OrgSeq) + 1 /\ Len(OrgSeq) + 1 \in 1..Len(OrgSeq) + 1
      BY <1>1
    <3>2. \A k \in Key : [org |-> IF k \in setup.custom THEN 1 ELSE Len(OrgSeq) + 1,
                          rejected |-> FALSE, fan |-> {}, to |-> "none", tries |-> 0] \in WalkType
      BY <3>1 DEF WalkType
    <3> QED
      BY <3>2 DEF SettingsInit
  <2>2. job \in [Proj -> [Key -> JobType]]
    <3>1. Waiting \in JobType /\ NoJob \in JobType
      BY <1>1 DEF JobType, Waiting, NoJob
    <3> QED
      BY <3>1 DEF SettingsInit
  <2>3. defs \in [Tasks -> [org : SUBSET Orgs, project : SUBSET Orgs]]
    BY DEF SettingsInit
  <2>4. step \in [Tasks -> Steps] /\ step["globals"] = "org defs" /\ step["projects"] = "org defs"
    BY DEF SettingsInit, Tasks, Steps
  <2>5. outcome \in [Key -> [Orgs -> Outcome]]
    BY DEF SettingsInit, Outcome, Unhandled
  <2>6. outages \in 0..MaxOutages /\ refusals \in [Key -> Nat]
    <3>1. outages = 0 /\ refusals = [k \in Key |-> 0]
      BY DEF SettingsInit
    <3> QED
      BY <1>1, <3>1
  <2> QED
    BY <2>1, <2>2, <2>3, <2>4, <2>5, <2>6 DEF Types, SettingsInit
<1>3. ValuesFit
  BY DEF SettingsInit, ValuesFit
<1>4. ASSUME NEW k \in Key PROVE WalkFits(k)
  <2>1. /\ walk[k].org = (IF k \in setup.custom THEN 1 ELSE Len(OrgSeq) + 1)
        /\ walk[k].rejected = FALSE /\ walk[k].fan = {} /\ walk[k].to = "none"
        /\ refusals[k] = 0 /\ step["globals"] = "org defs"
    BY DEF SettingsInit, Tasks
  <2>2. \A i \in 1..Len(OrgSeq) : ~(i < 1)
    BY <1>1
  <2> QED
    BY <2>1, <2>2 DEF WalkFits
<1>5. ASSUME NEW p \in Proj, NEW k \in Key PROVE JobFits(p, k)
  BY DEF SettingsInit, JobFits, Tasks, Waiting, NoJob
<1> QED
  BY <1>2, <1>3, <1>4, <1>5 DEF SettingsIInv, Walks, Jobs

-----------------------------------------------------------------------------
\* What one task has settled, the other one leaves.
Kept ==
    /\ setup' = setup /\ failures \subseteq failures'
    /\ \A o \in Orgs, k \in Key : orgValue[o][k] = "global" => orgValue'[o][k] = "global"
    /\ \A p \in Proj, k \in Key :
          /\ Unrecorded(p, k) /\ ownValue[p][k] = "global" => ownValue'[p][k] = "global"
          /\ OwnSetting(p, k) /\ ownValue[p][k] = "own" => ownValue'[p][k] = "own"

LEMMA ServedStays ==
  ASSUME Kept, NEW p \in Proj, NEW k \in Key, Served(p, k), Unrecorded(p, k)
  PROVE Served(p, k)' /\ Unrecorded(p, k)'
BY SettingsAssumption DEF Kept, Served, Unrecorded

LEMMA WalkStays ==
  ASSUME Kept, NEW k \in Key, WalkFits(k), walk'[k] = walk[k], refusals'[k] = refusals[k],
         step'["globals"] = step["globals"], defs'["globals"] = defs["globals"]
  PROVE WalkFits(k)'
<1>1. setup' = setup
  BY DEF Kept
<1>2. \A p \in Proj : Unrecorded(p, k) => Unrecorded(p, k)' /\ (Served(p, k) => Served(p, k)')
  BY <1>1, ServedStays DEF Unrecorded
<1>3. \A p \in Proj : Unrecorded(p, k)' => Unrecorded(p, k)
  BY <1>1 DEF Unrecorded
<1>4. /\ FanTargets(k)' = FanTargets(k) /\ Walking(k)' = Walking(k)
      /\ \A p \in FanTargets(k) : p \in Proj /\ Unrecorded(p, k)
      /\ \A i : ForOrg("globals", OrgSeq[i], k)' = ForOrg("globals", OrgSeq[i], k)
  BY <1>1 DEF FanTargets, Overridden, HasRecord, ProjectsOf, At, Walking, Unrecorded, ForOrg
<1> QED
  BY <1>1, <1>2, <1>3, <1>4 DEF WalkFits

LEMMA JobStays ==
  ASSUME Kept, NEW p \in Proj, NEW k \in Key, JobFits(p, k), job'[p][k] = job[p][k],
         <<p, k>> \in covered' <=> <<p, k>> \in covered, rejected \subseteq rejected',
         step'["projects"] = step["projects"], defs'["projects"] = defs["projects"]
  PROVE JobFits(p, k)'
<1>1. setup' = setup
  BY DEF Kept
<1>2. /\ HasRecord(p, k)' = HasRecord(p, k) /\ OwnSetting(p, k)' = OwnSetting(p, k)
      /\ Unrecorded(p, k)' = Unrecorded(p, k)
      /\ Propagates(HomeOf[p], k)' = Propagates(HomeOf[p], k)
  BY <1>1 DEF HasRecord, OwnSetting, Unrecorded, Propagates, ForProject, ForOrg
<1>3. OwnSetting(p, k) /\ Settled(p, k) => Settled(p, k)'
  BY DEF Settled, Kept
<1>4. Unrecorded(p, k) /\ (ownValue[p][k] = "global" \/ <<"projects", p, k>> \in failures)
        => (ownValue'[p][k] = "global" \/ <<"projects", p, k>> \in failures')
  BY DEF Kept
<1> QED
  BY <1>2, <1>3, <1>4 DEF JobFits

\* A step of the globals' task as setProjectSettings sees it.
LEMMA JobsStay ==
  ASSUME Kept, Jobs, UNCHANGED <<job, covered, rejected>>,
         step'["projects"] = step["projects"], defs'["projects"] = defs["projects"]
  PROVE Jobs'
BY JobStays DEF Jobs

\* A step of the projects' task as setGlobalSettings sees it.
LEMMA WalksStay ==
  ASSUME Kept, Walks, UNCHANGED <<walk, refusals>>,
         step'["globals"] = step["globals"], defs'["globals"] = defs["globals"]
  PROVE Walks'
BY WalkStays DEF Walks

\* A step that writes no value.
LEMMA ValuesStay ==
  ASSUME ValuesFit, Types, UNCHANGED <<setup, orgValue, ownValue>>, failures \subseteq failures',
         \/ step' = step /\ defs' = defs
         \/ step["projects"] \notin {"propagation", "end"}
         \/ step'["projects"] \in {"propagation", "end"} /\ defs'["projects"].org = defs["projects"].org
  PROVE ValuesFit' /\ Kept
BY DEF ValuesFit, Kept, HasRecord, OwnSetting, ForOrg

\* One call that writes a setting of a project.
LEMMA WriteFacts ==
  ASSUME Types, NEW p \in Proj, NEW k \in Key, NEW value \in {"global", "own"},
         NEW answer \in CallAnswers, Write(p, k, value, answer)
  PROVE /\ ownValue' \in [Proj -> [Key -> {"unset", "global", "own"}]]
        /\ \A q \in Proj, j \in Key : q # p \/ j # k => ownValue'[q][j] = ownValue[q][j]
        /\ ownValue'[p][k] \in {ownValue[p][k], value}
        /\ answer = "ok" => ownValue'[p][k] = value
        /\ outages' \in 0..MaxOutages
<1> DEFINE written == [ownValue EXCEPT ![p][k] = value]
<1>1. /\ ownValue \in [Proj -> [Key -> {"unset", "global", "own"}]]
      /\ outages \in 0..MaxOutages /\ MaxOutages \in Nat
  BY SettingsAssumption DEF Types
<1>2. /\ written \in [Proj -> [Key -> {"unset", "global", "own"}]]
      /\ \A q \in Proj, j \in Key : q # p \/ j # k => written[q][j] = ownValue[q][j]
      /\ written[p][k] = value
  BY <1>1
<1>3. ownValue' \in {ownValue, written} /\ (answer = "ok" => ownValue' = written)
  BY DEF Write, CallAnswers
<1>4. outages' \in 0..MaxOutages
  <2>1. CASE answer = "error"
    <3>1. outages < MaxOutages
      BY <2>1, SettingsAssumption DEF Write, Answers
    <3> QED
      BY <1>1, <2>1, <3>1 DEF Write
  <2>2. CASE answer # "error"
    BY <1>1, <2>2 DEF Write
  <2> QED
    BY <2>1, <2>2
<1> HIDE DEF written
<1> QED
  BY <1>1, <1>2, <1>3, <1>4

-----------------------------------------------------------------------------
LEMMA LearnKeeps ==
  ASSUME SettingsIInv, NEW p \in Proj, Learn(p)
  PROVE SettingsIInv'
<1>1. UNCHANGED <<setup, orgValue, ownValue, step, defs, walk, outcome, job, covered,
                  rejected, failures, outages, refusals>> /\ known' = known \cup {p}
  BY DEF Learn
<1>2. Types'
  BY <1>1 DEF SettingsIInv, Types
<1> QED
  BY <1>1, <1>2, ValuesStay, WalksStay, JobsStay DEF SettingsIInv

\* Definitions of one task and scope that are replaced.
LEMMA DefsFacts ==
  ASSUME Types, NEW t \in Tasks, NEW S \in SUBSET Orgs, NEW d,
         d = [defs EXCEPT ![t].org = S] \/ d = [defs EXCEPT ![t].project = S]
  PROVE /\ d \in [Tasks -> [org : SUBSET Orgs, project : SUBSET Orgs]]
        /\ d = [defs EXCEPT ![t].project = S] => d[t].org = defs[t].org
        /\ \A u \in Tasks : u # t => d[u] = defs[u]
<1> DEFINE D == [org : SUBSET Orgs, project : SUBSET Orgs]
           x == [defs[t] EXCEPT !.org = S]
           y == [defs[t] EXCEPT !.project = S]
<1>1. defs \in [Tasks -> D] /\ defs[t] \in D
  BY DEF Types
<1>2. x \in D /\ y \in D /\ y.org = defs[t].org
  BY <1>1
<1>3. [defs EXCEPT ![t].org = S] = [defs EXCEPT ![t] = x]
      /\ [defs EXCEPT ![t].project = S] = [defs EXCEPT ![t] = y]
  BY <1>1
<1> HIDE DEF D, x, y
<1>4. /\ [defs EXCEPT ![t] = x] \in [Tasks -> D] /\ [defs EXCEPT ![t] = y] \in [Tasks -> D]
      /\ [defs EXCEPT ![t] = y][t] = y
      /\ \A u \in Tasks : u # t => [defs EXCEPT ![t] = x][u] = defs[u]
                                   /\ [defs EXCEPT ![t] = y][u] = defs[u]
  BY <1>1, <1>2
<1>5. d \in [Tasks -> D]
  BY <1>3, <1>4
<1>6. d = [defs EXCEPT ![t].project = S] => d[t].org = defs[t].org
  BY <1>2, <1>3, <1>4
<1>7. \A u \in Tasks : u # t => d[u] = defs[u]
  BY <1>3, <1>4
<1> QED
  BY <1>5, <1>6, <1>7 DEF D

\* Only a task's own step and definitions change when it fetches definitions.
LEMMA FetchKeeps ==
  ASSUME SettingsIInv, NEW t \in Tasks,
         FetchOrgDefs(t) \/ FetchProjectDefs(t)
  PROVE SettingsIInv'
<1>1. Types /\ step \in [Tasks -> Steps]
  BY DEF SettingsIInv, Types
<1>2. /\ UNCHANGED <<setup, orgValue, ownValue, known, walk, outcome, job, covered,
                     rejected, failures, refusals>>
      /\ step[t] \in {"org defs", "project defs"}
      /\ step' \in [Tasks -> Steps]
      /\ step[t] = "org defs" => step'[t] = "project defs"
      /\ step[t] = "project defs" => step'[t] = IF t = "globals" THEN "walks" ELSE "records"
      /\ \A u \in Tasks : u # t => step'[u] = step[u]
  BY <1>1 DEF FetchOrgDefs, FetchProjectDefs, Steps
<1>3. /\ defs' \in [Tasks -> [org : SUBSET Orgs, project : SUBSET Orgs]]
      /\ step[t] = "project defs" => defs'[t].org = defs[t].org
      /\ \A u \in Tasks : u # t => defs'[u] = defs[u]
  <2>1. PICK S \in SUBSET Orgs :
          \/ defs' = [defs EXCEPT ![t].org = S] /\ step[t] = "org defs"
          \/ defs' = [defs EXCEPT ![t].project = S]
    <3>1. CASE FetchOrgDefs(t)
      BY <3>1 DEF FetchOrgDefs
    <3>2. CASE FetchProjectDefs(t)
      BY <3>2 DEF FetchProjectDefs, DefsFetched
    <3> QED
      BY <3>1, <3>2
  <2>2. /\ defs' \in [Tasks -> [org : SUBSET Orgs, project : SUBSET Orgs]]
        /\ defs' = [defs EXCEPT ![t].project = S] => defs'[t].org = defs[t].org
        /\ \A u \in Tasks : u # t => defs'[u] = defs[u]
    BY <1>1, <2>1, DefsFacts
  <2> QED
    BY <2>1, <2>2
<1>4. outages' \in 0..MaxOutages
  <2>1. PICK lost \in SUBSET Orgs : /\ outages + Cardinality(lost) <= MaxOutages
                                    /\ outages' = outages + Cardinality(lost)
    BY DEF FetchOrgDefs, FetchProjectDefs
  <2>2. IsFiniteSet(Orgs)
    <3>1. IsFiniteSet(1..Len(OrgSeq)) /\ DOMAIN OrgSeq = 1..Len(OrgSeq)
      BY SettingsAssumption, FS_Interval
    <3>2. OrgSeq \in Surjection(1..Len(OrgSeq), Orgs)
      BY <3>1, SettingsAssumption DEF Orgs, Surjection
    <3> QED
      BY <3>1, <3>2, FS_Surjection
  <2>3. Cardinality(lost) \in Nat
    BY <2>2, FS_Subset, FS_CardinalityType
  <2>4. outages \in 0..MaxOutages /\ MaxOutages \in Nat
    BY <1>1, SettingsAssumption DEF Types
  <2> QED
    BY <2>1, <2>3, <2>4
<1>5. Types'
  <2>1. step'["globals"] \in {"org defs", "project defs", "walks", "end"}
        /\ step'["projects"] \in {"org defs", "project defs", "records", "propagation", "end"}
    BY <1>1, <1>2 DEF Types, Tasks
  <2> QED
    BY <1>1, <1>2, <1>3, <1>4, <2>1 DEF Types
<1>6. ValuesFit' /\ Kept
  <2>1. CASE t = "projects"
    BY <1>1, <1>2, <1>3, <2>1, ValuesStay DEF SettingsIInv
  <2>2. CASE t = "globals"
    <3>1. step'["projects"] = step["projects"] /\ defs'["projects"] = defs["projects"]
      BY <1>2, <1>3, <2>2 DEF Tasks
    <3> QED
      BY <1>2, <3>1, ValuesStay DEF SettingsIInv
  <2> QED
    BY <2>1, <2>2 DEF Tasks
<1>7. Walks'
  <2>1. CASE t = "projects"
    BY <1>2, <1>3, <1>6, <2>1, WalksStay DEF SettingsIInv, Tasks
  <2>2. CASE t = "globals"
    <3> SUFFICES ASSUME NEW k \in Key PROVE WalkFits(k)'
      BY DEF Walks
    <3>1. WalkFits(k) /\ Len(OrgSeq) \in Nat
      BY SettingsAssumption DEF SettingsIInv, Walks
    <3>2. walk[k].fan = {}
      BY <1>2, <2>2, <3>1 DEF WalkFits, Walking
    <3>3. step'["globals"] \in {"project defs", "walks"}
      BY <1>2, <2>2
    <3>4. /\ k \in setup.custom => walk[k].org = 1
          /\ \A i \in 1..Len(OrgSeq) : ~(i < 1)
      <4>1. k \in setup.custom => walk[k].org = 1
        BY <1>2, <2>2, <3>1 DEF WalkFits
      <4>2. \A i \in 1..Len(OrgSeq) : ~(i < 1)
        BY <3>1
      <4> QED
        BY <4>1, <4>2
    <3> QED
      BY <1>2, <3>1, <3>2, <3>3, <3>4 DEF WalkFits
  <2> QED
    BY <2>1, <2>2 DEF Tasks
<1>8. Jobs'
  <2>1. CASE t = "globals"
    BY <1>2, <1>3, <1>6, <2>1, JobsStay DEF SettingsIInv, Tasks
  <2>2. CASE t = "projects"
    <3> SUFFICES ASSUME NEW p \in Proj, NEW k \in Key PROVE JobFits(p, k)'
      BY DEF Jobs
    <3>1. JobFits(p, k)
      BY DEF SettingsIInv, Jobs
    <3>2. step'["projects"] \in {"project defs", "records"}
      BY <1>2, <2>2
    <3> QED
      BY <1>2, <2>2, <3>1, <3>2 DEF JobFits, HasRecord, OwnSetting
  <2> QED
    BY <2>1, <2>2 DEF Tasks
<1> QED
  BY <1>5, <1>6, <1>7, <1>8 DEF SettingsIInv

-----------------------------------------------------------------------------
\* A step of one key's walk.
LEMMA WalkStepKeeps ==
  ASSUME SettingsIInv, NEW k \in Key, Kept, ValuesFit', WalkFits(k)',
         UNCHANGED <<setup, known, step, defs, job, covered, rejected>>,
         NEW w \in WalkType, walk' = [walk EXCEPT ![k] = w],
         NEW r \in Nat, refusals' = [refusals EXCEPT ![k] = r],
         outcome' \in [Key -> [Orgs -> Outcome]],
         orgValue' \in [Orgs -> [Key -> {"default", "global"}]],
         ownValue' \in [Proj -> [Key -> {"unset", "global", "own"}]],
         failures' \subseteq Tasks \X (Proj \cup Orgs) \X Key, outages' \in 0..MaxOutages
  PROVE SettingsIInv'
<1>1. walk \in [Key -> WalkType] /\ refusals \in [Key -> Nat]
  BY DEF SettingsIInv, Types
<1>2. walk' \in [Key -> WalkType] /\ refusals' \in [Key -> Nat]
  BY <1>1
<1>3. Types'
  BY <1>2 DEF SettingsIInv, Types
<1>4. ASSUME NEW j \in Key, j # k PROVE WalkFits(j)'
  <2>1. walk'[j] = walk[j] /\ refusals'[j] = refusals[j] /\ WalkFits(j)
    BY <1>1, <1>4 DEF SettingsIInv, Walks
  <2> QED
    BY <2>1, WalkStays
<1>5. Jobs'
  BY JobsStay DEF SettingsIInv
<1> QED
  BY <1>3, <1>4, <1>5 DEF SettingsIInv, Walks

\* Where a walk is, and what it may touch.
LEMMA WalkingFacts ==
  ASSUME SettingsIInv, NEW k \in Key, Walking(k)
  PROVE /\ walk \in [Key -> WalkType] /\ walk[k] \in WalkType /\ WalkFits(k)
        /\ walk[k].org \in 1..Len(OrgSeq) /\ At(k) \in Orgs /\ Len(OrgSeq) \in Nat
        /\ MaxAttempts - 1 \in Nat /\ 0 \in 0..MaxAttempts - 1
        /\ FanTargets(k) \subseteq Proj /\ ProjectsOf(At(k)) \subseteq Proj
        /\ \A p \in ProjectsOf(At(k)) : Unrecorded(p, k) <=> p \in FanTargets(k)
        /\ \A p \in FanTargets(k) : p \in ProjectsOf(At(k)) /\ ~OwnSetting(p, k)
        /\ \A p \in ProjectsOf(At(k)) : HomeOf[p] = At(k)
<1>1. walk \in [Key -> WalkType] /\ walk[k] \in WalkType /\ WalkFits(k)
  BY DEF SettingsIInv, Types, Walks
<1>2. Len(OrgSeq) \in Nat /\ MaxAttempts - 1 \in Nat /\ 0 \in 0..MaxAttempts - 1
  BY SettingsAssumption
<1>3. walk[k].org \in 1..Len(OrgSeq) + 1 /\ walk[k].org <= Len(OrgSeq)
  BY <1>1 DEF WalkType, Walking
<1>4. walk[k].org \in 1..Len(OrgSeq)
  BY <1>2, <1>3
<1>5. At(k) \in Orgs
  BY <1>4, SettingsAssumption DEF At
<1> QED
  BY <1>1, <1>2, <1>4, <1>5 DEF FanTargets, ProjectsOf, Overridden, HasRecord, Unrecorded, OwnSetting

\* A walk leaves an organization whose projects are served.
LEMMA LeaveOrgFits ==
  ASSUME SettingsIInv, NEW k \in Key, Walking(k), Kept, UNCHANGED <<step, defs>>,
         NEW said \in Outcome, NEW memo \in BOOLEAN, LeaveOrg(k, said, memo),
         refusals'[k] = IF memo THEN 1 ELSE 0, memo => k \notin setup.orgTakes,
         ForOrg("globals", At(k), k) => \A p \in FanTargets(k) : Served(p, k)'
  PROVE /\ WalkFits(k)' /\ walk'[k] \in WalkType /\ walk' = [walk EXCEPT ![k] = walk'[k]]
        /\ outcome' \in [Key -> [Orgs -> Outcome]]
<1> DEFINE w == [org |-> walk[k].org + 1, rejected |-> memo, fan |-> {}, to |-> "none", tries |-> 0]
<1>1. /\ walk \in [Key -> WalkType] /\ walk[k] \in WalkType /\ WalkFits(k)
      /\ walk[k].org \in 1..Len(OrgSeq) /\ At(k) \in Orgs /\ Len(OrgSeq) \in Nat
      /\ 0 \in 0..MaxAttempts - 1
      /\ \A p \in ProjectsOf(At(k)) : Unrecorded(p, k) <=> p \in FanTargets(k)
  BY WalkingFacts
<1>2. walk' = [walk EXCEPT ![k] = w]
  BY <1>1 DEF LeaveOrg
<1>3. walk[k].org + 1 \in 1..Len(OrgSeq) + 1
  BY <1>1
<1>4. w \in WalkType
  BY <1>1, <1>3 DEF WalkType
<1>5. walk'[k] = w
  BY <1>1, <1>2
<1>6. outcome' \in [Key -> [Orgs -> Outcome]]
  BY <1>1 DEF LeaveOrg, SettingsIInv, Types
<1>7. step'["globals"] = "walks" /\ setup' = setup /\ defs' = defs
  BY DEF Walking, Kept
<1>8. ASSUME NEW p \in Proj, NEW i \in 1..Len(OrgSeq), i < walk[k].org + 1,
             HomeOf[p] = OrgSeq[i], Unrecorded(p, k), ForOrg("globals", OrgSeq[i], k),
             k \in setup.custom
      PROVE Served(p, k)'
  <2>1. CASE i = walk[k].org
    BY <1>1, <1>8, <2>1 DEF At, ProjectsOf
  <2>2. CASE i < walk[k].org
    <3>1. Served(p, k)
      BY <1>1, <1>8, <2>2 DEF WalkFits
    <3> QED
      BY <1>8, <3>1, ServedStays
  <2>3. walk[k].org \in Int /\ i \in Int
    BY <1>1
  <2> QED
    BY <1>8, <2>1, <2>2, <2>3
<1>9. WalkFits(k)'
  <2>1. walk'[k].org = walk[k].org + 1 /\ walk'[k].rejected = memo /\ walk'[k].fan = {}
        /\ walk'[k].to = "none"
    BY <1>5
  <2>2. \A p, i : Unrecorded(p, k)' = Unrecorded(p, k)
                  /\ ForOrg("globals", OrgSeq[i], k)' = ForOrg("globals", OrgSeq[i], k)
    BY <1>7 DEF Unrecorded, ForOrg
  <2>3. k \in setup'.custom => \A p \in Proj, i \in 1..Len(OrgSeq) :
          i < walk'[k].org /\ HomeOf[p] = OrgSeq[i] /\ Unrecorded(p, k)'
          /\ ForOrg("globals", OrgSeq[i], k)' => Served(p, k)'
    BY <1>7, <1>8, <2>1, <2>2
  <2> HIDE DEF w
  <2> QED
    BY <1>7, <2>1, <2>3 DEF WalkFits
<1> QED
  BY <1>2, <1>4, <1>5, <1>6, <1>9

\* A failure that is counted is of the type of the others.
LEMMA CountRowTyped ==
  ASSUME Types, NEW t \in Tasks, NEW where \in Proj \cup Orgs, NEW k \in Key, CountRow(t, where, k)
  PROVE /\ failures' \subseteq Tasks \X (Proj \cup Orgs) \X Key
        /\ failures \subseteq failures' /\ <<t, where, k>> \in failures'
<1>1. failures' = failures \cup {<<t, where, k>>}
  BY DEF CountRow
<1>2. <<t, where, k>> \in Tasks \X (Proj \cup Orgs) \X Key
  OBVIOUS
<1> QED
  BY <1>1, <1>2 DEF Types

\* Organizations refuse the key: the walk goes to the projects, or on.
LEMMA StartFanOutFits ==
  ASSUME SettingsIInv, NEW k \in Key, Walking(k), walk[k].fan = {}, StartFanOut(k),
         UNCHANGED <<setup, step, defs, orgValue, ownValue>>,
         refusals'[k] = 1, k \notin setup.orgTakes
  PROVE /\ WalkFits(k)' /\ walk'[k] \in WalkType /\ walk' = [walk EXCEPT ![k] = walk'[k]]
        /\ outcome' \in [Key -> [Orgs -> Outcome]]
        /\ failures' \subseteq Tasks \X (Proj \cup Orgs) \X Key /\ Kept
<1>1. /\ walk \in [Key -> WalkType] /\ walk[k] \in WalkType /\ WalkFits(k)
      /\ walk[k].org \in 1..Len(OrgSeq) /\ At(k) \in Orgs /\ Len(OrgSeq) \in Nat
      /\ FanTargets(k) \subseteq Proj
      /\ \A p \in FanTargets(k) : p \in Proj /\ HomeOf[p] = At(k)
      /\ Types
  BY WalkingFacts DEF SettingsIInv
<1>2. CASE ~ForProject("globals", At(k), k)
  <2>1. LeaveOrg(k, "failed", TRUE) /\ CountRow("globals", At(k), k)
    BY <1>2 DEF StartFanOut
  <2>2. /\ failures' \subseteq Tasks \X (Proj \cup Orgs) \X Key
        /\ failures \subseteq failures' /\ <<"globals", At(k), k>> \in failures'
    BY <1>1, <2>1, CountRowTyped DEF Tasks
  <2>3. Kept
    BY <2>2 DEF Kept
  <2>4. \A p \in FanTargets(k) : Served(p, k)'
    BY <1>1, <2>2 DEF Served
  <2> QED
    BY <2>1, <2>2, <2>3, <2>4, LeaveOrgFits DEF Outcome
<1>3. CASE ForProject("globals", At(k), k) /\ FanTargets(k) = {}
  <2>1. LeaveOrg(k, "failed", TRUE) /\ failures' = failures
    BY <1>3 DEF StartFanOut
  <2>2. Kept /\ failures' \subseteq Tasks \X (Proj \cup Orgs) \X Key
    BY <1>1, <2>1 DEF Kept, Types
  <2> QED
    BY <1>3, <2>1, <2>2, LeaveOrgFits DEF Outcome
<1>4. CASE ForProject("globals", At(k), k) /\ FanTargets(k) # {}
  <2> DEFINE w == [walk[k] EXCEPT !.fan = FanTargets(k), !.rejected = TRUE]
  <2>1. /\ walk' = [walk EXCEPT ![k] = w] /\ UNCHANGED <<outcome, failures>>
    BY <1>1, <1>4 DEF StartFanOut
  <2>2. /\ w \in WalkType /\ w.org = walk[k].org /\ w.fan = FanTargets(k) /\ w.rejected = TRUE
        /\ w.to = walk[k].to
    BY <1>1 DEF WalkType
  <2> HIDE DEF w
  <2>3. walk'[k] = w
    BY <1>1, <2>1
  <2>4. Kept /\ failures' \subseteq Tasks \X (Proj \cup Orgs) \X Key
        /\ outcome' \in [Key -> [Orgs -> Outcome]]
    BY <1>1, <2>1 DEF Kept, Types
  <2>5. /\ step'["globals"] = "walks" /\ FanTargets(k)' = FanTargets(k) /\ Walking(k)'
        /\ \A p, i : Unrecorded(p, k)' = Unrecorded(p, k)
                     /\ ForOrg("globals", OrgSeq[i], k)' = ForOrg("globals", OrgSeq[i], k)
    BY <2>2, <2>3 DEF Walking, FanTargets, ProjectsOf, At, Overridden, HasRecord, Unrecorded, ForOrg
  <2>6. \A p \in Proj : Unrecorded(p, k) /\ Served(p, k) => Served(p, k)'
    BY <2>4, ServedStays
  <2>7. WalkFits(k)'
    BY <1>1, <2>2, <2>3, <2>5, <2>6 DEF WalkFits
  <2> QED
    BY <2>1, <2>2, <2>3, <2>4, <2>7
<1> QED
  BY <1>2, <1>3, <1>4

LEMMA MissingOrgDefKeeps ==
  ASSUME SettingsIInv, NEW k \in Key, MissingOrgDef(k)
  PROVE SettingsIInv'
<1> DEFINE said == IF ForProject("globals", At(k), k) THEN "project only" ELSE "not on cloud"
<1>1. /\ Walking(k) /\ walk[k].fan = {} /\ ~ForOrg("globals", At(k), k)
      /\ LeaveOrg(k, said, walk[k].rejected)
      /\ UNCHANGED <<setup, orgValue, ownValue, known, step, defs, job, covered, rejected,
                     failures, outages, refusals>>
  BY DEF MissingOrgDef
<1>2. said \in Outcome
  BY DEF Outcome
<1> HIDE DEF said
<1>3. walk[k] \in WalkType /\ WalkFits(k)
  BY <1>1, WalkingFacts
<1>4. Kept /\ ValuesFit'
  BY <1>1, ValuesStay DEF SettingsIInv
<1>5. /\ walk[k].rejected \in BOOLEAN /\ refusals' = [refusals EXCEPT ![k] = refusals[k]]
      /\ refusals[k] \in Nat /\ refusals'[k] = IF walk[k].rejected THEN 1 ELSE 0
      /\ walk[k].rejected => k \notin setup.orgTakes
  BY <1>1, <1>3 DEF WalkType, WalkFits, SettingsIInv, Types
<1>6. /\ WalkFits(k)' /\ walk'[k] \in WalkType /\ walk' = [walk EXCEPT ![k] = walk'[k]]
      /\ outcome' \in [Key -> [Orgs -> Outcome]]
  BY <1>1, <1>2, <1>4, <1>5, LeaveOrgFits
<1>7. Types
  BY DEF SettingsIInv
<1> QED
  BY <1>1, <1>4, <1>5, <1>6, <1>7, WalkStepKeeps DEF Types

LEMMA CachedRejectionKeeps ==
  ASSUME SettingsIInv, NEW k \in Key, CachedRejection(k)
  PROVE SettingsIInv'
<1>1. /\ Walking(k) /\ walk[k].fan = {} /\ walk[k].rejected /\ StartFanOut(k)
      /\ UNCHANGED <<setup, orgValue, ownValue, known, step, defs, job, covered, rejected,
                     outages, refusals>>
  BY DEF CachedRejection, RefusedBefore, KeepsMemo
<1>2. Types /\ WalkFits(k) /\ refusals[k] = 1 /\ k \notin setup.orgTakes
      /\ refusals' = [refusals EXCEPT ![k] = 1] /\ refusals'[k] = 1
  BY <1>1 DEF SettingsIInv, Walks, WalkFits, Types
<1>3. /\ WalkFits(k)' /\ walk'[k] \in WalkType /\ walk' = [walk EXCEPT ![k] = walk'[k]]
      /\ outcome' \in [Key -> [Orgs -> Outcome]]
      /\ failures' \subseteq Tasks \X (Proj \cup Orgs) \X Key /\ Kept
  BY <1>1, <1>2, StartFanOutFits
<1>4. ValuesFit'
  BY <1>1, <1>3, ValuesStay DEF SettingsIInv, Kept
<1>5. 1 \in Nat
  OBVIOUS
<1> QED
  BY <1>1, <1>2, <1>3, <1>4, <1>5, WalkStepKeeps DEF Types

LEMMA FreshOrgApplyKeeps ==
  ASSUME SettingsIInv, NEW k \in Key, FreshOrgApply(k)
  PROVE SettingsIInv'
<1> DEFINE written == [orgValue EXCEPT ![At(k)][k] = "global"]
<1>1. /\ Walking(k) /\ walk[k].fan = {} /\ ForOrg("globals", At(k), k) /\ ~walk[k].rejected
      /\ UNCHANGED <<setup, ownValue, known, step, defs, job, covered, rejected>>
  BY DEF FreshOrgApply, RefusedBefore, KeepsMemo
<1>2. /\ Types /\ WalkFits(k) /\ walk[k] \in WalkType /\ At(k) \in Orgs
      /\ \A p \in FanTargets(k) : p \in Proj /\ HomeOf[p] = At(k)
  BY <1>1, WalkingFacts DEF SettingsIInv
<1>3. refusals \in [Key -> Nat] /\ refusals[k] = 0
  BY <1>1, <1>2 DEF WalkFits, Types
<1>4. CASE k \notin setup.orgTakes
  <2>1. /\ StartFanOut(k) /\ refusals' = [refusals EXCEPT ![k] = @ + 1]
        /\ UNCHANGED <<orgValue, outages>>
    BY <1>4 DEF FreshOrgApply
  <2>2. refusals' = [refusals EXCEPT ![k] = 1] /\ refusals'[k] = 1 /\ 1 \in Nat
    BY <1>3, <2>1
  <2>3. /\ WalkFits(k)' /\ walk'[k] \in WalkType /\ walk' = [walk EXCEPT ![k] = walk'[k]]
        /\ outcome' \in [Key -> [Orgs -> Outcome]]
        /\ failures' \subseteq Tasks \X (Proj \cup Orgs) \X Key /\ Kept
    BY <1>1, <1>4, <2>1, <2>2, StartFanOutFits
  <2>4. ValuesFit'
    BY <1>1, <2>1, <2>3, ValuesStay DEF SettingsIInv, Kept
  <2> QED
    BY <1>1, <1>2, <2>1, <2>2, <2>3, <2>4, WalkStepKeeps DEF Types
<1>5. CASE k \in setup.orgTakes
  <2>1. PICK said \in {"applied", "failed"} :
          /\ LeaveOrg(k, said, FALSE) /\ refusals' = refusals
          /\ orgValue' \in {orgValue, written}
          /\ said = "applied" => orgValue' = written /\ UNCHANGED <<outages, failures>>
          /\ said = "failed" => /\ outages < MaxOutages /\ outages' = outages + 1
                                /\ CountRow("globals", At(k), k)
    BY <1>5 DEF FreshOrgApply
  <2>2. /\ written \in [Orgs -> [Key -> {"default", "global"}]] /\ written[At(k)][k] = "global"
        /\ \A o \in Orgs, j \in Key : o # At(k) \/ j # k => written[o][j] = orgValue[o][j]
        /\ orgValue \in [Orgs -> [Key -> {"default", "global"}]]
    BY <1>2 DEF Types
  <2> HIDE DEF written
  <2>3. /\ failures' \subseteq Tasks \X (Proj \cup Orgs) \X Key /\ failures \subseteq failures'
        /\ said = "failed" => <<"globals", At(k), k>> \in failures'
    <3>1. CASE said = "applied"
      BY <1>2, <2>1, <3>1 DEF Types
    <3>2. CASE said = "failed"
      BY <1>2, <2>1, <3>2, CountRowTyped DEF Tasks
    <3> QED
      BY <3>1, <3>2
  <2>4. outages' \in 0..MaxOutages
    <3>1. outages \in 0..MaxOutages /\ MaxOutages \in Nat
      BY <1>2, SettingsAssumption DEF Types
    <3> QED
      BY <2>1, <3>1
  <2>5. Kept
    BY <1>1, <2>1, <2>2, <2>3 DEF Kept
  <2>6. ValuesFit'
    <3>1. ASSUME NEW o \in Orgs, NEW j \in Key, orgValue'[o][j] = "global"
          PROVE j \in setup.orgTakes \cap setup.atOrg
      <4>1. CASE orgValue[o][j] = "global"
        BY <4>1 DEF SettingsIInv, ValuesFit
      <4>2. CASE orgValue[o][j] # "global"
        <5>1. o = At(k) /\ j = k
          BY <2>1, <2>2, <3>1, <4>2
        <5> QED
          BY <1>1, <1>5, <5>1 DEF ForOrg
      <4> QED
        BY <4>1, <4>2
    <3> QED
      BY <1>1, <3>1 DEF SettingsIInv, ValuesFit, HasRecord, OwnSetting, ForOrg
  <2>7. \A p \in FanTargets(k) : Served(p, k)'
    BY <1>2, <2>1, <2>2, <2>3 DEF Served
  <2>8. said \in Outcome /\ FALSE \in BOOLEAN /\ refusals'[k] = 0
    BY <1>3, <2>1 DEF Outcome
  <2>9. /\ WalkFits(k)' /\ walk'[k] \in WalkType /\ walk' = [walk EXCEPT ![k] = walk'[k]]
        /\ outcome' \in [Key -> [Orgs -> Outcome]]
    BY <1>1, <2>1, <2>5, <2>7, <2>8, LeaveOrgFits
  <2>10. orgValue' \in [Orgs -> [Key -> {"default", "global"}]]
         /\ refusals' = [refusals EXCEPT ![k] = 0] /\ 0 \in Nat
    BY <1>3, <2>1, <2>2
  <2> QED
    BY <1>1, <1>2, <2>3, <2>4, <2>5, <2>6, <2>9, <2>10, WalkStepKeeps DEF Types
<1> QED
  BY <1>4, <1>5

LEMMA FanOutCallKeeps ==
  ASSUME SettingsIInv, NEW k \in Key, FanOutCall(k)
  PROVE SettingsIInv'
<1>1. Walking(k) /\ UNCHANGED <<setup, orgValue, known, step, defs, job, covered, rejected, refusals>>
  BY DEF FanOutCall
<1>2. PICK p \in walk[k].fan, answer \in CallAnswers :
        /\ Write(p, k, "global", answer)
        /\ IF Retries(walk[k].tries, answer)
           THEN /\ walk' = [walk EXCEPT ![k].tries = NextTry(@), ![k].to = p]
                /\ UNCHANGED <<outcome, failures>>
           ELSE /\ IF answer = "ok" THEN UNCHANGED failures ELSE CountRow("globals", p, k)
                /\ IF walk[k].fan = {p}
                   THEN LeaveOrg(k, "fanned out", walk[k].rejected)
                   ELSE /\ walk' = [walk EXCEPT ![k].fan = @ \ {p}, ![k].tries = 0, ![k].to = "none"]
                        /\ UNCHANGED outcome
  BY DEF FanOutCall
<1>3. /\ Types /\ walk \in [Key -> WalkType] /\ walk[k] \in WalkType /\ WalkFits(k)
      /\ 0 \in 0..MaxAttempts - 1 /\ FanTargets(k) \subseteq Proj
      /\ \A q \in FanTargets(k) : q \in Proj /\ HomeOf[q] = At(k) /\ ~OwnSetting(q, k)
                                  /\ Unrecorded(q, k)
  BY <1>1, WalkingFacts DEF SettingsIInv
<1>4. /\ walk[k].rejected /\ walk[k].fan \subseteq FanTargets(k) /\ p \in FanTargets(k) /\ p \in Proj
      /\ k \notin setup.orgTakes /\ refusals[k] = 1 /\ walk[k].fan \subseteq Proj
      /\ \A q \in FanTargets(k) \ walk[k].fan : Served(q, k)
  BY <1>2, <1>3 DEF WalkFits
<1>5. /\ ownValue' \in [Proj -> [Key -> {"unset", "global", "own"}]]
      /\ \A q \in Proj, j \in Key : q # p \/ j # k => ownValue'[q][j] = ownValue[q][j]
      /\ ownValue'[p][k] \in {ownValue[p][k], "global"}
      /\ answer = "ok" => ownValue'[p][k] = "global"
      /\ outages' \in 0..MaxOutages
  BY <1>2, <1>3, <1>4, WriteFacts
<1>6. /\ failures' \subseteq Tasks \X (Proj \cup Orgs) \X Key /\ failures \subseteq failures'
      /\ ~Retries(walk[k].tries, answer) /\ answer # "ok" => <<"globals", p, k>> \in failures'
  <2>1. CASE failures' = failures /\ (answer = "ok" \/ Retries(walk[k].tries, answer))
    BY <1>3, <2>1 DEF Types
  <2>2. CASE CountRow("globals", p, k)
    BY <1>3, <1>4, <2>2, CountRowTyped DEF Tasks
  <2> QED
    BY <1>2, <2>1, <2>2
<1>7. Kept
  BY <1>1, <1>3, <1>4, <1>5, <1>6 DEF Kept
<1>8. ValuesFit'
  <2>1. ASSUME NEW q \in Proj, NEW j \in Key
        PROVE /\ ownValue'[q][j] = "own" => HasRecord(q, j)
              /\ ownValue'[q][j] = "global" =>
                    /\ ~OwnSetting(q, j)
                    /\ \/ j \notin setup.orgTakes
                       \/ /\ step["projects"] \in {"propagation", "end"}
                          /\ ~ForOrg("projects", HomeOf[q], j)
    <3>1. CASE ownValue'[q][j] = ownValue[q][j]
      BY <3>1 DEF SettingsIInv, ValuesFit
    <3>2. CASE q = p /\ j = k /\ ownValue'[q][j] = "global"
      BY <1>3, <1>4, <3>2
    <3> QED
      BY <1>5, <3>1, <3>2
  <2> QED
    BY <1>1, <2>1 DEF SettingsIInv, ValuesFit, HasRecord, OwnSetting, ForOrg
<1>9. /\ refusals' = [refusals EXCEPT ![k] = 1] /\ 1 \in Nat /\ refusals'[k] = 1
      /\ outcome \in [Key -> [Orgs -> Outcome]] /\ setup' = setup
      /\ orgValue' \in [Orgs -> [Key -> {"default", "global"}]]
  BY <1>1, <1>3, <1>4 DEF Types
<1>10. \A q \in FanTargets(k) \ walk[k].fan : Served(q, k)'
  BY <1>3, <1>4, <1>7, ServedStays
<1>11. ~Retries(walk[k].tries, answer) => Served(p, k)'
  BY <1>5, <1>6 DEF Served
<1>12. SUFFICES /\ WalkFits(k)' /\ walk'[k] \in WalkType /\ walk' = [walk EXCEPT ![k] = walk'[k]]
                /\ outcome' \in [Key -> [Orgs -> Outcome]]
  BY <1>1, <1>5, <1>6, <1>7, <1>8, <1>9, WalkStepKeeps
<1>13. CASE ~Retries(walk[k].tries, answer) /\ walk[k].fan = {p}
  <2>1. LeaveOrg(k, "fanned out", walk[k].rejected) /\ walk[k].rejected = TRUE
    BY <1>2, <1>3, <1>4, <1>13 DEF WalkType
  <2>2. \A q \in FanTargets(k) : Served(q, k)'
    BY <1>10, <1>11, <1>13
  <2> QED
    BY <1>1, <1>4, <1>7, <1>9, <2>1, <2>2, LeaveOrgFits DEF Outcome
<1>14. ASSUME NEW w \in WalkType, walk' = [walk EXCEPT ![k] = w], w.org = walk[k].org,
              w.rejected = walk[k].rejected, w.fan \subseteq walk[k].fan, w.to \in w.fan \cup {"none"},
              \A q \in walk[k].fan \ w.fan : Served(q, k)', outcome' = outcome
       PROVE /\ WalkFits(k)' /\ walk'[k] \in WalkType /\ walk' = [walk EXCEPT ![k] = walk'[k]]
             /\ outcome' \in [Key -> [Orgs -> Outcome]]
  <2>1. walk'[k] = w
    BY <1>3, <1>14
  <2>2. /\ step'["globals"] = "walks" /\ FanTargets(k)' = FanTargets(k) /\ Walking(k)'
        /\ \A q, i : Unrecorded(q, k)' = Unrecorded(q, k)
                     /\ ForOrg("globals", OrgSeq[i], k)' = ForOrg("globals", OrgSeq[i], k)
    BY <1>1, <1>14, <2>1 DEF Walking, FanTargets, ProjectsOf, At, Overridden, HasRecord, Unrecorded, ForOrg
  <2>3. \A q \in Proj : Unrecorded(q, k) /\ Served(q, k) => Served(q, k)'
    BY <1>7, ServedStays
  <2>4. WalkFits(k)'
    BY <1>3, <1>4, <1>9, <1>10, <1>14, <2>1, <2>2, <2>3 DEF WalkFits
  <2> QED
    BY <1>9, <1>14, <2>1, <2>4
<1>15. CASE Retries(walk[k].tries, answer)
  <2> DEFINE w == [walk[k] EXCEPT !.tries = walk[k].tries + 1, !.to = p]
  <2>1. walk' = [walk EXCEPT ![k] = w] /\ outcome' = outcome
    BY <1>2, <1>3, <1>15 DEF NextTry
  <2>2. walk[k].tries + 1 \in 0..MaxAttempts - 1
    <3>1. walk[k].tries \in 0..MaxAttempts - 1 /\ walk[k].tries + 1 < MaxAttempts /\ MaxAttempts \in Nat
      BY <1>3, <1>15, SettingsAssumption DEF WalkType, Retries
    <3> QED
      BY <3>1
  <2>3. w \in WalkType /\ w.org = walk[k].org /\ w.rejected = walk[k].rejected
        /\ w.fan = walk[k].fan /\ w.to = p
    BY <1>3, <1>4, <2>2 DEF WalkType
  <2> HIDE DEF w
  <2> QED
    BY <1>2, <1>14, <2>1, <2>3
<1>16. CASE ~Retries(walk[k].tries, answer) /\ walk[k].fan # {p}
  <2> DEFINE w == [walk[k] EXCEPT !.fan = walk[k].fan \ {p}, !.tries = 0, !.to = "none"]
  <2>1. walk' = [walk EXCEPT ![k] = w] /\ outcome' = outcome
    BY <1>2, <1>3, <1>16
  <2>2. w \in WalkType /\ w.org = walk[k].org /\ w.rejected = walk[k].rejected
        /\ w.fan = walk[k].fan \ {p} /\ w.to = "none"
    BY <1>3, <1>4 DEF WalkType
  <2> HIDE DEF w
  <2> QED
    BY <1>2, <1>11, <1>14, <1>16, <2>1, <2>2
<1> QED
  BY <1>13, <1>15, <1>16

LEMMA GlobalsEndKeeps ==
  ASSUME SettingsIInv, GlobalsEnd
  PROVE SettingsIInv'
<1>1. /\ step["globals"] = "walks" /\ step' = [step EXCEPT !["globals"] = "end"]
      /\ \A k \in Key : ~Walking(k)
      /\ UNCHANGED <<setup, orgValue, ownValue, known, defs, walk, outcome, job, covered,
                     rejected, failures, outages, refusals>>
  BY DEF GlobalsEnd
<1>2. step \in [Tasks -> Steps] /\ "globals" \in Tasks /\ "projects" \in Tasks
  BY DEF SettingsIInv, Types, Tasks
<1>3. step' \in [Tasks -> Steps] /\ step'["globals"] = "end" /\ step'["projects"] = step["projects"]
  BY <1>1, <1>2 DEF Steps
<1>4. Types'
  BY <1>1, <1>3 DEF SettingsIInv, Types
<1>5. Kept
  BY <1>1 DEF Kept
<1>6. ValuesFit'
  BY <1>1, <1>3 DEF SettingsIInv, ValuesFit, HasRecord, OwnSetting, ForOrg
<1>7. ASSUME NEW k \in Key PROVE WalkFits(k)'
  <2>1. WalkFits(k) /\ walk[k].org > Len(OrgSeq) /\ walk[k].fan = {}
    <3>1. WalkFits(k) /\ ~Walking(k) /\ walk[k] \in WalkType
      BY <1>1 DEF SettingsIInv, Walks, Types
    <3>2. walk[k].org \in 1..Len(OrgSeq) + 1 /\ ~(walk[k].org <= Len(OrgSeq))
      BY <1>1, <3>1 DEF Walking, WalkType
    <3>3. Len(OrgSeq) \in Nat
      BY SettingsAssumption
    <3>4. walk[k].org > Len(OrgSeq)
      BY <3>2, <3>3
    <3> QED
      BY <3>1, <3>4 DEF WalkFits
  <2>2. \A p, i :         /\ Unrecorded(p, k)' = Unrecorded(p, k)
                           /\ ForOrg("globals", OrgSeq[i], k)' = ForOrg("globals", OrgSeq[i], k)
                           /\ Served(p, k)' = Served(p, k)
    BY <1>1 DEF Unrecorded, ForOrg, Served
  <2> QED
    BY <1>1, <1>3, <2>1, <2>2 DEF WalkFits
<1>8. Jobs'
  BY <1>1, <1>3, <1>5, JobsStay DEF SettingsIInv
<1> QED
  BY <1>4, <1>6, <1>7, <1>8 DEF SettingsIInv, Walks

-----------------------------------------------------------------------------
\* A step of the write of one key for one project.
LEMMA JobStepKeeps ==
  ASSUME SettingsIInv, NEW p \in Proj, NEW k \in Key, Kept, ValuesFit', JobFits(p, k)',
         UNCHANGED <<setup, orgValue, known, step, defs, walk, outcome, refusals>>,
         NEW x \in JobType, job' = [job EXCEPT ![p][k] = x],
         ownValue' \in [Proj -> [Key -> {"unset", "global", "own"}]],
         covered \subseteq covered', covered' \subseteq covered \cup {<<p, k>>},
         rejected \subseteq rejected', rejected' \subseteq rejected \cup {k},
         failures' \subseteq Tasks \X (Proj \cup Orgs) \X Key, outages' \in 0..MaxOutages
  PROVE SettingsIInv'
<1>1. job \in [Proj -> [Key -> JobType]]
  BY DEF SettingsIInv, Types
<1>2. /\ job' \in [Proj -> [Key -> JobType]]
      /\ \A q \in Proj, j \in Key : q # p \/ j # k => job'[q][j] = job[q][j]
  BY <1>1
<1>3. covered' \subseteq Proj \X Key /\ rejected' \subseteq Key
  <2>1. covered \subseteq Proj \X Key /\ rejected \subseteq Key
    BY DEF SettingsIInv, Types
  <2>2. <<p, k>> \in Proj \X Key
    OBVIOUS
  <2> QED
    BY <2>1, <2>2
<1>4. Types'
  BY <1>2, <1>3 DEF SettingsIInv, Types
<1>5. ASSUME NEW q \in Proj, NEW j \in Key, q # p \/ j # k PROVE JobFits(q, j)'
  <2>1. job'[q][j] = job[q][j] /\ JobFits(q, j)
    BY <1>2, <1>5 DEF SettingsIInv, Jobs
  <2>2. <<q, j>> \in covered' <=> <<q, j>> \in covered
    BY <1>5
  <2> QED
    BY <2>1, <2>2, JobStays
<1>6. Walks'
  BY WalksStay DEF SettingsIInv
<1> QED
  BY <1>4, <1>5, <1>6 DEF SettingsIInv, Jobs

\* Setting a job.
LEMMA JobFacts ==
  ASSUME SettingsIInv, NEW p \in Proj, NEW k \in Key,
         NEW at \in {"waiting", "calling", "done"}, NEW n \in 0..MaxAttempts - 1,
         SetJob(p, k, at, n)
  PROVE /\ [at |-> at, tries |-> n] \in JobType
        /\ job' = [job EXCEPT ![p][k] = [at |-> at, tries |-> n]]
        /\ job'[p][k].at = at
<1>1. job \in [Proj -> [Key -> JobType]]
  BY DEF SettingsIInv, Types
<1>2. [at |-> at, tries |-> n] \in JobType
  BY DEF JobType
<1> QED
  BY <1>1, <1>2 DEF SetJob

LEMMA JobTypes ==
  ASSUME SettingsIInv, NEW p \in Proj, NEW k \in Key
  PROVE /\ Types /\ JobFits(p, k) /\ 0 \in 0..MaxAttempts - 1
        /\ job[p][k] \in JobType /\ "projects" \in Tasks /\ p \in Proj \cup Orgs
        /\ covered \subseteq Proj \X Key /\ rejected \subseteq Key
        /\ failures \subseteq Tasks \X (Proj \cup Orgs) \X Key
        /\ outages \in 0..MaxOutages
        /\ ownValue \in [Proj -> [Key -> {"unset", "global", "own"}]]
<1>1. 0 \in 0..MaxAttempts - 1
  BY SettingsAssumption
<1>2. Types /\ JobFits(p, k)
  BY DEF SettingsIInv, Jobs
<1>3. /\ job[p][k] \in JobType /\ covered \subseteq Proj \X Key /\ rejected \subseteq Key
      /\ failures \subseteq Tasks \X (Proj \cup Orgs) \X Key /\ outages \in 0..MaxOutages
      /\ ownValue \in [Proj -> [Key -> {"unset", "global", "own"}]]
  BY <1>2 DEF Types
<1> QED
  BY <1>1, <1>2, <1>3 DEF Tasks

\* What the counter says after a call or an abandoned key.
LEMMA TallyFacts ==
  ASSUME SettingsIInv, NEW p \in Proj, NEW k \in Key,
         failures' = failures \/ Fail(p, k)
  PROVE /\ failures' \subseteq Tasks \X (Proj \cup Orgs) \X Key /\ failures \subseteq failures'
        /\ Fail(p, k) => <<"projects", p, k>> \in failures'
<1>1. CASE failures' = failures
  BY <1>1, JobTypes DEF Fail, CountRow
<1>2. CASE Fail(p, k)
  BY <1>2, JobTypes, CountRowTyped DEF Fail
<1> QED
  BY <1>1, <1>2

LEMMA BeginRecordKeeps ==
  ASSUME SettingsIInv, NEW p \in Proj, NEW k \in Key, BeginRecord(p, k)
  PROVE SettingsIInv'
<1>1. /\ step["projects"] = "records" /\ job[p][k].at = "waiting"
      /\ UNCHANGED <<setup, orgValue, ownValue, known, step, defs, walk, outcome, rejected,
                     outages, refusals>>
  BY DEF BeginRecord
<1>2. PICK at \in {"calling", "done"} :
        /\ SetJob(p, k, at, 0)
        /\ \/ at = "done" /\ LeftAtDefault(p, k) /\ UNCHANGED <<covered, failures>>
           \/ at = "done" /\ k \in rejected /\ Fail(p, k) /\ UNCHANGED covered
           \/ at = "calling" /\ covered' = covered \cup {<<p, k>>} /\ UNCHANGED failures
  BY DEF BeginRecord, Covers
<1>3. Types /\ JobFits(p, k) /\ HasRecord(p, k)
  BY <1>1, JobTypes DEF JobFits
<1>4. /\ [at |-> at, tries |-> 0] \in JobType
      /\ job' = [job EXCEPT ![p][k] = [at |-> at, tries |-> 0]] /\ job'[p][k].at = at
  BY <1>2, JobTypes, JobFacts
<1>5. /\ failures' \subseteq Tasks \X (Proj \cup Orgs) \X Key /\ failures \subseteq failures'
      /\ Fail(p, k) => <<"projects", p, k>> \in failures'
  BY <1>2, TallyFacts
<1>6. Kept /\ ValuesFit'
  BY <1>1, <1>3, <1>5, ValuesStay DEF SettingsIInv
<1>7. JobFits(p, k)'
  <2>1. HasRecord(p, k)' /\ OwnSetting(p, k)' = OwnSetting(p, k)
    BY <1>1, <1>3 DEF HasRecord, OwnSetting
  <2>2. at = "calling" => <<p, k>> \in covered'
    BY <1>2
  <2>3. OwnSetting(p, k) /\ at = "done" => Settled(p, k)'
    BY <1>1, <1>2, <1>5 DEF OwnSetting, LeftAtDefault, Settled
  <2> QED
    BY <1>1, <1>4, <2>1, <2>2, <2>3 DEF JobFits
<1>8. covered \subseteq covered' /\ covered' \subseteq covered \cup {<<p, k>>}
  BY <1>2
<1>9. ownValue' \in [Proj -> [Key -> {"unset", "global", "own"}]] /\ outages' \in 0..MaxOutages
  BY <1>1, JobTypes
<1>10. rejected \subseteq rejected' /\ rejected' \subseteq rejected \cup {k}
  BY <1>1
<1> QED
  BY <1>1, <1>4, <1>5, <1>6, <1>7, <1>8, <1>9, <1>10, JobStepKeeps

LEMMA EndRecordKeeps ==
  ASSUME SettingsIInv, NEW p \in Proj, NEW k \in Key, EndRecord(p, k)
  PROVE SettingsIInv'
<1>1. /\ step["projects"] = "records" /\ job[p][k].at = "calling" /\ SetJob(p, k, "done", 0)
      /\ UNCHANGED <<setup, orgValue, known, step, defs, walk, outcome, covered, refusals>>
  BY DEF EndRecord
<1>2. PICK answer \in CallAnswers : /\ Write(p, k, "own", answer)
                                    /\ rejected' = Learned(k, answer) /\ Tally(p, k, answer)
  BY DEF EndRecord
<1>3. /\ Types /\ JobFits(p, k) /\ HasRecord(p, k) /\ ~Unrecorded(p, k) /\ <<p, k>> \in covered
  BY <1>1, JobTypes DEF JobFits, HasRecord, Unrecorded
<1>4. /\ [at |-> "done", tries |-> 0] \in JobType
      /\ job' = [job EXCEPT ![p][k] = [at |-> "done", tries |-> 0]] /\ job'[p][k].at = "done"
  BY <1>1, JobTypes, JobFacts
<1>5. /\ failures' \subseteq Tasks \X (Proj \cup Orgs) \X Key /\ failures \subseteq failures'
      /\ answer # "ok" => <<"projects", p, k>> \in failures'
  BY <1>2, TallyFacts DEF Tally
<1>6. /\ ownValue' \in [Proj -> [Key -> {"unset", "global", "own"}]]
      /\ \A q \in Proj, j \in Key : q # p \/ j # k => ownValue'[q][j] = ownValue[q][j]
      /\ ownValue'[p][k] \in {ownValue[p][k], "own"}
      /\ answer = "ok" => ownValue'[p][k] = "own"
      /\ outages' \in 0..MaxOutages
  BY <1>2, <1>3, WriteFacts
<1>7. Kept
  BY <1>1, <1>3, <1>5, <1>6 DEF Kept
<1>8. ValuesFit'
  <2>1. ASSUME NEW q \in Proj, NEW j \in Key
        PROVE /\ ownValue'[q][j] = "own" => HasRecord(q, j)
              /\ ownValue'[q][j] = "global" => ownValue[q][j] = "global"
    BY <1>3, <1>6 DEF SettingsIInv, ValuesFit
  <2> QED
    BY <1>1, <2>1 DEF SettingsIInv, ValuesFit, HasRecord, OwnSetting, ForOrg
<1>9. JobFits(p, k)'
  <2>1. HasRecord(p, k)'
    BY <1>1, <1>3 DEF HasRecord
  <2>2. Settled(p, k)'
    BY <1>1, <1>3, <1>5, <1>6 DEF Settled
  <2> QED
    BY <1>1, <1>4, <2>1, <2>2 DEF JobFits
<1>10. rejected \subseteq rejected' /\ rejected' \subseteq rejected \cup {k}
  BY <1>2 DEF Learned
<1> QED
  BY <1>1, <1>4, <1>5, <1>6, <1>7, <1>8, <1>9, <1>10, JobStepKeeps

\* The task goes on to its next step: all its jobs are done.
LEMMA NextPassKeeps ==
  ASSUME SettingsIInv, StartPropagation \/ ProjectsEnd
  PROVE SettingsIInv'
<1>1. /\ UNCHANGED <<setup, orgValue, ownValue, known, defs, walk, outcome, covered, rejected,
                     failures, outages, refusals>>
      /\ \A p \in Proj, k \in Key : job[p][k].at = "done"
  BY DEF StartPropagation, ProjectsEnd, PassOver
<1>2. /\ step["projects"] \in {"records", "propagation"}
      /\ step["projects"] = "records" =>
            /\ step' = [step EXCEPT !["projects"] = "propagation"]
            /\ job' = [p \in Proj |-> [k \in Key |->
                          IF Propagates(HomeOf[p], k) THEN Waiting ELSE NoJob]]
      /\ step["projects"] = "propagation" => step' = [step EXCEPT !["projects"] = "end"] /\ job' = job
  BY DEF StartPropagation, ProjectsEnd
<1>3. Types /\ step \in [Tasks -> Steps] /\ {"projects", "globals"} \subseteq Tasks
  BY DEF SettingsIInv, Types, Tasks
<1>4. /\ step' \in [Tasks -> Steps] /\ step'["globals"] = step["globals"]
      /\ step'["projects"] = IF step["projects"] = "records" THEN "propagation" ELSE "end"
  BY <1>2, <1>3 DEF Steps
<1>5. job' \in [Proj -> [Key -> JobType]]
  <2>1. Waiting \in JobType /\ NoJob \in JobType
    BY SettingsAssumption DEF JobType, Waiting, NoJob
  <2>2. job \in [Proj -> [Key -> JobType]]
    BY <1>3 DEF Types
  <2> QED
    BY <1>2, <2>1, <2>2
<1>6. Types'
  BY <1>1, <1>3, <1>4, <1>5 DEF Types
<1>7. Kept /\ ValuesFit'
  BY <1>1, <1>2, <1>3, <1>4, ValuesStay DEF SettingsIInv
<1>8. Walks'
  BY <1>1, <1>4, <1>7, WalksStay DEF SettingsIInv
<1>9. ASSUME NEW p \in Proj, NEW k \in Key PROVE JobFits(p, k)'
  <2>1. JobFits(p, k) /\ job[p][k].at = "done"
    BY <1>1 DEF SettingsIInv, Jobs
  <2>2. /\ HasRecord(p, k)' = HasRecord(p, k) /\ OwnSetting(p, k)' = OwnSetting(p, k)
        /\ Unrecorded(p, k)' = Unrecorded(p, k) /\ Settled(p, k)' = Settled(p, k)
        /\ Propagates(HomeOf[p], k)' = Propagates(HomeOf[p], k)
    BY <1>1 DEF HasRecord, OwnSetting, Unrecorded, Settled, Propagates, ForProject, ForOrg
  <2>3. CASE step["projects"] = "records"
    <3>1. job'[p][k].at = IF Propagates(HomeOf[p], k) THEN "waiting" ELSE "done"
      BY <1>2, <2>3 DEF Waiting, NoJob
    <3>2. OwnSetting(p, k) => Settled(p, k)
      BY <2>1, <2>3 DEF JobFits
    <3> QED
      BY <1>1, <1>4, <2>1, <2>2, <2>3, <3>1, <3>2 DEF JobFits
  <2>4. CASE step["projects"] = "propagation"
    BY <1>1, <1>2, <1>4, <2>1, <2>2, <2>4 DEF JobFits
  <2> QED
    BY <1>2, <2>3, <2>4
<1> QED
  BY <1>6, <1>7, <1>8, <1>9 DEF SettingsIInv, Jobs

LEMMA BeginPropagationKeeps ==
  ASSUME SettingsIInv, NEW p \in Proj, NEW k \in Key, BeginPropagation(p, k)
  PROVE SettingsIInv'
<1>1. /\ step["projects"] = "propagation" /\ job[p][k].at = "waiting"
      /\ UNCHANGED <<setup, orgValue, ownValue, known, step, defs, walk, outcome, covered,
                     rejected, outages, refusals>>
  BY DEF BeginPropagation
<1>2. PICK at \in {"calling", "done"} :
        /\ SetJob(p, k, at, 0)
        /\ \/ at = "done" /\ <<p, k>> \in covered /\ UNCHANGED failures
           \/ at = "done" /\ Fail(p, k)
           \/ at = "calling" /\ <<p, k>> \notin covered /\ k \notin rejected /\ UNCHANGED failures
  BY DEF BeginPropagation
<1>3. Types /\ JobFits(p, k) /\ Propagates(HomeOf[p], k)
  BY <1>1, JobTypes DEF JobFits
<1>4. /\ [at |-> at, tries |-> 0] \in JobType
      /\ job' = [job EXCEPT ![p][k] = [at |-> at, tries |-> 0]] /\ job'[p][k].at = at
  BY <1>2, JobTypes, JobFacts
<1>5. /\ failures' \subseteq Tasks \X (Proj \cup Orgs) \X Key /\ failures \subseteq failures'
      /\ Fail(p, k) => <<"projects", p, k>> \in failures'
  BY <1>2, TallyFacts
<1>6. Kept /\ ValuesFit'
  BY <1>1, <1>3, <1>5, ValuesStay DEF SettingsIInv
<1>7. JobFits(p, k)'
  <2>1. /\ HasRecord(p, k)' = HasRecord(p, k) /\ OwnSetting(p, k)' = OwnSetting(p, k)
        /\ Unrecorded(p, k)' = Unrecorded(p, k) /\ (Unrecorded(p, k) => ~HasRecord(p, k))
        /\ Propagates(HomeOf[p], k)' = Propagates(HomeOf[p], k)
    BY <1>1 DEF HasRecord, OwnSetting, Unrecorded, Propagates, ForProject, ForOrg
  <2>2. OwnSetting(p, k) => Settled(p, k)'
    BY <1>1, <1>3, <1>5 DEF JobFits, Settled
  <2>3. at = "calling" => ~OwnSetting(p, k)
    BY <1>1, <1>2, <1>3 DEF JobFits, Settled
  <2>4. at = "done" /\ Unrecorded(p, k) => <<"projects", p, k>> \in failures'
    BY <1>2, <1>3, <1>5, <2>1 DEF JobFits
  <2> QED
    BY <1>1, <1>3, <1>4, <2>1, <2>2, <2>3, <2>4 DEF JobFits
<1>8. /\ covered \subseteq covered' /\ covered' \subseteq covered \cup {<<p, k>>}
      /\ rejected \subseteq rejected' /\ rejected' \subseteq rejected \cup {k}
  BY <1>1
<1>9. ownValue' \in [Proj -> [Key -> {"unset", "global", "own"}]] /\ outages' \in 0..MaxOutages
  BY <1>1, JobTypes
<1> QED
  BY <1>1, <1>4, <1>5, <1>6, <1>7, <1>8, <1>9, JobStepKeeps

LEMMA PropagationCallKeeps ==
  ASSUME SettingsIInv, NEW p \in Proj, NEW k \in Key, PropagationCall(p, k)
  PROVE SettingsIInv'
<1>1. /\ step["projects"] = "propagation" /\ job[p][k].at = "calling"
      /\ UNCHANGED <<setup, orgValue, known, step, defs, walk, outcome, covered, refusals>>
  BY DEF PropagationCall
<1>2. PICK answer \in CallAnswers :
        /\ Write(p, k, "global", answer) /\ rejected' = Learned(k, answer)
        /\ IF Retries(job[p][k].tries, answer)
           THEN SetJob(p, k, "calling", NextTry(job[p][k].tries)) /\ UNCHANGED failures
           ELSE SetJob(p, k, "done", 0) /\ Tally(p, k, answer)
  BY DEF PropagationCall
<1>3. /\ Types /\ JobFits(p, k) /\ Propagates(HomeOf[p], k) /\ ~OwnSetting(p, k)
      /\ ~ForOrg("projects", HomeOf[p], k) /\ job[p][k] \in JobType /\ 0 \in 0..MaxAttempts - 1
  BY <1>1, JobTypes DEF JobFits, Propagates
<1>4. /\ failures' \subseteq Tasks \X (Proj \cup Orgs) \X Key /\ failures \subseteq failures'
      /\ ~Retries(job[p][k].tries, answer) /\ answer # "ok" => <<"projects", p, k>> \in failures'
  BY <1>2, TallyFacts DEF Tally
<1>5. PICK at \in {"calling", "done"}, n \in 0..MaxAttempts - 1 :
        /\ SetJob(p, k, at, n) /\ (at = "done" => ~Retries(job[p][k].tries, answer))
  <2>1. CASE Retries(job[p][k].tries, answer)
    <3>1. /\ job[p][k].tries \in 0..MaxAttempts - 1 /\ job[p][k].tries + 1 < MaxAttempts
          /\ MaxAttempts \in Nat
      BY <1>3, <2>1, SettingsAssumption DEF JobType, Retries
    <3>2. job[p][k].tries + 1 \in 0..MaxAttempts - 1
      BY <3>1
    <3> QED
      BY <1>2, <2>1, <3>2 DEF NextTry
  <2>2. CASE ~Retries(job[p][k].tries, answer)
    BY <1>2, <1>3, <2>2
  <2> QED
    BY <2>1, <2>2
<1>6. /\ [at |-> at, tries |-> n] \in JobType
      /\ job' = [job EXCEPT ![p][k] = [at |-> at, tries |-> n]] /\ job'[p][k].at = at
  BY <1>5, JobFacts
<1>7. /\ ownValue' \in [Proj -> [Key -> {"unset", "global", "own"}]]
      /\ \A q \in Proj, j \in Key : q # p \/ j # k => ownValue'[q][j] = ownValue[q][j]
      /\ ownValue'[p][k] \in {ownValue[p][k], "global"}
      /\ answer = "ok" => ownValue'[p][k] = "global"
      /\ outages' \in 0..MaxOutages
  BY <1>2, <1>3, WriteFacts
<1>8. Kept
  BY <1>1, <1>3, <1>4, <1>7 DEF Kept
<1>9. ValuesFit'
  <2>1. ASSUME NEW q \in Proj, NEW j \in Key
        PROVE /\ ownValue'[q][j] = "own" => HasRecord(q, j)
              /\ ownValue'[q][j] = "global" =>
                    /\ ~OwnSetting(q, j)
                    /\ \/ j \notin setup.orgTakes
                       \/ /\ step["projects"] \in {"propagation", "end"}
                          /\ ~ForOrg("projects", HomeOf[q], j)
    <3>1. CASE ownValue'[q][j] = ownValue[q][j]
      BY <3>1 DEF SettingsIInv, ValuesFit
    <3>2. CASE q = p /\ j = k /\ ownValue'[q][j] = "global"
      BY <1>1, <1>3, <3>2
    <3> QED
      BY <1>7, <3>1, <3>2
  <2> QED
    BY <1>1, <2>1 DEF SettingsIInv, ValuesFit, HasRecord, OwnSetting, ForOrg
<1>10. JobFits(p, k)'
  <2>1. /\ HasRecord(p, k)' = HasRecord(p, k) /\ OwnSetting(p, k)' = OwnSetting(p, k)
        /\ Propagates(HomeOf[p], k)' = Propagates(HomeOf[p], k)
    BY <1>1 DEF HasRecord, OwnSetting, Propagates, ForProject, ForOrg
  <2>2. at = "done" => ownValue'[p][k] = "global" \/ <<"projects", p, k>> \in failures'
    BY <1>4, <1>5, <1>7
  <2> QED
    BY <1>1, <1>3, <1>6, <2>1, <2>2 DEF JobFits
<1>11. rejected \subseteq rejected' /\ rejected' \subseteq rejected \cup {k}
  BY <1>2 DEF Learned
<1> QED
  BY <1>1, <1>4, <1>6, <1>7, <1>8, <1>9, <1>10, <1>11, JobStepKeeps

LEMMA SettingsNextKeeps ==
  ASSUME SettingsIInv, [SettingsNext]_svars
  PROVE SettingsIInv'
<1>1. ASSUME GlobalsStep PROVE SettingsIInv'
  BY <1>1, FetchKeeps, MissingOrgDefKeeps, CachedRejectionKeeps, FreshOrgApplyKeeps,
     FanOutCallKeeps, GlobalsEndKeeps DEF GlobalsStep, Tasks
<1>2. ASSUME ProjectsStep PROVE SettingsIInv'
  BY <1>2, FetchKeeps, BeginRecordKeeps, EndRecordKeeps, NextPassKeeps,
     BeginPropagationKeeps, PropagationCallKeeps DEF ProjectsStep, Tasks
<1>3. ASSUME NEW p \in Proj, Learn(p) PROVE SettingsIInv'
  BY <1>3, LearnKeeps
<1>4. CASE UNCHANGED svars
  <2>1. UNCHANGED <<setup, orgValue, ownValue, known, step, defs, walk, outcome, job, covered,
                    rejected, failures, outages, refusals>>
    BY <1>4 DEF svars
  <2>2. Types'
    BY <2>1 DEF SettingsIInv, Types
  <2> QED
    BY <2>1, <2>2, ValuesStay, WalksStay, JobsStay DEF SettingsIInv
<1> QED
  BY <1>1, <1>2, <1>3, <1>4 DEF SettingsNext

-----------------------------------------------------------------------------
\* The types of the runs, in which steps are fields of a record.
LEMMA SettingsTyped ==
  ASSUME SettingsIInv
  PROVE SettingsTypeOK
<1>1. Types
  BY DEF SettingsIInv
<1>2. step \in [globals : {"org defs", "project defs", "walks", "end"},
                projects : {"org defs", "project defs", "records", "propagation", "end"}]
  <2>1. /\ step["globals"] \in {"org defs", "project defs", "walks", "end"}
        /\ step["projects"] \in {"org defs", "project defs", "records", "propagation", "end"}
        /\ step = [t \in Tasks |-> step[t]]
    BY <1>1 DEF Types
  <2>2. step = [globals |-> step["globals"], projects |-> step["projects"]]
    BY <2>1 DEF Tasks
  <2> QED
    BY <2>1, <2>2
<1>3. ASSUME NEW k \in Key
      PROVE /\ walk[k].org \in 1..Len(OrgSeq) + 1
            /\ walk[k].rejected \in BOOLEAN
            /\ walk[k].fan \subseteq Proj /\ walk[k].to \in walk[k].fan \cup {"none"}
            /\ walk[k].tries \in 0..MaxAttempts - 1
  <2>1. walk[k] \in WalkType /\ WalkFits(k)
    BY <1>1 DEF Types, SettingsIInv, Walks
  <2> QED
    BY <2>1 DEF WalkType, WalkFits
<1>4. job \in [Proj -> [Key -> [at : {"waiting", "calling", "done"}, tries : 0..MaxAttempts - 1]]]
  BY <1>1 DEF Types, JobType
<1> QED
  BY <1>1, <1>2, <1>3, <1>4 DEF SettingsTypeOK, Types

\* Two tasks that fetched all definitions divide the keys between them.
LEMMA NothingIsLost ==
  ASSUME SettingsIInv
  PROVE NothingLostSilently
<1> SUFFICES ASSUME Ended, NEW p \in Proj, NEW k \in Key, ~Reported(p, k)
             PROVE /\ OwnSetting(p, k) => Effective(p, k) = "own"
                   /\ /\ setup.record[p][k] = "none" /\ AllDefined(HomeOf[p])
                      /\ k \in setup.custom \cap setup.declared
                      /\ k \in setup.atOrg \cup setup.atProject
                      => Effective(p, k) = "global"
  BY DEF NothingLostSilently
<1>1. /\ Types /\ ValuesFit /\ WalkFits(k) /\ JobFits(p, k)
      /\ step["globals"] = "end" /\ step["projects"] = "end"
  BY DEF SettingsIInv, Walks, Jobs, Ended, Tasks
<1>2. /\ <<"globals", p, k>> \notin failures /\ <<"projects", p, k>> \notin failures
      /\ <<"globals", HomeOf[p], k>> \notin failures
  BY DEF Reported
<1>3. OwnSetting(p, k) => Effective(p, k) = "own"
  BY <1>1, <1>2 DEF JobFits, Settled, Effective
<1>4. ASSUME Unrecorded(p, k), AllDefined(HomeOf[p]), k \in setup.custom \cap setup.declared,
             k \in setup.atOrg \cup setup.atProject
      PROVE Effective(p, k) = "global"
  <2>1. ownValue[p][k] \in {"unset", "global"}
    BY <1>1, <1>4 DEF ValuesFit, Types, HasRecord, Unrecorded
  <2>2. CASE k \in setup.atOrg
    <3>1. PICK i \in 1..Len(OrgSeq) : HomeOf[p] = OrgSeq[i]
      BY SettingsAssumption DEF Orgs
    <3>2. walk[k].org \in Int /\ walk[k].org > Len(OrgSeq) /\ Len(OrgSeq) \in Nat
      BY <1>1, SettingsAssumption DEF WalkFits, Types, WalkType
    <3>3. i < walk[k].org
      BY <3>1, <3>2
    <3>4. ForOrg("globals", OrgSeq[i], k)
      BY <1>4, <2>2, <3>1 DEF ForOrg, AllDefined, Tasks
    <3>5. Served(p, k)
      BY <1>1, <1>4, <3>1, <3>3, <3>4 DEF WalkFits
    <3> QED
      BY <1>2, <2>1, <3>5 DEF Served, Effective
  <2>3. CASE k \notin setup.atOrg
    <3>1. Propagates(HomeOf[p], k)
      BY <1>4, <2>3 DEF Propagates, ForProject, ForOrg, AllDefined, Tasks
    <3> QED
      BY <1>1, <1>2, <1>4, <3>1 DEF JobFits, Effective
  <2> QED
    BY <2>2, <2>3
<1> QED
  BY <1>3, <1>4 DEF Unrecorded

(***************************************************************************)
(* Each value lands at its level: a project's own setting never gives way  *)
(* to a global one, a global one is pinned to a project only where its     *)
(* organization could not hold it, what one organization refused is not    *)
(* asked of another, and no setting falls through between the two tasks    *)
(* without a failure counted.                                              *)
(***************************************************************************)
THEOREM SettingsLandAtTheirLevel == SettingsSpec => []SettingsInv
<1>1. ASSUME SettingsIInv PROVE SettingsInv
  <2>1. OverrideWins
    BY <1>1 DEF SettingsIInv, ValuesFit, OverrideWins
  <2>2. PinnedOnlyWithoutOrg
    <3> SUFFICES ASSUME NEW p \in Proj, NEW k \in Key, ownValue[p][k] = "global",
                        HomeOf[p] \in defs["projects"].org
                 PROVE orgValue[HomeOf[p]][k] = "default"
      BY DEF PinnedOnlyWithoutOrg
    <3>1. HomeOf[p] \in Orgs
      BY SettingsAssumption
    <3>2. orgValue[HomeOf[p]][k] \in {"default", "global"}
      <4>1. orgValue \in [Orgs -> [Key -> {"default", "global"}]]
        BY <1>1 DEF SettingsIInv, Types
      <4> QED
        BY <3>1, <4>1
    <3>3. ~(k \in setup.orgTakes \cap setup.atOrg)
      BY <1>1 DEF SettingsIInv, ValuesFit, ForOrg
    <3> QED
      BY <1>1, <3>1, <3>2, <3>3 DEF SettingsIInv, ValuesFit
  <2>3. RefusedOnce
    <3> SUFFICES ASSUME NEW k \in Key PROVE refusals[k] <= 1
      BY DEF RefusedOnce
    <3>1. refusals[k] = IF walk[k].rejected THEN 1 ELSE 0
      BY <1>1 DEF SettingsIInv, Walks, WalkFits
    <3> QED
      BY <3>1
  <2> QED
    BY <1>1, <2>1, <2>2, <2>3, SettingsTyped, NothingIsLost DEF SettingsInv
<1> QED
  BY <1>1, SettingsInitFits, SettingsNextKeeps, PTL DEF SettingsSpec

\* When both tasks are over, no setting fell through between them.
THEOREM NoSettingFallsThrough == SettingsSpec => []NothingLostSilently
<1>1. SettingsInv => NothingLostSilently
  BY DEF SettingsInv
<1> QED
  BY <1>1, SettingsLandAtTheirLevel, PTL

-----------------------------------------------------------------------------
(***************************************************************************)
(* Quality gates.  For any gates, conditions, runs, faults and edits: a    *)
(* gate of the target ends with the conditions that the gates mapped to it *)
(* ask for, or the run has a failure to show for it.  What a run has still *)
(* to do is told from what it holds of the target's gate (GateInv).        *)
(***************************************************************************)
LEMMA ResolvedIsRecursive ==
    ASSUME NEW P \in Seq(Condition)
    PROVE  \E f \in [0 .. Len(P) -> SUBSET Condition] :
             /\ Resolved(P) = f[Len(P)]
             /\ f[0] = {}
             /\ \A i \in 1 .. Len(P) : f[i] = Update(f[i - 1], P[i])
<1> DEFINE n == Len(P)
           V == SUBSET Condition
           Def(g) == [i \in 0 .. n |-> IF i = 0 THEN {} ELSE Update(g[i - 1], P[i])]
           f == CHOOSE g : g = Def(g)
           next == [x \in (0 .. n) \X V |-> IF x[1] = 0 THEN {} ELSE Update(x[2], P[x[1]])]
<1>1. Resolved(P) = f[n]
  BY DEF Resolved
<1>2. n \in Nat /\ next \in [(0 .. n) \X V -> V] /\ {} \in V
  <2>1. \A b \in V, c \in Condition : Update(b, c) \in V
    BY DEF Update
  <2>2. \A i \in 0 .. n : i # 0 => P[i] \in Condition
    OBVIOUS
  <2> QED BY <2>1, <2>2
<1>3. \E g \in [0 .. n -> V] : Loop(g, 0, n, {}, next)
  <2>1. n \in Int /\ 0 \in Int
    BY <1>2
  <2> HIDE DEF next, n, V
  <2> QED BY <1>2, <2>1, Recursion
<1>4. PICK g \in [0 .. n -> V] :
        \A i \in 0 .. n : g[i] = IF i = 0 THEN {} ELSE next[<<i, g[i - 1]>>]
  BY <1>3 DEF Loop
<1>5. g = Def(g)
  <2>1. \A i \in 1 .. n : next[<<i, g[i - 1]>>] = Update(g[i - 1], P[i])
    <3> TAKE i \in 1 .. n
    <3>1. i \in 0 .. n /\ i # 0 /\ g[i - 1] \in V
      BY <1>2
    <3>2. <<i, g[i - 1]>> \in (0 .. n) \X V
      BY <3>1
    <3> HIDE DEF V
    <3> QED BY <3>1, <3>2
  <2>2. \A i \in 0 .. n : i # 0 => i \in 1 .. n
    BY <1>2
  <2>3. \A i \in 0 .. n : g[i] = IF i = 0 THEN {} ELSE Update(g[i - 1], P[i])
    <3> HIDE DEF next, V, n
    <3> QED BY <1>4, <2>1, <2>2
  <2>4. g \in [0 .. n -> V]
    OBVIOUS
  <2> HIDE DEF next, V, n
  <2> QED BY <2>3, <2>4
<1>6. f = Def(f)
  <2>1. \E x : x = Def(x)
    BY <1>5
  <2> HIDE DEF Def
  <2> QED BY <2>1
<1>7. f[0] = {} /\ \A i \in 1 .. n : f[i] = Update(f[i - 1], P[i])
  <2>1. \A i \in 0 .. n : f[i] = IF i = 0 THEN {} ELSE Update(f[i - 1], P[i])
    <3> HIDE DEF f, n
    <3> QED BY <1>6
  <2>2. 0 \in 0 .. n /\ \A i \in 1 .. n : i \in 0 .. n /\ i # 0
    BY <1>2
  <2> HIDE DEF f, n
  <2> QED BY <2>1, <2>2
<1> DEFINE S == {i \in 0 .. n : f[i] \in V}
<1>8. 0 .. n \subseteq S
  <2>1. 0 \in S
    <3>1. 0 \in 0 .. n
      BY <1>2
    <3> HIDE DEF f, n
    <3> QED BY <1>2, <1>7, <3>1
  <2>2. ASSUME NEW i \in 0 .. n - 1, i \in S PROVE i + 1 \in S
    <3>1. i + 1 \in 1 .. n /\ i + 1 - 1 = i /\ P[i + 1] \in Condition /\ f[i] \in V
      BY <1>2, <2>2
    <3>2. f[i + 1] = Update(f[i], P[i + 1])
      <4>1. f[i + 1] = Update(f[i + 1 - 1], P[i + 1])
        <5> HIDE DEF f, n
        <5> QED BY <1>7, <3>1
      <4> HIDE DEF f, n
      <4> QED BY <3>1, <4>1
    <3> HIDE DEF f
    <3> QED BY <3>1, <3>2 DEF Update
  <2>3. n \in Int /\ 0 \in Int
    BY <1>2
  <2> HIDE DEF S, n
  <2> QED BY <2>1, <2>2, <2>3, Counting
<1>9. f \in [0 .. n -> V]
  <2> HIDE DEF f
  <2> QED BY <1>6, <1>8
<1> HIDE DEF f
<1> QED BY <1>1, <1>7, <1>9

LEMMA ExpandedType == ASSUME NEW c \in Condition PROVE Expanded(c) \in Seq(Condition)
<1>1. CASE c.metric \notin DOMAIN Replacement
  BY <1>1 DEF Expanded
<1>2. CASE c.metric \in DOMAIN Replacement
  <2> DEFINE T == [metric : STRING, op : Operator \cup {Inherit}, error : Nat \cup {-1}]
             targets == Replacement[c.metric]
             Or(v, inherited) == IF v = Inherit THEN inherited ELSE v
             To(t) == [metric |-> t.metric, op |-> Or(t.op, c.op),
                       error |-> IF t.error < 0 THEN c.error ELSE t.error]
  <2>1. targets \in Seq(T)
    BY <1>2, GateAssumption
  <2>2. \A t \in T : To(t) \in Condition
    BY DEF Condition
  <2>3. Expanded(c) = [i \in DOMAIN targets |-> To(targets[i])]
    BY <1>2 DEF Expanded
  <2> HIDE DEF To, T, targets
  <2>4. \A i \in DOMAIN targets : To(targets[i]) \in Condition
    BY <2>1, <2>2
  <2>5. DOMAIN targets = 1 .. Len(targets) /\ Len(targets) \in Nat
    BY <2>1
  <2>6. [i \in 1 .. Len(targets) |-> To(targets[i])] \in Seq(Condition)
    BY <2>4, <2>5
  <2> QED BY <2>3, <2>5, <2>6
<1> QED BY <1>1, <1>2

\* What is pending is what the conditions expand to, whatever their order.
LEMMA PendingIs ==
    ASSUME NEW cs \in Seq(Condition)
    PROVE  /\ Pending(cs) \in Seq(Condition)
           /\ \A x : x \in ToSet(Pending(cs)) <=> \E c \in ToSet(cs) : x \in ToSet(Expanded(c))
<1> DEFINE ss == [i \in DOMAIN cs |-> Expanded(cs[i])]
<1>1. DOMAIN cs = 1 .. Len(cs) /\ Len(cs) \in Nat /\ \A i \in DOMAIN cs : cs[i] \in Condition
  OBVIOUS
<1>2. \A i \in DOMAIN cs : Expanded(cs[i]) \in Seq(Condition)
  BY <1>1, ExpandedType
<1>3. ss \in Seq(Seq(Condition)) /\ DOMAIN ss = DOMAIN cs
  BY <1>1, <1>2
<1>4. \A i \in DOMAIN cs : ss[i] = Expanded(cs[i])
  OBVIOUS
<1>5. Pending(cs) = FlattenSeq(ss)
  BY DEF Pending
<1> HIDE DEF ss
<1>6. FlattenSeq(ss) \in Seq(Condition)
  BY <1>3, Flattened
<1>7. \A x : x \in ToSet(FlattenSeq(ss)) <=> \E i \in DOMAIN ss : x \in ToSet(ss[i])
  BY <1>3, Flattened
<1>8. \A c : c \in ToSet(cs) <=> \E i \in DOMAIN cs : c = cs[i]
  BY DEF ToSet
<1> QED BY <1>3, <1>4, <1>5, <1>6, <1>7, <1>8

Records == [row : GateRow, conditions : Seq(Condition), preexisting : BOOLEAN]

\* What is merged for a gate is what its records hold, together.
LEMMA MergedIs ==
    ASSUME NEW g \in TargetGate, records \in Seq(Records)
    PROVE  /\ MergedConditions(g) \in Seq(Condition)
           /\ \A x : x \in ToSet(MergedConditions(g)) <=>
                 \E i \in DOMAIN records : Goes(i, g) /\ x \in ToSet(records[i].conditions)
<1> DEFINE ss == [i \in DOMAIN records |-> IF Goes(i, g) THEN records[i].conditions ELSE <<>>]
<1>1. DOMAIN records = 1 .. Len(records) /\ Len(records) \in Nat
      /\ \A i \in DOMAIN records : records[i].conditions \in Seq(Condition)
  <2>1. \A i \in DOMAIN records : records[i] \in Records
    OBVIOUS
  <2>2. \A x \in Records : x.conditions \in Seq(Condition)
    BY DEF Records
  <2>3. DOMAIN records = 1 .. Len(records) /\ Len(records) \in Nat
    OBVIOUS
  <2> QED BY <2>1, <2>2, <2>3
<1>2. ss \in Seq(Seq(Condition)) /\ DOMAIN ss = DOMAIN records
  <2>1. \A i \in 1 .. Len(records) :
          (IF Goes(i, g) THEN records[i].conditions ELSE <<>>) \in Seq(Condition)
    BY <1>1
  <2>2. [i \in 1 .. Len(records) |-> IF Goes(i, g) THEN records[i].conditions ELSE <<>>]
          \in Seq(Seq(Condition))
    BY <1>1, <2>1
  <2> QED BY <1>1, <2>2
<1>3. \A i \in DOMAIN records : ss[i] = IF Goes(i, g) THEN records[i].conditions ELSE <<>>
  OBVIOUS
<1>4. MergedConditions(g) = FlattenSeq(ss)
  BY DEF MergedConditions
<1> HIDE DEF ss
<1>5. FlattenSeq(ss) \in Seq(Condition)
  BY <1>2, Flattened
<1>6. \A x : x \in ToSet(FlattenSeq(ss)) <=> \E i \in DOMAIN ss : x \in ToSet(ss[i])
  BY <1>2, Flattened
<1>7. \A x : x \notin ToSet(<<>>)
  BY DEF ToSet
<1> QED BY <1>2, <1>3, <1>4, <1>5, <1>6, <1>7

LEMMA UpdateKeepsOne ==
    ASSUME NEW M \in SUBSET Condition, OnePerMetric(M), NEW e \in Condition
    PROVE  /\ Update(M, e) \subseteq M \cup {e}
           /\ OnePerMetric(Update(M, e))
           /\ \E c \in Update(M, e) : c.metric = e.metric /\ ~MoreStringent(e, c)
           /\ \A c \in M : \E b \in Update(M, e) :
                 /\ b.metric = c.metric /\ b.op = c.op
                 /\ b = c \/ MoreStringent(b, c)
<1>0. ~MoreStringent(e, e)
  BY DEF MoreStringent, Condition
<1>1. CASE \A d \in M : d.metric # e.metric
  <2>1. Update(M, e) = M \cup {e}
    BY <1>1 DEF Update
  <2> QED BY <1>0, <1>1, <2>1 DEF OnePerMetric
<1>2. CASE \E d \in M : d.metric = e.metric
  <2> DEFINE To(d) == IF d.metric = e.metric /\ MoreStringent(e, d) THEN e ELSE d
  <2>1. Update(M, e) = {To(d) : d \in M}
    BY <1>2 DEF Update
  <2>2. \A d \in M : To(d).metric = d.metric /\ To(d) \in M \cup {e}
    OBVIOUS
  <2>3. \A d \in M : To(d).op = d.op /\ (To(d) = d \/ MoreStringent(To(d), d))
    BY DEF MoreStringent
  <2>4. PICK d \in M : d.metric = e.metric
    BY <1>2
  <2>5. ~MoreStringent(e, To(d)) /\ To(d).metric = e.metric
    BY <1>0, <2>4
  <2> HIDE DEF To
  <2>6. OnePerMetric({To(x) : x \in M})
    <3> SUFFICES ASSUME NEW x \in M, NEW y \in M, To(x).metric = To(y).metric PROVE To(x) = To(y)
      BY DEF OnePerMetric
    <3> QED BY <2>2 DEF OnePerMetric
  <2> QED BY <2>1, <2>2, <2>3, <2>4, <2>5, <2>6
<1> QED BY <1>1, <1>2

\* Of the conditions for a metric, one of those that no other one with its
\* operator is more stringent than.
LEMMA ResolvedIs ==
    ASSUME NEW P \in Seq(Condition)
    PROVE  /\ Resolved(P) \subseteq ToSet(P) /\ Resolved(P) \subseteq Condition
           /\ OnePerMetric(Resolved(P))
           /\ \A d \in ToSet(P) : \E c \in Resolved(P) :
                 c.metric = d.metric /\ (c.op = d.op => ~MoreStringent(d, c))
<1> DEFINE n == Len(P)
           Upto(i, R) ==
              /\ \A c \in R : \E j \in 1 .. i : c = P[j]
              /\ OnePerMetric(R)
              /\ \A j \in 1 .. i : \E c \in R :
                    c.metric = P[j].metric /\ (c.op = P[j].op => ~MoreStringent(P[j], c))
<1>0. n \in Nat /\ n \in Int /\ 0 \in Int /\ 0 \in 0 .. n /\ DOMAIN P = 1 .. n
  OBVIOUS
<1>1. PICK f \in [0 .. n -> SUBSET Condition] :
        Resolved(P) = f[n] /\ f[0] = {} /\ \A i \in 1 .. n : f[i] = Update(f[i - 1], P[i])
  BY ResolvedIsRecursive
<1> DEFINE S == {i \in 0 .. n : Upto(i, f[i])}
<1>2. 0 \in S
  <2>1. 1 .. 0 = {}
    OBVIOUS
  <2>2. Upto(0, {})
    BY <2>1 DEF OnePerMetric
  <2> HIDE DEF Upto, n
  <2> QED BY <1>0, <1>1, <2>2
<1>3. ASSUME NEW i \in 0 .. n - 1, i \in S PROVE i + 1 \in S
  <2>1. PICK k : k = i + 1
    OBVIOUS
  <2>2. k \in 1 .. n /\ k \in 0 .. n /\ k - 1 = i /\ i \in 0 .. n
    BY <1>0, <2>1
  <2>3. \A j : j \in 1 .. k <=> j \in 1 .. i \/ j = k
    BY <2>1
  <2>4. f[k] = Update(f[i], P[k]) /\ f[i] \in SUBSET Condition /\ P[k] \in Condition
    <3>1. P[k] \in Condition
      BY <2>2
    <3> HIDE DEF n
    <3> QED BY <1>1, <2>2, <3>1
  <2>5. Upto(i, f[i])
    BY <1>3
  <2>6. \A j \in 1 .. i : P[j] \in Condition
    BY <1>0
  <2> HIDE DEF n
  <2>7. \A c \in f[k] : \E j \in 1 .. k : c = P[j]
    <3>1. f[k] \subseteq f[i] \cup {P[k]}
      BY <2>4, <2>5, UpdateKeepsOne
    <3> QED BY <2>3, <2>5, <3>1
  <2>8. OnePerMetric(f[k])
    BY <2>4, <2>5, UpdateKeepsOne
  <2>9. ASSUME NEW j \in 1 .. k
        PROVE  \E c \in f[k] : c.metric = P[j].metric /\ (c.op = P[j].op => ~MoreStringent(P[j], c))
    <3>1. CASE j = k
      <4>1. \E c \in f[k] : c.metric = P[k].metric /\ ~MoreStringent(P[k], c)
        BY <2>4, <2>5, UpdateKeepsOne
      <4> QED BY <3>1, <4>1
    <3>2. CASE j \in 1 .. i
      <4>1. PICK c \in f[i] : c.metric = P[j].metric /\ (c.op = P[j].op => ~MoreStringent(P[j], c))
        BY <2>5, <3>2
      <4>2. PICK b \in f[k] : b.metric = c.metric /\ b.op = c.op /\ (b = c \/ MoreStringent(b, c))
        <5>1. OnePerMetric(f[i])
          BY <2>5
        <5>2. \A x \in f[i] : \E b \in Update(f[i], P[k]) :
                /\ b.metric = x.metric /\ b.op = x.op
                /\ b = x \/ MoreStringent(b, x)
          BY <2>4, <5>1, UpdateKeepsOne
        <5> HIDE DEF Upto
        <5> QED BY <2>4, <4>1, <5>2
      <4>3. b \in Condition /\ c \in Condition /\ P[j] \in Condition
        BY <1>1, <2>2, <2>4, <2>6, <3>2
      <4>4. b.op = P[j].op => ~MoreStringent(P[j], b)
        BY <4>1, <4>2, <4>3 DEF MoreStringent, Condition, Operator
      <4> QED BY <4>1, <4>2, <4>4
    <3> QED BY <2>3, <3>1, <3>2
  <2>10. Upto(k, f[k])
    BY <2>7, <2>8, <2>9
  <2> HIDE DEF Upto
  <2> QED BY <2>1, <2>2, <2>10
<1>4. n \in S
  <2> HIDE DEF S, n
  <2>1. 0 .. n \subseteq S
    BY <1>0, <1>2, <1>3, Counting
  <2>2. n \in 0 .. n
    BY <1>0
  <2> QED BY <2>1, <2>2
<1>5. Upto(n, Resolved(P)) /\ Resolved(P) \subseteq Condition
  <2>1. Upto(n, f[n])
    BY <1>4
  <2>2. n \in 0 .. n
    BY <1>0
  <2> HIDE DEF Upto, n
  <2> QED BY <1>1, <2>1, <2>2
<1>6. \A x : x \in ToSet(P) <=> \E j \in 1 .. n : x = P[j]
  BY <1>0 DEF ToSet
<1> HIDE DEF n
<1> QED BY <1>5, <1>6

LEMMA NotMoreStringent ==
    ASSUME NEW c \in Condition, NEW d \in Condition, c.op = d.op, ~MoreStringent(d, c)
    PROVE  AtLeast(c, d)
BY DEF AtLeast, Fires, MoreStringent, Condition, Operator
-----------------------------------------------------------------------------
(* Quality gates: what is true all along.                                  *)

Ideal(g) == Resolved(Pending(MergedConditions(g)))

GateTypes ==
    /\ gateSetup \in GateSetups
    /\ held \in [TargetGate -> (SUBSET Condition) \cup {NoGate}]
    /\ rowAt \in [GateRow -> {"create", "conditions", "done"}]
    /\ found \subseteq GateRow /\ unread \subseteq GateRow
    /\ records \in Seq(Records)
    /\ gateAt \in [TargetGate -> {"waiting", "show", "delete", "create", "done"}]
    /\ toDelete \in [TargetGate -> SUBSET Condition]
    /\ toCreate \in [TargetGate -> SUBSET Condition]
    /\ hadSome \subseteq TargetGate
    /\ gateRuns \in 1..MaxGateRuns /\ gateFaults \in 0..MaxGateFaults
    /\ gateEdits \in 0..MaxGateEdits
    /\ \A g \in TargetGate : OnePerMetric(Conditions(g))

\* The tasks are phases, and a gate that is worked on is there.
InPhases ==
    /\ (\E g \in TargetGate : gateAt[g] # "waiting") => AllRead
    /\ \A r \in GateRow : rowAt[r] = "conditions" => held[TargetOf[r]] # NoGate
    /\ \A g \in TargetGate : gateAt[g] \in {"show", "delete", "create"} => held[g] # NoGate

\* What a record says of its row, and which rows have none.
Recorded(r) == \E i \in DOMAIN records : records[i].row = r
RecordIsTrue(rec) ==
    /\ rowAt[rec.row] = "done"
    /\ held[TargetOf[rec.row]] # NoGate
    /\ rec.preexisting = (rec.row \in found)
    /\ \/ rec.conditions = gateSetup.conditions[rec.row]
       \/ rec.conditions = <<>> /\ rec.row \in unread
RecordsAreTrue ==
    /\ \A i \in DOMAIN records : RecordIsTrue(records[i])
    /\ \A r \in GateRow :
          rowAt[r] = "done" /\ TargetOf[r] \notin counted /\ ~Recorded(r) =>
             r \notin found /\ (gateSetup.conditions[r] = <<>> \/ r \in unread)

\* A gate that a row of this run made is empty until it gets its conditions.
NewIsEmpty ==
    \A r \in GateRow :
       /\ rowAt[r] # "create" /\ r \notin found
       /\ TargetOf[r] \notin counted /\ gateAt[TargetOf[r]] = "waiting"
       => held[TargetOf[r]] = {}

\* What is gone comes again, and nothing else is there once the old is cleared.
Replaces(g) ==
    /\ gateAt[g] \in {"show", "delete"} => toCreate[g] = Ideal(g) /\ Ideal(g) # {}
    /\ gateAt[g] = "delete" => held[g] \subseteq toDelete[g]
    /\ gateAt[g] = "create" =>
          /\ toCreate[g] \subseteq Ideal(g)
          /\ g \in unseen \/ (held[g] \subseteq Ideal(g) /\ Ideal(g) \subseteq held[g] \cup toCreate[g])
    /\ gateAt[g] = "done" => Ideal(g) = {} \/ g \in unseen \/ held[g] = Ideal(g)

\* A gate that had conditions has some, or is about to get some.
HasSome(g) ==
    /\ held[g] # NoGate
    /\ gateAt[g] \in {"waiting", "show", "done"} => held[g] # {}
    /\ gateAt[g] = "create" => held[g] \cup toCreate[g] # {}

GateInv ==
    /\ GateTypes /\ InPhases /\ RecordsAreTrue
    /\ gateEdits = 0 =>
          /\ NewIsEmpty
          /\ \A g \in TargetGate \ counted : Replaces(g) /\ (g \in hadSome => HasSome(g))


LEMMA SetsAreNoGate == \A S \in SUBSET Condition : S # NoGate
BY GateAssumption

LEMMA RowsHaveGates == \A r \in GateRow : TargetOf[r] \in TargetGate
BY GateAssumption

LEMMA GateBounds == MaxGateRuns \in Nat \ {0} /\ MaxGateFaults \in Nat /\ MaxGateEdits \in Nat
BY GateAssumption

LEMMA RecordTypes ==
    ASSUME GateTypes
    PROVE  \A i \in DOMAIN records :
             /\ records[i] \in Records /\ records[i].row \in GateRow
             /\ records[i].conditions \in Seq(Condition)
             /\ TargetOf[records[i].row] \in TargetGate
<1>1. \A i \in DOMAIN records : records[i] \in Records
  BY DEF GateTypes
<1>2. \A x \in Records : x.row \in GateRow /\ x.conditions \in Seq(Condition)
  BY DEF Records
<1> QED BY <1>1, <1>2, RowsHaveGates

LEMMA IdealIs ==
    ASSUME GateTypes, NEW g \in TargetGate
    PROVE  /\ Ideal(g) \subseteq Condition /\ OnePerMetric(Ideal(g))
           /\ Ideal(g) # {} => \E i \in DOMAIN records : Goes(i, g)
<1>1. records \in Seq(Records)
  BY DEF GateTypes
<1>2. MergedConditions(g) \in Seq(Condition)
  BY <1>1, MergedIs
<1>3. Pending(MergedConditions(g)) \in Seq(Condition)
  BY <1>2, PendingIs
<1>4. Ideal(g) \subseteq Condition /\ OnePerMetric(Ideal(g)) /\ Ideal(g) \subseteq ToSet(Pending(MergedConditions(g)))
  BY <1>3, ResolvedIs DEF Ideal
<1>5. ASSUME Ideal(g) # {} PROVE \E i \in DOMAIN records : Goes(i, g)
  <2>1. PICK x : x \in ToSet(Pending(MergedConditions(g)))
    BY <1>4, <1>5
  <2>2. PICK c : c \in ToSet(MergedConditions(g))
    BY <1>2, <2>1, PendingIs
  <2> QED BY <1>1, <2>2, MergedIs
<1> QED BY <1>4, <1>5

\* A step that leaves the records alone leaves what is wanted.
LEMMA IdealSame ==
    ASSUME NEW g \in TargetGate, records' = records
    PROVE  Ideal(g)' = Ideal(g)
BY DEF Ideal, MergedConditions, Goes

LEMMA GateInvInit == GatesInit => GateInv
<1> SUFFICES ASSUME GatesInit PROVE GateInv
  OBVIOUS
<1>1. gateSetup \in GateSetups /\ held = gateSetup.before
  BY DEF GatesInit
<1>2. /\ gateSetup.before \in [TargetGate -> (SUBSET Condition) \cup {NoGate}]
      /\ \A g \in TargetGate : gateSetup.before[g] # NoGate => OnePerMetric(gateSetup.before[g])
  BY <1>1, GateAssumption
<1>3. \A g \in TargetGate : OnePerMetric(Conditions(g))
  BY <1>1, <1>2 DEF Conditions, OnePerMetric
<1>4. GateTypes
  BY <1>1, <1>2, <1>3, GateAssumption DEF GatesInit, GateTypes
<1>5. InPhases
  BY DEF GatesInit, InPhases
<1>6. RecordsAreTrue
  BY DEF GatesInit, RecordsAreTrue
<1>7. NewIsEmpty
  BY DEF GatesInit, NewIsEmpty
<1>8. ASSUME NEW g \in TargetGate PROVE Replaces(g) /\ (g \in hadSome => HasSome(g))
  BY DEF GatesInit, Replaces, HasSome, Conditions
<1> QED BY <1>4, <1>5, <1>6, <1>7, <1>8 DEF GateInv

LEMMA CreateGateStep ==
    ASSUME GateInv, NEW r \in GateRow, CreateGate(r) PROVE GateInv'
<1> USE DEF GateInv
<1> DEFINE g0 == TargetOf[r]
<1>1. g0 \in TargetGate
  BY RowsHaveGates
<1>2. \A g \in TargetGate : gateAt[g] = "waiting"
  BY DEF CreateGate, InPhases, AllRead
<1>3. /\ rowAt[r] = "create" /\ records' = records /\ unread' = unread
      /\ gateAt' = gateAt /\ toDelete' = toDelete /\ toCreate' = toCreate /\ unseen' = unseen
      /\ gateSetup' = gateSetup /\ hadSome' = hadSome /\ gateRuns' = gateRuns /\ gateEdits' = gateEdits
  BY DEF CreateGate, workVars, RunSame
<1>4. \/ held' = held /\ held[g0] # NoGate
      \/ held' = held /\ g0 \in counted'
      \/ held[g0] = NoGate /\ held' = [held EXCEPT ![g0] = {}]
  BY DEF CreateGate
<1>5. \/ rowAt' = [rowAt EXCEPT ![r] = "conditions"] /\ held'[g0] # NoGate
         /\ (r \in found' \/ held'[g0] = {})
      \/ rowAt' = [rowAt EXCEPT ![r] = "done"] /\ g0 \in counted'
  BY <1>1, SetsAreNoGate DEF CreateGate, GateRowTo, GateTypes
<1>6. /\ counted \subseteq counted' /\ found \subseteq found' /\ found' \subseteq found \cup {r}
      /\ gateFaults' \in 0..MaxGateFaults
  BY GateBounds DEF CreateGate, GateTypes, Fault, NoFault
<1>7. \A g \in TargetGate :
        /\ held[g] # NoGate => held'[g] = held[g]
        /\ held'[g] = held[g] \/ held'[g] = {}
  BY <1>1, <1>4 DEF GateTypes
<1>8. GateTypes'
  <2>1. held' \in [TargetGate -> (SUBSET Condition) \cup {NoGate}]
    BY <1>4 DEF GateTypes
  <2>2. rowAt' \in [GateRow -> {"create", "conditions", "done"}]
    BY <1>5 DEF GateTypes
  <2>3. \A g \in TargetGate : OnePerMetric(Conditions(g)')
    BY <1>7 DEF GateTypes, Conditions, OnePerMetric
  <2> QED BY <1>3, <1>6, <2>1, <2>2, <2>3 DEF GateTypes, Conditions
<1>9. \A x \in GateRow : x # r => rowAt'[x] = rowAt[x]
  BY <1>5 DEF GateTypes
<1>10. InPhases'
  <2>1. ASSUME NEW x \in GateRow, rowAt'[x] = "conditions" PROVE held'[TargetOf[x]] # NoGate
    <3>1. CASE x = r
      BY <1>5, <2>1, <3>1 DEF GateTypes
    <3>2. CASE x # r
      <4>1. rowAt[x] = "conditions" /\ TargetOf[x] \in TargetGate
        BY <1>9, <2>1, <3>2, RowsHaveGates
      <4>2. held[TargetOf[x]] # NoGate
        BY <4>1 DEF InPhases
      <4> QED BY <1>7, <4>1, <4>2
    <3> QED BY <3>1, <3>2
  <2> QED BY <1>2, <1>3, <2>1 DEF InPhases
<1>11. RecordsAreTrue'
  <2>1. ASSUME NEW i \in DOMAIN records PROVE RecordIsTrue(records[i])'
    <3> DEFINE x == records[i].row
    <3>1. x \in GateRow /\ TargetOf[x] \in TargetGate
      BY RecordTypes
    <3>2. RecordIsTrue(records[i])
      BY DEF RecordsAreTrue
    <3>3. x # r /\ rowAt'[x] = rowAt[x] /\ (x \in found' <=> x \in found)
      BY <1>3, <1>6, <1>9, <3>1, <3>2 DEF RecordIsTrue
    <3>4. held'[TargetOf[x]] = held[TargetOf[x]]
      BY <1>7, <3>1, <3>2 DEF RecordIsTrue
    <3> QED BY <1>3, <3>2, <3>3, <3>4 DEF RecordIsTrue
  <2>2. ASSUME NEW x \in GateRow, rowAt'[x] = "done", TargetOf[x] \notin counted', ~Recorded(x)'
        PROVE  x \notin found' /\ (gateSetup'.conditions[x] = <<>> \/ x \in unread')
    <3>1. x # r
      BY <1>5, <2>2 DEF GateTypes
    <3>2. ~Recorded(x)
      BY <1>3, <2>2 DEF Recorded
    <3> QED BY <1>3, <1>6, <1>9, <2>2, <3>1, <3>2 DEF RecordsAreTrue
  <2> QED BY <1>3, <2>1, <2>2 DEF RecordsAreTrue
<1>12. ASSUME gateEdits = 0 PROVE NewIsEmpty'
  <2> SUFFICES ASSUME NEW x \in GateRow, rowAt'[x] # "create", x \notin found', TargetOf[x] \notin counted'
               PROVE  held'[TargetOf[x]] = {}
    BY DEF NewIsEmpty
  <2>1. CASE x = r
    BY <1>5, <2>1
  <2>2. CASE x # r
    <3>1. held[TargetOf[x]] = {}
      BY <1>2, <1>6, <1>9, <1>12, <2>2, RowsHaveGates DEF NewIsEmpty
    <3> QED BY <1>7, <3>1, RowsHaveGates
  <2> QED BY <2>1, <2>2
<1>13. ASSUME gateEdits = 0, NEW g \in TargetGate \ counted'
       PROVE  Replaces(g)' /\ (g \in hadSome' => HasSome(g)')
  <2>1. Replaces(g)'
    BY <1>2, <1>3 DEF Replaces
  <2>2. ASSUME g \in hadSome PROVE HasSome(g)'
    <3>1. HasSome(g)
      BY <1>6, <1>13, <2>2
    <3>2. held'[g] = held[g]
      BY <1>7, <3>1 DEF HasSome
    <3> QED BY <1>3, <3>1, <3>2 DEF HasSome
  <2> QED BY <1>3, <2>1, <2>2
<1> QED BY <1>3, <1>8, <1>10, <1>11, <1>12, <1>13

LEMMA ReadConditionsStep ==
    ASSUME GateInv, NEW r \in GateRow, ReadConditions(r) PROVE GateInv'
<1> USE DEF GateInv
<1>1. \A g \in TargetGate : gateAt[g] = "waiting"
  BY DEF ReadConditions, InPhases, AllRead
<1>2. /\ rowAt[r] = "conditions" /\ rowAt' = [rowAt EXCEPT ![r] = "done"]
      /\ found' = found /\ counted' = counted /\ held' = held
      /\ gateAt' = gateAt /\ toDelete' = toDelete /\ toCreate' = toCreate /\ unseen' = unseen
      /\ gateSetup' = gateSetup /\ hadSome' = hadSome /\ gateRuns' = gateRuns /\ gateEdits' = gateEdits
  BY DEF ReadConditions, workVars, RunSame, GateRowTo
<1>3. PICK conds \in {gateSetup.conditions[r], <<>>} :
        /\ unread' = unread \/ unread' = unread \cup {r}
        /\ conds = gateSetup.conditions[r] \/ (conds = <<>> /\ r \in unread')
        /\ \/ records' = records /\ conds = <<>> /\ r \notin found
           \/ records' = Append(records, [row |-> r, conditions |-> conds, preexisting |-> r \in found])
  <2>1. PICK conds \in {gateSetup.conditions[r], <<>>} :
          /\ IF conds = gateSetup.conditions[r] THEN NoFault /\ UNCHANGED unread
             ELSE Fault /\ unread' = unread \cup {r}
          /\ records' = IF conds = <<>> /\ r \notin found THEN records
                        ELSE Append(records, [row |-> r, conditions |-> conds,
                                              preexisting |-> r \in found])
    BY DEF ReadConditions
  <2>2. unread' = unread \/ unread' = unread \cup {r}
    BY <2>1
  <2>3. conds = gateSetup.conditions[r] \/ (conds = <<>> /\ r \in unread')
    BY <2>1
  <2>4. \/ records' = records /\ conds = <<>> /\ r \notin found
        \/ records' = Append(records, [row |-> r, conditions |-> conds, preexisting |-> r \in found])
    BY <2>1
  <2> QED BY <2>2, <2>3, <2>4
<1>4. gateFaults' \in 0..MaxGateFaults
  BY GateBounds DEF ReadConditions, GateTypes, Fault, NoFault
<1>5. conds \in Seq(Condition)
  <2>1. gateSetup.conditions \in [GateRow -> Seq(Condition)]
    BY GateAssumption DEF GateTypes
  <2>2. <<>> \in Seq(Condition)
    OBVIOUS
  <2> QED BY <2>1, <2>2
<1> DEFINE rec == [row |-> r, conditions |-> conds, preexisting |-> r \in found]
<1>6. rec \in Records /\ rec.row = r /\ rec.conditions = conds /\ rec.preexisting = (r \in found)
  <2>1. (r \in found) \in BOOLEAN
    OBVIOUS
  <2> QED BY <1>5, <2>1 DEF Records
<1> HIDE DEF rec
<1>7. records' \in Seq(Records)
  <2>1. records \in Seq(Records)
    BY DEF GateInv, GateTypes
  <2>2. records' = records \/ records' = Append(records, rec)
    BY <1>3 DEF rec
  <2>3. Append(records, rec) \in Seq(Records)
    <3>1. \A q \in Seq(Records), x \in Records : Append(q, x) \in Seq(Records)
      OBVIOUS
    <3> QED BY <1>6, <2>1, <3>1
  <2> QED BY <2>1, <2>2, <2>3
<1>8. \A i \in DOMAIN records' : (i \in DOMAIN records /\ records'[i] = records[i]) \/ records'[i] = rec
  <2>1. CASE records' = records
    BY <2>1
  <2>2. CASE records' = Append(records, rec)
    <3>1. /\ DOMAIN records = 1 .. Len(records) /\ DOMAIN records' = 1 .. Len(records) + 1
          /\ Len(records) \in Nat
      BY <1>6, <2>2 DEF GateTypes
    <3>2. records'[Len(records) + 1] = rec
      BY <1>6, <2>2, <3>1 DEF GateTypes
    <3>3. \A i \in DOMAIN records : i \in DOMAIN records' /\ records'[i] = records[i]
      BY <1>6, <2>2, <3>1 DEF GateTypes
    <3>4. \A i \in DOMAIN records' : i \in DOMAIN records \/ i = Len(records) + 1
      BY <3>1
    <3> QED BY <3>2, <3>3, <3>4
  <2> QED BY <1>3, <2>1, <2>2 DEF rec
<1>9. /\ \A i \in DOMAIN records : i \in DOMAIN records' /\ records'[i] = records[i]
      /\ records' # records => \E i \in DOMAIN records' : records'[i] = rec
  <2>1. CASE records' = records
    BY <2>1
  <2>2. CASE records' = Append(records, rec)
    <3>1. /\ DOMAIN records = 1 .. Len(records) /\ DOMAIN records' = 1 .. Len(records) + 1
          /\ Len(records) \in Nat
      BY <1>6, <2>2 DEF GateTypes
    <3>2. Len(records) + 1 \in DOMAIN records' /\ records'[Len(records) + 1] = rec
      BY <1>6, <2>2, <3>1 DEF GateTypes
    <3>3. \A i \in DOMAIN records : i \in DOMAIN records' /\ records'[i] = records[i]
      BY <1>6, <2>2, <3>1 DEF GateTypes
    <3> QED BY <3>2, <3>3
  <2> QED BY <1>3, <2>1, <2>2 DEF rec
<1>10. \A x \in GateRow : x # r => rowAt'[x] = rowAt[x] /\ (x \in unread' <=> x \in unread)
  BY <1>2, <1>3 DEF GateTypes
<1>11. rowAt'[r] = "done" /\ unread \subseteq unread' /\ unread' \subseteq GateRow
  BY <1>2, <1>3 DEF GateTypes
<1>12. GateTypes'
  <2>1. rowAt' \in [GateRow -> {"create", "conditions", "done"}]
    BY <1>2 DEF GateTypes
  <2>2. \A g \in TargetGate : OnePerMetric(Conditions(g)')
    BY <1>2 DEF GateTypes, Conditions
  <2> QED BY <1>2, <1>4, <1>7, <1>11, <2>1, <2>2 DEF GateTypes
<1>13. InPhases'
  BY <1>1, <1>2, <1>10, <1>11 DEF InPhases
<1>14. RecordsAreTrue'
  <2>1. ASSUME NEW i \in DOMAIN records', records'[i] = rec PROVE RecordIsTrue(records[i])'
    <3>1. held[TargetOf[r]] # NoGate
      BY <1>2 DEF InPhases
    <3>2. /\ records'[i].row = r /\ records'[i].conditions = conds
          /\ records'[i].preexisting = (r \in found)
      BY <1>6, <2>1
    <3> QED BY <1>2, <1>3, <1>11, <3>1, <3>2 DEF RecordIsTrue
  <2>2. ASSUME NEW i \in DOMAIN records PROVE RecordIsTrue(records[i])'
    <3>1. RecordIsTrue(records[i]) /\ records[i].row \in GateRow
      BY RecordTypes DEF RecordsAreTrue
    <3>2. records[i].row # r /\ records'[i] = records[i]
      BY <1>2, <1>9, <3>1 DEF RecordIsTrue
    <3> QED BY <1>2, <1>10, <3>1, <3>2 DEF RecordIsTrue
  <2>3. ASSUME NEW i \in DOMAIN records' PROVE RecordIsTrue(records[i])'
    BY <1>8, <2>1, <2>2
  <2>4. ASSUME NEW x \in GateRow, rowAt'[x] = "done", TargetOf[x] \notin counted', ~Recorded(x)'
        PROVE  x \notin found' /\ (gateSetup'.conditions[x] = <<>> \/ x \in unread')
    <3>1. CASE x = r
      <4>1. records' = records
        BY <1>6, <1>9, <2>4, <3>1 DEF Recorded
      <4>2. records' # Append(records, rec)
        <5>1. Len(Append(records, rec)) = Len(records) + 1 /\ Len(records) \in Nat
          BY <1>6 DEF GateTypes
        <5> QED BY <4>1, <5>1
      <4> QED BY <1>2, <1>3, <3>1, <4>2 DEF rec
    <3>2. CASE x # r
      <4>1. ~Recorded(x)
        BY <1>9, <2>4 DEF Recorded
      <4> QED BY <1>2, <1>10, <2>4, <3>2, <4>1 DEF RecordsAreTrue
    <3> QED BY <3>1, <3>2
  <2> QED BY <2>3, <2>4 DEF RecordsAreTrue
<1>15. ASSUME gateEdits = 0 PROVE NewIsEmpty'
  <2> SUFFICES ASSUME NEW x \in GateRow, rowAt'[x] # "create", x \notin found, TargetOf[x] \notin counted
               PROVE  held[TargetOf[x]] = {}
    BY <1>2 DEF NewIsEmpty
  <2>1. rowAt[x] # "create"
    BY <1>2, <1>10
  <2> QED BY <1>1, <1>15, <2>1, RowsHaveGates DEF NewIsEmpty
<1>16. ASSUME gateEdits = 0, NEW g \in TargetGate \ counted'
       PROVE  Replaces(g)' /\ (g \in hadSome' => HasSome(g)')
  BY <1>1, <1>2, <1>16 DEF Replaces, HasSome
<1> QED BY <1>2, <1>12, <1>13, <1>14, <1>15, <1>16

\* What a step of one gate's work leaves alone, and what follows for the rest.
LEMMA OneGateStep ==
    ASSUME GateInv, NEW g \in TargetGate, UNCHANGED rowVars, RunSame,
           gateAt' \in [TargetGate -> {"waiting", "show", "delete", "create", "done"}],
           toDelete' \in [TargetGate -> SUBSET Condition],
           toCreate' \in [TargetGate -> SUBSET Condition],
           held' \in [TargetGate -> (SUBSET Condition) \cup {NoGate}],
           gateFaults' \in 0..MaxGateFaults, AllRead,
           counted \subseteq counted', unseen \subseteq unseen',
           \A x \in TargetGate \ {g} : /\ gateAt'[x] = gateAt[x] /\ held'[x] = held[x]
                                       /\ toDelete'[x] = toDelete[x] /\ toCreate'[x] = toCreate[x]
                                       /\ x \in unseen' => x \in unseen,
           gateAt'[g] # "waiting",
           gateAt'[g] \in {"show", "delete", "create"} => held'[g] # NoGate,
           held[g] # NoGate => held'[g] # NoGate,
           OnePerMetric(Conditions(g)'),
           gateEdits = 0 /\ g \notin counted' =>
              Replaces(g)' /\ (g \in hadSome => HasSome(g)')
    PROVE  GateInv'
<1> USE DEF GateInv
<1>1. /\ rowAt' = rowAt /\ found' = found /\ records' = records /\ unread' = unread
      /\ gateSetup' = gateSetup /\ hadSome' = hadSome /\ gateRuns' = gateRuns /\ gateEdits' = gateEdits
  BY DEF rowVars, RunSame
<1>2. GateTypes'
  <2>1. ASSUME NEW x \in TargetGate \ {g} PROVE OnePerMetric(Conditions(x)')
    <3>1. held'[x] = held[x] /\ OnePerMetric(Conditions(x))
      BY DEF GateTypes
    <3> QED BY <3>1 DEF Conditions
  <2> QED BY <1>1, <2>1 DEF GateTypes
<1>3. \A x \in TargetGate : held[x] # NoGate => held'[x] # NoGate
  OBVIOUS
<1>4. InPhases'
  <2>1. AllRead'
    BY <1>1 DEF AllRead
  <2>2. \A x \in GateRow : rowAt'[x] = "conditions" => held'[TargetOf[x]] # NoGate
    BY <1>1, <1>3, RowsHaveGates DEF InPhases
  <2>3. \A x \in TargetGate : gateAt'[x] \in {"show", "delete", "create"} => held'[x] # NoGate
    BY DEF InPhases
  <2> QED BY <2>1, <2>2, <2>3 DEF InPhases
<1>5. RecordsAreTrue'
  <2>1. ASSUME NEW i \in DOMAIN records PROVE RecordIsTrue(records[i])'
    <3>1. RecordIsTrue(records[i]) /\ TargetOf[records[i].row] \in TargetGate
      BY RecordTypes DEF RecordsAreTrue
    <3> QED BY <1>1, <1>3, <3>1 DEF RecordIsTrue
  <2>2. ASSUME NEW x \in GateRow, rowAt'[x] = "done", TargetOf[x] \notin counted', ~Recorded(x)'
        PROVE  x \notin found' /\ (gateSetup'.conditions[x] = <<>> \/ x \in unread')
    BY <1>1, <2>2 DEF RecordsAreTrue, Recorded
  <2> QED BY <1>1, <2>1, <2>2 DEF RecordsAreTrue
<1>6. ASSUME gateEdits = 0 PROVE NewIsEmpty'
  <2> SUFFICES ASSUME NEW x \in GateRow, rowAt[x] # "create", x \notin found, TargetOf[x] \notin counted',
                      gateAt'[TargetOf[x]] = "waiting"
               PROVE  held'[TargetOf[x]] = {}
    BY <1>1 DEF NewIsEmpty
  <2>1. TargetOf[x] \in TargetGate \ {g}
    BY RowsHaveGates
  <2>2. held[TargetOf[x]] = {}
    BY <1>6, <2>1 DEF NewIsEmpty
  <2> QED BY <2>1, <2>2
<1>7. ASSUME gateEdits = 0, NEW x \in TargetGate \ counted'
       PROVE  Replaces(x)' /\ (x \in hadSome' => HasSome(x)')
  <2>1. CASE x = g
    BY <1>1, <1>7, <2>1
  <2>2. CASE x # g
    <3>1. Replaces(x) /\ (x \in hadSome => HasSome(x))
      BY <1>7
    <3>2. Ideal(x)' = Ideal(x)
      BY <1>1, IdealSame
    <3>3. /\ gateAt'[x] = gateAt[x] /\ held'[x] = held[x]
          /\ toDelete'[x] = toDelete[x] /\ toCreate'[x] = toCreate[x]
          /\ x \in unseen' <=> x \in unseen
      BY <2>2
    <3>4. Replaces(x)'
      BY <3>1, <3>2, <3>3 DEF Replaces
    <3>5. HasSome(x) => HasSome(x)'
      BY <3>3 DEF HasSome
    <3> QED BY <1>1, <3>1, <3>4, <3>5
  <2> QED BY <2>1, <2>2
<1> QED BY <1>1, <1>2, <1>4, <1>5, <1>6, <1>7

LEMMA PrepareStep ==
    ASSUME GateInv, NEW g \in TargetGate, PrepareTargetGate(g) PROVE GateInv'
<1> USE DEF GateInv
<1> DEFINE targets == Ideal(g)
<1>1. /\ gateAt[g] = "waiting" /\ AllRead /\ UNCHANGED rowVars /\ RunSame
      /\ gateAt' = [gateAt EXCEPT ![g] = IF Wipes(g, targets) THEN "show"
                                         ELSE IF targets # {} THEN "create" ELSE "done"]
      /\ toCreate' = [toCreate EXCEPT ![g] = targets]
      /\ held' = held /\ counted' = counted /\ toDelete' = toDelete /\ unseen' = unseen
      /\ gateFaults' = gateFaults
  BY DEF PrepareTargetGate, Ideal, GateTo, NoFault
<1>2. targets \in SUBSET Condition /\ OnePerMetric(targets)
      /\ (targets # {} => \E i \in DOMAIN records : Goes(i, g))
  BY IdealIs
<1> HIDE DEF targets
<1>3. \/ gateAt'[g] = "show" /\ targets # {}
      \/ gateAt'[g] = "create" /\ targets # {} /\ ~WasPreexisting(g)
      \/ gateAt'[g] = "done" /\ targets = {}
  BY <1>1 DEF GateTypes, Wipes
<1>4. gateAt'[g] \in {"show", "create", "done"} /\ toCreate'[g] = targets
  BY <1>1, <1>3 DEF GateTypes
<1>5. targets # {} => held[g] # NoGate
  BY <1>2 DEF Goes, RecordsAreTrue, RecordIsTrue
<1>6. Ideal(g)' = targets
  BY <1>1, IdealSame DEF targets, rowVars
<1>7. ASSUME gateEdits = 0, g \notin counted, targets # {}, ~WasPreexisting(g) PROVE held[g] = {}
  <2>1. PICK i \in DOMAIN records : TargetOf[records[i].row] = g /\ ~records[i].preexisting
    BY <1>2, <1>7 DEF Goes, WasPreexisting
  <2>2. RecordIsTrue(records[i]) /\ records[i].row \in GateRow
    BY RecordTypes DEF RecordsAreTrue
  <2>3. rowAt[records[i].row] = "done" /\ records[i].row \notin found
    BY <2>1, <2>2 DEF RecordIsTrue
  <2> QED BY <1>1, <1>7, <2>1, <2>2, <2>3 DEF NewIsEmpty
<1>8. ASSUME gateEdits = 0, g \notin counted PROVE Replaces(g)' /\ (g \in hadSome => HasSome(g)')
  <2>1. Replaces(g)'
    BY <1>1, <1>3, <1>4, <1>6, <1>7, <1>8 DEF Replaces
  <2>2. ASSUME g \in hadSome PROVE HasSome(g)'
    <3>1. held[g] # NoGate /\ held[g] # {}
      BY <1>1, <1>8, <2>2 DEF HasSome
    <3> QED BY <1>1, <1>4, <3>1 DEF HasSome
  <2> QED BY <2>1, <2>2
<1>9. gateAt' \in [TargetGate -> {"waiting", "show", "delete", "create", "done"}]
  BY <1>1 DEF GateTypes
<1>10. toCreate' \in [TargetGate -> SUBSET Condition]
  BY <1>1, <1>2 DEF GateTypes
<1>11. OnePerMetric(Conditions(g)')
  BY <1>1 DEF Conditions, GateTypes
<1>12. \A x \in TargetGate \ {g} : gateAt'[x] = gateAt[x] /\ toCreate'[x] = toCreate[x]
  BY <1>1 DEF GateTypes
<1>13. gateAt'[g] \in {"show", "delete", "create"} => held'[g] # NoGate
  BY <1>1, <1>3, <1>5
<1>14. gateFaults' \in 0..MaxGateFaults /\ toDelete' \in [TargetGate -> SUBSET Condition]
       /\ held' \in [TargetGate -> (SUBSET Condition) \cup {NoGate}]
  BY <1>1 DEF GateTypes
<1> HIDE DEF GateInv
<1> QED BY <1>1, <1>4, <1>8, <1>9, <1>10, <1>11, <1>12, <1>13, <1>14, OneGateStep

LEMMA ShowGateStep ==
    ASSUME GateInv, NEW g \in TargetGate, ShowGate(g) PROVE GateInv'
<1> USE DEF GateInv
<1>1. /\ gateAt[g] = "show" /\ UNCHANGED rowVars /\ RunSame
      /\ held' = held /\ counted' = counted /\ toCreate' = toCreate
  BY DEF ShowGate
<1>2. \/ /\ gateAt' = [gateAt EXCEPT ![g] = "delete"]
         /\ toDelete' = [toDelete EXCEPT ![g] = held[g]] /\ unseen' = unseen
      \/ /\ gateAt' = [gateAt EXCEPT ![g] = "create"]
         /\ unseen' = unseen \cup {g} /\ toDelete' = toDelete
  BY DEF ShowGate, GateTo
<1>3. gateFaults' \in 0..MaxGateFaults
  BY GateBounds DEF ShowGate, GateTypes, Fault, NoFault
<1>4. AllRead /\ held[g] # NoGate /\ held[g] \in SUBSET Condition
  BY <1>1 DEF InPhases, GateTypes
<1>5. /\ gateAt' \in [TargetGate -> {"waiting", "show", "delete", "create", "done"}]
      /\ toDelete' \in [TargetGate -> SUBSET Condition]
      /\ toCreate' \in [TargetGate -> SUBSET Condition]
      /\ held' \in [TargetGate -> (SUBSET Condition) \cup {NoGate}]
  BY <1>1, <1>2, <1>4 DEF GateTypes
<1>6. \A x \in TargetGate \ {g} : /\ gateAt'[x] = gateAt[x] /\ toDelete'[x] = toDelete[x]
                                  /\ (x \in unseen' => x \in unseen)
  BY <1>2 DEF GateTypes
<1>7. /\ \/ gateAt'[g] = "delete" /\ toDelete'[g] = held[g]
         \/ gateAt'[g] = "create" /\ g \in unseen'
      /\ unseen \subseteq unseen'
  BY <1>2 DEF GateTypes
<1>8. OnePerMetric(Conditions(g)')
  BY <1>1 DEF Conditions, GateTypes
<1>9. Ideal(g)' = Ideal(g)
  BY <1>1, IdealSame DEF rowVars
<1>10. ASSUME gateEdits = 0, g \notin counted PROVE Replaces(g)' /\ (g \in hadSome => HasSome(g)')
  <2>1. Replaces(g) /\ (g \in hadSome => HasSome(g))
    BY <1>10
  <2>2. Replaces(g)'
    BY <1>1, <1>7, <1>9, <2>1 DEF Replaces
  <2>3. HasSome(g) => HasSome(g)'
    BY <1>1, <1>7 DEF HasSome
  <2> QED BY <2>1, <2>2, <2>3
<1> HIDE DEF GateInv
<1> QED BY <1>1, <1>3, <1>4, <1>5, <1>6, <1>7, <1>8, <1>10, OneGateStep

LEMMA DeleteConditionStep ==
    ASSUME GateInv, NEW g \in TargetGate, NEW c, DeleteCondition(g, c) PROVE GateInv'
<1> USE DEF GateInv
<1>1. /\ gateAt[g] = "delete" /\ UNCHANGED rowVars /\ RunSame
      /\ toDelete' = [toDelete EXCEPT ![g] = @ \ {c}]
      /\ gateAt' = gateAt /\ toCreate' = toCreate /\ unseen' = unseen
  BY DEF DeleteCondition
<1>2. \/ held' = [held EXCEPT ![g] = @ \ {c}] /\ counted' = counted
      \/ counted' = counted \cup {g} /\ held' = held
  BY DEF DeleteCondition
<1>3. gateFaults' \in 0..MaxGateFaults
  BY GateBounds DEF DeleteCondition, GateTypes, Fault, NoFault
<1>4. AllRead /\ held[g] # NoGate /\ held[g] \in SUBSET Condition /\ OnePerMetric(held[g])
  BY <1>1 DEF InPhases, GateTypes, Conditions
<1>5. /\ toDelete'[g] = toDelete[g] \ {c} /\ toDelete' \in [TargetGate -> SUBSET Condition]
      /\ \A x \in TargetGate \ {g} : toDelete'[x] = toDelete[x]
  BY <1>1 DEF GateTypes
<1>6. /\ held'[g] = held[g] \/ held'[g] = held[g] \ {c}
      /\ g \notin counted' => held'[g] = held[g] \ {c}
      /\ held' \in [TargetGate -> (SUBSET Condition) \cup {NoGate}]
      /\ \A x \in TargetGate \ {g} : held'[x] = held[x]
  BY <1>2, <1>4 DEF GateTypes
<1>7. held'[g] # NoGate /\ OnePerMetric(Conditions(g)')
  <2>1. held'[g] \in SUBSET Condition
    BY <1>4, <1>6
  <2>2. held'[g] # NoGate
    BY <2>1, SetsAreNoGate
  <2> QED BY <1>4, <1>6, <2>2 DEF OnePerMetric, Conditions
<1>8. counted \subseteq counted'
  BY <1>2
<1>9. ASSUME gateEdits = 0, g \notin counted' PROVE Replaces(g)' /\ (g \in hadSome => HasSome(g)')
  <2>1. Replaces(g) /\ (g \in hadSome => HasSome(g))
    BY <1>8, <1>9
  <2>2. Ideal(g)' = Ideal(g)
    BY <1>1, IdealSame DEF rowVars
  <2>3. Replaces(g)'
    BY <1>1, <1>5, <1>6, <1>9, <2>1, <2>2 DEF Replaces
  <2>4. HasSome(g)'
    BY <1>1, <1>7 DEF HasSome
  <2> QED BY <2>3, <2>4
<1>10. /\ gateAt' \in [TargetGate -> {"waiting", "show", "delete", "create", "done"}]
       /\ toCreate' \in [TargetGate -> SUBSET Condition]
  BY <1>1 DEF GateTypes
<1> HIDE DEF GateInv
<1> QED BY <1>1, <1>3, <1>4, <1>5, <1>6, <1>7, <1>8, <1>9, <1>10, OneGateStep

LEMMA ClearedStep ==
    ASSUME GateInv, NEW g \in TargetGate, Cleared(g) PROVE GateInv'
<1> USE DEF GateInv
<1>1. /\ gateAt[g] = "delete" /\ toDelete[g] = {} /\ UNCHANGED rowVars /\ RunSame
      /\ gateAt' = [gateAt EXCEPT ![g] = "create"]
      /\ held' = held /\ counted' = counted /\ unseen' = unseen /\ gateFaults' = gateFaults
      /\ toDelete' = toDelete /\ toCreate' = toCreate
  BY DEF Cleared, GateTo, NoFault
<1>2. AllRead /\ held[g] # NoGate
  BY <1>1 DEF InPhases
<1>3. /\ gateAt' \in [TargetGate -> {"waiting", "show", "delete", "create", "done"}]
      /\ gateAt'[g] = "create" /\ \A x \in TargetGate \ {g} : gateAt'[x] = gateAt[x]
  BY <1>1 DEF GateTypes
<1>4. OnePerMetric(Conditions(g)')
  BY <1>1 DEF Conditions, GateTypes
<1>5. ASSUME gateEdits = 0, g \notin counted PROVE Replaces(g)' /\ (g \in hadSome => HasSome(g)')
  <2>1. Replaces(g) /\ (g \in hadSome => HasSome(g))
    BY <1>5
  <2>2. Ideal(g)' = Ideal(g)
    BY <1>1, IdealSame DEF rowVars
  <2>3. held[g] = {} /\ toCreate[g] = Ideal(g) /\ Ideal(g) # {}
    BY <1>1, <2>1 DEF Replaces
  <2>4. Replaces(g)'
    BY <1>1, <1>3, <2>2, <2>3 DEF Replaces
  <2>5. HasSome(g)'
    BY <1>1, <1>2, <1>3, <2>3 DEF HasSome
  <2> QED BY <2>4, <2>5
<1>6. /\ toDelete' \in [TargetGate -> SUBSET Condition] /\ toCreate' \in [TargetGate -> SUBSET Condition]
      /\ held' \in [TargetGate -> (SUBSET Condition) \cup {NoGate}] /\ gateFaults' \in 0..MaxGateFaults
  BY <1>1 DEF GateTypes
<1> HIDE DEF GateInv
<1> QED BY <1>1, <1>2, <1>3, <1>4, <1>5, <1>6, OneGateStep

LEMMA CreateConditionStep ==
    ASSUME GateInv, NEW g \in TargetGate, NEW c, CreateCondition(g, c) PROVE GateInv'
<1> USE DEF GateInv
<1>1. /\ gateAt[g] = "create" /\ c \in toCreate[g] /\ UNCHANGED rowVars /\ RunSame
      /\ toCreate' = [toCreate EXCEPT ![g] = @ \ {c}]
      /\ gateAt' = gateAt /\ toDelete' = toDelete /\ unseen' = unseen
  BY DEF CreateCondition
<1>2. \/ /\ held' = IF AlreadyThere(g, c) THEN held ELSE [held EXCEPT ![g] = @ \cup {c}]
         /\ counted' = counted
      \/ counted' = counted \cup {g} /\ held' = held
  BY DEF CreateCondition
<1>3. gateFaults' \in 0..MaxGateFaults
  BY GateBounds DEF CreateCondition, GateTypes, Fault, NoFault
<1>4. /\ AllRead /\ held[g] # NoGate /\ held[g] \in SUBSET Condition /\ OnePerMetric(held[g])
      /\ c \in Condition
  BY <1>1 DEF InPhases, GateTypes, Conditions
<1>5. /\ toCreate'[g] = toCreate[g] \ {c} /\ toCreate' \in [TargetGate -> SUBSET Condition]
      /\ \A x \in TargetGate \ {g} : toCreate'[x] = toCreate[x]
  BY <1>1 DEF GateTypes
<1>6. /\ \/ held'[g] = held[g] /\ (AlreadyThere(g, c) \/ g \in counted')
         \/ held'[g] = held[g] \cup {c} /\ ~AlreadyThere(g, c)
      /\ held' \in [TargetGate -> (SUBSET Condition) \cup {NoGate}]
      /\ \A x \in TargetGate \ {g} : held'[x] = held[x]
  BY <1>2, <1>4 DEF GateTypes
<1>7. held'[g] # NoGate /\ OnePerMetric(Conditions(g)')
  <2>1. held'[g] \in SUBSET Condition
    BY <1>4, <1>6
  <2>2. held'[g] # NoGate
    BY <2>1, SetsAreNoGate
  <2> QED BY <1>4, <1>6, <2>2 DEF OnePerMetric, Conditions, AlreadyThere
<1>8. counted \subseteq counted'
  BY <1>2
<1>9. ASSUME gateEdits = 0, g \notin counted' PROVE Replaces(g)' /\ (g \in hadSome => HasSome(g)')
  <2>1. Replaces(g) /\ (g \in hadSome => HasSome(g))
    BY <1>8, <1>9
  <2>2. Ideal(g)' = Ideal(g) /\ OnePerMetric(Ideal(g))
    BY <1>1, IdealSame, IdealIs DEF rowVars
  <2>3. ASSUME g \notin unseen
        PROVE  held'[g] \subseteq Ideal(g) /\ Ideal(g) \subseteq held'[g] \cup toCreate'[g]
    <3>1. /\ toCreate[g] \subseteq Ideal(g) /\ held[g] \subseteq Ideal(g)
          /\ Ideal(g) \subseteq held[g] \cup toCreate[g]
      BY <1>1, <2>1, <2>3 DEF Replaces
    <3>2. c \in held'[g]
      BY <1>1, <1>6, <1>9, <2>2, <3>1 DEF AlreadyThere, OnePerMetric
    <3> QED BY <1>1, <1>5, <1>6, <3>1, <3>2
  <2>4. Replaces(g)'
    BY <1>1, <1>5, <2>1, <2>2, <2>3 DEF Replaces
  <2>5. held'[g] # {}
    BY <1>6, <1>9 DEF AlreadyThere
  <2>6. HasSome(g)'
    BY <1>7, <2>5 DEF HasSome
  <2> QED BY <2>4, <2>6
<1>10. /\ gateAt' \in [TargetGate -> {"waiting", "show", "delete", "create", "done"}]
       /\ toDelete' \in [TargetGate -> SUBSET Condition]
  BY <1>1 DEF GateTypes
<1> HIDE DEF GateInv
<1> QED BY <1>1, <1>3, <1>4, <1>5, <1>6, <1>7, <1>8, <1>9, <1>10, OneGateStep

LEMMA EndGateStep ==
    ASSUME GateInv, NEW g \in TargetGate, EndGate(g) PROVE GateInv'
<1> USE DEF GateInv
<1>1. /\ gateAt[g] = "create" /\ toCreate[g] = {} /\ UNCHANGED rowVars /\ RunSame
      /\ gateAt' = [gateAt EXCEPT ![g] = "done"]
      /\ held' = held /\ counted' = counted /\ unseen' = unseen /\ gateFaults' = gateFaults
      /\ toDelete' = toDelete /\ toCreate' = toCreate
  BY DEF EndGate, GateTo, NoFault
<1>2. AllRead /\ held[g] # NoGate
  BY <1>1 DEF InPhases
<1>3. /\ gateAt' \in [TargetGate -> {"waiting", "show", "delete", "create", "done"}]
      /\ gateAt'[g] = "done" /\ \A x \in TargetGate \ {g} : gateAt'[x] = gateAt[x]
  BY <1>1 DEF GateTypes
<1>4. OnePerMetric(Conditions(g)')
  BY <1>1 DEF Conditions, GateTypes
<1>5. ASSUME gateEdits = 0, g \notin counted PROVE Replaces(g)' /\ (g \in hadSome => HasSome(g)')
  <2>1. Replaces(g) /\ (g \in hadSome => HasSome(g))
    BY <1>5
  <2>2. Ideal(g)' = Ideal(g)
    BY <1>1, IdealSame DEF rowVars
  <2>3. g \in unseen \/ held[g] = Ideal(g)
    BY <1>1, <2>1 DEF Replaces
  <2>4. Replaces(g)'
    BY <1>1, <1>3, <2>2, <2>3 DEF Replaces
  <2>5. HasSome(g) => HasSome(g)'
    BY <1>1, <1>2, <1>3 DEF HasSome
  <2> QED BY <2>1, <2>4, <2>5
<1>6. /\ toDelete' \in [TargetGate -> SUBSET Condition] /\ toCreate' \in [TargetGate -> SUBSET Condition]
      /\ held' \in [TargetGate -> (SUBSET Condition) \cup {NoGate}] /\ gateFaults' \in 0..MaxGateFaults
  BY <1>1 DEF GateTypes
<1> HIDE DEF GateInv
<1> QED BY <1>1, <1>2, <1>3, <1>4, <1>5, <1>6, OneGateStep

LEMMA EditGateStep ==
    ASSUME GateInv, NEW g \in TargetGate, EditGate(g) PROVE GateInv'
<1> USE DEF GateInv
<1>1. /\ held[g] # NoGate /\ UNCHANGED rowVars /\ UNCHANGED workVars /\ gateEdits' = gateEdits + 1
      /\ gateEdits < MaxGateEdits
      /\ gateSetup' = gateSetup /\ counted' = counted /\ hadSome' = hadSome
      /\ gateRuns' = gateRuns /\ gateFaults' = gateFaults
  BY DEF EditGate
<1>2. /\ rowAt' = rowAt /\ found' = found /\ records' = records /\ unread' = unread
      /\ gateAt' = gateAt /\ toDelete' = toDelete /\ toCreate' = toCreate /\ unseen' = unseen
  BY <1>1 DEF rowVars, workVars
<1>3. \/ \E c \in held[g] : held' = [held EXCEPT ![g] = @ \ {c}]
      \/ ~AlreadyThere(g, SomeCondition) /\ held' = [held EXCEPT ![g] = @ \cup {SomeCondition}]
  BY DEF EditGate
<1>4. held[g] \in SUBSET Condition /\ OnePerMetric(held[g]) /\ SomeCondition \in Condition
  BY <1>1, GateAssumption DEF GateTypes, Conditions
<1>5. /\ held' \in [TargetGate -> (SUBSET Condition) \cup {NoGate}]
      /\ \A x \in TargetGate \ {g} : held'[x] = held[x]
      /\ held'[g] \in SUBSET Condition /\ OnePerMetric(held'[g])
  <2>1. CASE \E c \in held[g] : held' = [held EXCEPT ![g] = @ \ {c}]
    <3>1. PICK c \in held[g] : held' = [held EXCEPT ![g] = @ \ {c}]
      BY <2>1
    <3>2. held'[g] = held[g] \ {c}
      BY <3>1 DEF GateTypes
    <3> QED BY <1>4, <3>1, <3>2 DEF GateTypes, OnePerMetric
  <2>2. CASE ~AlreadyThere(g, SomeCondition) /\ held' = [held EXCEPT ![g] = @ \cup {SomeCondition}]
    <3>1. held'[g] = held[g] \cup {SomeCondition}
      BY <2>2 DEF GateTypes
    <3> QED BY <1>4, <2>2, <3>1 DEF GateTypes, OnePerMetric, AlreadyThere
  <2> QED BY <1>3, <2>1, <2>2
<1>6. \A x \in TargetGate : held[x] # NoGate => held'[x] # NoGate
  BY <1>5, SetsAreNoGate
<1>7. GateTypes'
  <2>1. gateEdits' \in 0..MaxGateEdits /\ gateEdits' # 0
    BY <1>1, GateBounds DEF GateTypes
  <2>2. \A x \in TargetGate : OnePerMetric(Conditions(x)')
    BY <1>5, SetsAreNoGate DEF GateTypes, Conditions
  <2> QED BY <1>1, <1>2, <1>5, <2>1, <2>2 DEF GateTypes
<1>8. InPhases'
  <2>1. AllRead' <=> AllRead
    BY <1>2 DEF AllRead
  <2> QED BY <1>2, <1>6, <2>1, RowsHaveGates DEF InPhases
<1>9. RecordsAreTrue'
  <2>1. ASSUME NEW i \in DOMAIN records PROVE RecordIsTrue(records[i])'
    <3>1. RecordIsTrue(records[i]) /\ TargetOf[records[i].row] \in TargetGate
      BY RecordTypes DEF RecordsAreTrue
    <3> QED BY <1>1, <1>2, <1>6, <3>1 DEF RecordIsTrue
  <2>2. ASSUME NEW x \in GateRow, rowAt'[x] = "done", TargetOf[x] \notin counted', ~Recorded(x)'
        PROVE  x \notin found' /\ (gateSetup'.conditions[x] = <<>> \/ x \in unread')
    BY <1>1, <1>2, <2>2 DEF RecordsAreTrue, Recorded
  <2> QED BY <1>2, <2>1, <2>2 DEF RecordsAreTrue
<1>10. gateEdits' # 0
  BY <1>1 DEF GateTypes
<1> QED BY <1>7, <1>8, <1>9, <1>10

LEMMA MigrateAgainStep == ASSUME GateInv, MigrateAgain PROVE GateInv'
<1> USE DEF GateInv
<1>1. /\ gateRuns < MaxGateRuns /\ gateRuns' = gateRuns + 1 /\ NewGateRun
      /\ gateSetup' = gateSetup /\ held' = held /\ gateEdits' = gateEdits /\ gateFaults' = gateFaults
  BY DEF MigrateAgain, cloudVars
<1>2. GateTypes'
  <2>1. gateRuns' \in 1..MaxGateRuns
    BY <1>1, GateBounds DEF GateTypes
  <2>2. \A g \in TargetGate : OnePerMetric(Conditions(g)')
    BY <1>1 DEF GateTypes, Conditions
  <2> QED BY <1>1, <2>1, <2>2 DEF GateTypes, NewGateRun
<1>3. InPhases'
  BY <1>1 DEF InPhases, NewGateRun
<1>4. RecordsAreTrue'
  BY <1>1 DEF RecordsAreTrue, NewGateRun
<1>5. NewIsEmpty'
  BY <1>1 DEF NewIsEmpty, NewGateRun
<1>6. ASSUME NEW g \in TargetGate PROVE Replaces(g)' /\ (g \in hadSome' => HasSome(g)')
  <2>1. gateAt'[g] = "waiting" /\ (g \in hadSome' => Conditions(g) # {})
    BY <1>1 DEF NewGateRun
  <2>2. Replaces(g)'
    BY <2>1 DEF Replaces
  <2>3. g \in hadSome' => HasSome(g)'
    BY <1>1, <2>1 DEF HasSome, Conditions
  <2> QED BY <2>2, <2>3
<1> QED BY <1>2, <1>3, <1>4, <1>5, <1>6

LEMMA GateInvSame == ASSUME GateInv, UNCHANGED qvars PROVE GateInv'
<1> USE DEF GateInv
<1>1. /\ gateSetup' = gateSetup /\ held' = held /\ gateEdits' = gateEdits /\ rowAt' = rowAt
      /\ found' = found /\ records' = records /\ unread' = unread /\ gateAt' = gateAt
      /\ toDelete' = toDelete /\ toCreate' = toCreate /\ unseen' = unseen /\ counted' = counted
      /\ hadSome' = hadSome /\ gateRuns' = gateRuns /\ gateFaults' = gateFaults
  BY DEF qvars, cloudVars, rowVars, workVars
<1>2. GateTypes'
  BY <1>1 DEF GateTypes, Conditions
<1>3. InPhases'
  BY <1>1 DEF InPhases, AllRead
<1>4. RecordsAreTrue'
  BY <1>1 DEF RecordsAreTrue, RecordIsTrue, Recorded
<1>5. NewIsEmpty => NewIsEmpty'
  BY <1>1 DEF NewIsEmpty
<1>6. ASSUME NEW g \in TargetGate PROVE (Replaces(g) => Replaces(g)') /\ (HasSome(g) => HasSome(g)')
  <2>1. Ideal(g)' = Ideal(g)
    BY <1>1, IdealSame
  <2> QED BY <1>1, <2>1 DEF Replaces, HasSome
<1> QED BY <1>1, <1>2, <1>3, <1>4, <1>5, <1>6

LEMMA GateInvNext == GateInv /\ [GatesNext]_qvars => GateInv'
<1> SUFFICES ASSUME GateInv, [GatesNext]_qvars PROVE GateInv'
  OBVIOUS
<1>1. ASSUME NEW r \in GateRow, CreateGate(r) PROVE GateInv'
  BY <1>1, CreateGateStep
<1>2. ASSUME NEW r \in GateRow, ReadConditions(r) PROVE GateInv'
  BY <1>2, ReadConditionsStep
<1>3. ASSUME NEW g \in TargetGate, PrepareTargetGate(g) PROVE GateInv'
  BY <1>3, PrepareStep
<1>4. ASSUME NEW g \in TargetGate, ShowGate(g) PROVE GateInv'
  BY <1>4, ShowGateStep
<1>5. ASSUME NEW g \in TargetGate, NEW c \in toDelete[g], DeleteCondition(g, c) PROVE GateInv'
  BY <1>5, DeleteConditionStep
<1>6. ASSUME NEW g \in TargetGate, Cleared(g) PROVE GateInv'
  BY <1>6, ClearedStep
<1>7. ASSUME NEW g \in TargetGate, NEW c \in toCreate[g], CreateCondition(g, c) PROVE GateInv'
  BY <1>7, CreateConditionStep
<1>8. ASSUME NEW g \in TargetGate, EndGate(g) PROVE GateInv'
  BY <1>8, EndGateStep
<1>9. ASSUME NEW g \in TargetGate, EditGate(g) PROVE GateInv'
  BY <1>9, EditGateStep
<1>10. CASE MigrateAgain
  BY <1>10, MigrateAgainStep
<1>11. CASE UNCHANGED qvars
  BY <1>11, GateInvSame
<1> QED BY <1>1, <1>2, <1>3, <1>4, <1>5, <1>6, <1>7, <1>8, <1>9, <1>10, <1>11 DEF GatesNext

THEOREM GatesKeepInv == GatesSpec => []GateInv
<1>1. GatesInit => GateInv
  BY GateInvInit
<1>2. GateInv /\ [GatesNext]_qvars => GateInv'
  BY GateInvNext
<1> QED BY <1>1, <1>2, PTL DEF GatesSpec

\* With every row read, what is merged asks for what the source gates ask for.
LEMMA MergedIsAsked ==
    ASSUME GateInv, NEW g \in TargetGate, gateAt[g] = "done", g \notin counted, RowsOf(g) \cap unread = {}
    PROVE  ToSet(Pending(MergedConditions(g))) = Asked(g)
<1> USE DEF GateInv
<1>1. records \in Seq(Records)
  BY DEF GateTypes
<1>2. MergedConditions(g) \in Seq(Condition)
  BY <1>1, MergedIs
<1>3. \A r \in GateRow : gateSetup.conditions[r] \in Seq(Condition) /\ rowAt[r] = "done"
  <2>1. gateSetup.conditions \in [GateRow -> Seq(Condition)]
    BY GateAssumption DEF GateTypes
  <2> QED BY <2>1 DEF InPhases, AllRead
<1>4. ASSUME NEW d, d \in Asked(g) PROVE d \in ToSet(Pending(MergedConditions(g)))
  <2>1. PICK r \in RowsOf(g) : d \in ToSet(Pending(gateSetup.conditions[r]))
    BY <1>4 DEF Asked
  <2>2. r \in GateRow /\ TargetOf[r] = g /\ r \notin unread
    BY DEF RowsOf
  <2>3. PICK c \in ToSet(gateSetup.conditions[r]) : d \in ToSet(Expanded(c))
    BY <1>3, <2>1, <2>2, PendingIs
  <2>4. gateSetup.conditions[r] # <<>>
    BY <2>3 DEF ToSet
  <2>5. PICK i \in DOMAIN records : records[i].row = r
    BY <1>3, <2>2, <2>4 DEF RecordsAreTrue, Recorded
  <2>6. records[i].conditions = gateSetup.conditions[r]
    BY <2>2, <2>5 DEF RecordsAreTrue, RecordIsTrue
  <2>7. c \in ToSet(MergedConditions(g))
    BY <1>1, <2>2, <2>3, <2>5, <2>6, MergedIs DEF Goes
  <2> QED BY <1>2, <2>3, <2>7, PendingIs
<1>5. ASSUME NEW d, d \in ToSet(Pending(MergedConditions(g))) PROVE d \in Asked(g)
  <2>1. PICK c \in ToSet(MergedConditions(g)) : d \in ToSet(Expanded(c))
    BY <1>2, <1>5, PendingIs
  <2>2. PICK i \in DOMAIN records : Goes(i, g) /\ c \in ToSet(records[i].conditions)
    BY <1>1, <2>1, MergedIs
  <2> DEFINE r == records[i].row
  <2>3. r \in GateRow /\ r \in RowsOf(g)
    BY <2>2, RecordTypes DEF Goes, RowsOf
  <2>4. records[i].conditions # <<>>
    BY <2>2 DEF ToSet
  <2>5. records[i].conditions = gateSetup.conditions[r]
    BY <2>4 DEF RecordsAreTrue, RecordIsTrue
  <2>6. d \in ToSet(Pending(gateSetup.conditions[r]))
    BY <1>3, <2>1, <2>2, <2>3, <2>5, PendingIs
  <2> QED BY <2>3, <2>6 DEF Asked
<1> QED BY <1>4, <1>5

LEMMA GateInvImplies == GateInv => GatesAreMigrated
<1> SUFFICES ASSUME GateInv PROVE GatesTypeOK /\ StrictestWins /\ NeverWipedIntoNothing
  BY DEF GatesAreMigrated
<1> USE DEF GateInv
<1>1. GatesTypeOK
  <2>1. ASSUME NEW g \in TargetGate
        PROVE  /\ Conditions(g) \cup toCreate[g] \cup toDelete[g] \subseteq Condition
               /\ OnePerMetric(Conditions(g))
               /\ gateAt[g] \in {"waiting", "show", "delete", "create", "done"}
    BY DEF GateTypes, Conditions
  <2> QED BY <2>1 DEF GatesTypeOK, GateTypes
<1>2. StrictestWins
  <2> SUFFICES ASSUME NEW g \in TargetGate, LooksClean(g), Asked(g) # {}, g \notin unseen
               PROVE  Strictest(g)
    BY DEF StrictestWins
  <2>1. gateAt[g] = "done" /\ g \notin counted /\ gateEdits = 0 /\ RowsOf(g) \cap unread = {}
    BY DEF LooksClean
  <2> DEFINE P == Pending(MergedConditions(g))
  <2>2. P \in Seq(Condition) /\ ToSet(P) = Asked(g) /\ Ideal(g) = Resolved(P)
    BY <2>1, MergedIsAsked, MergedIs, PendingIs DEF GateTypes, Ideal
  <2> HIDE DEF P
  <2>3. Ideal(g) # {}
    BY <2>2, ResolvedIs
  <2>4. held[g] = Resolved(P)
    BY <2>1, <2>2, <2>3 DEF Replaces
  <2>5. \A d \in Asked(g) : d \in Condition
    BY <2>2 DEF ToSet
  <2>6. ASSUME NEW d \in Asked(g)
        PROVE  \E c \in held[g] : c.metric = d.metric /\ (c.op = d.op => AtLeast(c, d))
    <3>1. PICK c \in held[g] : c.metric = d.metric /\ (c.op = d.op => ~MoreStringent(d, c))
      BY <2>2, <2>4, ResolvedIs
    <3>2. c \in Condition /\ d \in Condition
      BY <2>2, <2>4, <2>5, ResolvedIs
    <3> QED BY <3>1, <3>2, NotMoreStringent
  <2>7. held[g] \subseteq Asked(g)
    BY <2>2, <2>4, ResolvedIs
  <2> QED BY <2>6, <2>7 DEF Strictest
<1>3. NeverWipedIntoNothing
  <2> SUFFICES ASSUME NEW g \in hadSome, gateAt[g] = "done", gateEdits = 0, g \notin counted
               PROVE  held[g] # {}
    BY DEF NeverWipedIntoNothing
  <2>1. g \in TargetGate
    BY DEF GateTypes
  <2> QED BY <2>1 DEF HasSome
<1> QED BY <1>1, <1>2, <1>3

THEOREM GatesMigrated == GatesSpec => []GatesAreMigrated
<1> QED BY GatesKeepInv, GateInvImplies, PTL

-----------------------------------------------------------------------------
(***************************************************************************)
(* Issues and hotspots.  For any findings, runs and faults: what people    *)
(* did on either side is kept, and what the sync writes it writes once.    *)
(***************************************************************************)
(* How often something is in a sequence.                                   *)

LEMMA TimesType ==
    ASSUME NEW V, NEW s \in Seq(V), NEW x
    PROVE  /\ Times(s, x) \in Nat /\ IsFiniteSet({i \in DOMAIN s : s[i] = x})
           /\ Times(s, x) = 0 <=> \A i \in DOMAIN s : s[i] # x
<1> DEFINE Spots == {i \in DOMAIN s : s[i] = x}
<1>1. IsFiniteSet(Spots)
  <2>1. DOMAIN s = 1 .. Len(s) /\ Len(s) \in Int /\ 1 \in Int
    OBVIOUS
  <2>2. Spots \in SUBSET (1 .. Len(s))
    BY <2>1
  <2> HIDE DEF Spots
  <2> QED BY <2>1, <2>2, FS_Interval, FS_Subset
<1>2. Times(s, x) = Cardinality(Spots)
  BY DEF Times
<1>3. Spots = {} <=> \A i \in DOMAIN s : s[i] # x
  OBVIOUS
<1>4. Cardinality(Spots) \in Nat /\ (Cardinality(Spots) = 0 <=> Spots = {})
  <2> HIDE DEF Spots
  <2> QED BY <1>1, FS_CardinalityType, FS_EmptySet
<1> QED BY <1>1, <1>2, <1>3, <1>4

LEMMA TimesConcat ==
    ASSUME NEW V, NEW s \in Seq(V), NEW t \in Seq(V), NEW x
    PROVE  Times(s \o t, x) = Times(s, x) + Times(t, x)
<1> DEFINE A == {i \in DOMAIN s : s[i] = x}
           B == {i \in DOMAIN t : t[i] = x}
           C == {i \in DOMAIN (s \o t) : (s \o t)[i] = x}
           BB == C \ A
           shift == [i \in B |-> Len(s) + i]
<1>1. /\ DOMAIN (s \o t) = 1 .. Len(s) + Len(t) /\ DOMAIN s = 1 .. Len(s) /\ DOMAIN t = 1 .. Len(t)
      /\ Len(s) \in Nat /\ Len(t) \in Nat /\ s \o t \in Seq(V)
  OBVIOUS
<1>2. \A k \in 1 .. Len(s) : (s \o t)[k] = s[k] /\ k \in 1 .. Len(s) + Len(t)
  OBVIOUS
<1>3. \A k \in 1 .. Len(t) : (s \o t)[Len(s) + k] = t[k] /\ Len(s) + k \in 1 .. Len(s) + Len(t)
  OBVIOUS
<1>4. A \subseteq C
  BY <1>1, <1>2
<1>5. IsFiniteSet(A) /\ IsFiniteSet(B) /\ IsFiniteSet(C)
  BY <1>1, TimesType
<1>6. shift \in Bijection(B, BB)
  <2>1. \A i \in B : Len(s) + i \in BB
    BY <1>1, <1>3
  <2>2. \A i, j \in B : shift[i] = shift[j] => i = j
    BY <1>1
  <2>3. ASSUME NEW j \in BB PROVE \E i \in B : shift[i] = j
    <3>1. j \in 1 .. Len(s) + Len(t) /\ (s \o t)[j] = x /\ j \notin 1 .. Len(s)
      BY <1>1, <1>2
    <3>2. j - Len(s) \in 1 .. Len(t) /\ Len(s) + (j - Len(s)) = j
      BY <1>1, <3>1
    <3>3. t[j - Len(s)] = x
      BY <1>3, <3>1, <3>2
    <3>4. j - Len(s) \in B
      BY <1>1, <3>2, <3>3
    <3> QED BY <3>2, <3>4
  <2> HIDE DEF B, BB
  <2>4. shift \in [B -> BB]
    BY <2>1
  <2> HIDE DEF shift
  <2> QED BY <2>2, <2>3, <2>4 DEF Bijection, Injection, Surjection, IsInjective
<1>7. Cardinality(BB) = Cardinality(B) /\ IsFiniteSet(BB)
  <2>1. ExistsBijection(B, BB)
    BY <1>6 DEF ExistsBijection
  <2> HIDE DEF B, BB
  <2> QED BY <1>5, <2>1, FS_Bijection
<1>8. A \cup BB = C /\ A \cap BB = {}
  BY <1>4
<1>9. Cardinality(C) = Cardinality(A) + Cardinality(BB)
  <2> HIDE DEF A, BB, C
  <2>1. Cardinality(A \cup BB) = Cardinality(A) + Cardinality(BB) - Cardinality(A \cap BB)
    BY <1>5, <1>7, FS_Union
  <2>2. Cardinality(A) \in Nat /\ Cardinality(BB) \in Nat /\ Cardinality({}) = 0
    BY <1>5, <1>7, FS_CardinalityType, FS_EmptySet
  <2>3. Cardinality(C) = Cardinality(A) + Cardinality(BB) - Cardinality({})
    BY <1>8, <2>1
  <2> QED BY <2>2, <2>3
<1>10. Times(s, x) = Cardinality(A) /\ Times(t, x) = Cardinality(B) /\ Times(s \o t, x) = Cardinality(C)
  BY DEF Times
<1> QED BY <1>7, <1>9, <1>10

LEMMA TimesOne ==
    ASSUME NEW y, NEW x
    PROVE  Times(<<y>>, x) = (IF y = x THEN 1 ELSE 0) /\ Times(<<>>, x) = 0
<1>1. DOMAIN <<y>> = {1} /\ <<y>>[1] = y
  OBVIOUS
<1>2. {i \in DOMAIN <<y>> : <<y>>[i] = x} = IF y = x THEN {1} ELSE {}
  BY <1>1
<1>3. {i \in DOMAIN <<>> : <<>>[i] = x} = {}
  OBVIOUS
<1>4. Cardinality({1}) = 1 /\ Cardinality({}) = 0
  BY FS_Singleton, FS_EmptySet
<1> QED BY <1>2, <1>3, <1>4 DEF Times

LEMMA TimesAppend ==
    ASSUME NEW V, NEW s \in Seq(V), NEW y \in V, NEW x
    PROVE  Times(Append(s, y), x) = Times(s, x) + (IF y = x THEN 1 ELSE 0)
<1>1. Append(s, y) = s \o <<y>> /\ <<y>> \in Seq(V)
  OBVIOUS
<1>2. Times(s \o <<y>>, x) = Times(s, x) + Times(<<y>>, x)
  BY <1>1, TimesConcat
<1>3. Times(<<y>>, x) = IF y = x THEN 1 ELSE 0
  BY TimesOne
<1> QED BY <1>1, <1>2, <1>3

LEMMA TimesTail ==
    ASSUME NEW V, NEW s \in Seq(V), s # <<>>, NEW x
    PROVE  Times(s, x) = Times(Tail(s), x) + (IF Head(s) = x THEN 1 ELSE 0)
<1>1. s = <<Head(s)>> \o Tail(s) /\ <<Head(s)>> \in Seq(V) /\ Tail(s) \in Seq(V)
  OBVIOUS
<1>2. Times(<<Head(s)>> \o Tail(s), x) = Times(<<Head(s)>>, x) + Times(Tail(s), x)
  BY <1>1, TimesConcat
<1>3. Times(<<Head(s)>>, x) = (IF Head(s) = x THEN 1 ELSE 0) /\ Times(Tail(s), x) \in Nat
  BY <1>1, TimesOne, TimesType
<1>4. Times(s, x) = Times(<<Head(s)>> \o Tail(s), x)
  BY <1>1
<1> QED BY <1>2, <1>3, <1>4

\* What each part holds at most once, for one body, the whole holds at most as
\* often as there is this body.
LEMMA TimesFlattened ==
    ASSUME NEW V, NEW W, NEW bodies \in Seq(W), NEW ss \in Seq(Seq(V)), DOMAIN ss = DOMAIN bodies,
           NEW x, NEW b,
           \A i \in DOMAIN ss : Times(ss[i], x) =< (IF bodies[i] = b THEN 1 ELSE 0)
    PROVE  Times(FlattenSeq(ss), x) =< Times(bodies, b)
<1> DEFINE n == Len(ss)
           Upto(i) == {j \in 1 .. i : bodies[j] = b}
<1>0. /\ n \in Nat /\ n \in Int /\ 1 \in Int /\ DOMAIN ss = 1 .. n /\ DOMAIN bodies = 1 .. n
      /\ \A i \in 1 .. n : ss[i] \in Seq(V)
  OBVIOUS
<1>1. CASE n = 0
  <2>1. FlattenSeq(ss) = <<>>
    BY <1>1 DEF FlattenSeq
  <2>2. Times(<<>>, x) = 0
    BY TimesOne
  <2>3. Times(bodies, b) \in Nat
    BY TimesType
  <2> QED BY <2>1, <2>2, <2>3
<1>2. CASE n # 0
  <2>1. PICK f \in [1 .. n -> Seq(V)] :
          /\ FlattenSeq(ss) = f[n] /\ f[1] = ss[1]
          /\ \A i, k \in 1 .. n : k = i + 1 => f[k] = f[i] \o ss[k]
    <3>1. Len(ss) # 0
      BY <1>2
    <3>2. \E f \in [1 .. Len(ss) -> Seq(V)] : FlattenSeq(ss) = f[Len(ss)] /\ Concatenation(f, ss)
      <4> HIDE DEF n, Upto
      <4> QED BY <3>1, FlattenedIsRecursive
    <3> HIDE DEF Upto
    <3> QED BY <3>2 DEF Concatenation
  <2> DEFINE S == {i \in 1 .. n : Times(f[i], x) =< Cardinality(Upto(i))}
  <2>2. 1 \in 1 .. n /\ n \in 1 .. n
    BY <1>0, <1>2
  <2>3. \A i \in 1 .. n : IsFiniteSet(Upto(i)) /\ Cardinality(Upto(i)) \in Nat
    <3> TAKE i \in 1 .. n
    <3>1. Upto(i) \in SUBSET (1 .. i) /\ i \in Int
      BY <1>0
    <3> HIDE DEF Upto
    <3>2. IsFiniteSet(1 .. i)
      BY <1>0, <3>1, FS_Interval
    <3>3. IsFiniteSet(Upto(i))
      BY <3>1, <3>2, FS_Subset
    <3> QED BY <3>3, FS_CardinalityType
  <2>4. 1 \in S
    <3>1. Upto(1) = IF bodies[1] = b THEN {1} ELSE {}
      <4>1. 1 .. 1 = {1}
        OBVIOUS
      <4> QED BY <4>1
    <3>2. Cardinality({1}) = 1 /\ Cardinality({}) = 0
      BY FS_Singleton, FS_EmptySet
    <3>3. Cardinality(Upto(1)) = IF bodies[1] = b THEN 1 ELSE 0
      BY <3>1, <3>2
    <3>4. Times(f[1], x) =< (IF bodies[1] = b THEN 1 ELSE 0)
      BY <1>0, <2>1, <2>2
    <3> HIDE DEF Upto, n
    <3> QED BY <2>2, <3>3, <3>4
  <2>5. ASSUME NEW i \in 1 .. n - 1, i \in S PROVE i + 1 \in S
    <3>1. PICK k : k = i + 1
      OBVIOUS
    <3>2. k \in 1 .. n /\ i \in 1 .. n /\ k \notin 1 .. i
      BY <3>1
    <3>3. f[k] = f[i] \o ss[k] /\ f[i] \in Seq(V) /\ ss[k] \in Seq(V)
      <4> HIDE DEF n
      <4> QED BY <1>0, <2>1, <3>1, <3>2
    <3>4. \A j : j \in 1 .. k <=> j \in 1 .. i \/ j = k
      BY <3>1
    <3>5. Upto(k) = IF bodies[k] = b THEN Upto(i) \cup {k} ELSE Upto(i)
      BY <3>4
    <3>6. k \notin Upto(i)
      BY <3>2
    <3>7. Cardinality(Upto(k)) = Cardinality(Upto(i)) + (IF bodies[k] = b THEN 1 ELSE 0)
      <4>1. Cardinality(Upto(i) \cup {k}) = Cardinality(Upto(i)) + 1
        <5> HIDE DEF Upto, n
        <5> QED BY <2>3, <3>2, <3>6, FS_AddElement
      <4>2. Cardinality(Upto(i)) \in Nat
        <5> HIDE DEF Upto, n
        <5> QED BY <2>3, <3>2
      <4> HIDE DEF Upto
      <4> QED BY <3>5, <4>1, <4>2
    <3>8. Times(f[k], x) = Times(f[i], x) + Times(ss[k], x)
      BY <3>3, TimesConcat
    <3>9. Times(f[i], x) \in Nat /\ Times(ss[k], x) \in Nat
      BY <3>3, TimesType
    <3>10. Times(ss[k], x) =< (IF bodies[k] = b THEN 1 ELSE 0)
      BY <1>0, <3>2
    <3>11. Times(f[i], x) =< Cardinality(Upto(i)) /\ Cardinality(Upto(i)) \in Nat
      BY <2>3, <2>5, <3>2
    <3>12. Times(f[k], x) =< Cardinality(Upto(k))
      <4> HIDE DEF Upto, n
      <4> QED BY <3>7, <3>8, <3>9, <3>10, <3>11
    <3> HIDE DEF Upto, n
    <3> QED BY <3>1, <3>2, <3>12
  <2>6. n \in S
    <3>1. 1 .. n \subseteq S
      <4> HIDE DEF S, n
      <4> QED BY <1>0, <2>4, <2>5, Counting
    <3> HIDE DEF S, n
    <3> QED BY <2>2, <3>1
  <2>7. Cardinality(Upto(n)) = Times(bodies, b)
    BY <1>0 DEF Times
  <2>8. Times(f[n], x) =< Cardinality(Upto(n))
    BY <2>6
  <2> HIDE DEF Upto, n
  <2> QED BY <2>1, <2>7, <2>8
<1> QED BY <1>1, <1>2
-----------------------------------------------------------------------------
(* The sync of issues and hotspots: what is true all along.                *)

\* The provers do not know that a quoted name is a string.
Text == STRING \cup {Marker, Former, "theirs", "link"}
States == {"OPEN", "CONFIRMED", "ACCEPTED", "FALSE_POSITIVE"}
CommentType == [from : Source \cup {0}, body : Text]
IssueType == [state : States, comments : Seq(CommentType), tags : SUBSET Text]
CallType == [op : {"transition"}, to : States] \cup [op : {"comment"}, says : CommentType]
               \cup [op : {"tags"}, set : SUBSET Text]

SyncTypes ==
    /\ world \in Worlds
    /\ cloud \in [DOMAIN world.cloud -> IssueType]
    /\ indexed \subseteq DOMAIN cloud
    /\ DOMAIN index \subseteq DOMAIN cloud /\ \A c \in DOMAIN index : index[c] \in IssueType
    /\ stage \in {"idle", "waiting", "syncing", "over"}
    /\ todo \in [Source -> Seq(CallType)]
    /\ pc \in [Source -> {"waiting", "calling"} \cup Outcomes]
    /\ target \in [Source -> CloudIssue \cup {None}]
    /\ history \in [before : [DOMAIN world.cloud -> SUBSET Text],
                    broken : SUBSET CloudIssue, edited : SUBSET CloudIssue,
                    writers : [DOMAIN world.cloud -> SUBSET Source], blind : BOOLEAN]

\* The numbers, and the names of tags.
SyncBounds ==
    /\ tries \in 0..MaxTries /\ runs \in 0..MaxRuns
    /\ faults \in 0..MaxFaults /\ edits \in 0..MaxEdits
    /\ Cardinality(Active) <= Slots
TagsAreKnown ==
    /\ \A c \in DOMAIN cloud : cloud[c].tags \subseteq Tag
    /\ \A c \in DOMAIN index : index[c].tags \subseteq Tag
    /\ \A s \in Source : \A i \in DOMAIN todo[s] : todo[s][i].op = "tags" => todo[s][i].set \subseteq Tag

\* Outside of the calls nothing is to be done, and who is visited was selected.
InStages ==
    /\ stage # "syncing" => DOMAIN index = {} /\ \A s \in Source : pc[s] = "waiting"
    /\ \A s \in Source : pc[s] # "calling" => todo[s] = <<>>
    /\ \A s \in Source : stage = "syncing" /\ pc[s] = "waiting" => s \in Visited
    /\ \A s \in Source : pc[s] = "calling" =>
          todo[s] # <<>> /\ target[s] \in DOMAIN cloud /\ s \in Visited

\* The calls still to make for a finding: the tags come last and keep what was
\* there; a marked issue gets comments only; an acknowledged one no transition.
CallIsSafe(s, i) ==
    LET call == todo[s][i]
        before == history.before[target[s]]
    IN  /\ call.op = "tags" => i = Len(todo[s]) /\ before \subseteq call.set
        /\ call.op = "transition" =>
              call.to = Wanted(s) /\ call.to # "OPEN" /\ (Hotspots => Category(s) = "eligible")
        /\ call.op = "comment" => call.says = Link \/ call.says.from = s
        /\ ~Hotspots /\ Marker \in before => call.op = "comment"
OnlySafe(s) == pc[s] = "calling" => \A i \in DOMAIN todo[s] : CallIsSafe(s, i)
CallsAreSafe == \A s \in Source : OnlySafe(s)

\* What hotspots were fetched as: the tags and comments are there still, and a
\* finding that waits has written nothing since.
Old(c) ==
    /\ history.before[c] \subseteq index[c].tags
    /\ \A i \in DOMAIN index[c].comments : \E j \in DOMAIN cloud[c].comments :
          cloud[c].comments[j] = index[c].comments[i]
    /\ \A s \in Source, j \in DOMAIN cloud[c].comments :
          pc[s] = "waiting" /\ cloud[c].comments[j].from = s =>
             \E i \in DOMAIN index[c].comments : cloud[c].comments[j] = index[c].comments[i]
IndexIsOld == \A c \in DOMAIN index : Old(c)

\* A comment of a finding is there, or about to be, as often as it is replayed.
Said(s, body) == [from |-> s, body |-> body]
Ahead(s, c, body) == IF pc[s] = "calling" /\ target[s] = c THEN Times(todo[s], Comment(s, body)) ELSE 0
Once(c, s) ==
    \A body \in Text :
       Times(cloud[c].comments, Said(s, body)) + Ahead(s, c, body) <= Times(Capped(CommentsOf(s)), body)
OncePerFinding == \A c \in DOMAIN cloud, s \in Source : Once(c, s)

\* Nothing of the review, or none of the comments, is to be replayed.
NoComments(s) == Hotspots /\ ~HasUserComment(s) /\ Category(s) # "eligible"
NoReview(s, c) == Transition(s, c) = <<>> \/ (Hotspots /\ Category(s) # "eligible")

\* What the marker says, while only one finding writes to the issue and
\* nothing goes wrong with it.
Alone(s, c) == history.writers[c] \subseteq {s} /\ c \notin history.broken \cup history.edited
WillTag(s, c) == pc[s] = "calling" /\ target[s] = c /\ \E i \in DOMAIN todo[s] : todo[s][i].op = "tags"
HoldsBody(c, body) == \E i \in DOMAIN cloud[c].comments : cloud[c].comments[i].body = body
WillHold(s, c) ==
    /\ \/ NoReview(s, c)
       \/ cloud[c].state = Wanted(s)
       \/ \E i \in DOMAIN todo[s] : todo[s][i].op = "transition"
    /\ \/ NoComments(s)
       \/ \A n \in DOMAIN Capped(CommentsOf(s)) :
             \/ HoldsBody(c, Capped(CommentsOf(s))[n])
             \/ \E i \in DOMAIN todo[s] : todo[s][i] = Comment(s, Capped(CommentsOf(s))[n])
Holds(s, c) ==
    /\ NoReview(s, c) \/ cloud[c].state = Wanted(s)
    /\ NoComments(s) \/ \A n \in DOMAIN Capped(CommentsOf(s)) : HoldsBody(c, Capped(CommentsOf(s))[n])
Earned(s, c) ==
    Alone(s, c) =>
       /\ WillTag(s, c) => WillHold(s, c)
       /\ cloud[c].state \in {"OPEN", Wanted(s)}
       /\ history.writers[c] = {} => Marker \notin cloud[c].tags
       /\ Marker \in cloud[c].tags => Holds(s, c)
MarkerIsEarned == \A c \in DOMAIN cloud, s \in Source : Earned(s, c)

SyncIInv ==
    /\ SyncTypes /\ SyncBounds /\ TagsAreKnown /\ InStages /\ TagsSurvive /\ NotBlind
    /\ CallsAreSafe /\ IndexIsOld /\ OncePerFinding /\ MarkerIsEarned


LEMMA WorldTypes ==
    ASSUME world \in Worlds
    PROVE  /\ \A s \in Source :
                /\ Of(s).comments \in Seq(Text) /\ Of(s).tags \in SUBSET Text
                /\ Hotspots => Of(s).review \in DOMAIN Caution
           /\ DOMAIN world.cloud \subseteq CloudIssue
           /\ \A c \in DOMAIN world.cloud :
                world.cloud[c].tags \in SUBSET Text /\ Marker \notin world.cloud[c].tags
           /\ NothingSubmitted => DOMAIN world.cloud = {}
<1>1. \A seq \in Seq(STRING) : seq \in Seq(Text)
  BY DEF Text
<1>2. \A set \in SUBSET STRING : set \in SUBSET Text
  BY DEF Text
<1>3. \A s \in Source :
        /\ world.source[s].comments \in Seq(STRING) /\ world.source[s].tags \in SUBSET STRING
        /\ world.kind = "hotspot" => world.source[s].review \in DOMAIN Caution
  BY SyncAssumption
<1>4. ASSUME NEW s \in Source
      PROVE  /\ Of(s).comments \in Seq(Text) /\ Of(s).tags \in SUBSET Text
             /\ Hotspots => Of(s).review \in DOMAIN Caution
  <2> HIDE DEF Text
  <2> QED BY <1>1, <1>2, <1>3 DEF Of, Hotspots
<1>5. DOMAIN world.cloud \subseteq CloudIssue /\ (NothingSubmitted => DOMAIN world.cloud = {})
  BY SyncAssumption DEF NothingSubmitted
<1>6. ASSUME NEW c \in DOMAIN world.cloud
      PROVE  world.cloud[c].tags \in SUBSET Text /\ Marker \notin world.cloud[c].tags
  <2>1. world.cloud[c].tags \in SUBSET STRING /\ Marker \notin world.cloud[c].tags
    BY SyncAssumption
  <2> QED BY <1>2, <2>1
<1> QED BY <1>4, <1>5, <1>6

LEMMA SourceIs ==
    /\ IsFiniteSet(Source) /\ Source = 1 .. Cardinality(Source) /\ Cardinality(Source) \in Nat
    /\ 0 \notin Source /\ Source \subseteq Int
<1>1. IsFiniteSet(Source) /\ Source = 1 .. Cardinality(Source)
  BY SyncAssumption
<1>2. Cardinality(Source) \in Nat
  BY <1>1, FS_CardinalityType
<1>3. 0 \notin Source /\ Source \subseteq Int
  BY <1>1, <1>2
<1> QED BY <1>1, <1>2, <1>3

LEMMA SyncNumbers ==
    /\ MaxIssueComments \in Nat \ {0} /\ Slots \in Nat \ {0} /\ MaxTries \in Nat \ {0}
    /\ MaxRuns \in Nat \ {0} /\ MaxFaults \in Nat /\ MaxEdits \in Nat
    /\ IsFiniteSet(CloudIssue) /\ None \notin CloudIssue
BY SyncAssumption

LEMMA CommentsType ==
    ASSUME world \in Worlds, NEW s \in Source
    PROVE  CommentsOf(s) \in Seq(Text) /\ Capped(CommentsOf(s)) \in Seq(Text)
<1>1. \A t \in Source : Of(t).comments \in Seq(Text)
  BY WorldTypes
<1> DEFINE n == Cardinality(Source)
           ss == [t \in 1 .. n |-> IF t \in AcrossBranches(s) \ {s} THEN Of(t).comments ELSE <<>>]
<1>2. n \in Nat /\ Source = 1 .. n
  BY SourceIs
<1>3. ss \in Seq(Seq(Text))
  <2>0. <<>> \in Seq(Text)
    OBVIOUS
  <2>1. \A t \in 1 .. n : (IF t \in AcrossBranches(s) \ {s} THEN Of(t).comments ELSE <<>>) \in Seq(Text)
    BY <1>1, <1>2, <2>0, Zenon
  <2> HIDE DEF n
  <2> QED BY <1>2, <2>1
<1>4. FlattenSeq(ss) \in Seq(Text)
  <2> HIDE DEF ss
  <2> QED BY <1>3, Flattened
<1>5. CommentsOfAll(s) \in Seq(Text)
  <2>1. CommentsOfAll(s) = Of(s).comments \o FlattenSeq(ss)
    BY DEF CommentsOfAll
  <2> HIDE DEF ss
  <2> QED BY <1>1, <1>4, <2>1
<1>6. CommentsOf(s) \in Seq(Text)
  BY <1>1, <1>5 DEF CommentsOf
<1>7. ASSUME NEW seq \in Seq(Text) PROVE Capped(seq) \in Seq(Text)
  <2>1. CASE Len(seq) <= MaxIssueComments
    BY <2>1 DEF Capped
  <2>2. CASE ~(Len(seq) <= MaxIssueComments)
    <3> DEFINE k == Len(seq) - MaxIssueComments + 1
    <3>1. k \in 1 .. Len(seq) + 1 /\ Len(seq) \in 1 - 1 .. Len(seq) /\ k \in Int
      BY <2>2, SyncNumbers
    <3>2. \A i \in k .. Len(seq) : seq[i] \in Text
      BY <3>1
    <3> HIDE DEF k
    <3>3. SubSeq(seq, k, Len(seq)) \in Seq(Text)
      BY <3>1, <3>2
    <3> QED BY <2>2, <3>3 DEF Capped, k
  <2> QED BY <2>1, <2>2
<1> QED BY <1>6, <1>7

LEMMA WantedType == ASSUME NEW s PROVE Wanted(s) \in States
BY DEF Wanted, States

\* The comment calls for a finding: what is not there yet, once for each.
LEMMA CommentsAre ==
    ASSUME world \in Worlds, NEW s \in Source, NEW seen
    PROVE  LET bodies == Capped(CommentsOf(s)) IN
           /\ Comments(s, seen) \in Seq([op : {"comment"}, says : CommentType])
           /\ \A call \in ToSet(Comments(s, seen)) : \E b \in Text :
                 call = Comment(s, b) /\ ~AlreadyMigrated(b, seen)
           /\ \A n \in DOMAIN bodies :
                 AlreadyMigrated(bodies[n], seen) \/ Comment(s, bodies[n]) \in ToSet(Comments(s, seen))
           /\ \A b \in Text : Times(Comments(s, seen), Comment(s, b)) =< Times(bodies, b)
<1> DEFINE bodies == Capped(CommentsOf(s))
           Calls2 == [op : {"comment"}, says : CommentType]
           ss == [i \in DOMAIN bodies |->
                    IF AlreadyMigrated(bodies[i], seen) THEN <<>> ELSE <<Comment(s, bodies[i])>>]
<1>1. bodies \in Seq(Text)
  BY CommentsType
<1>2. Comments(s, seen) = FlattenSeq(ss)
  BY DEF Comments
<1>3. \A b \in Text : Comment(s, b) \in Calls2
  BY DEF Comment, CommentType
<1> HIDE DEF bodies, Calls2
<1>4. DOMAIN bodies = 1 .. Len(bodies) /\ Len(bodies) \in Nat /\ \A i \in DOMAIN bodies : bodies[i] \in Text
  BY <1>1
<1>5. \A i \in DOMAIN bodies : ss[i] = IF AlreadyMigrated(bodies[i], seen) THEN <<>> ELSE <<Comment(s, bodies[i])>>
  OBVIOUS
<1>6. ss \in Seq(Seq(Calls2)) /\ DOMAIN ss = DOMAIN bodies
  <2>1. \A i \in 1 .. Len(bodies) :
          (IF AlreadyMigrated(bodies[i], seen) THEN <<>> ELSE <<Comment(s, bodies[i])>>) \in Seq(Calls2)
    <3>1. <<>> \in Seq(Calls2)
      OBVIOUS
    <3>2. \A x \in Calls2 : <<x>> \in Seq(Calls2)
      OBVIOUS
    <3> QED BY <1>3, <1>4, <3>1, <3>2, Zenon
  <2> QED BY <1>4, <2>1
<1> HIDE DEF ss
<1>7. /\ FlattenSeq(ss) \in Seq(Calls2)
      /\ \A x : x \in ToSet(FlattenSeq(ss)) <=> \E i \in DOMAIN ss : x \in ToSet(ss[i])
  BY <1>6, Flattened
<1>8. \A x, y : (x \in ToSet(<<y>>) <=> x = y) /\ x \notin ToSet(<<>>)
  BY DEF ToSet
<1>9. ASSUME NEW call \in ToSet(FlattenSeq(ss))
      PROVE  \E b \in Text : call = Comment(s, b) /\ ~AlreadyMigrated(b, seen)
  <2>1. PICK i \in DOMAIN bodies : call \in ToSet(ss[i])
    BY <1>6, <1>7
  <2>2. call = Comment(s, bodies[i]) /\ ~AlreadyMigrated(bodies[i], seen)
    BY <1>5, <1>8, <2>1
  <2> QED BY <1>4, <2>2
<1>10. ASSUME NEW n \in DOMAIN bodies
       PROVE  AlreadyMigrated(bodies[n], seen) \/ Comment(s, bodies[n]) \in ToSet(FlattenSeq(ss))
  BY <1>5, <1>6, <1>7, <1>8
<1>11. ASSUME NEW b \in Text PROVE Times(FlattenSeq(ss), Comment(s, b)) =< Times(bodies, b)
  <2>1. ASSUME NEW i \in DOMAIN ss
        PROVE  Times(ss[i], Comment(s, b)) =< (IF bodies[i] = b THEN 1 ELSE 0)
    <3>1. Comment(s, bodies[i]) = Comment(s, b) => bodies[i] = b
      BY DEF Comment
    <3>2. Times(<<Comment(s, bodies[i])>>, Comment(s, b))
            = (IF Comment(s, bodies[i]) = Comment(s, b) THEN 1 ELSE 0)
      BY TimesOne
    <3>3. Times(<<>>, Comment(s, b)) = 0
      BY TimesOne
    <3>4. CASE AlreadyMigrated(bodies[i], seen)
      BY <1>5, <1>6, <3>3, <3>4
    <3>5. CASE ~AlreadyMigrated(bodies[i], seen)
      <4>1. ss[i] = <<Comment(s, bodies[i])>>
        BY <1>5, <1>6, <3>5
      <4>2. Times(ss[i], Comment(s, b)) = IF Comment(s, bodies[i]) = Comment(s, b) THEN 1 ELSE 0
        BY <3>2, <4>1
      <4>3. CASE Comment(s, bodies[i]) = Comment(s, b)
        <5>1. bodies[i] = b
          BY <3>1, <4>3
        <5>2. Times(ss[i], Comment(s, b)) = 1
          BY <4>2, <4>3
        <5> QED BY <5>1, <5>2
      <4>4. CASE Comment(s, bodies[i]) # Comment(s, b)
        BY <4>2, <4>4
      <4> QED BY <4>3, <4>4
    <3> QED BY <3>4, <3>5
  <2> QED BY <1>1, <1>6, <2>1, TimesFlattened
<1> QED BY <1>2, <1>7, <1>9, <1>10, <1>11 DEF bodies, Calls2

LEMMA Regrouped ==
    ASSUME NEW V, NEW s \in Seq(V), NEW t \in Seq(V), NEW u \in Seq(V)
    PROVE  s \o (t \o u) = (s \o t) \o u
OBVIOUS

LEMMA Appended ==
    ASSUME NEW V, NEW s \in Seq(V), NEW t \in Seq(V)
    PROVE  /\ s \o t \in Seq(V) /\ Len(s \o t) = Len(s) + Len(t)
           /\ \A i \in DOMAIN (s \o t) :
                \/ i \in DOMAIN s /\ (s \o t)[i] = s[i]
                \/ i - Len(s) \in DOMAIN t /\ (s \o t)[i] = t[i - Len(s)]
           /\ <<>> \o s = s /\ s \o <<>> = s
OBVIOUS

TransitionTo(s) == [op |-> "transition", to |-> Wanted(s)]
LinkCall == [op |-> "comment", says |-> Link]
TagsCall(s, seen) == [op |-> "tags", set |-> MergedTags(s, seen)]

LEMMA Wider ==
    ASSUME NEW A, NEW B, A \subseteq B, NEW s \in Seq(A)
    PROVE  s \in Seq(B)
OBVIOUS

LEMMA CallTypes ==
    ASSUME world \in Worlds, NEW s \in Source, NEW seen, seen.tags \in SUBSET Text
    PROVE  /\ TransitionTo(s) \in CallType /\ LinkCall \in CallType /\ TagsCall(s, seen) \in CallType
           /\ \A b \in Text : Comment(s, b) \in CallType
           /\ Comments(s, seen) \in Seq(CallType)
           /\ MergedTags(s, seen) \in SUBSET Text
<1>1. TransitionTo(s) \in CallType
  BY WantedType DEF TransitionTo, CallType
<1>2. Link \in CommentType /\ LinkCall \in CallType
  <2>1. "link" \in Text
    BY DEF Text
  <2> QED BY <2>1 DEF Link, LinkCall, CallType, CommentType
<1>3. MergedTags(s, seen) \in SUBSET Text
  <2>1. Of(s).tags \in SUBSET Text /\ Marker \in Text /\ Former \in Text
    BY WorldTypes DEF Text
  <2> QED BY <2>1 DEF MergedTags
<1>4. TagsCall(s, seen) \in CallType
  BY <1>3 DEF TagsCall, CallType
<1>5. \A b \in Text : Comment(s, b) \in CallType
  BY DEF Comment, CallType, CommentType
<1>6. Comments(s, seen) \in Seq(CallType)
  <2>1. Comments(s, seen) \in Seq([op : {"comment"}, says : CommentType])
    BY CommentsAre
  <2>2. [op : {"comment"}, says : CommentType] \subseteq CallType
    BY DEF CallType
  <2> QED BY <2>1, <2>2, Wider
<1> QED BY <1>1, <1>2, <1>3, <1>4, <1>5, <1>6

\* The calls for a finding, in their order: the transition, the comments, the
\* link and the tags, each of which may be left out.
LEMMA CallsParts ==
    ASSUME world \in Worlds, NEW s \in Source, NEW c, NEW seen, seen.tags \in SUBSET Text
    PROVE  \E a, b, l, d \in Seq(CallType) :
           /\ Calls(s, c, seen) = ((a \o b) \o l) \o d
           /\ a \in {<<>>, <<TransitionTo(s)>>}
           /\ a # <<>> => Wanted(s) # "OPEN" /\ (Hotspots => Category(s) = "eligible")
           /\ b \in {<<>>, Comments(s, seen)}
           /\ l \in {<<>>, <<LinkCall>>}
           /\ d \in {<<>>, <<TagsCall(s, seen)>>}
           /\ ~Hotspots /\ Marker \in seen.tags => a = <<>> /\ b = <<>> /\ d = <<>>
           /\ d # <<>> => a # <<>> \/ NoReview(s, c)
           /\ d # <<>> => b = Comments(s, seen) \/ NoComments(s)
<1> DEFINE A == Transition(s, c)
           B == Comments(s, seen)
           L == SourceLink(seen)
           D == Tags(s, seen)
           Q == Seq(CallType)
<1>1. A \in {<<>>, <<TransitionTo(s)>>} /\ (A # <<>> => Wanted(s) # "OPEN")
  BY DEF Transition, TransitionTo
<1>2. L \in {<<>>, <<LinkCall>>}
  BY DEF SourceLink, LinkCall
<1>3. D = <<TagsCall(s, seen)>>
  BY DEF Tags, TagsCall
<1>4. A \in Q /\ B \in Q /\ L \in Q /\ D \in Q /\ <<>> \in Q
  <2>1. \A x \in CallType : <<x>> \in Q
    OBVIOUS
  <2>2. <<>> \in Q
    OBVIOUS
  <2>3. <<TransitionTo(s)>> \in Q /\ <<LinkCall>> \in Q /\ <<TagsCall(s, seen)>> \in Q /\ B \in Q
    BY <2>1, CallTypes
  <2> HIDE DEF Q, A, B, L, D
  <2> QED BY <1>1, <1>2, <1>3, <2>2, <2>3, Zenon
<1>5. NoReview(s, c) <=> A = <<>> \/ (Hotspots /\ Category(s) # "eligible")
  BY DEF NoReview
<1>6. CASE ~Hotspots
  <2>1. Calls(s, c, seen) = IF Marker \in seen.tags THEN L ELSE A \o B \o L \o D
    BY <1>6 DEF Calls, IssueCalls
  <2> HIDE DEF A, B, L, D, Q
  <2>2. CASE Marker \in seen.tags
    <3>1. L = ((<<>> \o <<>>) \o L) \o <<>>
      BY <1>4, Appended DEF Q
    <3>2. Calls(s, c, seen) = ((<<>> \o <<>>) \o L) \o <<>>
      BY <2>1, <2>2, <3>1
    <3>3. /\ <<>> \in {<<>>, <<TransitionTo(s)>>} /\ <<>> \in {<<>>, B}
          /\ <<>> \in {<<>>, <<TagsCall(s, seen)>>}
      OBVIOUS
    <3> QED BY <1>2, <1>4, <3>2, <3>3 DEF B, Q
  <2>3. CASE Marker \notin seen.tags
    <3>1. Calls(s, c, seen) = ((A \o B) \o L) \o D
      BY <2>1, <2>3
    <3>2. A # <<>> \/ NoReview(s, c)
      BY <1>5
    <3>3. B \in {<<>>, B} /\ D \in {<<>>, <<TagsCall(s, seen)>>}
      BY <1>3
    <3>4. A # <<>> => Wanted(s) # "OPEN" /\ (Hotspots => Category(s) = "eligible")
      BY <1>1, <1>6
    <3> QED BY <1>1, <1>2, <1>4, <1>6, <2>3, <3>1, <3>2, <3>3, <3>4 DEF B, Q
  <2> QED BY <2>2, <2>3
<1>7. CASE Hotspots
  <2> DEFINE A1 == IF Category(s) = "eligible" THEN A ELSE <<>>
             B1 == IF Category(s) = "eligible" \/ (Acknowledged(s) /\ HasUserComment(s)) THEN B ELSE <<>>
             L1 == IF world.fast /\ Category(s) = "excluded" THEN <<>> ELSE L
             D1 == IF world.fast /\ Category(s) = "excluded" THEN <<>> ELSE D
  <2>1. Calls(s, c, seen) = A1 \o B1 \o (IF world.fast /\ Category(s) = "excluded" THEN <<>> ELSE L \o D)
    BY <1>7 DEF Calls, HotspotCalls
  <2>2. Category(s) = "eligible" \/ (Acknowledged(s) /\ HasUserComment(s)) \/ NoComments(s)
    BY <1>7 DEF NoComments, Category
  <2> HIDE DEF A, B, L, D, Q
  <2>3. A1 \in Q /\ B1 \in Q /\ L1 \in Q /\ D1 \in Q
    BY <1>4, Zenon
  <2>4. Calls(s, c, seen) = ((A1 \o B1) \o L1) \o D1
    <3>1. CASE world.fast /\ Category(s) = "excluded"
      <4>1. A1 \o B1 \in Q
        BY <2>3, Appended DEF Q
      <4>2. (A1 \o B1) \o <<>> = A1 \o B1 /\ ((A1 \o B1) \o <<>>) \o <<>> = (A1 \o B1) \o <<>>
        BY <4>1, Appended DEF Q
      <4> HIDE DEF A1, B1
      <4> QED BY <2>1, <3>1, <4>2
    <3>2. CASE ~(world.fast /\ Category(s) = "excluded")
      <4>1. A1 \o B1 \in Q
        BY <2>3, Appended DEF Q
      <4>2. (A1 \o B1) \o (L \o D) = ((A1 \o B1) \o L) \o D
        <5> HIDE DEF A1, B1
        <5>1. L \in Seq(CallType) /\ D \in Seq(CallType) /\ A1 \o B1 \in Seq(CallType)
          BY <1>4, <4>1 DEF Q
        <5>2. \A x, y, z \in Seq(CallType) : x \o (y \o z) = (x \o y) \o z
          BY Regrouped
        <5> QED BY <5>1, <5>2, Zenon
      <4> HIDE DEF A1, B1
      <4> QED BY <2>1, <3>2, <4>2
    <3> QED BY <3>1, <3>2
  <2>5. A1 \in {<<>>, <<TransitionTo(s)>>} /\ (A1 # <<>> => Wanted(s) # "OPEN" /\ Category(s) = "eligible")
    BY <1>1
  <2>6. B1 \in {<<>>, B} /\ (B1 = B \/ NoComments(s))
    BY <2>2
  <2>7. L1 \in {<<>>, <<LinkCall>>} /\ D1 \in {<<>>, <<TagsCall(s, seen)>>}
    BY <1>2, <1>3
  <2>8. A1 # <<>> \/ NoReview(s, c)
    BY <1>5, <1>7
  <2> HIDE DEF A1, B1, L1, D1
  <2> QED BY <1>7, <2>3, <2>4, <2>5, <2>6, <2>7, <2>8 DEF B, Q
<1> QED BY <1>6, <1>7

\* Which of the four parts of q its i-th element comes from.
InPart(q, i, a, b, l, d) ==
    \/ \E j \in DOMAIN a : q[i] = a[j]
    \/ \E j \in DOMAIN b : q[i] = b[j]
    \/ \E j \in DOMAIN l : q[i] = l[j]
    \/ \E j \in DOMAIN d : q[i] = d[j] /\ i = Len(q) - Len(d) + j
HasParts(q, a, b, l, d) ==
    \A x : x \in ToSet(a) \/ x \in ToSet(b) \/ x \in ToSet(l) \/ x \in ToSet(d) => x \in ToSet(q)
AddsUp(q, a, b, l, d) == \A x : Times(q, x) = Times(a, x) + Times(b, x) + Times(l, x) + Times(d, x)

LEMMA ConcatParts ==
    ASSUME NEW V, NEW a \in Seq(V), NEW b \in Seq(V), NEW l \in Seq(V), NEW d \in Seq(V),
           NEW q, q = ((a \o b) \o l) \o d
    PROVE  /\ q \in Seq(V)
           /\ \A i \in DOMAIN q : InPart(q, i, a, b, l, d)
           /\ HasParts(q, a, b, l, d) /\ AddsUp(q, a, b, l, d)
<1> DEFINE ab == a \o b
           abl == ab \o l
<1>0. q = abl \o d
  OBVIOUS
<1>1. ab \in Seq(V) /\ abl \in Seq(V) /\ q \in Seq(V) /\ Len(q) = Len(abl) + Len(d)
      /\ Len(abl) \in Nat /\ Len(d) \in Nat
  BY <1>0
<1>2. ASSUME NEW i \in DOMAIN q
      PROVE  InPart(q, i, a, b, l, d)
  <2>1. \A j \in DOMAIN ab : (\E k \in DOMAIN a : ab[j] = a[k]) \/ (\E k \in DOMAIN b : ab[j] = b[k])
    <3>1. \A j \in DOMAIN ab : \/ j \in DOMAIN a /\ ab[j] = a[j]
                               \/ j - Len(a) \in DOMAIN b /\ ab[j] = b[j - Len(a)]
      BY Appended
    <3> HIDE DEF ab
    <3> QED BY <3>1
  <2>2. \A j \in DOMAIN abl : (\E k \in DOMAIN ab : abl[j] = ab[k]) \/ (\E k \in DOMAIN l : abl[j] = l[k])
    <3> HIDE DEF ab
    <3>1. \A j \in DOMAIN abl : \/ j \in DOMAIN ab /\ abl[j] = ab[j]
                                \/ j - Len(ab) \in DOMAIN l /\ abl[j] = l[j - Len(ab)]
      BY <1>1, Appended
    <3> HIDE DEF abl
    <3> QED BY <3>1
  <2>3. \/ i \in DOMAIN abl /\ q[i] = abl[i]
        \/ i - Len(abl) \in DOMAIN d /\ q[i] = d[i - Len(abl)]
    <3> HIDE DEF abl
    <3> QED BY <1>0, <1>1, Appended
  <2>4. i \in Int /\ Len(q) - Len(d) = Len(abl)
    <3> HIDE DEF abl
    <3> QED BY <1>1
  <2>5. CASE i \in DOMAIN abl /\ q[i] = abl[i]
    <3> HIDE DEF ab, abl
    <3> QED BY <2>1, <2>2, <2>5 DEF InPart
  <2>6. CASE i - Len(abl) \in DOMAIN d /\ q[i] = d[i - Len(abl)]
    <3> HIDE DEF ab, abl
    <3>1. i = Len(q) - Len(d) + (i - Len(abl))
      BY <1>1, <2>4
    <3> QED BY <2>6, <3>1 DEF InPart
  <2> QED BY <2>3, <2>5, <2>6
<1>3. ASSUME NEW x, x \in ToSet(a) \/ x \in ToSet(b) \/ x \in ToSet(l) \/ x \in ToSet(d)
      PROVE  x \in ToSet(q)
  <2>1. x \in ToSet(ab) <=> x \in ToSet(a) \/ x \in ToSet(b)
    BY Concatenated
  <2> HIDE DEF ab
  <2>2. x \in ToSet(abl) <=> x \in ToSet(ab) \/ x \in ToSet(l)
    BY <1>1, Concatenated
  <2> HIDE DEF abl
  <2>3. x \in ToSet(q) <=> x \in ToSet(abl) \/ x \in ToSet(d)
    BY <1>0, <1>1, Concatenated
  <2> QED BY <1>3, <2>1, <2>2, <2>3
<1>4. ASSUME NEW x PROVE Times(q, x) = Times(a, x) + Times(b, x) + Times(l, x) + Times(d, x)
  <2>1. Times(ab, x) = Times(a, x) + Times(b, x)
    BY TimesConcat
  <2> HIDE DEF ab
  <2>2. Times(abl, x) = Times(ab, x) + Times(l, x)
    BY <1>1, TimesConcat
  <2> HIDE DEF abl
  <2>3. Times(q, x) = Times(abl, x) + Times(d, x)
    BY <1>0, <1>1, TimesConcat
  <2> QED BY <2>1, <2>2, <2>3
<1> QED BY <1>1, <1>2, <1>3, <1>4 DEF HasParts, AddsUp

LEMMA CallsAre ==
    ASSUME world \in Worlds, NEW s \in Source, NEW c, NEW seen, seen.tags \in SUBSET Text
    PROVE  LET q == Calls(s, c, seen)
               bodies == Capped(CommentsOf(s)) IN
           /\ q \in Seq(CallType)
           /\ \A i \in DOMAIN q :
                /\ q[i].op = "tags" => i = Len(q) /\ q[i].set = MergedTags(s, seen)
                /\ q[i].op = "transition" =>
                      q[i].to = Wanted(s) /\ q[i].to # "OPEN" /\ (Hotspots => Category(s) = "eligible")
                /\ q[i].op = "comment" => q[i].says = Link \/ q[i].says.from = s
                /\ ~Hotspots /\ Marker \in seen.tags => q[i].op = "comment"
           /\ \A b \in Text :
                /\ Times(q, Comment(s, b)) =< Times(bodies, b)
                /\ AlreadyMigrated(b, seen) => Times(q, Comment(s, b)) = 0
           /\ (\E i \in DOMAIN q : q[i].op = "tags") =>
                /\ NoReview(s, c) \/ \E i \in DOMAIN q : q[i].op = "transition"
                /\ \/ NoComments(s)
                   \/ \A n \in DOMAIN bodies :
                        AlreadyMigrated(bodies[n], seen) \/ \E i \in DOMAIN q : q[i] = Comment(s, bodies[n])
<1> DEFINE q == Calls(s, c, seen)
           bodies == Capped(CommentsOf(s))
           Q == Seq(CallType)
<1>1. PICK a, b, l, d \in Seq(CallType) :
           /\ q = ((a \o b) \o l) \o d
           /\ a \in {<<>>, <<TransitionTo(s)>>}
           /\ a # <<>> => Wanted(s) # "OPEN" /\ (Hotspots => Category(s) = "eligible")
           /\ b \in {<<>>, Comments(s, seen)}
           /\ l \in {<<>>, <<LinkCall>>}
           /\ d \in {<<>>, <<TagsCall(s, seen)>>}
           /\ ~Hotspots /\ Marker \in seen.tags => a = <<>> /\ b = <<>> /\ d = <<>>
           /\ d # <<>> => a # <<>> \/ NoReview(s, c)
           /\ d # <<>> => b = Comments(s, seen) \/ NoComments(s)
  BY CallsParts
<1> HIDE DEF q
<1>2. /\ q \in Seq(CallType)
      /\ \A i \in DOMAIN q : InPart(q, i, a, b, l, d)
      /\ HasParts(q, a, b, l, d) /\ AddsUp(q, a, b, l, d)
  <2>1. q = ((a \o b) \o l) \o d
    BY <1>1
  <2>2. a \in Seq(CallType) /\ b \in Seq(CallType) /\ l \in Seq(CallType) /\ d \in Seq(CallType)
    BY <1>1
  <2> QED BY <2>1, <2>2, ConcatParts
<1>3. \A j \in DOMAIN a : a[j] = TransitionTo(s) /\ a # <<>>
  BY <1>1
<1>4. ASSUME NEW j \in DOMAIN b
      PROVE  \E x \in Text : b[j] = Comment(s, x) /\ ~AlreadyMigrated(x, seen) /\ b # <<>>
  <2>1. b = Comments(s, seen) /\ b # <<>>
    BY <1>1
  <2>2. b[j] \in ToSet(Comments(s, seen))
    BY <2>1 DEF ToSet
  <2> QED BY <2>1, <2>2, CommentsAre
<1>5. \A j \in DOMAIN l : l[j] = LinkCall
  BY <1>1
<1>6. \A j \in DOMAIN d : d[j] = TagsCall(s, seen) /\ d # <<>> /\ Len(d) = 1 /\ j = 1
  BY <1>1
<1>7. \A x : /\ TransitionTo(s).op = "transition" /\ TransitionTo(s).to = Wanted(s)
             /\ Comment(s, x).op = "comment" /\ Comment(s, x).says.from = s
             /\ LinkCall.op = "comment" /\ LinkCall.says = Link
             /\ TagsCall(s, seen).op = "tags" /\ TagsCall(s, seen).set = MergedTags(s, seen)
  BY DEF TransitionTo, Comment, LinkCall, TagsCall
<1>8. ASSUME NEW i \in DOMAIN q
      PROVE  /\ q[i].op = "tags" => i = Len(q) /\ q[i].set = MergedTags(s, seen)
             /\ q[i].op = "transition" =>
                      q[i].to = Wanted(s) /\ q[i].to # "OPEN" /\ (Hotspots => Category(s) = "eligible")
             /\ q[i].op = "comment" => q[i].says = Link \/ q[i].says.from = s
             /\ ~Hotspots /\ Marker \in seen.tags => q[i].op = "comment"
  <2>1. CASE \E j \in DOMAIN a : q[i] = a[j]
    BY <1>1, <1>3, <1>7, <2>1
  <2>2. CASE \E j \in DOMAIN b : q[i] = b[j]
    BY <1>4, <1>7, <2>2
  <2>3. CASE \E j \in DOMAIN l : q[i] = l[j]
    BY <1>5, <1>7, <2>3
  <2>4. CASE \E j \in DOMAIN d : q[i] = d[j] /\ i = Len(q) - Len(d) + j
    <3>1. q[i] = TagsCall(s, seen) /\ Len(d) = 1 /\ i = Len(q) - Len(d) + 1 /\ d # <<>>
      BY <1>6, <2>4
    <3>2. i = Len(q)
      BY <1>2, <3>1
    <3> QED BY <1>1, <1>7, <3>1, <3>2
  <2> QED BY <1>2, <2>1, <2>2, <2>3, <2>4 DEF InPart
<1>9. ASSUME NEW x \in Text PROVE Times(q, Comment(s, x)) = Times(b, Comment(s, x))
  <2>1. Comment(s, x) # TransitionTo(s) /\ Comment(s, x) # LinkCall /\ Comment(s, x) # TagsCall(s, seen)
    <3>1. Comment(s, x).op = "comment" /\ TransitionTo(s).op = "transition" /\ TagsCall(s, seen).op = "tags"
      BY <1>7
    <3>2. Comment(s, x).says.from = s /\ LinkCall.says.from = 0 /\ s # 0
      BY SourceIs DEF Comment, LinkCall, Link
    <3> QED BY <3>1, <3>2
  <2>2. \A j \in DOMAIN a : a[j] # Comment(s, x)
    BY <1>3, <2>1
  <2>3. \A j \in DOMAIN l : l[j] # Comment(s, x)
    BY <1>5, <2>1
  <2>4. \A j \in DOMAIN d : d[j] # Comment(s, x)
    BY <1>6, <2>1
  <2>5. Times(a, Comment(s, x)) = 0 /\ Times(l, Comment(s, x)) = 0 /\ Times(d, Comment(s, x)) = 0
        /\ Times(b, Comment(s, x)) \in Nat
    BY <2>2, <2>3, <2>4, TimesType
  <2>6. Times(q, Comment(s, x)) = Times(a, Comment(s, x)) + Times(b, Comment(s, x))
                                  + Times(l, Comment(s, x)) + Times(d, Comment(s, x))
    BY <1>2 DEF AddsUp
  <2> QED BY <2>5, <2>6
<1>10. ASSUME NEW x \in Text PROVE Times(b, Comment(s, x)) =< Times(bodies, x)
  <2>1. CASE b = <<>>
    <3>1. Times(<<>>, Comment(s, x)) = 0
      BY TimesOne
    <3>2. Times(bodies, x) \in Nat
      BY CommentsType, TimesType
    <3> QED BY <2>1, <3>1, <3>2
  <2>2. CASE b = Comments(s, seen)
    BY <2>2, CommentsAre
  <2> QED BY <1>1, <2>1, <2>2
<1>11. ASSUME NEW x \in Text, AlreadyMigrated(x, seen) PROVE Times(b, Comment(s, x)) = 0
  <2>1. \A y : Comment(s, y) = Comment(s, x) => y = x
    BY DEF Comment
  <2>2. \A j \in DOMAIN b : b[j] # Comment(s, x)
    BY <1>4, <1>11, <2>1
  <2> QED BY <2>2, TimesType
<1>12. ASSUME NEW i0 \in DOMAIN q, q[i0].op = "tags"
       PROVE  d # <<>>
  <2>1. InPart(q, i0, a, b, l, d)
    BY <1>2
  <2> QED BY <1>3, <1>4, <1>5, <1>6, <1>7, <1>12, <2>1 DEF InPart
<1>13. ASSUME d # <<>> PROVE NoReview(s, c) \/ \E i \in DOMAIN q : q[i].op = "transition"
  <2>1. CASE a # <<>>
    <3>1. TransitionTo(s) \in ToSet(a)
      <4>1. a = <<TransitionTo(s)>>
        BY <1>1, <2>1
      <4> QED BY <4>1 DEF ToSet
    <3>2. TransitionTo(s) \in ToSet(q)
      BY <1>2, <3>1 DEF HasParts
    <3> QED BY <1>7, <3>2 DEF ToSet
  <2> QED BY <1>1, <1>13, <2>1
<1>14. ASSUME d # <<>>, ~NoComments(s), NEW n \in DOMAIN bodies, ~AlreadyMigrated(bodies[n], seen)
       PROVE  \E i \in DOMAIN q : q[i] = Comment(s, bodies[n])
  <2>1. b = Comments(s, seen)
    BY <1>1, <1>14
  <2>2. Comment(s, bodies[n]) \in ToSet(b)
    BY <1>14, <2>1, CommentsAre
  <2>3. Comment(s, bodies[n]) \in ToSet(q)
    BY <1>2, <2>2 DEF HasParts
  <2> QED BY <2>3 DEF ToSet
<1> HIDE DEF bodies
<1>15. \A x \in Text : Times(q, Comment(s, x)) =< Times(bodies, x) /\
          (AlreadyMigrated(x, seen) => Times(q, Comment(s, x)) = 0)
  BY <1>9, <1>10, <1>11
<1>16. q \in Seq(CallType)
  BY <1>2
<1>17. (\E i \in DOMAIN q : q[i].op = "tags") =>
                /\ NoReview(s, c) \/ \E i \in DOMAIN q : q[i].op = "transition"
                /\ \/ NoComments(s)
                   \/ \A n \in DOMAIN bodies :
                        AlreadyMigrated(bodies[n], seen) \/ \E i \in DOMAIN q : q[i] = Comment(s, bodies[n])
  BY <1>12, <1>13, <1>14
<1> QED BY <1>8, <1>15, <1>16, <1>17 DEF q, bodies
-----------------------------------------------------------------------------
(* What a step that leaves things alone leaves true.                       *)

LEMMA SameWorld ==
    ASSUME world' = world
    PROVE  /\ Hotspots' = Hotspots /\ Visited' = Visited
           /\ \A s : /\ Of(s)' = Of(s) /\ Wanted(s)' = Wanted(s) /\ Category(s)' = Category(s)
                     /\ Capped(CommentsOf(s))' = Capped(CommentsOf(s)) /\ NoComments(s)' = NoComments(s)
           /\ \A s, c : NoReview(s, c)' = NoReview(s, c)
<1>1. Hotspots' = Hotspots
  BY DEF Hotspots
<1>2. \A s : Of(s)' = Of(s)
  BY DEF Of
<1>3. \A s : AcrossBranches(s)' = AcrossBranches(s)
  BY <1>2 DEF AcrossBranches, SameHotspot
<1>4. \A s : CommentsOf(s)' = CommentsOf(s)
  BY <1>1, <1>2, <1>3 DEF CommentsOf, CommentsOfAll
<1>5. \A s : Wanted(s)' = Wanted(s)
  BY <1>2 DEF Wanted
<1>6. \A s : HasUserComment(s)' = HasUserComment(s)
  BY <1>4 DEF HasUserComment
<1>7. \A s : Category(s)' = Category(s)
  BY <1>2, <1>6 DEF Category, Acknowledged
<1>8. \A s : Capped(CommentsOf(s))' = Capped(CommentsOf(s))
  BY <1>4 DEF Capped
<1>9. \A s : NoComments(s)' = NoComments(s)
  BY <1>1, <1>6, <1>7 DEF NoComments
<1>10. \A s, c : NoReview(s, c)' = NoReview(s, c)
  BY <1>1, <1>5, <1>7 DEF NoReview, Transition
<1>11. Visited' = Visited
  BY <1>1, <1>2, <1>3 DEF Visited, Stands, Precedes, Priority, HasManualChanges, UserTags
<1> QED BY <1>1, <1>2, <1>5, <1>7, <1>8, <1>9, <1>10, <1>11

LEMMA OnceSame ==
    ASSUME NEW c, NEW s, Once(c, s), world' = world, cloud'[c].comments = cloud[c].comments,
           pc'[s] = pc[s], target'[s] = target[s], todo'[s] = todo[s]
    PROVE  Once(c, s)'
<1>1. \A body : Ahead(s, c, body)' = Ahead(s, c, body)
  BY DEF Ahead, Comment
<1>2. \A body : Times(cloud[c].comments, Said(s, body))' = Times(cloud[c].comments, Said(s, body))
  BY DEF Said, Times
<1>3. \A body : Times(Capped(CommentsOf(s)), body)' = Times(Capped(CommentsOf(s)), body)
  <2>1. Capped(CommentsOf(s))' = Capped(CommentsOf(s))
    BY SameWorld
  <2> QED BY <2>1 DEF Times
<1> QED BY <1>1, <1>2, <1>3 DEF Once, Text

\* Nothing more is pending for a finding.
LEMMA OnceIdle ==
    ASSUME NEW c, NEW s \in Source, Once(c, s), world \in Worlds, world' = world, cloud'[c].comments = cloud[c].comments,
           cloud[c].comments \in Seq(CommentType), todo[s] \in Seq(CallType),
           ~(pc'[s] = "calling" /\ target'[s] = c)
    PROVE  Once(c, s)'
<1>1. \A body : Ahead(s, c, body)' = 0
  BY DEF Ahead
<1>2. \A body : Times(cloud[c].comments, Said(s, body))' = Times(cloud[c].comments, Said(s, body))
  BY DEF Said, Times
<1>3. \A body : Times(Capped(CommentsOf(s)), body)' = Times(Capped(CommentsOf(s)), body)
  <2>1. Capped(CommentsOf(s))' = Capped(CommentsOf(s))
    BY SameWorld
  <2> QED BY <2>1 DEF Times
<1> SUFFICES ASSUME NEW body \in Text
    PROVE  Times(cloud[c].comments, Said(s, body)) <= Times(Capped(CommentsOf(s)), body)
  <2>1. \A body \in Text : Times(cloud[c].comments, Said(s, body)) \in Nat
    BY TimesType
  <2> QED BY <1>1, <1>2, <1>3, <2>1 DEF Once, Text
<1>4. Times(cloud[c].comments, Said(s, body)) + Ahead(s, c, body) <= Times(Capped(CommentsOf(s)), body)
  BY DEF Once
<1>5. Ahead(s, c, body) \in Nat
  BY TimesType DEF Ahead
<1>6. Times(cloud[c].comments, Said(s, body)) \in Nat
  BY TimesType
<1>7. Times(cloud[c].comments, Said(s, body)) <= Times(Capped(CommentsOf(s)), body)
  <2>1. Times(Capped(CommentsOf(s)), body) \in Nat
    BY CommentsType, TimesType
  <2> QED BY <1>4, <1>5, <1>6, <2>1
<1> QED BY <1>7

LEMMA EarnedSame ==
    ASSUME NEW c, NEW s, Earned(s, c), world' = world, cloud'[c] = cloud[c],
           history'.writers[c] = history.writers[c],
           c \in history.broken \cup history.edited => c \in history'.broken \cup history'.edited,
           \/ pc'[s] = pc[s] /\ target'[s] = target[s] /\ todo'[s] = todo[s]
           \/ ~(pc'[s] = "calling" /\ target'[s] = c)
    PROVE  Earned(s, c)'
<1>1. Alone(s, c)' => Alone(s, c)
  BY DEF Alone
<1>2. Holds(s, c)' = Holds(s, c)
  BY SameWorld DEF Holds, HoldsBody
<1>3. WillTag(s, c)' => WillTag(s, c) /\ WillHold(s, c)' = WillHold(s, c)
  <2>1. CASE pc'[s] = pc[s] /\ target'[s] = target[s] /\ todo'[s] = todo[s]
    <3>1. WillTag(s, c)' = WillTag(s, c)
      BY <2>1 DEF WillTag
    <3>2. WillHold(s, c)' = WillHold(s, c)
      BY <2>1, SameWorld DEF WillHold, HoldsBody, Comment
    <3> QED BY <3>1, <3>2
  <2>2. CASE ~(pc'[s] = "calling" /\ target'[s] = c)
    BY <2>2 DEF WillTag
  <2> QED BY <2>1, <2>2
<1>4. Wanted(s)' = Wanted(s)
  BY SameWorld
<1> QED BY <1>1, <1>2, <1>3, <1>4 DEF Earned

LEMMA OnlySafeSame ==
    ASSUME NEW s, OnlySafe(s), world' = world,
           pc'[s] = pc[s] /\ target'[s] = target[s] /\ todo'[s] = todo[s],
           history'.before = history.before
    PROVE  OnlySafe(s)'
<1>1. \A i : CallIsSafe(s, i)' = CallIsSafe(s, i)
  BY SameWorld DEF CallIsSafe, Link
<1> QED BY <1>1 DEF OnlySafe

LEMMA TagSame == ASSUME world' = world, DOMAIN cloud' = DOMAIN cloud PROVE Tag' = Tag
BY DEF Tag, Of
-----------------------------------------------------------------------------
(* The steps of the run itself.                                            *)

LEMMA SyncDomains ==
    ASSUME SyncTypes
    PROVE  /\ DOMAIN cloud = DOMAIN world.cloud /\ DOMAIN cloud \subseteq CloudIssue
           /\ \A c \in DOMAIN cloud :
                cloud[c] \in IssueType /\ cloud[c].comments \in Seq(CommentType) /\ cloud[c].tags \in SUBSET Text
           /\ \A s \in Source : todo[s] \in Seq(CallType)
<1>1. world \in Worlds /\ cloud \in [DOMAIN world.cloud -> IssueType] /\ todo \in [Source -> Seq(CallType)]
  BY DEF SyncTypes
<1>2. DOMAIN world.cloud \subseteq CloudIssue
  BY <1>1, WorldTypes
<1>3. \A c \in DOMAIN cloud : cloud[c] \in IssueType
  BY <1>1
<1>4. \A i \in IssueType : i.comments \in Seq(CommentType) /\ i.tags \in SUBSET Text
  BY DEF IssueType
<1> QED BY <1>1, <1>2, <1>3, <1>4

LEMMA NobodyActs ==
    ASSUME \A s \in Source : pc[s] # "calling"
    PROVE  Cardinality(Active) <= Slots
<1>1. Active = {}
  BY DEF Active
<1> QED BY <1>1, FS_EmptySet, SyncNumbers

\* A run ends, and its state is forgotten.
LEMMA Forgets ==
    ASSUME SyncIInv, Forgotten, stage' = "over", UNCHANGED <<world, cloud, indexed, history>>,
           runs' \in 0..MaxRuns, faults' \in 0..MaxFaults, edits' = edits
    PROVE  SyncIInv'
<1>1. SyncTypes /\ SyncBounds /\ TagsAreKnown /\ InStages /\ TagsSurvive /\ NotBlind
      /\ CallsAreSafe /\ IndexIsOld /\ OncePerFinding /\ MarkerIsEarned
  BY DEF SyncIInv
<1>2. /\ tries' = 0 /\ DOMAIN index' = {} /\ index' = <<>>
      /\ \A s \in Source : pc'[s] = "waiting" /\ todo'[s] = <<>>
      /\ pc' \in [Source -> {"waiting", "calling"} \cup Outcomes]
      /\ todo' \in [Source -> Seq(CallType)]
      /\ target' \in [Source -> CloudIssue \cup {None}]
  BY DEF Forgotten
<1>3. SyncTypes'
  BY <1>1, <1>2 DEF SyncTypes, IssueType, CallType, CommentType, Text, Outcomes
<1>4. SyncBounds'
  <2>1. (Cardinality(Active) <= Slots)'
    <3>1. Active' = {}
      BY <1>2 DEF Active
    <3> QED BY <3>1, FS_EmptySet, SyncNumbers
  <2>2. tries' \in 0..MaxTries
    BY <1>2, SyncNumbers
  <2> QED BY <1>1, <2>1, <2>2 DEF SyncBounds
<1>5. TagsAreKnown'
  BY <1>1, <1>2, TagSame DEF TagsAreKnown
<1>6. InStages'
  BY <1>2 DEF InStages
<1>7. TagsSurvive' /\ NotBlind'
  BY <1>1 DEF TagsSurvive, NotBlind
<1>8. CallsAreSafe'
  BY <1>2 DEF CallsAreSafe, OnlySafe
<1>9. IndexIsOld'
  BY <1>2 DEF IndexIsOld
<1>10. OncePerFinding'
  <2> SUFFICES ASSUME NEW c \in DOMAIN cloud, NEW s \in Source PROVE Once(c, s)'
    BY DEF OncePerFinding
  <2>1. Once(c, s) /\ cloud[c].comments \in Seq(CommentType) /\ todo[s] \in Seq(CallType) /\ world \in Worlds
    BY <1>1, SyncDomains DEF OncePerFinding, SyncTypes
  <2> QED BY <1>2, <2>1, OnceIdle
<1>11. MarkerIsEarned'
  <2> SUFFICES ASSUME NEW c \in DOMAIN cloud, NEW s \in Source PROVE Earned(s, c)'
    BY DEF MarkerIsEarned
  <2>1. Earned(s, c)
    BY <1>1 DEF MarkerIsEarned
  <2> QED BY <1>2, <2>1, EarnedSame
<1> QED BY <1>3, <1>4, <1>5, <1>6, <1>7, <1>8, <1>9, <1>10, <1>11 DEF SyncIInv

\* The wait is over, and with it the candidates of the hotspots are fetched.
LEMMA GoesOn ==
    ASSUME SyncIInv, stage = "waiting", stage' = "syncing",
           UNCHANGED <<world, cloud, indexed, todo, target, runs, edits>>,
           history' = [history EXCEPT !.blind = FALSE],
           DOMAIN index' \subseteq indexed, \A c \in DOMAIN index' : index'[c] = cloud[c],
           pc' \in [Source -> {"waiting", "unvisited"}],
           \A s \in Source : pc'[s] = "waiting" => s \in Visited,
           tries' \in 0..MaxTries, faults' \in 0..MaxFaults
    PROVE  SyncIInv'
<1>1. SyncTypes /\ SyncBounds /\ TagsAreKnown /\ InStages /\ TagsSurvive /\ NotBlind
      /\ CallsAreSafe /\ IndexIsOld /\ OncePerFinding /\ MarkerIsEarned
  BY DEF SyncIInv
<1>2. \A s \in Source : pc'[s] # "calling" /\ pc[s] = "waiting" /\ todo[s] = <<>>
  BY <1>1 DEF InStages
<1>3. /\ history'.before = history.before /\ history'.broken = history.broken
      /\ history'.edited = history.edited /\ history'.writers = history.writers /\ history'.blind = FALSE
      /\ history' \in [before : [DOMAIN world.cloud -> SUBSET Text],
                       broken : SUBSET CloudIssue, edited : SUBSET CloudIssue,
                       writers : [DOMAIN world.cloud -> SUBSET Source], blind : BOOLEAN]
  BY <1>1 DEF SyncTypes
<1>4. SyncTypes'
  <2>1. pc' \in [Source -> {"waiting", "calling"} \cup Outcomes]
    BY DEF Outcomes
  <2>2. DOMAIN index' \subseteq DOMAIN cloud /\ \A c \in DOMAIN index' : index'[c] \in IssueType
    BY <1>1, SyncDomains DEF SyncTypes
  <2> QED BY <1>1, <1>3, <2>1, <2>2 DEF SyncTypes, IssueType, CallType, CommentType, Text, Outcomes
<1>5. SyncBounds'
  <2>1. (Cardinality(Active) <= Slots)'
    <3>1. Active' = {}
      BY <1>2 DEF Active
    <3> QED BY <3>1, FS_EmptySet, SyncNumbers
  <2> QED BY <1>1, <2>1 DEF SyncBounds
<1>6. TagsAreKnown'
  <2>1. \A c \in DOMAIN index' : c \in DOMAIN cloud
    BY <1>1 DEF SyncTypes
  <2> QED BY <1>1, <1>2, <2>1, TagSame DEF TagsAreKnown
<1>7. InStages'
  BY <1>2, SameWorld DEF InStages
<1>8. TagsSurvive' /\ NotBlind'
  BY <1>1, <1>3 DEF TagsSurvive, NotBlind
<1>9. CallsAreSafe'
  BY <1>2 DEF CallsAreSafe, OnlySafe
<1>10. IndexIsOld'
  <2> SUFFICES ASSUME NEW c \in DOMAIN index' PROVE Old(c)'
    BY DEF IndexIsOld
  <2>1. c \in DOMAIN cloud /\ index'[c] = cloud[c] /\ history.before[c] \subseteq cloud[c].tags
    BY <1>1 DEF SyncTypes, TagsSurvive
  <2> QED BY <1>3, <2>1 DEF Old
<1>11. OncePerFinding'
  <2> SUFFICES ASSUME NEW c \in DOMAIN cloud, NEW s \in Source PROVE Once(c, s)'
    BY DEF OncePerFinding
  <2>1. Once(c, s) /\ cloud[c].comments \in Seq(CommentType) /\ todo[s] \in Seq(CallType) /\ world \in Worlds
    BY <1>1, SyncDomains DEF OncePerFinding, SyncTypes
  <2> QED BY <1>2, <2>1, OnceIdle
<1>12. MarkerIsEarned'
  <2> SUFFICES ASSUME NEW c \in DOMAIN cloud, NEW s \in Source PROVE Earned(s, c)'
    BY DEF MarkerIsEarned
  <2>1. Earned(s, c)
    BY <1>1 DEF MarkerIsEarned
  <2> QED BY <1>2, <1>3, <2>1, EarnedSame
<1> QED BY <1>4, <1>5, <1>6, <1>7, <1>8, <1>9, <1>10, <1>11, <1>12 DEF SyncIInv

LEMMA StartKeeps ==
    ASSUME SyncIInv, Start
    PROVE  SyncIInv'
<1>1. SyncTypes /\ SyncBounds /\ TagsAreKnown /\ InStages /\ TagsSurvive /\ NotBlind
      /\ CallsAreSafe /\ IndexIsOld /\ OncePerFinding /\ MarkerIsEarned
  BY DEF SyncIInv
<1>2. /\ stage # "syncing" /\ stage' \in {"over", "waiting"} /\ runs < MaxRuns /\ runs' = runs + 1
      /\ history' = [history EXCEPT !.before = [c \in DOMAIN cloud |-> cloud[c].tags]]
      /\ UNCHANGED <<world, indexed, edits, cloud, tries, index, todo, pc, target, faults>>
  BY DEF Start, outside, items
<1>3. DOMAIN index = {} /\ \A s \in Source : pc[s] = "waiting" /\ todo[s] = <<>>
  BY <1>1, <1>2 DEF InStages
<1>4. [c \in DOMAIN cloud |-> cloud[c].tags] \in [DOMAIN world.cloud -> SUBSET Text]
  BY <1>1, SyncDomains
<1>5. /\ history'.broken = history.broken /\ history'.blind = history.blind
      /\ history'.edited = history.edited /\ history'.writers = history.writers
      /\ history'.before = [c \in DOMAIN cloud |-> cloud[c].tags]
      /\ history' \in [before : [DOMAIN world.cloud -> SUBSET Text],
                       broken : SUBSET CloudIssue, edited : SUBSET CloudIssue,
                       writers : [DOMAIN world.cloud -> SUBSET Source], blind : BOOLEAN]
  <2> DEFINE b == [c \in DOMAIN cloud |-> cloud[c].tags]
  <2> HIDE DEF b
  <2> QED BY <1>1, <1>2, <1>4 DEF SyncTypes, b
<1>6. SyncTypes'
  BY <1>1, <1>2, <1>5 DEF SyncTypes, IssueType, CallType, CommentType, Text, Outcomes
<1>7. SyncBounds'
  <2>1. Active' = Active
    BY <1>2 DEF Active
  <2> QED BY <1>1, <1>2, <2>1, SyncNumbers DEF SyncBounds
<1>8. TagsAreKnown'
  BY <1>1, <1>2, TagSame DEF TagsAreKnown
<1>9. InStages'
  BY <1>2, <1>3 DEF InStages
<1>10. TagsSurvive' /\ NotBlind'
  BY <1>1, <1>2, <1>5 DEF TagsSurvive, NotBlind
<1>11. CallsAreSafe' /\ IndexIsOld'
  BY <1>2, <1>3 DEF CallsAreSafe, OnlySafe, IndexIsOld
<1>12. OncePerFinding'
  <2> SUFFICES ASSUME NEW c \in DOMAIN cloud, NEW s \in Source PROVE Once(c, s)'
    BY <1>2 DEF OncePerFinding
  <2>1. Once(c, s)
    BY <1>1 DEF OncePerFinding
  <2> QED BY <1>2, <2>1, OnceSame
<1>13. MarkerIsEarned'
  <2> SUFFICES ASSUME NEW c \in DOMAIN cloud, NEW s \in Source PROVE Earned(s, c)'
    BY <1>2 DEF MarkerIsEarned
  <2>1. Earned(s, c)
    BY <1>1 DEF MarkerIsEarned
  <2> QED BY <1>2, <1>5, <2>1, EarnedSame
<1> QED BY <1>6, <1>7, <1>8, <1>9, <1>10, <1>11, <1>12, <1>13 DEF SyncIInv

LEMMA WaitEnds ==
    ASSUME SyncIInv, NoWait \/ GiveUpWaiting \/ (Count /\ indexed # {})
    PROVE  SyncIInv'
<1>1. SyncTypes /\ SyncBounds /\ NotBlind /\ world \in Worlds
  BY DEF SyncIInv, SyncTypes
<1>2. history \in [before : [DOMAIN world.cloud -> SUBSET Text],
                   broken : SUBSET CloudIssue, edited : SUBSET CloudIssue,
                   writers : [DOMAIN world.cloud -> SUBSET Source], blind : BOOLEAN]
  BY <1>1 DEF SyncTypes
<1>3. \E reason \in BOOLEAN :
        /\ GoOn(reason) /\ stage = "waiting" /\ UNCHANGED tries
        /\ indexed = {} /\ DOMAIN cloud # {} => reason
  <2>1. CASE NoWait
    <3>1. GoOn(FALSE) /\ stage = "waiting" /\ UNCHANGED tries /\ NothingSubmitted
      BY <2>1 DEF NoWait
    <3>2. DOMAIN cloud = {}
      BY <1>1, <3>1, WorldTypes, SyncDomains
    <3> QED BY <3>1, <3>2
  <2>2. CASE GiveUpWaiting
    BY <2>2 DEF GiveUpWaiting, Waits
  <2>3. CASE Count /\ indexed # {}
    BY <2>3 DEF Count, Waits
  <2> QED BY <2>1, <2>2, <2>3
<1>4. PICK reason \in BOOLEAN :
        /\ GoOn(reason) /\ stage = "waiting" /\ UNCHANGED tries
        /\ indexed = {} /\ DOMAIN cloud # {} => reason
  BY <1>3
<1>5. PICK failed \in SUBSET Branches :
        /\ failed # {} => Hotspots /\ faults < MaxFaults
        /\ index' = IF Hotspots THEN Fetched(failed) ELSE <<>>
        /\ faults' = IF failed = {} THEN faults ELSE faults + 1
        /\ pc' = [s \in Source |->
                     IF s \in Visited /\ Of(s).branch \notin failed THEN "waiting" ELSE "unvisited"]
  BY <1>4 DEF GoOn
<1>6. /\ stage' = "syncing"
      /\ UNCHANGED <<world, cloud, indexed, todo, target, runs, edits>>
  BY <1>4 DEF GoOn, outside
<1>7. history' = [history EXCEPT !.blind = FALSE]
  <2>1. history' = [history EXCEPT !.blind = @ \/ (indexed = {} /\ DOMAIN cloud # {} /\ ~reason)]
    BY <1>4 DEF GoOn
  <2>2. history.blind = FALSE
    BY <1>1, <1>2 DEF NotBlind
  <2>3. (history.blind \/ (indexed = {} /\ DOMAIN cloud # {} /\ ~reason)) = FALSE
    BY <1>4, <2>2
  <2> QED BY <2>1, <2>3
<1>8. DOMAIN index' \subseteq indexed /\ \A c \in DOMAIN index' : index'[c] = cloud[c]
  BY <1>5 DEF Fetched
<1>9. pc' \in [Source -> {"waiting", "unvisited"}] /\ \A s \in Source : pc'[s] = "waiting" => s \in Visited
  BY <1>5
<1>10. tries' \in 0..MaxTries /\ faults' \in 0..MaxFaults
  BY <1>1, <1>4, <1>5, SyncNumbers DEF SyncBounds
<1> QED BY <1>4, <1>6, <1>7, <1>8, <1>9, <1>10, GoesOn

LEMMA CountKeeps ==
    ASSUME SyncIInv, Count, indexed = {}
    PROVE  SyncIInv'
<1>1. SyncTypes /\ SyncBounds /\ TagsAreKnown /\ InStages /\ TagsSurvive /\ NotBlind
      /\ CallsAreSafe /\ IndexIsOld /\ OncePerFinding /\ MarkerIsEarned
  BY DEF SyncIInv
<1>2. /\ tries < MaxTries /\ tries' = tries + 1
      /\ UNCHANGED <<world, indexed, edits, stage, cloud, index, todo, pc, target, runs, faults, history>>
  BY DEF Count, Counted, outside, items
<1>3. SyncTypes'
  BY <1>1, <1>2 DEF SyncTypes, IssueType, CallType, CommentType, Text, Outcomes
<1>4. SyncBounds'
  <2>1. Active' = Active
    BY <1>2 DEF Active
  <2> QED BY <1>1, <1>2, <2>1, SyncNumbers DEF SyncBounds
<1>5. TagsAreKnown' /\ InStages' /\ TagsSurvive' /\ NotBlind'
  BY <1>1, <1>2, TagSame, SameWorld DEF TagsAreKnown, InStages, TagsSurvive, NotBlind
<1>6. CallsAreSafe' /\ IndexIsOld'
  <2>1. CallsAreSafe'
    BY <1>1, <1>2, OnlySafeSame DEF CallsAreSafe
  <2>2. IndexIsOld'
    BY <1>1, <1>2 DEF IndexIsOld, Old
  <2> QED BY <2>1, <2>2
<1>7. OncePerFinding'
  BY <1>1, <1>2, OnceSame DEF OncePerFinding
<1>8. MarkerIsEarned'
  BY <1>1, <1>2, EarnedSame DEF MarkerIsEarned
<1> QED BY <1>3, <1>4, <1>5, <1>6, <1>7, <1>8 DEF SyncIInv

LEMMA CountFailsKeeps ==
    ASSUME SyncIInv, CountFails
    PROVE  SyncIInv'
<1>1. SyncTypes /\ SyncBounds /\ NotBlind /\ world \in Worlds
  BY DEF SyncIInv, SyncTypes
<1>2. /\ stage = "waiting" /\ faults' = faults + 1 /\ faults < MaxFaults
      /\ UNCHANGED <<world, indexed, edits, cloud, runs, history>>
  BY DEF CountFails, Waits, outside
<1>3. faults' \in 0..MaxFaults /\ runs' \in 0..MaxRuns /\ tries \in 0..MaxTries
  BY <1>1, <1>2, SyncNumbers DEF SyncBounds
<1>4. CASE Hotspots
  <2>1. /\ stage' = "syncing" /\ index' = Fetched({}) /\ UNCHANGED <<tries, todo, target>>
        /\ pc' = [s \in Source |-> IF s \in Visited THEN "waiting" ELSE "unvisited"]
    BY <1>4 DEF CountFails
  <2>2. history' = [history EXCEPT !.blind = FALSE]
    <3>1. history.blind = FALSE
      BY <1>1 DEF SyncTypes, NotBlind
    <3> QED BY <1>1, <1>2, <3>1 DEF SyncTypes
  <2>3. DOMAIN index' \subseteq indexed /\ \A c \in DOMAIN index' : index'[c] = cloud[c]
    BY <2>1 DEF Fetched
  <2>4. pc' \in [Source -> {"waiting", "unvisited"}] /\ \A s \in Source : pc'[s] = "waiting" => s \in Visited
    BY <2>1
  <2> QED BY <1>2, <1>3, <2>1, <2>2, <2>3, <2>4, GoesOn
<1>5. CASE ~Hotspots
  BY <1>2, <1>3, <1>5, Forgets DEF CountFails
<1> QED BY <1>4, <1>5

LEMMA RunEnds ==
    ASSUME SyncIInv, Finish \/ Die
    PROVE  SyncIInv'
<1>1. SyncBounds
  BY DEF SyncIInv
<1>2. Forgotten /\ stage' = "over" /\ UNCHANGED <<world, indexed, edits, cloud, runs, faults, history>>
  BY DEF Finish, Die, outside
<1> QED BY <1>1, <1>2, Forgets DEF SyncBounds

LEMMA IndexCatchesUpKeeps ==
    ASSUME SyncIInv, NEW d \in DOMAIN cloud, IndexCatchesUp(d)
    PROVE  SyncIInv'
<1>1. SyncTypes /\ SyncBounds /\ TagsAreKnown /\ InStages /\ TagsSurvive /\ NotBlind
      /\ CallsAreSafe /\ IndexIsOld /\ OncePerFinding /\ MarkerIsEarned
  BY DEF SyncIInv
<1>2. /\ indexed' = indexed \cup {d}
      /\ UNCHANGED <<world, edits, stage, cloud, tries, index, todo, pc, target, runs, faults, history>>
  BY DEF IndexCatchesUp, items
<1>3. SyncTypes'
  BY <1>1, <1>2 DEF SyncTypes, IssueType, CallType, CommentType, Text, Outcomes
<1>4. SyncBounds'
  <2>1. Active' = Active
    BY <1>2 DEF Active
  <2> QED BY <1>1, <1>2, <2>1, SyncNumbers DEF SyncBounds
<1>5. TagsAreKnown' /\ InStages' /\ TagsSurvive' /\ NotBlind'
  BY <1>1, <1>2, TagSame, SameWorld DEF TagsAreKnown, InStages, TagsSurvive, NotBlind
<1>6. CallsAreSafe' /\ IndexIsOld'
  <2>1. CallsAreSafe'
    BY <1>1, <1>2, OnlySafeSame DEF CallsAreSafe
  <2>2. IndexIsOld'
    BY <1>1, <1>2 DEF IndexIsOld, Old
  <2> QED BY <2>1, <2>2
<1>7. OncePerFinding'
  BY <1>1, <1>2, OnceSame DEF OncePerFinding
<1>8. MarkerIsEarned'
  BY <1>1, <1>2, EarnedSame DEF MarkerIsEarned
<1> QED BY <1>3, <1>4, <1>5, <1>6, <1>7, <1>8 DEF SyncIInv

LEMMA EditKeeps ==
    ASSUME SyncIInv, NEW d \in DOMAIN cloud, Edit(d)
    PROVE  SyncIInv'
<1>1. SyncTypes /\ SyncBounds /\ TagsAreKnown /\ InStages /\ TagsSurvive /\ NotBlind
      /\ CallsAreSafe /\ IndexIsOld /\ OncePerFinding /\ MarkerIsEarned
  BY DEF SyncIInv
<1>2. /\ edits < MaxEdits /\ edits' = edits + 1 /\ history' = [history EXCEPT !.edited = @ \cup {d}]
      /\ UNCHANGED <<world, indexed, stage, tries, index, todo, pc, target, runs, faults>>
  BY DEF Edit, items
<1>3. /\ DOMAIN cloud' = DOMAIN cloud /\ \A c \in DOMAIN cloud : c # d => cloud'[c] = cloud[c]
      /\ cloud'[d].comments = cloud[d].comments /\ cloud[d].tags \subseteq cloud'[d].tags
      /\ cloud'[d].tags \subseteq cloud[d].tags \cup {"theirs"}
      /\ cloud' \in [DOMAIN world.cloud -> IssueType]
  <2>1. cloud \in [DOMAIN world.cloud -> IssueType] /\ cloud[d] \in IssueType
    BY <1>1 DEF SyncTypes
  <2>2. CASE cloud' = [cloud EXCEPT ![d].state = "OPEN"]
    <3>1. [cloud[d] EXCEPT !.state = "OPEN"] \in IssueType
      BY <2>1 DEF IssueType, States
    <3> QED BY <2>1, <2>2, <3>1 DEF IssueType
  <2>3. CASE cloud' = [cloud EXCEPT ![d].tags = @ \cup {"theirs"}]
    <3>1. "theirs" \in Text
      BY DEF Text
    <3>2. [cloud[d] EXCEPT !.tags = @ \cup {"theirs"}] \in IssueType
      BY <2>1, <3>1 DEF IssueType
    <3> QED BY <2>1, <2>3, <3>2 DEF IssueType
  <2> QED BY <2>2, <2>3 DEF Edit
<1>4. /\ history'.before = history.before /\ history'.broken = history.broken
      /\ history'.edited = history.edited \cup {d} /\ history'.writers = history.writers
      /\ history'.blind = history.blind
      /\ history' \in [before : [DOMAIN world.cloud -> SUBSET Text],
                       broken : SUBSET CloudIssue, edited : SUBSET CloudIssue,
                       writers : [DOMAIN world.cloud -> SUBSET Source], blind : BOOLEAN]
  <2>1. d \in CloudIssue
    BY <1>1, SyncDomains
  <2> QED BY <1>1, <1>2, <2>1 DEF SyncTypes
<1>5. SyncTypes'
  <2>1. \A c \in DOMAIN index : index[c] \in IssueType
    BY <1>1 DEF SyncTypes
  <2> QED BY <1>1, <1>2, <1>3, <1>4, <2>1 DEF SyncTypes, IssueType, CallType, CommentType, Text, Outcomes
<1>6. SyncBounds'
  <2>1. Active' = Active
    BY <1>2 DEF Active
  <2> QED BY <1>1, <1>2, <2>1, SyncNumbers DEF SyncBounds
<1>7. Tag' = Tag /\ "theirs" \in Tag
  <2>1. Tag' = Tag
    BY <1>2, <1>3, TagSame
  <2>2. "theirs" \in Tag
    BY DEF Tag
  <2> QED BY <2>1, <2>2
<1>8. TagsAreKnown'
  <2>1. \A c \in DOMAIN cloud : cloud'[c].tags \subseteq Tag
    BY <1>1, <1>3, <1>7 DEF TagsAreKnown
  <2> QED BY <1>1, <1>2, <1>3, <1>7, <2>1 DEF TagsAreKnown
<1>9. InStages'
  BY <1>1, <1>2, <1>3, SameWorld DEF InStages
<1>10. TagsSurvive' /\ NotBlind'
  <2>1. \A c \in DOMAIN cloud : history.before[c] \subseteq cloud'[c].tags
    BY <1>1, <1>3 DEF TagsSurvive
  <2> QED BY <1>1, <1>3, <1>4, <2>1 DEF TagsSurvive, NotBlind
<1>11. \A c \in DOMAIN cloud : cloud'[c].comments = cloud[c].comments
  BY <1>3
<1>12. CallsAreSafe'
  BY <1>1, <1>2, <1>4, OnlySafeSame DEF CallsAreSafe
<1>13. IndexIsOld'
  <2>1. \A c \in DOMAIN index : c \in DOMAIN cloud
    BY <1>1 DEF SyncTypes
  <2> QED BY <1>1, <1>2, <1>4, <1>11, <2>1 DEF IndexIsOld, Old
<1>14. OncePerFinding'
  BY <1>1, <1>2, <1>3, <1>11, OnceSame DEF OncePerFinding
<1>15. MarkerIsEarned'
  <2> SUFFICES ASSUME NEW c \in DOMAIN cloud, NEW s \in Source PROVE Earned(s, c)'
    BY <1>3 DEF MarkerIsEarned
  <2>1. CASE c = d
    BY <1>4, <2>1 DEF Earned, Alone
  <2>2. CASE c # d
    <3>1. Earned(s, c)
      BY <1>1 DEF MarkerIsEarned
    <3> QED BY <1>2, <1>3, <1>4, <2>2, <3>1, EarnedSame
  <2> QED BY <2>1, <2>2
<1> QED BY <1>5, <1>6, <1>8, <1>9, <1>10, <1>12, <1>13, <1>14, <1>15 DEF SyncIInv
-----------------------------------------------------------------------------
(* The steps of one finding.                                               *)

LEMMA ActiveSame == ASSUME pc' = pc PROVE Active' = Active
BY DEF Active

\* One more finding makes calls, while a slot is free.
LEMMA SlotIsTaken ==
    ASSUME NEW s \in Source, Cardinality(Active) < Slots,
           \A t \in Source : t # s => pc'[t] = pc[t]
    PROVE  (Cardinality(Active) <= Slots)'
<1>1. IsFiniteSet(Active)
  <2>1. Active \in SUBSET Source
    BY DEF Active
  <2> QED BY <2>1, SourceIs, FS_Subset
<1>2. IsFiniteSet(Active \cup {s}) /\ Cardinality(Active \cup {s}) \in {Cardinality(Active), Cardinality(Active) + 1}
  BY <1>1, FS_AddElement
<1>3. Active' \in SUBSET (Active \cup {s})
  BY DEF Active
<1>4. Cardinality(Active') <= Cardinality(Active \cup {s})
  BY <1>2, <1>3, FS_Subset
<1>5. Cardinality(Active) \in Nat /\ Cardinality(Active') \in Nat
  BY <1>1, <1>2, <1>3, FS_Subset, FS_CardinalityType
<1> QED BY <1>2, <1>4, <1>5, SyncNumbers

\* A finding is through, without a call.
LEMMA IsThrough ==
    ASSUME SyncIInv, NEW s \in Source, stage = "syncing", pc[s] = "waiting", NEW how \in Outcomes,
           pc' = [pc EXCEPT ![s] = how], faults' \in 0..MaxFaults,
           target' \in [Source -> CloudIssue \cup {None}], \A t \in Source : t # s => target'[t] = target[t],
           UNCHANGED <<world, indexed, edits, cloud, stage, tries, index, todo, runs, history>>
    PROVE  SyncIInv'
<1>1. SyncTypes /\ SyncBounds /\ TagsAreKnown /\ InStages /\ TagsSurvive /\ NotBlind
      /\ CallsAreSafe /\ IndexIsOld /\ OncePerFinding /\ MarkerIsEarned
  BY DEF SyncIInv
<1>2. /\ pc'[s] = how /\ how # "calling" /\ how # "waiting" /\ todo[s] = <<>>
      /\ \A t \in Source : t # s => pc'[t] = pc[t]
      /\ pc' \in [Source -> {"waiting", "calling"} \cup Outcomes]
  BY <1>1 DEF Outcomes, InStages, SyncTypes
<1>3. SyncTypes'
  BY <1>1, <1>2 DEF SyncTypes, IssueType, CallType, CommentType, Text, Outcomes
<1>4. SyncBounds'
  <2>1. Active' = Active
    BY <1>2 DEF Active
  <2> QED BY <1>1, <1>2, <2>1, SyncNumbers DEF SyncBounds
<1>5. TagsAreKnown' /\ TagsSurvive' /\ NotBlind'
  BY <1>1, <1>2, TagSame DEF TagsAreKnown, TagsSurvive, NotBlind
<1>6. InStages'
  BY <1>1, <1>2, SameWorld DEF InStages
<1>7. CallsAreSafe'
  <2> SUFFICES ASSUME NEW t \in Source PROVE OnlySafe(t)'
    BY DEF CallsAreSafe
  <2>1. CASE t = s
    BY <1>2, <2>1 DEF OnlySafe
  <2>2. CASE t # s
    BY <1>1, <1>2, <2>2, OnlySafeSame DEF CallsAreSafe
  <2> QED BY <2>1, <2>2
<1>8. IndexIsOld'
  <2> SUFFICES ASSUME NEW c \in DOMAIN index PROVE Old(c)'
    BY DEF IndexIsOld
  <2>1. Old(c) /\ \A t \in Source : pc'[t] = "waiting" => pc[t] = "waiting"
    BY <1>1, <1>2 DEF IndexIsOld
  <2> QED BY <2>1 DEF Old
<1>9. OncePerFinding'
  <2> SUFFICES ASSUME NEW c \in DOMAIN cloud, NEW t \in Source PROVE Once(c, t)'
    BY DEF OncePerFinding
  <2>1. Once(c, t) /\ cloud[c].comments \in Seq(CommentType) /\ todo[t] \in Seq(CallType) /\ world \in Worlds
    BY <1>1, SyncDomains DEF OncePerFinding, SyncTypes
  <2>2. CASE t = s
    BY <1>2, <2>1, <2>2, OnceIdle
  <2>3. CASE t # s
    BY <1>2, <2>1, <2>3, OnceSame
  <2> QED BY <2>2, <2>3
<1>10. MarkerIsEarned'
  <2> SUFFICES ASSUME NEW c \in DOMAIN cloud, NEW t \in Source PROVE Earned(t, c)'
    BY DEF MarkerIsEarned
  <2>1. Earned(t, c)
    BY <1>1 DEF MarkerIsEarned
  <2>2. CASE t = s
    BY <1>2, <2>1, <2>2, EarnedSame
  <2>3. CASE t # s
    BY <1>2, <2>1, <2>3, EarnedSame
  <2> QED BY <2>2, <2>3
<1> QED BY <1>3, <1>4, <1>5, <1>6, <1>7, <1>8, <1>9, <1>10 DEF SyncIInv

\* The counterpart of a finding, as it was looked up.
LEMMA SeenIs ==
    ASSUME SyncIInv, NEW s \in Source, stage = "syncing", pc[s] = "waiting", NEW c \in DOMAIN Found
    PROVE  /\ c \in DOMAIN cloud /\ Found[c] \in IssueType /\ Found[c].tags \subseteq Tag
           /\ history.before[c] \subseteq Found[c].tags
           /\ \A b : AlreadyMigrated(b, Found[c]) => HoldsBody(c, b)
           /\ \A b : (\E j \in DOMAIN cloud[c].comments : cloud[c].comments[j] = Said(s, b))
                        => AlreadyMigrated(b, Found[c])
<1>1. SyncTypes /\ TagsAreKnown /\ TagsSurvive /\ IndexIsOld
  BY DEF SyncIInv
<1>2. CASE ~Hotspots
  <2>1. c \in indexed /\ Found[c] = cloud[c]
    BY <1>2 DEF Found
  <2>2. c \in DOMAIN cloud /\ Found[c] \in IssueType
    BY <1>1, <2>1, SyncDomains DEF SyncTypes
  <2>3. Found[c].tags \subseteq Tag /\ history.before[c] \subseteq Found[c].tags
    BY <1>1, <2>1, <2>2 DEF TagsAreKnown, TagsSurvive
  <2>4. \A b : AlreadyMigrated(b, Found[c]) => HoldsBody(c, b)
    BY <2>1 DEF AlreadyMigrated, HoldsBody
  <2>5. \A b : (\E j \in DOMAIN cloud[c].comments : cloud[c].comments[j] = Said(s, b))
                   => AlreadyMigrated(b, Found[c])
    BY <2>1, SourceIs DEF AlreadyMigrated, Said
  <2> QED BY <2>2, <2>3, <2>4, <2>5
<1>3. CASE Hotspots
  <2>1. c \in DOMAIN index /\ Found[c] = index[c]
    BY <1>3 DEF Found
  <2>2. c \in DOMAIN cloud /\ Found[c] \in IssueType
    BY <1>1, <2>1 DEF SyncTypes
  <2>3. Found[c].tags \subseteq Tag /\ Old(c)
    BY <1>1, <2>1 DEF TagsAreKnown, IndexIsOld
  <2>4. history.before[c] \subseteq Found[c].tags
    BY <2>1, <2>3 DEF Old
  <2>5. \A b : AlreadyMigrated(b, Found[c]) => HoldsBody(c, b)
    <3> TAKE b
    <3> HAVE AlreadyMigrated(b, Found[c])
    <3>1. PICK i \in DOMAIN index[c].comments : index[c].comments[i].body = b
      BY <2>1 DEF AlreadyMigrated
    <3>2. PICK j \in DOMAIN cloud[c].comments : cloud[c].comments[j] = index[c].comments[i]
      BY <2>3 DEF Old
    <3> QED BY <3>1, <3>2 DEF HoldsBody
  <2>6. ASSUME NEW b, NEW j \in DOMAIN cloud[c].comments, cloud[c].comments[j] = Said(s, b)
        PROVE  AlreadyMigrated(b, Found[c])
    <3>1. cloud[c].comments[j].from = s /\ cloud[c].comments[j].body = b
      BY <2>6 DEF Said
    <3>2. PICK i \in DOMAIN index[c].comments : cloud[c].comments[j] = index[c].comments[i]
      BY <2>3, <3>1 DEF Old
    <3> QED BY <2>1, <3>1, <3>2, SourceIs DEF AlreadyMigrated
  <2> QED BY <2>2, <2>3, <2>4, <2>5, <2>6
<1> QED BY <1>2, <1>3

LEMMA CandidatesAre == ASSUME NEW s, NEW hits PROVE Candidates(s, hits) \subseteq DOMAIN hits
<1>1. /\ OnBranch(s, hits) \subseteq DOMAIN hits /\ SameLine(s, hits) \subseteq DOMAIN hits
      /\ Exact(s, hits) \subseteq DOMAIN hits /\ Similar(s, hits) \subseteq DOMAIN hits
  BY DEF OnBranch, SameLine, Exact, Similar
<1> QED BY <1>1 DEF Candidates

LEMMA OneCandidate ==
    ASSUME NEW S, Cardinality(S) = 1
    PROVE  (CHOOSE c \in S : TRUE) \in S
<1>1. S # {}
  BY FS_EmptySet
<1> QED BY <1>1

\* A finding is visited and has calls to make.
LEMMA HasCalls ==
    ASSUME SyncIInv, NEW s \in Source, stage = "syncing", pc[s] = "waiting", Cardinality(Active) < Slots,
           NEW c \in DOMAIN Found,
           Calls(s, c, Found[c]) # <<>>,
           target' = [target EXCEPT ![s] = c], todo' = [todo EXCEPT ![s] = Calls(s, c, Found[c])],
           pc' = [pc EXCEPT ![s] = "calling"],
           UNCHANGED <<world, indexed, edits, cloud, stage, tries, index, runs, faults, history>>
    PROVE  SyncIInv'
<1>1. SyncTypes /\ SyncBounds /\ TagsAreKnown /\ InStages /\ TagsSurvive /\ NotBlind
      /\ CallsAreSafe /\ IndexIsOld /\ OncePerFinding /\ MarkerIsEarned /\ world \in Worlds
  BY DEF SyncIInv, SyncTypes
<1> DEFINE seen == Found[c]
           calls == Calls(s, c, seen)
           bodies == Capped(CommentsOf(s))
<1>2. /\ c \in DOMAIN cloud /\ seen \in IssueType /\ seen.tags \subseteq Tag
      /\ history.before[c] \subseteq seen.tags
      /\ \A b : AlreadyMigrated(b, seen) => HoldsBody(c, b)
      /\ \A b : (\E j \in DOMAIN cloud[c].comments : cloud[c].comments[j] = Said(s, b))
                        => AlreadyMigrated(b, seen)
  BY SeenIs
<1>3. c \in CloudIssue /\ seen.tags \in SUBSET Text
  BY <1>1, <1>2, SyncDomains DEF IssueType
<1> HIDE DEF seen
<1>4. /\ calls \in Seq(CallType)
      /\ \A i \in DOMAIN calls :
                /\ calls[i].op = "tags" => i = Len(calls) /\ calls[i].set = MergedTags(s, seen)
                /\ calls[i].op = "transition" =>
                      calls[i].to = Wanted(s) /\ calls[i].to # "OPEN" /\ (Hotspots => Category(s) = "eligible")
                /\ calls[i].op = "comment" => calls[i].says = Link \/ calls[i].says.from = s
                /\ ~Hotspots /\ Marker \in seen.tags => calls[i].op = "comment"
      /\ \A b \in Text :
                /\ Times(calls, Comment(s, b)) =< Times(bodies, b)
                /\ AlreadyMigrated(b, seen) => Times(calls, Comment(s, b)) = 0
      /\ (\E i \in DOMAIN calls : calls[i].op = "tags") =>
                /\ NoReview(s, c) \/ \E i \in DOMAIN calls : calls[i].op = "transition"
                /\ \/ NoComments(s)
                   \/ \A n \in DOMAIN bodies :
                        AlreadyMigrated(bodies[n], seen) \/ \E i \in DOMAIN calls : calls[i] = Comment(s, bodies[n])
  BY <1>1, <1>3, CallsAre
<1>5. calls # <<>> /\ todo' = [todo EXCEPT ![s] = calls]
  BY DEF seen
<1> HIDE DEF calls, bodies
<1>6. /\ pc'[s] = "calling" /\ target'[s] = c /\ todo'[s] = calls
      /\ \A t \in Source : t # s => pc'[t] = pc[t] /\ target'[t] = target[t] /\ todo'[t] = todo[t]
      /\ pc' \in [Source -> {"waiting", "calling"} \cup Outcomes]
      /\ todo' \in [Source -> Seq(CallType)] /\ target' \in [Source -> CloudIssue \cup {None}]
  BY <1>1, <1>3, <1>4, <1>5 DEF SyncTypes
<1>7. SyncTypes'
  BY <1>1, <1>6 DEF SyncTypes, IssueType, CallType, CommentType, Text, Outcomes
<1>8. SyncBounds'
  BY <1>1, <1>6, SlotIsTaken DEF SyncBounds
<1>9. TagsAreKnown'
  <2>1. Tag' = Tag
    BY TagSame
  <2>2. MergedTags(s, seen) \subseteq Tag
    BY <1>2 DEF MergedTags, Tag
  <2>3. ASSUME NEW t \in Source, NEW i \in DOMAIN todo'[t], todo'[t][i].op = "tags"
        PROVE  todo'[t][i].set \subseteq Tag
    <3>1. CASE t = s
      BY <1>4, <1>6, <2>2, <2>3, <3>1
    <3>2. CASE t # s
      BY <1>1, <1>6, <2>3, <3>2 DEF TagsAreKnown
    <3> QED BY <3>1, <3>2
  <2> QED BY <1>1, <2>1, <2>3 DEF TagsAreKnown
<1>10. InStages'
  <2>1. s \in Visited
    BY <1>1 DEF InStages
  <2> QED BY <1>1, <1>2, <1>5, <1>6, <2>1, SameWorld DEF InStages
<1>11. TagsSurvive' /\ NotBlind'
  BY <1>1 DEF TagsSurvive, NotBlind
<1>12. CallsAreSafe'
  <2> SUFFICES ASSUME NEW t \in Source PROVE OnlySafe(t)'
    BY DEF CallsAreSafe
  <2>1. CASE t = s
    <3> SUFFICES ASSUME NEW i \in DOMAIN calls PROVE CallIsSafe(s, i)'
      BY <1>6, <2>1 DEF OnlySafe
    <3>1. history.before[c] \subseteq MergedTags(s, seen)
      BY <1>2 DEF MergedTags
    <3>2. /\ calls[i].op = "tags" => i = Len(calls) /\ history.before[c] \subseteq calls[i].set
          /\ calls[i].op = "transition" =>
                      calls[i].to = Wanted(s) /\ calls[i].to # "OPEN" /\ (Hotspots => Category(s) = "eligible")
          /\ calls[i].op = "comment" => calls[i].says = Link \/ calls[i].says.from = s
          /\ ~Hotspots /\ Marker \in history.before[c] => calls[i].op = "comment"
      BY <1>2, <1>4, <3>1
    <3> QED BY <1>6, <3>2, SameWorld DEF CallIsSafe, Link
  <2>2. CASE t # s
    BY <1>1, <1>6, <2>2, OnlySafeSame DEF CallsAreSafe
  <2> QED BY <2>1, <2>2
<1>13. IndexIsOld'
  <2> SUFFICES ASSUME NEW d \in DOMAIN index PROVE Old(d)'
    BY DEF IndexIsOld
  <2>1. Old(d) /\ \A t \in Source : pc'[t] = "waiting" => pc[t] = "waiting"
    BY <1>1, <1>6 DEF IndexIsOld
  <2> QED BY <2>1 DEF Old
<1>14. OncePerFinding'
  <2> SUFFICES ASSUME NEW d \in DOMAIN cloud, NEW t \in Source PROVE Once(d, t)'
    BY DEF OncePerFinding
  <2>1. Once(d, t) /\ cloud[d].comments \in Seq(CommentType) /\ todo[t] \in Seq(CallType)
    BY <1>1, SyncDomains DEF OncePerFinding, SyncTypes
  <2>2. CASE t # s
    BY <1>6, <2>1, <2>2, OnceSame
  <2>3. CASE t = s /\ d # c
    BY <1>1, <1>6, <2>1, <2>3, OnceIdle
  <2>4. CASE t = s /\ d = c
    <3>1. \A b : Ahead(s, c, b)' = Times(calls, Comment(s, b))
      BY <1>6 DEF Ahead, Comment
    <3>2. \A b : Times(cloud[c].comments, Said(s, b))' = Times(cloud[c].comments, Said(s, b))
      BY DEF Said, Times
    <3>3. \A b : Times(Capped(CommentsOf(s)), b)' = Times(bodies, b)
      <4>1. Capped(CommentsOf(s))' = bodies
        BY SameWorld DEF bodies
      <4> QED BY <4>1 DEF Times
    <3>4. ASSUME NEW b \in Text
          PROVE  Times(cloud[c].comments, Said(s, b)) + Times(calls, Comment(s, b)) <= Times(bodies, b)
      <4>1. Times(bodies, b) \in Nat
        BY <1>1, CommentsType, TimesType DEF bodies
      <4>2. Times(cloud[c].comments, Said(s, b)) \in Nat /\ Times(calls, Comment(s, b)) \in Nat
        BY <1>4, <2>1, <2>4, TimesType
      <4>3. CASE AlreadyMigrated(b, seen)
        <5>1. Times(cloud[c].comments, Said(s, b)) + Ahead(s, c, b) <= Times(bodies, b)
          BY <2>1, <2>4 DEF Once, bodies
        <5>2. Ahead(s, c, b) = 0
          BY DEF Ahead
        <5>3. Times(calls, Comment(s, b)) = 0
          BY <1>4, <4>3
        <5> QED BY <4>1, <4>2, <5>1, <5>2, <5>3
      <4>4. CASE ~AlreadyMigrated(b, seen)
        <5>1. \A j \in DOMAIN cloud[c].comments : cloud[c].comments[j] # Said(s, b)
          BY <1>2, <4>4
        <5>2. Times(cloud[c].comments, Said(s, b)) = 0
          BY <2>1, <2>4, <5>1, TimesType
        <5>3. Times(calls, Comment(s, b)) <= Times(bodies, b)
          BY <1>4
        <5> QED BY <4>1, <4>2, <5>2, <5>3
      <4> QED BY <4>3, <4>4
    <3> QED BY <2>4, <3>1, <3>2, <3>3, <3>4 DEF Once, Text
  <2> QED BY <2>2, <2>3, <2>4
<1>15. MarkerIsEarned'
  <2> SUFFICES ASSUME NEW d \in DOMAIN cloud, NEW t \in Source PROVE Earned(t, d)'
    BY DEF MarkerIsEarned
  <2>1. Earned(t, d)
    BY <1>1 DEF MarkerIsEarned
  <2>2. CASE t # s
    BY <1>6, <2>1, <2>2, EarnedSame
  <2>3. CASE t = s /\ d # c
    BY <1>6, <2>1, <2>3, EarnedSame
  <2>4. CASE t = s /\ d = c
    <3>1. Alone(s, c)' = Alone(s, c) /\ Holds(s, c)' = Holds(s, c)
      BY SameWorld DEF Alone, Holds, HoldsBody
    <3>2. WillTag(s, c)' => WillHold(s, c)'
      <4> SUFFICES ASSUME \E i \in DOMAIN calls : calls[i].op = "tags" PROVE WillHold(s, c)'
        BY <1>6 DEF WillTag
      <4>1. NoReview(s, c)' \/ \E i \in DOMAIN todo'[s] : todo'[s][i].op = "transition"
        BY <1>4, <1>6, SameWorld
      <4>3. \/ NoComments(s)
            \/ \A n \in DOMAIN bodies :
                 HoldsBody(c, bodies[n]) \/ \E i \in DOMAIN calls : calls[i] = Comment(s, bodies[n])
        BY <1>2, <1>4
      <4>4. \/ NoComments(s)
            \/ \A n \in DOMAIN bodies :
                  \/ \E i \in DOMAIN cloud[c].comments : cloud[c].comments[i].body = bodies[n]
                  \/ \E i \in DOMAIN calls : calls[i] = [op |-> "comment", says |-> [from |-> s, body |-> bodies[n]]]
        BY <4>3 DEF HoldsBody, Comment
      <4>5. Capped(CommentsOf(s))' = bodies /\ NoComments(s)' = NoComments(s)
        BY SameWorld DEF bodies
      <4>6. (\/ NoComments(s)
             \/ \A n \in DOMAIN Capped(CommentsOf(s)) :
                   \/ HoldsBody(c, Capped(CommentsOf(s))[n])
                   \/ \E i \in DOMAIN todo[s] : todo[s][i] = Comment(s, Capped(CommentsOf(s))[n]))'
        BY <1>6, <4>4, <4>5 DEF HoldsBody, Comment
      <4>7. (\/ NoReview(s, c)
             \/ cloud[c].state = Wanted(s)
             \/ \E i \in DOMAIN todo[s] : todo[s][i].op = "transition")'
        BY <4>1
      <4> QED BY <4>6, <4>7 DEF WillHold
    <3>3. Wanted(s)' = Wanted(s)
      BY SameWorld
    <3> QED BY <2>1, <2>4, <3>1, <3>2, <3>3 DEF Earned
  <2> QED BY <2>2, <2>3, <2>4
<1> QED BY <1>7, <1>8, <1>9, <1>10, <1>11, <1>12, <1>13, <1>14, <1>15 DEF SyncIInv

LEMMA VisitKeeps ==
    ASSUME SyncIInv, NEW s \in Source, Visit(s)
    PROVE  SyncIInv'
<1>1. /\ stage = "syncing" /\ pc[s] = "waiting" /\ Cardinality(Active) < Slots
      /\ UNCHANGED <<world, indexed, edits, cloud, stage, tries, index, runs, faults, history>>
  BY DEF Visit, MayVisit, outside
<1>2. faults' \in 0..MaxFaults /\ "synced" \in Outcomes /\ "not_found" \in Outcomes /\ "ambiguous" \in Outcomes
      /\ SyncTypes /\ todo[s] = <<>>
  BY <1>1 DEF SyncIInv, SyncBounds, Outcomes, InStages
<1> DEFINE hits == Candidates(s, Found)
           c == CHOOSE c \in hits : TRUE
           calls == Calls(s, c, Found[c])
<1>3. CASE Cardinality(hits) = 1
  <2>1. /\ target' = [target EXCEPT ![s] = c] /\ todo' = [todo EXCEPT ![s] = calls]
        /\ pc' = [pc EXCEPT ![s] = IF calls = <<>> THEN "synced" ELSE "calling"]
    BY <1>3 DEF Visit
  <2>2. c \in DOMAIN Found
    BY <1>3, OneCandidate, CandidatesAre
  <2> HIDE DEF c
  <2>3. CASE calls # <<>>
    BY <1>1, <2>1, <2>2, <2>3, HasCalls
  <2>4. CASE calls = <<>>
    <3>1. c \in CloudIssue
      <4>1. c \in DOMAIN cloud
        BY <1>1, <2>2, SeenIs
      <4> QED BY <1>2, <4>1, SyncDomains
    <3>2. target' \in [Source -> CloudIssue \cup {None}] /\ \A t \in Source : t # s => target'[t] = target[t]
      BY <1>2, <2>1, <3>1 DEF SyncTypes
    <3>3. todo' = todo /\ pc' = [pc EXCEPT ![s] = "synced"]
      BY <1>2, <2>1, <2>4 DEF SyncTypes
    <3> QED BY <1>1, <1>2, <3>2, <3>3, IsThrough
  <2> QED BY <2>3, <2>4
<1>4. CASE Cardinality(hits) # 1
  <2>1. UNCHANGED <<todo, target>> /\ \E how \in {"not_found", "ambiguous"} : pc' = [pc EXCEPT ![s] = how]
    BY <1>4 DEF Visit
  <2>2. target' \in [Source -> CloudIssue \cup {None}]
    BY <1>2, <2>1 DEF SyncTypes
  <2> QED BY <1>1, <1>2, <2>1, <2>2, IsThrough
<1> QED BY <1>3, <1>4

LEMMA LookupFailsKeeps ==
    ASSUME SyncIInv, NEW s \in Source, LookupFails(s)
    PROVE  SyncIInv'
<1>1. /\ stage = "syncing" /\ pc[s] = "waiting" /\ pc' = [pc EXCEPT ![s] = "lookup_error"]
      /\ faults < MaxFaults /\ faults' = faults + 1
      /\ UNCHANGED <<world, indexed, edits, cloud, stage, tries, index, todo, target, runs, history>>
  BY DEF LookupFails, MayVisit, outside
<1>2. faults' \in 0..MaxFaults /\ "lookup_error" \in Outcomes /\ target' \in [Source -> CloudIssue \cup {None}]
  BY <1>1, SyncNumbers DEF SyncIInv, SyncBounds, SyncTypes, Outcomes
<1> QED BY <1>1, <1>2, IsThrough

LEMMA HeadAndTail ==
    ASSUME NEW V, NEW q \in Seq(V), q # <<>>
    PROVE  /\ Head(q) = q[1] /\ Head(q) \in V /\ Tail(q) \in Seq(V) /\ (Len(q) = 1 <=> Tail(q) = <<>>)
           /\ 1 \in DOMAIN q /\ Len(Tail(q)) = Len(q) - 1 /\ Len(q) \in Nat
           /\ \A i \in DOMAIN Tail(q) : i + 1 \in DOMAIN q /\ Tail(q)[i] = q[i + 1]
           /\ \A i \in DOMAIN q : i # 1 => i - 1 \in DOMAIN Tail(q) /\ q[i] = Tail(q)[i - 1]
<1>1. Len(q) \in Nat /\ Len(q) # 0 /\ DOMAIN q = 1 .. Len(q)
  OBVIOUS
<1>2. Tail(q) \in Seq(V) /\ Len(Tail(q)) = Len(q) - 1 /\ DOMAIN Tail(q) = 1 .. Len(q) - 1
  OBVIOUS
<1>3. Head(q) = q[1] /\ q[1] \in V
  BY <1>1
<1>4. Len(q) = 1 <=> Tail(q) = <<>>
  <2>1. \A t \in Seq(V) : Len(t) = 0 <=> t = <<>>
    OBVIOUS
  <2>2. Len(Tail(q)) = 0 <=> Tail(q) = <<>>
    BY <1>2, <2>1
  <2> QED BY <1>1, <1>2, <2>2
<1>5. \A i \in 1 .. Len(q) - 1 : Tail(q)[i] = q[i + 1]
  OBVIOUS
<1>6. ASSUME NEW i \in DOMAIN q, i # 1 PROVE i - 1 \in DOMAIN Tail(q) /\ q[i] = Tail(q)[i - 1]
  <2>1. i - 1 \in 1 .. Len(q) - 1 /\ i - 1 + 1 = i
    BY <1>1, <1>6
  <2> QED BY <1>2, <1>5, <2>1
<1>7. ASSUME NEW i \in DOMAIN Tail(q) PROVE i + 1 \in DOMAIN q /\ Tail(q)[i] = q[i + 1]
  BY <1>1, <1>2, <1>5
<1> QED BY <1>1, <1>2, <1>3, <1>4, <1>6, <1>7

LEMMA LongerIs ==
    ASSUME NEW V, NEW q \in Seq(V), NEW x \in V
    PROVE  /\ \A i \in DOMAIN q : i \in DOMAIN Append(q, x) /\ Append(q, x)[i] = q[i]
           /\ \A i \in DOMAIN Append(q, x) :
                 (i \in DOMAIN q /\ Append(q, x)[i] = q[i]) \/ Append(q, x)[i] = x
           /\ \E i \in DOMAIN Append(q, x) : Append(q, x)[i] = x
<1>1. DOMAIN q = 1 .. Len(q) /\ DOMAIN Append(q, x) = 1 .. Len(q) + 1 /\ Len(q) \in Nat
  OBVIOUS
<1>2. \A i \in 1 .. Len(q) : Append(q, x)[i] = q[i]
  OBVIOUS
<1>3. Append(q, x)[Len(q) + 1] = x
  OBVIOUS
<1> QED BY <1>1, <1>2, <1>3

LEMMA EffectIs ==
    ASSUME NEW issue \in IssueType, NEW call \in CallType
    PROVE  /\ Effect(issue, call) \in IssueType /\ call.op \in {"transition", "comment", "tags"}
           /\ call.op = "transition" =>
                 /\ Effect(issue, call).comments = issue.comments /\ Effect(issue, call).tags = issue.tags
                 /\ Effect(issue, call).state = IF issue.state = "OPEN" THEN call.to ELSE issue.state
           /\ call.op = "comment" =>
                 /\ Effect(issue, call).state = issue.state /\ Effect(issue, call).tags = issue.tags
                 /\ call.says \in CommentType
                 /\ Effect(issue, call).comments = Append(issue.comments, call.says)
           /\ call.op = "tags" =>
                 /\ Effect(issue, call).state = issue.state
                 /\ Effect(issue, call).comments = issue.comments /\ Effect(issue, call).tags = call.set
<1>1. CASE call \in [op : {"transition"}, to : States]
  <2>1. call.op = "transition" /\ call.to \in States
    BY <1>1
  <2>2. Effect(issue, call) = IF issue.state = "OPEN" THEN [issue EXCEPT !.state = call.to] ELSE issue
    BY <2>1 DEF Effect
  <2> QED BY <2>1, <2>2 DEF IssueType
<1>2. CASE call \in [op : {"comment"}, says : CommentType]
  <2>1. call.op = "comment" /\ call.says \in CommentType
    BY <1>2
  <2>2. Effect(issue, call) = [issue EXCEPT !.comments = Append(issue.comments, call.says)]
    BY <2>1 DEF Effect
  <2>3. issue.comments \in Seq(CommentType)
    BY DEF IssueType
  <2>4. Append(issue.comments, call.says) \in Seq(CommentType)
    <3> HIDE DEF CommentType
    <3> QED BY <2>1, <2>3
  <2> HIDE DEF CommentType
  <2> QED BY <2>1, <2>2, <2>4 DEF IssueType
<1>3. CASE call \in [op : {"tags"}, set : SUBSET Text]
  <2>1. call.op = "tags" /\ call.set \in SUBSET Text
    BY <1>3
  <2>2. Effect(issue, call) = [issue EXCEPT !.tags = call.set]
    BY <2>1 DEF Effect
  <2> QED BY <2>1, <2>2 DEF IssueType
<1> QED BY <1>1, <1>2, <1>3 DEF CallType

\* A comment call that says what a finding's comment says is the call for it.
LEMMA CommentIs ==
    ASSUME NEW call \in CallType, NEW s, NEW b
    PROVE  call = Comment(s, b) <=> call.op = "comment" /\ call.says = Said(s, b)
<1>1. call = Comment(s, b) => call.op = "comment" /\ call.says = Said(s, b)
  BY DEF Comment, Said
<1>2. ASSUME call.op = "comment", call.says = Said(s, b) PROVE call = Comment(s, b)
  <2>1. call \in [op : {"comment"}, says : CommentType]
    BY <1>2 DEF CallType
  <2> QED BY <1>2, <2>1 DEF Comment, Said
<1> QED BY <1>1, <1>2

\* The parts of a call: what is left to do, and what the issue has become.
LEMMA CallParts ==
    ASSUME SyncIInv, NEW s \in Source, Call(s)
    PROVE  LET c == target[s]
               call == Head(todo[s]) IN
           /\ todo[s] \in Seq(CallType) /\ todo[s] # <<>> /\ call = todo[s][1] /\ call \in CallType
           /\ c \in DOMAIN cloud /\ s \in Visited /\ pc[s] = "calling" /\ stage = "syncing"
           /\ \A i \in DOMAIN todo[s] : CallIsSafe(s, i)
           /\ todo' = [todo EXCEPT ![s] = Tail(todo[s])]
           /\ todo'[s] = Tail(todo[s]) /\ \A t \in Source : t # s => todo'[t] = todo[t] /\ pc'[t] = pc[t]
           /\ pc'[s] = IF todo'[s] = <<>> THEN "synced" ELSE "calling"
           /\ pc' \in [Source -> {"waiting", "calling"} \cup Outcomes]
           /\ todo' \in [Source -> Seq(CallType)]
           /\ DOMAIN cloud' = DOMAIN cloud /\ cloud' \in [DOMAIN world.cloud -> IssueType]
           /\ \A d \in DOMAIN cloud : d # c => cloud'[d] = cloud[d]
           /\ cloud'[c] \in {cloud[c], Effect(cloud[c], call)}
           /\ faults' \in 0..MaxFaults
           /\ history'.before = history.before /\ history'.blind = history.blind
           /\ history'.edited = history.edited /\ history.broken \subseteq history'.broken
           /\ history'.broken \subseteq history.broken \cup {c}
           /\ history'.writers[c] = history.writers[c] \cup {s}
           /\ \A d \in DOMAIN cloud : d # c => history'.writers[d] = history.writers[d]
           /\ history' \in [before : [DOMAIN world.cloud -> SUBSET Text],
                            broken : SUBSET CloudIssue, edited : SUBSET CloudIssue,
                            writers : [DOMAIN world.cloud -> SUBSET Source], blind : BOOLEAN]
           /\ c \notin history'.broken => cloud'[c] = Effect(cloud[c], call)
           /\ UNCHANGED <<world, indexed, edits, stage, tries, index, target, runs>>
<1> DEFINE c == target[s]
           call == Head(todo[s])
           HistoryType == [before : [DOMAIN world.cloud -> SUBSET Text],
                           broken : SUBSET CloudIssue, edited : SUBSET CloudIssue,
                           writers : [DOMAIN world.cloud -> SUBSET Source], blind : BOOLEAN]
<1>1. SyncTypes /\ SyncBounds /\ InStages /\ CallsAreSafe /\ pc[s] = "calling"
      /\ UNCHANGED <<world, indexed, edits, stage, tries, index, target, runs>>
  BY DEF SyncIInv, Call, outside
<1>2. todo[s] \in Seq(CallType) /\ todo[s] # <<>> /\ c \in DOMAIN cloud /\ s \in Visited /\ stage = "syncing"
  BY <1>1, SyncDomains DEF InStages
<1>3. call = todo[s][1] /\ call \in CallType /\ Tail(todo[s]) \in Seq(CallType)
      /\ (Len(todo[s]) = 1 <=> Tail(todo[s]) = <<>>)
  <2> HIDE DEF CallType
  <2> QED BY <1>2, HeadAndTail
<1>4. todo' = [todo EXCEPT ![s] = Tail(todo[s])]
  BY DEF Call
<1>5. pc' = [pc EXCEPT ![s] = IF Len(todo[s]) = 1 THEN "synced" ELSE "calling"]
  BY <1>1 DEF Call
<1>6. /\ todo'[s] = Tail(todo[s]) /\ \A t \in Source : t # s => todo'[t] = todo[t] /\ pc'[t] = pc[t]
      /\ pc'[s] = IF Tail(todo[s]) = <<>> THEN "synced" ELSE "calling"
      /\ pc' \in [Source -> {"waiting", "calling"} \cup Outcomes]
      /\ todo' \in [Source -> Seq(CallType)]
  BY <1>1, <1>3, <1>4, <1>5 DEF SyncTypes, Outcomes
<1>7. \A i \in DOMAIN todo[s] : CallIsSafe(s, i)
  BY <1>1 DEF CallsAreSafe, OnlySafe
<1>8. PICK effect \in BOOLEAN, answered \in BOOLEAN :
        /\ (~effect \/ ~answered) => faults < MaxFaults
        /\ effect \/ ~answered
        /\ cloud' = IF effect THEN [cloud EXCEPT ![c] = Effect(cloud[c], call)] ELSE cloud
        /\ faults' = IF answered THEN faults ELSE faults + 1
        /\ history' = [history EXCEPT !.writers[c] = @ \cup {s},
                                     !.broken = IF answered THEN @ ELSE @ \cup {c}]
  BY DEF Call
<1>9. faults' \in 0..MaxFaults
  BY <1>1, <1>8, SyncNumbers DEF SyncBounds
<1>10. cloud \in [DOMAIN world.cloud -> IssueType] /\ cloud[c] \in IssueType /\ Effect(cloud[c], call) \in IssueType
  BY <1>1, <1>2, <1>3, EffectIs, SyncDomains DEF SyncTypes
<1> HIDE DEF c, call
<1>11. /\ DOMAIN cloud' = DOMAIN cloud /\ cloud' \in [DOMAIN world.cloud -> IssueType]
       /\ \A d \in DOMAIN cloud : d # c => cloud'[d] = cloud[d]
       /\ cloud'[c] = IF effect THEN Effect(cloud[c], call) ELSE cloud[c]
  BY <1>2, <1>8, <1>10
<1>12. c \in CloudIssue /\ c \in DOMAIN world.cloud
  BY <1>1, <1>2, SyncDomains
<1>13. history \in HistoryType
  BY <1>1 DEF SyncTypes
<1>14. /\ history'.before = history.before /\ history'.blind = history.blind
       /\ history'.edited = history.edited
       /\ history'.broken = (IF answered THEN history.broken ELSE history.broken \cup {c})
       /\ history'.writers = [history.writers EXCEPT ![c] = @ \cup {s}]
  BY <1>8, <1>13
<1>15. history' \in HistoryType
  BY <1>8, <1>12, <1>13
<1>16. /\ history'.writers[c] = history.writers[c] \cup {s}
       /\ \A d \in DOMAIN cloud : d # c => history'.writers[d] = history.writers[d]
  BY <1>1, <1>12, <1>13, <1>14, SyncDomains
<1>17. /\ history.broken \subseteq history'.broken
       /\ history'.broken \subseteq history.broken \cup {c}
       /\ c \notin history'.broken => cloud'[c] = Effect(cloud[c], call)
       /\ cloud'[c] \in {cloud[c], Effect(cloud[c], call)}
  BY <1>8, <1>11, <1>14
<1> QED BY <1>1, <1>2, <1>3, <1>4, <1>6, <1>7, <1>9, <1>11, <1>14, <1>15, <1>16, <1>17 DEF c, call

\* What a call does to the issue it is made on.
LEMMA CallChanges ==
    ASSUME SyncIInv, NEW s \in Source, Call(s)
    PROVE  LET c == target[s]
               call == Head(todo[s]) IN
           /\ cloud'[c].state \in {cloud[c].state} \cup (IF call.op = "transition" THEN {Wanted(s)} ELSE {})
           /\ cloud[c].state # "OPEN" => cloud'[c].state = cloud[c].state
           /\ cloud'[c].tags = cloud[c].tags \/ (call.op = "tags" /\ cloud'[c].tags = call.set)
           /\ \/ cloud'[c].comments = cloud[c].comments
              \/ /\ call.op = "comment" /\ call.says \in CommentType
                 /\ cloud'[c].comments = Append(cloud[c].comments, call.says)
           /\ cloud[c].comments \in Seq(CommentType)
           /\ \A b : HoldsBody(c, b) => \E i \in DOMAIN cloud'[c].comments : cloud'[c].comments[i].body = b
           /\ cloud'[c] = Effect(cloud[c], call) =>
                /\ call.op = "transition" /\ cloud[c].state = "OPEN" => cloud'[c].state = Wanted(s)
                /\ call.op = "comment" => \E i \in DOMAIN cloud'[c].comments : cloud'[c].comments[i] = call.says
<1> DEFINE c == target[s]
           call == Head(todo[s])
<1>1. /\ c \in DOMAIN cloud /\ call \in CallType /\ cloud'[c] \in {cloud[c], Effect(cloud[c], call)}
      /\ todo[s] \in Seq(CallType) /\ todo[s] # <<>> /\ call = todo[s][1]
      /\ \A i \in DOMAIN todo[s] : CallIsSafe(s, i)
  BY CallParts
<1>2. cloud[c] \in IssueType /\ cloud[c].comments \in Seq(CommentType)
  BY <1>1, SyncDomains DEF SyncIInv
<1>3. call.op = "transition" => call.to = Wanted(s)
  <2>1. 1 \in DOMAIN todo[s]
    BY <1>1, HeadAndTail
  <2>2. CallIsSafe(s, 1)
    BY <1>1, <2>1
  <2> QED BY <1>1, <2>2 DEF CallIsSafe
<1> HIDE DEF c, call
<1> DEFINE new == Effect(cloud[c], call)
<1>4. /\ call.op \in {"transition", "comment", "tags"}
      /\ call.op = "transition" =>
                 /\ new.comments = cloud[c].comments /\ new.tags = cloud[c].tags
                 /\ new.state = IF cloud[c].state = "OPEN" THEN call.to ELSE cloud[c].state
      /\ call.op = "comment" =>
                 /\ new.state = cloud[c].state /\ new.tags = cloud[c].tags
                 /\ call.says \in CommentType /\ new.comments = Append(cloud[c].comments, call.says)
      /\ call.op = "tags" =>
                 /\ new.state = cloud[c].state /\ new.comments = cloud[c].comments /\ new.tags = call.set
  BY <1>1, <1>2, EffectIs
<1> HIDE DEF new
<1>5. cloud'[c] = cloud[c] \/ cloud'[c] = new
  BY <1>1 DEF new
<1>6. ASSUME call.says \in CommentType
      PROVE  LET longer == Append(cloud[c].comments, call.says) IN
             /\ \A i \in DOMAIN cloud[c].comments : i \in DOMAIN longer /\ longer[i] = cloud[c].comments[i]
             /\ \E i \in DOMAIN longer : longer[i] = call.says
  BY <1>2, <1>6, LongerIs
<1>7. ASSUME NEW b, HoldsBody(c, b)
      PROVE  \E i \in DOMAIN cloud'[c].comments : cloud'[c].comments[i].body = b
  <2>1. PICK i \in DOMAIN cloud[c].comments : cloud[c].comments[i].body = b
    BY <1>7 DEF HoldsBody
  <2>2. CASE cloud'[c].comments = cloud[c].comments
    BY <2>1, <2>2
  <2>3. CASE call.says \in CommentType /\ cloud'[c].comments = Append(cloud[c].comments, call.says)
    <3>1. i \in DOMAIN cloud'[c].comments /\ cloud'[c].comments[i] = cloud[c].comments[i]
      BY <1>6, <2>3
    <3> QED BY <2>1, <3>1
  <2> QED BY <1>4, <1>5, <2>2, <2>3
<1>8. cloud'[c] = new =>
          /\ call.op = "transition" /\ cloud[c].state = "OPEN" => cloud'[c].state = Wanted(s)
          /\ call.op = "comment" => \E i \in DOMAIN cloud'[c].comments : cloud'[c].comments[i] = call.says
  BY <1>3, <1>4, <1>6
<1>9. /\ cloud'[c].state \in {cloud[c].state} \cup (IF call.op = "transition" THEN {Wanted(s)} ELSE {})
      /\ cloud[c].state # "OPEN" => cloud'[c].state = cloud[c].state
  BY <1>3, <1>4, <1>5
<1>10. /\ cloud'[c].tags = cloud[c].tags \/ (call.op = "tags" /\ cloud'[c].tags = call.set)
       /\ \/ cloud'[c].comments = cloud[c].comments
          \/ /\ call.op = "comment" /\ call.says \in CommentType
             /\ cloud'[c].comments = Append(cloud[c].comments, call.says)
  BY <1>4, <1>5
<1> QED BY <1>2, <1>7, <1>8, <1>9, <1>10 DEF c, call, new

\* A call keeps the count of a finding's comments.
LEMMA CallKeepsCount ==
    ASSUME SyncIInv, NEW s \in Source, Call(s), NEW d \in DOMAIN cloud, NEW t \in Source
    PROVE  Once(d, t)'
<1> DEFINE c == target[s]
           call == Head(todo[s])
<1>1. SyncTypes /\ OncePerFinding /\ world \in Worlds /\ world' = world
  BY CallParts DEF SyncIInv, SyncTypes
<1>2. Once(d, t) /\ cloud[d].comments \in Seq(CommentType) /\ todo[t] \in Seq(CallType)
  BY <1>1, SyncDomains DEF OncePerFinding
<1>3. /\ todo[s] \in Seq(CallType) /\ todo[s] # <<>> /\ call \in CallType /\ call = todo[s][1]
      /\ todo'[s] = Tail(todo[s]) /\ pc[s] = "calling" /\ target' = target
      /\ \A u \in Source : u # s => todo'[u] = todo[u] /\ pc'[u] = pc[u]
      /\ pc'[s] = IF todo'[s] = <<>> THEN "synced" ELSE "calling"
      /\ \A e \in DOMAIN cloud : e # c => cloud'[e] = cloud[e]
      /\ \A i \in DOMAIN todo[s] : CallIsSafe(s, i)
  BY CallParts
<1>4. /\ \/ cloud'[c].comments = cloud[c].comments
         \/ /\ call.op = "comment" /\ call.says \in CommentType
            /\ cloud'[c].comments = Append(cloud[c].comments, call.says)
  BY CallChanges
<1>5. call.op = "comment" => call.says = Link \/ call.says.from = s
  <2>1. 1 \in DOMAIN todo[s]
    BY <1>3, HeadAndTail
  <2>2. CallIsSafe(s, 1)
    BY <1>3, <2>1
  <2> QED BY <1>3, <2>2 DEF CallIsSafe
<1> HIDE DEF c, call
\* Of another finding's comments the issue gets none.
<1>6. ASSUME t # s, NEW b PROVE Times(cloud'[d].comments, Said(t, b)) = Times(cloud[d].comments, Said(t, b))
  <2>1. CASE cloud'[d].comments = cloud[d].comments
    BY <2>1 DEF Times
  <2>2. CASE /\ d = c /\ call.op = "comment" /\ call.says \in CommentType
             /\ cloud'[d].comments = Append(cloud[d].comments, call.says)
    <3>1. call.says # Said(t, b)
      <4>1. Said(t, b).from = t /\ Link.from = 0 /\ t # 0
        BY SourceIs DEF Said, Link
      <4> QED BY <1>5, <1>6, <2>2, <4>1
    <3>2. Times(Append(cloud[d].comments, call.says), Said(t, b))
            = Times(cloud[d].comments, Said(t, b)) + (IF call.says = Said(t, b) THEN 1 ELSE 0)
      BY <1>2, <2>2, TimesAppend
    <3>3. Times(cloud[d].comments, Said(t, b)) \in Nat
      BY <1>2, TimesType
    <3> QED BY <2>2, <3>1, <3>2, <3>3
  <2> QED BY <1>3, <1>4, <2>1, <2>2
<1>7. CASE t # s
  <2>1. \A b : Times(cloud[d].comments, Said(t, b))' = Times(cloud[d].comments, Said(t, b))
    <3> TAKE b
    <3>1. Times(cloud[d].comments, Said(t, b))' = Times(cloud'[d].comments, Said(t, b))
      BY DEF Times, Said
    <3> QED BY <1>6, <1>7, <3>1
  <2>2. \A b : Ahead(t, d, b)' = Ahead(t, d, b)
    BY <1>3, <1>7 DEF Ahead, Comment
  <2>3. \A b : Times(Capped(CommentsOf(t)), b)' = Times(Capped(CommentsOf(t)), b)
    <3>1. Capped(CommentsOf(t))' = Capped(CommentsOf(t))
      BY <1>1, SameWorld
    <3> QED BY <3>1 DEF Times
  <2> QED BY <1>2, <2>1, <2>2, <2>3 DEF Once, Text
<1>8. CASE t = s /\ d # c
  <2>1. cloud'[d].comments = cloud[d].comments /\ ~(pc'[t] = "calling" /\ target'[t] = d)
    BY <1>3, <1>8 DEF c
  <2> QED BY <1>1, <1>2, <2>1, OnceIdle
<1>9. CASE t = s /\ d = c
  <2>1. ASSUME NEW b \in Text
        PROVE  /\ Times(cloud'[c].comments, Said(s, b)) + Times(Tail(todo[s]), Comment(s, b))
                    <= Times(cloud[c].comments, Said(s, b)) + Times(todo[s], Comment(s, b))
               /\ Times(cloud[c].comments, Said(s, b)) + Times(todo[s], Comment(s, b))
                    <= Times(Capped(CommentsOf(s)), b)
               /\ Times(cloud'[c].comments, Said(s, b)) \in Nat /\ Times(Tail(todo[s]), Comment(s, b)) \in Nat
               /\ Times(cloud[c].comments, Said(s, b)) \in Nat /\ Times(todo[s], Comment(s, b)) \in Nat
               /\ Times(Capped(CommentsOf(s)), b) \in Nat
    <3>1. Times(todo[s], Comment(s, b))
            = Times(Tail(todo[s]), Comment(s, b)) + (IF call = Comment(s, b) THEN 1 ELSE 0)
      BY <1>3, TimesTail DEF call
    <3>2. Tail(todo[s]) \in Seq(CallType)
      BY <1>3, HeadAndTail
    <3>3. Times(Tail(todo[s]), Comment(s, b)) \in Nat /\ Times(cloud[c].comments, Said(s, b)) \in Nat
          /\ Times(todo[s], Comment(s, b)) \in Nat
      BY <1>2, <1>3, <1>9, <3>2, TimesType
    <3>4. Times(Capped(CommentsOf(s)), b) \in Nat
      BY <1>1, CommentsType, TimesType
    <3>5. Ahead(s, c, b) = Times(todo[s], Comment(s, b))
      BY <1>3 DEF Ahead, c
    <3>6. Times(cloud[c].comments, Said(s, b)) + Times(todo[s], Comment(s, b)) <= Times(Capped(CommentsOf(s)), b)
      BY <1>2, <1>9, <3>5 DEF Once
    <3>7. CASE cloud'[c].comments = cloud[c].comments
      BY <3>1, <3>3, <3>4, <3>6, <3>7
    <3>8. CASE /\ call.op = "comment" /\ call.says \in CommentType
               /\ cloud'[c].comments = Append(cloud[c].comments, call.says)
      <4>1. Times(cloud'[c].comments, Said(s, b))
              = Times(cloud[c].comments, Said(s, b)) + (IF call.says = Said(s, b) THEN 1 ELSE 0)
        BY <1>2, <1>9, <3>8, TimesAppend
      <4>2. call = Comment(s, b) <=> call.says = Said(s, b)
        BY <1>3, <3>8, CommentIs
      <4> QED BY <3>1, <3>3, <3>4, <3>6, <4>1, <4>2
    <3> QED BY <1>4, <3>7, <3>8
  <2>2. \A b \in Text : Times(cloud[d].comments, Said(t, b))' = Times(cloud'[c].comments, Said(s, b))
    BY <1>9 DEF Times, Said
  <2>3. \A b \in Text : Ahead(t, d, b)' \in {0, Times(Tail(todo[s]), Comment(s, b))}
    <3>1. \A b \in Text : Ahead(t, d, b)' = 0 \/ Ahead(t, d, b)' = Times(todo'[t], Comment(t, b))
      BY DEF Ahead, Comment
    <3> QED BY <1>3, <1>9, <3>1
  <2>4. \A b : Times(Capped(CommentsOf(t)), b)' = Times(Capped(CommentsOf(s)), b)
    <3>1. Capped(CommentsOf(t))' = Capped(CommentsOf(s))
      BY <1>1, <1>9, SameWorld
    <3> QED BY <3>1 DEF Times
  <2>5. ASSUME NEW b \in Text
        PROVE  Times(cloud[d].comments, Said(t, b))' + Ahead(t, d, b)' <= Times(Capped(CommentsOf(t)), b)'
    <3>1. Times(cloud'[c].comments, Said(s, b)) + 0 <= Times(Capped(CommentsOf(s)), b)
      BY <2>1
    <3>2. Times(cloud'[c].comments, Said(s, b)) + Times(Tail(todo[s]), Comment(s, b))
            <= Times(Capped(CommentsOf(s)), b)
      BY <2>1
    <3> QED BY <2>2, <2>3, <2>4, <3>1, <3>2
  <2> QED BY <2>5 DEF Once, Text
<1> QED BY <1>3, <1>4, <1>7, <1>8, <1>9

\* A call keeps what the marker says.
LEMMA CallKeepsMarker ==
    ASSUME SyncIInv, NEW s \in Source, Call(s), NEW d \in DOMAIN cloud, NEW t \in Source
    PROVE  Earned(t, d)'
<1> DEFINE c == target[s]
           call == Head(todo[s])
           bodies == Capped(CommentsOf(s))
<1>1. SyncTypes /\ MarkerIsEarned /\ world' = world
  BY CallParts DEF SyncIInv
<1>2. Earned(t, d)
  BY <1>1 DEF MarkerIsEarned
<1>3. /\ todo[s] \in Seq(CallType) /\ todo[s] # <<>> /\ call \in CallType /\ call = todo[s][1]
      /\ c \in DOMAIN cloud /\ todo'[s] = Tail(todo[s]) /\ pc[s] = "calling" /\ target' = target
      /\ \A u \in Source : u # s => todo'[u] = todo[u] /\ pc'[u] = pc[u]
      /\ \A e \in DOMAIN cloud : e # c => cloud'[e] = cloud[e] /\ history'.writers[e] = history.writers[e]
      /\ \A i \in DOMAIN todo[s] : CallIsSafe(s, i)
      /\ history'.edited = history.edited /\ history.broken \subseteq history'.broken
      /\ history'.writers[c] = history.writers[c] \cup {s}
      /\ c \notin history'.broken => cloud'[c] = Effect(cloud[c], call)
  BY CallParts
<1>4. /\ cloud'[c].state \in {cloud[c].state} \cup (IF call.op = "transition" THEN {Wanted(s)} ELSE {})
      /\ cloud[c].state # "OPEN" => cloud'[c].state = cloud[c].state
      /\ cloud'[c].tags = cloud[c].tags \/ (call.op = "tags" /\ cloud'[c].tags = call.set)
      /\ \A b : HoldsBody(c, b) => \E i \in DOMAIN cloud'[c].comments : cloud'[c].comments[i].body = b
      /\ cloud'[c] = Effect(cloud[c], call) =>
           /\ call.op = "transition" /\ cloud[c].state = "OPEN" => cloud'[c].state = Wanted(s)
           /\ call.op = "comment" => \E i \in DOMAIN cloud'[c].comments : cloud'[c].comments[i] = call.says
  BY CallChanges
<1>5. Tail(todo[s]) \in Seq(CallType) /\ 1 \in DOMAIN todo[s]
      /\ (\A i \in DOMAIN Tail(todo[s]) : i + 1 \in DOMAIN todo[s] /\ Tail(todo[s])[i] = todo[s][i + 1])
      /\ (\A i \in DOMAIN todo[s] : i # 1 => i - 1 \in DOMAIN Tail(todo[s]) /\ todo[s][i] = Tail(todo[s])[i - 1])
      /\ DOMAIN todo[s] = 1 .. Len(todo[s]) /\ Len(todo[s]) \in Nat
  BY <1>3, HeadAndTail
<1> HIDE DEF c, call, bodies
<1>6. CASE d # c
  <2>1. CASE t = s
    <3>1. ~(pc'[t] = "calling" /\ target'[t] = d)
      BY <1>3, <1>6, <2>1 DEF c
    <3> QED BY <1>1, <1>2, <1>3, <1>6, <3>1, EarnedSame
  <2>2. CASE t # s
    <3>1. target'[t] = target[t]
      BY <1>3
    <3> QED BY <1>1, <1>2, <1>3, <1>6, <2>2, <3>1, EarnedSame
  <2> QED BY <2>1, <2>2
<1>7. CASE d = c /\ t # s
  <2>1. ~Alone(t, d)'
    BY <1>3, <1>7 DEF Alone
  <2> QED BY <2>1 DEF Earned
<1>8. CASE d = c /\ t = s
  <2> SUFFICES ASSUME Alone(t, d)'
               PROVE  /\ WillTag(t, d)' => WillHold(t, d)'
                      /\ cloud'[d].state \in {"OPEN", Wanted(t)'}
                      /\ history'.writers[d] # {}
                      /\ Marker \in cloud'[d].tags => Holds(t, d)'
    BY DEF Earned
  <2>1. /\ Alone(s, c) /\ cloud'[c] = Effect(cloud[c], call) /\ history'.writers[c] # {}
    BY <1>3, <1>8 DEF Alone
  <2>2. /\ WillTag(s, c) => WillHold(s, c)
        /\ cloud[c].state \in {"OPEN", Wanted(s)}
        /\ Marker \in cloud[c].tags => Holds(s, c)
    BY <1>2, <1>8, <2>1 DEF Earned
  <2>3. Wanted(t)' = Wanted(s) /\ NoReview(t, d)' = NoReview(s, c) /\ NoComments(t)' = NoComments(s)
        /\ Capped(CommentsOf(t))' = bodies
    BY <1>1, <1>8, SameWorld DEF bodies
  <2>4. cloud'[c].state \in {"OPEN", Wanted(s)} /\ (cloud[c].state = Wanted(s) => cloud'[c].state = Wanted(s))
    BY <1>4, <2>2
  <2>5. \A n : HoldsBody(c, bodies[n]) => \E i \in DOMAIN cloud'[c].comments : cloud'[c].comments[i].body = bodies[n]
    BY <1>4
  \* What held holds on.
  <2>6. Holds(s, c) => Holds(t, d)'
    <3>1. Holds(s, c) =>
            /\ NoReview(s, c) \/ cloud[c].state = Wanted(s)
            /\ NoComments(s) \/ \A n \in DOMAIN bodies : HoldsBody(c, bodies[n])
      BY DEF Holds, bodies
    <3>2. Holds(s, c) =>
            /\ NoReview(s, c) \/ cloud'[c].state = Wanted(s)
            /\ NoComments(s) \/ \A n \in DOMAIN bodies :
                 \E i \in DOMAIN cloud'[c].comments : cloud'[c].comments[i].body = bodies[n]
      BY <2>4, <2>5, <3>1
    <3> QED BY <1>8, <2>3, <3>2 DEF Holds, HoldsBody
  <2>7. WillTag(t, d)' => WillHold(t, d)'
    <3> SUFFICES ASSUME WillTag(t, d)' PROVE WillHold(t, d)'
      OBVIOUS
    <3>1. PICK i0 \in DOMAIN Tail(todo[s]) : Tail(todo[s])[i0].op = "tags"
      BY <1>3, <1>8 DEF WillTag
    <3>2. WillHold(s, c)
      <4>1. WillTag(s, c)
        BY <1>3, <1>5, <3>1 DEF WillTag, c
      <4> QED BY <2>2, <4>1
    <3>3. /\ \/ NoReview(s, c)
             \/ cloud[c].state = Wanted(s)
             \/ \E i \in DOMAIN todo[s] : todo[s][i].op = "transition"
          /\ \/ NoComments(s)
             \/ \A n \in DOMAIN bodies :
                   \/ HoldsBody(c, bodies[n])
                   \/ \E i \in DOMAIN todo[s] : todo[s][i] = Comment(s, bodies[n])
      BY <3>2 DEF WillHold, bodies
    <3>4. \/ NoReview(s, c)
          \/ cloud'[c].state = Wanted(s)
          \/ \E i \in DOMAIN Tail(todo[s]) : Tail(todo[s])[i].op = "transition"
      <4>1. CASE \E i \in DOMAIN todo[s] : todo[s][i].op = "transition"
        <5>1. PICK i \in DOMAIN todo[s] : todo[s][i].op = "transition"
          BY <4>1
        <5>2. CASE i = 1
          BY <1>3, <1>4, <2>1, <2>2, <2>4, <5>1, <5>2
        <5>3. CASE i # 1
          BY <1>5, <5>1, <5>3
        <5> QED BY <5>2, <5>3
      <4> QED BY <2>4, <3>3, <4>1
    <3>5. ASSUME NEW n \in DOMAIN bodies, ~NoComments(s)
          PROVE  \/ \E i \in DOMAIN cloud'[c].comments : cloud'[c].comments[i].body = bodies[n]
                 \/ \E i \in DOMAIN Tail(todo[s]) : Tail(todo[s])[i] = Comment(s, bodies[n])
      <4>1. CASE HoldsBody(c, bodies[n])
        BY <2>5, <4>1
      <4>2. CASE \E i \in DOMAIN todo[s] : todo[s][i] = Comment(s, bodies[n])
        <5>1. PICK i \in DOMAIN todo[s] : todo[s][i] = Comment(s, bodies[n])
          BY <4>2
        <5>2. CASE i = 1
          <6>1. call.op = "comment" /\ call.says = Said(s, bodies[n])
            BY <1>3, <5>1, <5>2, CommentIs
          <6> QED BY <1>4, <2>1, <6>1 DEF Said
        <5>3. CASE i # 1
          BY <1>5, <5>1, <5>3
        <5> QED BY <5>2, <5>3
      <4> QED BY <3>3, <3>5, <4>1, <4>2
    <3>6. (\/ NoReview(t, d)
           \/ cloud[d].state = Wanted(t)
           \/ \E i \in DOMAIN todo[t] : todo[t][i].op = "transition")'
      BY <1>3, <1>8, <2>3, <3>4
    <3>7. (\/ NoComments(t)
           \/ \A n \in DOMAIN Capped(CommentsOf(t)) :
                 \/ HoldsBody(d, Capped(CommentsOf(t))[n])
                 \/ \E i \in DOMAIN todo[t] : todo[t][i] = Comment(t, Capped(CommentsOf(t))[n]))'
      <4>1. \/ NoComments(s)
            \/ \A n \in DOMAIN bodies :
                 \/ \E i \in DOMAIN cloud'[c].comments : cloud'[c].comments[i].body = bodies[n]
                 \/ \E i \in DOMAIN todo'[s] :
                       todo'[s][i] = [op |-> "comment", says |-> [from |-> s, body |-> bodies[n]]]
        BY <1>3, <3>5 DEF Comment
      <4> QED BY <1>8, <2>3, <4>1 DEF HoldsBody, Comment
    <3> QED BY <3>6, <3>7 DEF WillHold
  <2>8. Marker \in cloud'[c].tags => Holds(t, d)'
    <3>1. CASE cloud'[c].tags = cloud[c].tags
      BY <2>2, <2>6, <3>1
    <3>2. CASE call.op = "tags"
      <4>1. Len(todo[s]) = 1
        <5>1. CallIsSafe(s, 1)
          BY <1>3, <1>5
        <5> QED BY <1>3, <3>2, <5>1 DEF CallIsSafe
      <4>2. \A i \in DOMAIN todo[s] : todo[s][i] = call
        BY <1>3, <1>5, <4>1
      <4>3. WillTag(s, c)
        BY <1>3, <1>5, <3>2, <4>2 DEF WillTag, c
      <4>4. \A b : call # Comment(s, b)
        BY <3>2 DEF Comment
      <4>5. Holds(s, c)
        <5>1. NoReview(s, c) \/ cloud[c].state = Wanted(s)
          BY <2>2, <3>2, <4>2, <4>3 DEF WillHold
        <5>2. NoComments(s) \/ \A n \in DOMAIN bodies : HoldsBody(c, bodies[n])
          BY <2>2, <4>2, <4>3, <4>4 DEF WillHold, bodies
        <5> QED BY <5>1, <5>2 DEF Holds, bodies
      <4> QED BY <2>6, <4>5
    <3> QED BY <1>4, <3>1, <3>2
  <2> QED BY <1>8, <2>1, <2>3, <2>4, <2>7, <2>8
<1> QED BY <1>6, <1>7, <1>8

LEMMA CallKeeps ==
    ASSUME SyncIInv, NEW s \in Source, Call(s)
    PROVE  SyncIInv'
<1> DEFINE c == target[s]
           call == Head(todo[s])
<1>1. SyncTypes /\ SyncBounds /\ TagsAreKnown /\ InStages /\ TagsSurvive /\ NotBlind
      /\ CallsAreSafe /\ IndexIsOld /\ OncePerFinding /\ MarkerIsEarned /\ world \in Worlds
  BY DEF SyncIInv, SyncTypes
<1>2. /\ todo[s] \in Seq(CallType) /\ todo[s] # <<>> /\ call = todo[s][1] /\ call \in CallType
      /\ c \in DOMAIN cloud /\ s \in Visited /\ pc[s] = "calling" /\ stage = "syncing"
      /\ \A i \in DOMAIN todo[s] : CallIsSafe(s, i)
      /\ todo'[s] = Tail(todo[s]) /\ \A t \in Source : t # s => todo'[t] = todo[t] /\ pc'[t] = pc[t]
      /\ pc'[s] = IF todo'[s] = <<>> THEN "synced" ELSE "calling"
      /\ pc' \in [Source -> {"waiting", "calling"} \cup Outcomes]
      /\ todo' \in [Source -> Seq(CallType)]
      /\ DOMAIN cloud' = DOMAIN cloud /\ cloud' \in [DOMAIN world.cloud -> IssueType]
      /\ \A d \in DOMAIN cloud : d # c => cloud'[d] = cloud[d]
      /\ faults' \in 0..MaxFaults
      /\ history'.before = history.before /\ history'.blind = history.blind
      /\ history' \in [before : [DOMAIN world.cloud -> SUBSET Text],
                       broken : SUBSET CloudIssue, edited : SUBSET CloudIssue,
                       writers : [DOMAIN world.cloud -> SUBSET Source], blind : BOOLEAN]
      /\ UNCHANGED <<world, indexed, edits, stage, tries, index, target, runs>>
  BY CallParts
<1>3. /\ cloud'[c].tags = cloud[c].tags \/ (call.op = "tags" /\ cloud'[c].tags = call.set)
      /\ \/ cloud'[c].comments = cloud[c].comments
         \/ /\ call.op = "comment" /\ call.says \in CommentType
            /\ cloud'[c].comments = Append(cloud[c].comments, call.says)
      /\ cloud[c].comments \in Seq(CommentType)
  BY CallChanges
<1>4. Tail(todo[s]) \in Seq(CallType) /\ 1 \in DOMAIN todo[s] /\ Len(Tail(todo[s])) = Len(todo[s]) - 1
      /\ (\A i \in DOMAIN Tail(todo[s]) : i + 1 \in DOMAIN todo[s] /\ Tail(todo[s])[i] = todo[s][i + 1])
      /\ Len(todo[s]) \in Nat /\ DOMAIN Tail(todo[s]) \subseteq Int
  BY <1>2, HeadAndTail
<1>5. CallIsSafe(s, 1)
  BY <1>2, <1>4
<1>6. call.op = "tags" => history.before[c] \subseteq call.set /\ call.set \subseteq Tag
  <2>1. call.op = "tags" => history.before[c] \subseteq call.set
    BY <1>2, <1>5 DEF CallIsSafe
  <2>2. call.op = "tags" => call.set \subseteq Tag
    BY <1>1, <1>2, <1>4 DEF TagsAreKnown
  <2> QED BY <2>1, <2>2
<1>7. call.op = "comment" => call.says = Link \/ call.says.from = s
  BY <1>2, <1>5 DEF CallIsSafe
<1> HIDE DEF c, call
<1>8. SyncTypes'
  BY <1>1, <1>2 DEF SyncTypes, IssueType, CallType, CommentType, Text, Outcomes
<1>9. SyncBounds'
  <2>1. (Cardinality(Active) <= Slots)'
    <3>1. Active' \in SUBSET Active /\ Active \in SUBSET Source
      BY <1>2 DEF Active
    <3>2. IsFiniteSet(Active)
      BY <3>1, SourceIs, FS_Subset
    <3>3. Cardinality(Active') <= Cardinality(Active) /\ IsFiniteSet(Active')
      BY <3>1, <3>2, FS_Subset
    <3>4. Cardinality(Active') \in Nat /\ Cardinality(Active) \in Nat
      BY <3>2, <3>3, FS_CardinalityType
    <3> QED BY <1>1, <3>3, <3>4, SyncNumbers DEF SyncBounds
  <2> QED BY <1>1, <1>2, <2>1 DEF SyncBounds
<1>10. TagsAreKnown'
  <2>1. Tag' = Tag
    BY <1>2, TagSame
  <2>2. \A d \in DOMAIN cloud : cloud'[d].tags \subseteq Tag
    BY <1>1, <1>2, <1>3, <1>6 DEF TagsAreKnown
  <2>3. ASSUME NEW t \in Source, NEW i \in DOMAIN todo'[t], todo'[t][i].op = "tags"
        PROVE  todo'[t][i].set \subseteq Tag
    <3>1. CASE t = s
      <4>1. i + 1 \in DOMAIN todo[s] /\ todo'[t][i] = todo[s][i + 1]
        BY <1>2, <1>4, <2>3, <3>1
      <4>2. \A j \in DOMAIN todo[s] : todo[s][j].op = "tags" => todo[s][j].set \subseteq Tag
        BY <1>1 DEF TagsAreKnown
      <4> QED BY <2>3, <4>1, <4>2
    <3>2. CASE t # s
      BY <1>1, <1>2, <2>3, <3>2 DEF TagsAreKnown
    <3> QED BY <3>1, <3>2
  <2> QED BY <1>1, <1>2, <2>1, <2>2, <2>3 DEF TagsAreKnown
<1>11. InStages'
  <2>1. "synced" # "calling" /\ "synced" # "waiting"
    OBVIOUS
  <2>2. Visited' = Visited
    BY <1>2, SameWorld
  <2> QED BY <1>1, <1>2, <2>1, <2>2 DEF InStages, c
<1>12. TagsSurvive' /\ NotBlind'
  <2>1. \A d \in DOMAIN cloud : history.before[d] \subseteq cloud'[d].tags
    BY <1>1, <1>2, <1>3, <1>6 DEF TagsSurvive
  <2> QED BY <1>1, <1>2, <2>1 DEF TagsSurvive, NotBlind
<1>13. CallsAreSafe'
  <2> SUFFICES ASSUME NEW t \in Source PROVE OnlySafe(t)'
    BY DEF CallsAreSafe
  <2>1. CASE t # s
    BY <1>1, <1>2, <2>1, OnlySafeSame DEF CallsAreSafe
  <2>2. CASE t = s
    <3> SUFFICES ASSUME NEW i \in DOMAIN Tail(todo[s]) PROVE CallIsSafe(s, i)'
      BY <1>2, <2>2 DEF OnlySafe
    <3>1. CallIsSafe(s, i + 1) /\ Tail(todo[s])[i] = todo[s][i + 1] /\ i \in Int
      BY <1>2, <1>4
    <3>2. i + 1 = Len(todo[s]) => i = Len(Tail(todo[s]))
      BY <1>4, <3>1
    <3> DEFINE call2 == Tail(todo[s])[i]
    <3>3. /\ call2.op = "tags" => i = Len(Tail(todo[s])) /\ history.before[target[s]] \subseteq call2.set
          /\ call2.op = "transition" =>
                      call2.to = Wanted(s) /\ call2.to # "OPEN" /\ (Hotspots => Category(s) = "eligible")
          /\ call2.op = "comment" => call2.says = Link \/ call2.says.from = s
          /\ ~Hotspots /\ Marker \in history.before[target[s]] => call2.op = "comment"
      BY <3>1, <3>2 DEF CallIsSafe
    <3> QED BY <1>2, <3>3, SameWorld DEF CallIsSafe, Link
  <2> QED BY <2>1, <2>2
<1>14. IndexIsOld'
  <2> SUFFICES ASSUME NEW d \in DOMAIN index PROVE Old(d)'
    BY <1>2 DEF IndexIsOld
  <2>1. Old(d) /\ d \in DOMAIN cloud
    BY <1>1 DEF IndexIsOld, SyncTypes
  <2>2. \A t \in Source : pc'[t] = "waiting" => pc[t] = "waiting" /\ t # s
    BY <1>2
  <2>3. \A i \in DOMAIN cloud[d].comments : i \in DOMAIN cloud'[d].comments /\ cloud'[d].comments[i] = cloud[d].comments[i]
    <3>1. CASE cloud'[d].comments = cloud[d].comments
      BY <3>1
    <3>2. CASE d = c /\ call.says \in CommentType /\ cloud'[d].comments = Append(cloud[d].comments, call.says)
      <4>1. cloud[d].comments \in Seq(CommentType)
        BY <1>3, <3>2
      <4> QED BY <3>2, <4>1, LongerIs
    <3> QED BY <1>2, <1>3, <2>1, <3>1, <3>2
  <2>4. \A j \in DOMAIN cloud'[d].comments :
           \/ j \in DOMAIN cloud[d].comments /\ cloud'[d].comments[j] = cloud[d].comments[j]
           \/ cloud'[d].comments[j] = Link \/ cloud'[d].comments[j].from = s
    <3>1. CASE cloud'[d].comments = cloud[d].comments
      BY <3>1
    <3>2. CASE /\ d = c /\ call.op = "comment" /\ call.says \in CommentType
               /\ cloud'[d].comments = Append(cloud[d].comments, call.says)
      <4>1. cloud[d].comments \in Seq(CommentType)
        BY <1>3, <3>2
      <4>2. \A j \in DOMAIN cloud'[d].comments :
              \/ j \in DOMAIN cloud[d].comments /\ cloud'[d].comments[j] = cloud[d].comments[j]
              \/ cloud'[d].comments[j] = call.says
        BY <3>2, <4>1, LongerIs
      <4> QED BY <1>7, <3>2, <4>2
    <3> QED BY <1>2, <1>3, <2>1, <3>1, <3>2
  <2>5. \A t \in Source : Link.from # t /\ (t # s => s # t)
    BY SourceIs DEF Link
  <2>6. \A i \in DOMAIN index[d].comments : \E j \in DOMAIN cloud'[d].comments :
          cloud'[d].comments[j] = index[d].comments[i]
    BY <2>1, <2>3 DEF Old
  <2>7. ASSUME NEW t \in Source, NEW j \in DOMAIN cloud'[d].comments,
               pc'[t] = "waiting", cloud'[d].comments[j].from = t
        PROVE  \E i \in DOMAIN index[d].comments : cloud'[d].comments[j] = index[d].comments[i]
    <3>1. j \in DOMAIN cloud[d].comments /\ cloud'[d].comments[j] = cloud[d].comments[j]
      BY <2>2, <2>4, <2>5, <2>7
    <3> QED BY <2>1, <2>2, <2>7, <3>1 DEF Old
  <2> QED BY <1>2, <2>1, <2>6, <2>7 DEF Old
<1>15. OncePerFinding'
  BY <1>2, CallKeepsCount DEF OncePerFinding
<1>16. MarkerIsEarned'
  BY <1>2, CallKeepsMarker DEF MarkerIsEarned
<1> QED BY <1>8, <1>9, <1>10, <1>11, <1>12, <1>13, <1>14, <1>15, <1>16 DEF SyncIInv
-----------------------------------------------------------------------------
(* The theorems of the sync.                                               *)

LEMMA OwnTags == \A c \in DOMAIN cloud : world.cloud[c].tags \subseteq Tag
<1> DEFINE A == {Marker, Former, "theirs"} \cup world.ruleTags \cup (UNION {Of(s).tags : s \in Source})
           B == UNION {world.cloud[c].tags : c \in DOMAIN cloud}
<1>1. Tag = A \cup B
  BY DEF Tag
<1>2. ASSUME NEW c \in DOMAIN cloud, NEW x \in world.cloud[c].tags PROVE x \in B
  OBVIOUS
<1> HIDE DEF A, B
<1> QED BY <1>1, <1>2

LEMMA SyncInitHolds == Init => SyncIInv
<1> SUFFICES ASSUME Init PROVE SyncIInv
  OBVIOUS
<1>1. /\ world \in Worlds
      /\ cloud = [c \in DOMAIN world.cloud |->
                    [state |-> "OPEN", comments |-> <<>>, tags |-> world.cloud[c].tags]]
      /\ indexed \subseteq DOMAIN world.cloud
      /\ stage = "idle" /\ tries = 0 /\ index = <<>>
      /\ todo = [s \in Source |-> <<>>]
      /\ pc = [s \in Source |-> "waiting"]
      /\ target = [s \in Source |-> None]
      /\ runs = 0 /\ faults = 0 /\ edits = 0
      /\ history = [before  |-> [c \in DOMAIN world.cloud |-> world.cloud[c].tags],
                    broken  |-> {}, edited  |-> {},
                    writers |-> [c \in DOMAIN world.cloud |-> {}],
                    blind   |-> FALSE]
  BY DEF Init
<1>2. \A c \in DOMAIN world.cloud : world.cloud[c].tags \in SUBSET Text /\ Marker \notin world.cloud[c].tags
  BY <1>1, WorldTypes
<1>3. <<>> \in Seq(CommentType) /\ <<>> \in Seq(CallType)
  OBVIOUS
<1>4. /\ DOMAIN cloud = DOMAIN world.cloud
      /\ \A c \in DOMAIN cloud : cloud[c].state = "OPEN" /\ cloud[c].comments = <<>>
                                 /\ cloud[c].tags = world.cloud[c].tags /\ cloud[c] \in IssueType
      /\ cloud \in [DOMAIN world.cloud -> IssueType]
  <2>1. \A c \in DOMAIN world.cloud :
          [state |-> "OPEN", comments |-> <<>>, tags |-> world.cloud[c].tags] \in IssueType
    <3> HIDE DEF CommentType, Text
    <3> QED BY <1>2, <1>3 DEF IssueType, States
  <2> HIDE DEF IssueType
  <2> QED BY <1>1, <2>1
<1>5. DOMAIN index = {}
  BY <1>1
<1>6. \A s \in Source : pc[s] = "waiting" /\ todo[s] = <<>>
  BY <1>1
<1>7. SyncTypes
  <2>1. history \in [before : [DOMAIN world.cloud -> SUBSET Text],
                     broken : SUBSET CloudIssue, edited : SUBSET CloudIssue,
                     writers : [DOMAIN world.cloud -> SUBSET Source], blind : BOOLEAN]
    <3> HIDE DEF Text
    <3> QED BY <1>1, <1>2
  <2>2. todo \in [Source -> Seq(CallType)] /\ pc \in [Source -> {"waiting", "calling"} \cup Outcomes]
        /\ target \in [Source -> CloudIssue \cup {None}]
    BY <1>1, <1>3
  <2> QED BY <1>1, <1>4, <1>5, <2>1, <2>2 DEF SyncTypes
<1>8. SyncBounds
  <2>1. Cardinality(Active) <= Slots
    BY <1>6, NobodyActs
  <2> QED BY <1>1, <2>1, SyncNumbers DEF SyncBounds
<1>9. TagsAreKnown
  <2>1. \A c \in DOMAIN cloud : cloud[c].tags \subseteq Tag
    <3> TAKE c \in DOMAIN cloud
    <3>1. cloud[c].tags = world.cloud[c].tags
      BY <1>4
    <3>2. world.cloud[c].tags \subseteq Tag
      BY OwnTags
    <3> QED BY <3>1, <3>2
  <2> QED BY <1>5, <1>6, <2>1 DEF TagsAreKnown
<1>10. InStages
  BY <1>1, <1>5, <1>6 DEF InStages
<1>11. TagsSurvive /\ NotBlind
  BY <1>1, <1>4 DEF TagsSurvive, NotBlind
<1>12. CallsAreSafe /\ IndexIsOld
  BY <1>5, <1>6 DEF CallsAreSafe, OnlySafe, IndexIsOld
<1>13. OncePerFinding
  <2> SUFFICES ASSUME NEW c \in DOMAIN cloud, NEW s \in Source, NEW body \in Text
               PROVE  Times(cloud[c].comments, Said(s, body)) + Ahead(s, c, body)
                        <= Times(Capped(CommentsOf(s)), body)
    BY DEF OncePerFinding, Once
  <2>1. Times(cloud[c].comments, Said(s, body)) = 0
    BY <1>4, TimesOne
  <2>2. Ahead(s, c, body) = 0
    BY <1>6 DEF Ahead
  <2>3. Times(Capped(CommentsOf(s)), body) \in Nat
    BY <1>1, CommentsType, TimesType
  <2> QED BY <2>1, <2>2, <2>3
<1>14. MarkerIsEarned
  BY <1>2, <1>4, <1>6 DEF MarkerIsEarned, Earned, WillTag
<1> QED BY <1>7, <1>8, <1>9, <1>10, <1>11, <1>12, <1>13, <1>14 DEF SyncIInv

LEMMA OneSyncStep == SyncIInv /\ [Next]_vars => SyncIInv'
<1> SUFFICES ASSUME SyncIInv, [Next]_vars PROVE SyncIInv'
  OBVIOUS
<1>1. CASE Start
  BY <1>1, StartKeeps
<1>2. CASE NoWait \/ GiveUpWaiting
  BY <1>2, WaitEnds
<1>3. CASE Count
  BY <1>3, WaitEnds, CountKeeps
<1>4. CASE CountFails
  BY <1>4, CountFailsKeeps
<1>5. CASE Finish \/ Die
  BY <1>5, RunEnds
<1>6. ASSUME NEW s \in Source, Visit(s) PROVE SyncIInv'
  BY <1>6, VisitKeeps
<1>7. ASSUME NEW s \in Source, LookupFails(s) PROVE SyncIInv'
  BY <1>7, LookupFailsKeeps
<1>8. ASSUME NEW s \in Source, Call(s) PROVE SyncIInv'
  BY <1>8, CallKeeps
<1>9. ASSUME NEW c \in DOMAIN cloud, IndexCatchesUp(c) PROVE SyncIInv'
  BY <1>9, IndexCatchesUpKeeps
<1>10. ASSUME NEW c \in DOMAIN cloud, Edit(c) PROVE SyncIInv'
  BY <1>10, EditKeeps
<1>11. CASE UNCHANGED vars
  <2>1. UNCHANGED <<world, cloud, indexed, stage, tries, index, todo, pc, target, runs, faults, edits, history>>
    BY <1>11 DEF vars
  <2>2. SyncTypes /\ SyncBounds /\ TagsAreKnown /\ InStages /\ TagsSurvive /\ NotBlind
        /\ CallsAreSafe /\ IndexIsOld /\ OncePerFinding /\ MarkerIsEarned
    BY DEF SyncIInv
  <2>3. SyncTypes' /\ SyncBounds'
    BY <2>1, <2>2, ActiveSame DEF SyncTypes, SyncBounds, IssueType, CallType, CommentType, Text, Outcomes
  <2>4. TagsAreKnown' /\ InStages' /\ TagsSurvive' /\ NotBlind'
    BY <2>1, <2>2, TagSame, SameWorld DEF TagsAreKnown, InStages, TagsSurvive, NotBlind
  <2>5. CallsAreSafe' /\ IndexIsOld'
    <3>1. CallsAreSafe'
      BY <2>1, <2>2, OnlySafeSame DEF CallsAreSafe
    <3>2. IndexIsOld'
      BY <2>1, <2>2 DEF IndexIsOld, Old
    <3> QED BY <3>1, <3>2
  <2>6. OncePerFinding' /\ MarkerIsEarned'
    <3>1. OncePerFinding'
      BY <2>1, <2>2, OnceSame DEF OncePerFinding
    <3>2. MarkerIsEarned'
      BY <2>1, <2>2, EarnedSame DEF MarkerIsEarned
    <3> QED BY <3>1, <3>2
  <2> QED BY <2>3, <2>4, <2>5, <2>6 DEF SyncIInv
<1> QED BY <1>1, <1>2, <1>3, <1>4, <1>5, <1>6, <1>7, <1>8, <1>9, <1>10, <1>11 DEF Next, Run

LEMMA SyncIsRight == SyncIInv => SyncInv
<1> SUFFICES ASSUME SyncIInv PROVE SyncInv
  OBVIOUS
<1>1. SyncTypes /\ SyncBounds /\ TagsAreKnown /\ InStages /\ TagsSurvive /\ NotBlind
      /\ OncePerFinding /\ MarkerIsEarned
  BY DEF SyncIInv
<1>2. /\ DOMAIN cloud = DOMAIN world.cloud /\ DOMAIN cloud \subseteq CloudIssue
      /\ \A c \in DOMAIN cloud : cloud[c] \in IssueType /\ cloud[c].comments \in Seq(CommentType)
  BY <1>1, SyncDomains
<1>3. \A c \in DOMAIN cloud : \A i \in DOMAIN cloud[c].comments :
        /\ cloud[c].comments[i].from \in Source \cup {0} /\ cloud[c].comments[i].body \in Text
        /\ cloud[c].comments[i] = Said(cloud[c].comments[i].from, cloud[c].comments[i].body)
  <2> TAKE c \in DOMAIN cloud
  <2> TAKE i \in DOMAIN cloud[c].comments
  <2>1. cloud[c].comments[i] \in CommentType
    BY <1>2
  <2> QED BY <2>1 DEF CommentType, Said
<1>4. TypeOK
  <2>1. \A c \in DOMAIN cloud : cloud[c].state \in {"OPEN", "CONFIRMED", "ACCEPTED", "FALSE_POSITIVE"}
    BY <1>2 DEF IssueType, States
  <2>2. \A s \in Source : /\ pc[s] \in {"waiting", "calling"} \cup Outcomes
                          /\ (pc[s] = "calling") => (todo[s] # <<>> /\ target[s] \in DOMAIN cloud)
    BY <1>1 DEF SyncTypes, InStages
  <2>3. /\ world \in Worlds /\ indexed \subseteq DOMAIN cloud /\ DOMAIN index \subseteq DOMAIN cloud
        /\ stage \in {"idle", "waiting", "syncing", "over"}
    BY <1>1 DEF SyncTypes
  <2>4. \A c \in DOMAIN cloud : cloud[c].tags \subseteq Tag
    BY <1>1 DEF TagsAreKnown
  <2> QED BY <1>1, <1>2, <1>3, <2>1, <2>2, <2>3, <2>4 DEF TypeOK, SyncBounds
<1>5. NothingTwice
  <2> SUFFICES ASSUME NEW c \in DOMAIN cloud, NEW i \in DOMAIN cloud[c].comments,
                      cloud[c].comments[i].from # 0
               PROVE  Times(cloud[c].comments, cloud[c].comments[i])
                        <= Times(Capped(CommentsOf(cloud[c].comments[i].from)), cloud[c].comments[i].body)
    BY DEF NothingTwice
  <2> DEFINE s == cloud[c].comments[i].from
             b == cloud[c].comments[i].body
  <2>1. s \in Source /\ b \in Text /\ cloud[c].comments[i] = Said(s, b)
    BY <1>3
  <2> HIDE DEF s, b
  <2>2. Times(cloud[c].comments, Said(s, b)) + Ahead(s, c, b) <= Times(Capped(CommentsOf(s)), b)
    BY <1>1, <2>1 DEF OncePerFinding, Once
  <2>3. Times(cloud[c].comments, Said(s, b)) \in Nat
    BY <1>2, TimesType
  <2>4. Times(Capped(CommentsOf(s)), b) \in Nat
    BY <1>1, <2>1, CommentsType, TimesType DEF SyncTypes
  <2>5. Ahead(s, c, b) \in Nat
    <3>1. todo[s] \in Seq(CallType)
      BY <1>1, <2>1, SyncDomains
    <3> QED BY <3>1, TimesType DEF Ahead
  <2>6. Times(cloud[c].comments, Said(s, b)) <= Times(Capped(CommentsOf(s)), b)
    BY <2>2, <2>3, <2>4, <2>5
  <2> QED BY <2>1, <2>6 DEF s, b
<1>6. MarkedIsComplete
  <2> SUFFICES ASSUME NEW c \in DOMAIN cloud, NEW s \in Source, Marker \in cloud[c].tags,
                      history.writers[c] = {s}, c \notin history.broken \cup history.edited
               PROVE  HoldsReview(s, c) /\ HoldsComments(s, c)
    BY DEF MarkedIsComplete
  <2>1. Alone(s, c) /\ Earned(s, c)
    BY <1>1 DEF Alone, MarkerIsEarned
  <2>2. Holds(s, c)
    BY <2>1 DEF Earned
  <2>3. HoldsReview(s, c)
    BY <2>2 DEF Holds, HoldsReview, NoReview
  <2>4. \A b : HoldsBody(c, b) => Copies(c, b) > 0
    <3> TAKE b
    <3> HAVE HoldsBody(c, b)
    <3> DEFINE Spots == {i \in DOMAIN cloud[c].comments : cloud[c].comments[i].body = b}
    <3>1. Spots # {}
      BY DEF HoldsBody
    <3>2. DOMAIN cloud[c].comments = 1 .. Len(cloud[c].comments) /\ Len(cloud[c].comments) \in Int /\ 1 \in Int
      BY <1>2
    <3>3. Spots \in SUBSET (1 .. Len(cloud[c].comments))
      BY <3>2
    <3> HIDE DEF Spots
    <3>4. IsFiniteSet(Spots)
      BY <3>2, <3>3, FS_Interval, FS_Subset
    <3>5. Cardinality(Spots) \in Nat /\ Cardinality(Spots) # 0
      BY <3>1, <3>4, FS_CardinalityType, FS_EmptySet
    <3>6. Copies(c, b) = Cardinality(Spots)
      BY DEF Copies, Spots
    <3> QED BY <3>5, <3>6
  <2>5. HoldsComments(s, c)
    BY <2>2, <2>4 DEF Holds, HoldsComments, NoComments
  <2> QED BY <2>3, <2>5
<1> QED BY <1>1, <1>4, <1>5, <1>6 DEF SyncInv

\* Who changes an issue in a step that is no edit: a call for a finding.
LEMMA WhoChanges ==
    ASSUME SyncIInv, [Next]_vars, NEW c \in DOMAIN cloud, edits' = edits,
           cloud'[c].state # cloud[c].state \/ cloud'[c].tags # cloud[c].tags
    PROVE  \E s \in Source : Call(s) /\ target[s] = c
<1>1. edits \in Nat
  BY DEF SyncIInv, SyncBounds
<1>2. \A s \in Source : Visit(s) \/ LookupFails(s) => cloud' = cloud
  BY DEF Visit, LookupFails
<1>3. Start \/ NoWait \/ Count \/ GiveUpWaiting \/ CountFails \/ Finish \/ Die => cloud' = cloud
  BY DEF Start, NoWait, Count, GiveUpWaiting, CountFails, Finish, Die, GoOn
<1>4. \A d \in DOMAIN cloud : ~Edit(d) /\ (IndexCatchesUp(d) => cloud' = cloud)
  BY <1>1 DEF Edit, IndexCatchesUp
<1>5. PICK s \in Source : Call(s)
  BY <1>2, <1>3, <1>4 DEF Next, Run, vars
<1>6. \A d \in DOMAIN cloud : d # target[s] => cloud'[d] = cloud[d]
  BY <1>5, CallParts
<1> QED BY <1>5, <1>6

LEMMA StepLeavesMarked ==
    ASSUME SyncIInv, [Next]_vars
    PROVE  \A c \in DOMAIN cloud :
             (~Hotspots /\ Marker \in history.before[c] /\ edits' = edits)
                 => cloud'[c].state = cloud[c].state /\ cloud'[c].tags = cloud[c].tags
<1> SUFFICES ASSUME NEW c \in DOMAIN cloud, ~Hotspots, Marker \in history.before[c], edits' = edits,
                    cloud'[c].state # cloud[c].state \/ cloud'[c].tags # cloud[c].tags
             PROVE  FALSE
  OBVIOUS
<1>1. PICK s \in Source : Call(s) /\ target[s] = c
  BY WhoChanges
<1>2. /\ todo[s] \in Seq(CallType) /\ todo[s] # <<>> /\ Head(todo[s]) = todo[s][1]
      /\ \A i \in DOMAIN todo[s] : CallIsSafe(s, i)
  BY <1>1, CallParts
<1>3. CallIsSafe(s, 1)
  BY <1>2, HeadAndTail
<1>4. Head(todo[s]).op = "comment"
  BY <1>1, <1>2, <1>3 DEF CallIsSafe
<1>5. /\ cloud'[c].state \in {cloud[c].state} \cup (IF Head(todo[s]).op = "transition" THEN {Wanted(s)} ELSE {})
      /\ cloud'[c].tags = cloud[c].tags \/ Head(todo[s]).op = "tags"
  BY <1>1, CallChanges
<1> QED BY <1>4, <1>5

LEMMA StepLeavesAcknowledged ==
    ASSUME SyncIInv, [Next]_vars
    PROVE  \A c \in DOMAIN cloud :
             (cloud'[c].state # cloud[c].state /\ edits' = edits /\ Hotspots)
                 => \E s \in Source : target[s] = c /\ pc[s] = "calling"
                       /\ \A t \in AcrossBranches(s) : ~Acknowledged(t)
<1> SUFFICES ASSUME NEW c \in DOMAIN cloud, cloud'[c].state # cloud[c].state, edits' = edits, Hotspots
             PROVE  \E s \in Source : target[s] = c /\ pc[s] = "calling"
                       /\ \A t \in AcrossBranches(s) : ~Acknowledged(t)
  OBVIOUS
<1>1. PICK s \in Source : Call(s) /\ target[s] = c
  BY WhoChanges
<1>2. /\ todo[s] \in Seq(CallType) /\ todo[s] # <<>> /\ Head(todo[s]) = todo[s][1]
      /\ \A i \in DOMAIN todo[s] : CallIsSafe(s, i)
      /\ pc[s] = "calling" /\ s \in Visited
  BY <1>1, CallParts
<1>3. CallIsSafe(s, 1)
  BY <1>2, HeadAndTail
<1>4. cloud'[c].state \in {cloud[c].state} \cup (IF Head(todo[s]).op = "transition" THEN {Wanted(s)} ELSE {})
  BY <1>1, CallChanges
<1>5. Category(s) = "eligible"
  BY <1>2, <1>3, <1>4 DEF CallIsSafe
<1>6. ~Acknowledged(s)
  BY <1>5 DEF Category
<1>7. ASSUME NEW t \in AcrossBranches(s), Acknowledged(t) PROVE FALSE
  <2>1. Precedes(s, t) /\ t \in Source
    BY <1>2, <1>7 DEF Visited, Stands, AcrossBranches
  <2>2. Of(s).review \in DOMAIN Caution /\ Of(t).review = "ACKNOWLEDGED"
    BY <1>7, WorldTypes DEF SyncIInv, SyncTypes, Acknowledged
  <2>3. Priority(t) = 0 /\ Priority(s) \in 1 .. 3
    BY <1>6, <2>2 DEF Priority, Caution, Acknowledged
  <2> QED BY <2>1, <2>3 DEF Precedes
<1> QED BY <1>1, <1>2, <1>7

\* Through kills, lost answers and repeated runs of the metadata sync, with any
\* number of findings, issues and faults.
THEOREM SyncKeepsInv == Spec => []SyncInv
<1>1. Init => SyncIInv
  BY SyncInitHolds
<1>2. SyncIInv /\ [Next]_vars => SyncIInv'
  BY OneSyncStep
<1>3. SyncIInv => SyncInv
  BY SyncIsRight
<1> QED BY <1>1, <1>2, <1>3, PTL DEF Spec

\* What people decided stays, on the target and on any branch of the source.
THEOREM PeoplesWorkIsKept == Spec => PeoplesWorkStays
<1> DEFINE Marked == \A c \in DOMAIN cloud :
             (~Hotspots /\ Marker \in history.before[c] /\ edits' = edits)
                 => cloud'[c].state = cloud[c].state /\ cloud'[c].tags = cloud[c].tags
           Stays == \A c \in DOMAIN cloud :
             (cloud'[c].state # cloud[c].state /\ edits' = edits /\ Hotspots)
                 => \E s \in Source : target[s] = c /\ pc[s] = "calling"
                       /\ \A t \in AcrossBranches(s) : ~Acknowledged(t)
<1>1. Init => SyncIInv
  BY SyncInitHolds
<1>2. SyncIInv /\ [Next]_vars => SyncIInv'
  BY OneSyncStep
<1>3. SyncIInv /\ [Next]_vars => [Marked /\ Stays]_vars
  BY StepLeavesMarked, StepLeavesAcknowledged
<1>4. PeoplesWorkStays <=> [][Marked]_vars /\ [][Stays]_vars
  BY DEF PeoplesWorkStays, MarkedIsLeftAlone, AcknowledgedStays
<1> HIDE DEF Marked, Stays
<1> QED BY <1>1, <1>2, <1>3, <1>4, PTL DEF Spec
=============================================================================
