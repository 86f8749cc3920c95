------------------------------ MODULE IssueSync ------------------------------
(***************************************************************************)
(* The metadata sync of one migrated project: the review state, comments   *)
(* and tags of the source's findings are replayed, one API call at a time, *)
(* on their counterparts in SonarQube Cloud.                               *)
(*                                                                         *)
(* A finding of the source is an issue or a security hotspot; on the       *)
(* target both are issues.  One goroutine per finding finds the            *)
(* counterpart and makes the calls; everything it decides rests on the     *)
(* counterpart as the lookup returned it.  An issue is looked up when its  *)
(* goroutine starts; the hotspots of a branch are all looked up before the *)
(* first goroutine starts.  Calls fail, or take effect and lose their      *)
(* answer; the process may die between any two calls and the sync be run   *)
(* again; the search index lags behind the import; people edit the target. *)
(***************************************************************************)
EXTENDS Integers, Sequences, FiniteSets, SequencesExt

CONSTANTS
    Source,           \* findings of the source, in the order of their keys
    CloudIssue,       \* issues of the migrated project
    Slots,            \* nestedSyncLoopConcurrency
    Worlds,           \* what the findings and the issues are
    MaxIssueComments, \* comments replayed per finding at most
    Threshold,        \* issueApproxMatchThreshold
    MaxTries,         \* bound: counts of waitForCloudIndexing (10 in the code)
    MaxRuns,          \* bound: runs of the sync
    MaxFaults,        \* bound: failed calls
    MaxEdits          \* bound: edits people make on the target

Marker == "metadata-synchronized"   \* metadataSyncTag
Former == "sqs-hotspot"             \* HotspotIssueTag
None == "none"

\* hotspotResolutionPriority: the most cautious first.
Caution == [ACKNOWLEDGED |-> 0, TO_REVIEW |-> 1, FIXED |-> 2, SAFE |-> 3]

\* submittedIssueIndex: the findings the import says it submitted.
NoField == -1   \* a row written before the field was introduced
SumOf(seq) == FoldSeq(+, 0, seq)
SubmitsNothing(w) ==
    w.readable /\ w.rows # <<>> /\ (\A i \in DOMAIN w.rows : w.rows[i] # NoField) /\ SumOf(w.rows) = 0

\* What was not submitted is not there, and the tool alone sets its marker.
ASSUME SyncAssumption ==
    /\ Source = 1..Cardinality(Source) /\ IsFiniteSet(Source) /\ IsFiniteSet(CloudIssue)
    /\ None \notin CloudIssue
    /\ {MaxIssueComments, Threshold, Slots, MaxTries, MaxRuns} \subseteq Nat \ {0}
    /\ {MaxFaults, MaxEdits} \subseteq Nat
    /\ \A w \in Worlds :
          /\ DOMAIN w.cloud \subseteq CloudIssue
          /\ \A c \in DOMAIN w.cloud : w.cloud[c].tags \in SUBSET STRING /\ Marker \notin w.cloud[c].tags
          /\ \A s \in Source :
                /\ w.source[s].comments \in Seq(STRING) /\ w.source[s].tags \in SUBSET STRING
                /\ w.kind = "hotspot" => w.source[s].review \in DOMAIN Caution
          /\ SubmitsNothing(w) => DOMAIN w.cloud = {}

VARIABLES
    world,    \* the world of this behaviour
    cloud,    \* per issue of the target: state, comments and tags
    indexed,  \* issues the search shows
    stage,    \* "idle", "waiting", "syncing" or "over"
    tries,    \* counts made by the indexing wait
    index,    \* hotspots: the issues of each branch as fetched at the start
    todo,     \* per finding: the calls still to make
    pc,       \* per finding: "waiting", "calling" or its outcome
    target,   \* per finding: its counterpart
    runs, faults, edits,
    history   \* ghost: what the properties remember, see Init

vars == <<world, cloud, indexed, stage, tries, index, todo, pc, target,
          runs, faults, edits, history>>

Link == [from |-> 0, body |-> "link"]
Outcomes == {"synced", "ambiguous", "not_found", "lookup_error", "unvisited"}

Of(s) == world.source[s]

-----------------------------------------------------------------------------
(* The findings that are visited. *)

\* UserTagsOnly: an extract folds the tags of the rule into those of the issue.
UserTags(s) == Of(s).tags \ world.ruleTags

\* hasManualChanges
HasManualChanges(s) ==
    \/ Of(s).review \in {"ACCEPTED", "FALSE_POSITIVE"}
    \/ UserTags(s) # {}
    \/ Of(s).comments # <<>>

ReversedPriority(s) == 3 - Caution[Of(s).review]

Priority(s) == Caution[Of(s).review]

\* The records of one hotspot: the same code location on several branches.
SameHotspot(s, t) == Of(s).line = Of(t).line /\ Of(s).offset = Of(t).offset
AcrossBranches(s) == {t \in Source : SameHotspot(s, t)}

\* dedupeActionableHotspots: the most cautious record, the first of them,
\* stands for all and carries the comments of all.
Precedes(s, t) == Priority(s) < Priority(t) \/ (Priority(s) = Priority(t) /\ s <= t)
Stands(s) == \A t \in AcrossBranches(s) : Precedes(s, t)
CommentsOfAll(s) ==
    Of(s).comments \o FlattenSeq([t \in 1..Cardinality(Source) |->
        IF t \in AcrossBranches(s) \ {s} THEN Of(t).comments ELSE <<>>])

Hotspots == world.kind = "hotspot"
Visited == IF Hotspots THEN {s \in Source : Stands(s)} ELSE {s \in Source : HasManualChanges(s)}
CommentsOf(s) == IF Hotspots THEN CommentsOfAll(s) ELSE Of(s).comments

\* hotspotHasUserComment: a technical comment has no login.
HasUserComment(s) == \E i \in DOMAIN CommentsOf(s) : CommentsOf(s)[i] \notin world.technical

\* classifyHotspotForSync
Acknowledged(s) == Of(s).review = "ACKNOWLEDGED"
Category(s) ==
    IF Acknowledged(s) THEN "acknowledged"
    ELSE IF Of(s).review # "TO_REVIEW" \/ HasUserComment(s) THEN "eligible" ELSE "excluded"

-----------------------------------------------------------------------------
(* The counterpart of a finding, among the issues the search returned.     *)
(* File and rule are equal by the search; a message is a number, similar   *)
(* to the next one.                                                        *)

OnBranch(s, found) == {c \in DOMAIN found : world.cloud[c].branch = Of(s).branch}

Score(s, c) ==
    LET there == world.cloud[c]
        apart == IF there.msg > Of(s).msg THEN there.msg - Of(s).msg ELSE Of(s).msg - there.msg
    IN  (IF apart = 0 THEN 2 ELSE IF apart = 1 THEN 1 ELSE 0)
        + (IF there.line = Of(s).line THEN 1 ELSE 0)
        + (IF there.author = Of(s).author THEN 1 ELSE 0)
        + 3   \* file, type and severity

SameLine(s, found) == {c \in OnBranch(s, found) : world.cloud[c].line = Of(s).line}
Exact(s, found) == {c \in SameLine(s, found) : world.cloud[c].msg = Of(s).msg}
Similar(s, found) == {c \in OnBranch(s, found) : Score(s, c) >= Threshold}

\* classifyIssueCandidatesByScore, classifyIssueCandidatesByLine
Candidates(s, found) ==
    IF Of(s).line = 0 THEN {}   \* not matchable
    ELSE IF Hotspots THEN SameLine(s, found)
    ELSE IF Exact(s, found) # {} THEN Exact(s, found) ELSE Similar(s, found)

-----------------------------------------------------------------------------
(* The calls for a finding, decided on the counterpart as looked up. *)

\* getFallbackTransition, HotspotIssueStatus
Wanted(s) ==
    CASE Of(s).review \in {"ACCEPTED", "FIXED"}       -> "ACCEPTED"
      [] Of(s).review \in {"FALSE_POSITIVE", "SAFE"}  -> "FALSE_POSITIVE"
      [] Of(s).review = "CONFIRMED"                  -> "CONFIRMED"
      [] OTHER                                       -> "OPEN"

\* resolveTransition: an "accept" that is not offered is not attempted.
Transition(s, c) ==
    IF Wanted(s) = "OPEN" \/ (Wanted(s) = "ACCEPTED" /\ ~world.cloud[c].acceptable)
    THEN <<>> ELSE <<[op |-> "transition", to |-> Wanted(s)]>>

\* capIssueComments: the most recent ones.
Capped(seq) == IF Len(seq) <= MaxIssueComments THEN seq
               ELSE SubSeq(seq, Len(seq) - MaxIssueComments + 1, Len(seq))

NeverMigrated(body, seen) == FALSE

\* isAlreadyMigratedIssueComment: a migrated comment with this body is there.
AlreadyMigrated(body, seen) ==
    \E i \in DOMAIN seen.comments : seen.comments[i].from # 0 /\ seen.comments[i].body = body

\* syncIssueComments: those that are missing.
Comment(s, body) == [op |-> "comment", says |-> [from |-> s, body |-> body]]
Comments(s, seen) ==
    LET bodies == Capped(CommentsOf(s))
    IN  FlattenSeq([i \in DOMAIN bodies |->
            IF AlreadyMigrated(bodies[i], seen) THEN <<>> ELSE <<Comment(s, bodies[i])>>])

SourceLink(seen) ==
    IF \E i \in DOMAIN seen.comments : seen.comments[i] = Link
    THEN <<>> ELSE <<[op |-> "comment", says |-> Link]>>

\* mergeIssueTags, syncHotspotIssueTags: set_tags replaces the whole set.
MergedTags(s, seen) ==
    seen.tags \cup (IF Hotspots THEN {Former} ELSE Of(s).tags) \cup {Marker}

Tags(s, seen) == <<[op |-> "tags", set |-> MergedTags(s, seen)]>>

\* syncOnePair
IssueCalls(s, c, seen) ==
    IF Marker \in seen.tags THEN SourceLink(seen)
    ELSE Transition(s, c) \o Comments(s, seen) \o SourceLink(seen) \o Tags(s, seen)

\* syncOneHotspotAsIssue
HotspotCalls(s, c, seen) ==
    (IF Category(s) = "eligible" THEN Transition(s, c) ELSE <<>>)
    \o (IF Category(s) = "eligible" \/ (Acknowledged(s) /\ HasUserComment(s))
        THEN Comments(s, seen) ELSE <<>>)
    \o (IF world.fast /\ Category(s) = "excluded" THEN <<>>
        ELSE SourceLink(seen) \o Tags(s, seen))

Calls(s, c, seen) == IF Hotspots THEN HotspotCalls(s, c, seen) ELSE IssueCalls(s, c, seen)

NothingSubmitted == SubmitsNothing(world)

-----------------------------------------------------------------------------
Init ==
    /\ world \in Worlds
    /\ cloud = [c \in DOMAIN world.cloud |->
                    [state |-> "OPEN", comments |-> <<>>, tags |-> world.cloud[c].tags]]
    /\ indexed = IF world.lag THEN {} ELSE DOMAIN world.cloud
    /\ stage = "idle" /\ tries = 0 /\ index = <<>>
    /\ todo = [s \in Source |-> <<>>]
    /\ pc = [s \in Source |-> "waiting"]
    /\ target = [s \in Source |-> None]
    /\ runs = 0 /\ faults = 0 /\ edits = 0
    /\ history = [before  |-> [c \in DOMAIN world.cloud |-> world.cloud[c].tags],
                  broken  |-> {},     \* issues a call on which failed
                  edited  |-> {},     \* issues people edited
                  writers |-> [c \in DOMAIN world.cloud |-> {}],
                  blind   |-> FALSE]  \* went on with an empty index, for no reason

outside == <<world, indexed, edits>>
items   == <<todo, pc, target>>

\* A run's own state goes with it.
Forgotten ==
    /\ tries' = 0 /\ index' = <<>>
    /\ pc' = [s \in Source |-> "waiting"]
    /\ todo' = [s \in Source |-> <<>>]
    /\ target' = [s \in Source |-> None]

\* syncProjectIssues, syncProjectHotspots: nothing to do, or wait for the index.
Start ==
    /\ stage \in {"idle", "over"} /\ runs < MaxRuns
    /\ runs' = runs + 1
    /\ stage' = IF Visited = {} THEN "over" ELSE "waiting"
    /\ history' = [history EXCEPT !.before = [c \in DOMAIN cloud |-> cloud[c].tags]]
    /\ UNCHANGED <<outside, cloud, tries, index, items, faults>>

\* buildBranchIndexes: the branches whose fetch fails are passed over.
Fetched(failed) == [c \in {d \in indexed : world.cloud[d].branch \notin failed} |-> cloud[c]]
Branches == {Of(s).branch : s \in Source}

\* The wait is over; hotspots fetch the candidates of all branches now.
GoOn(reason) ==
    /\ stage' = "syncing"
    /\ \E failed \in SUBSET Branches :
        /\ failed # {} => Hotspots /\ faults < MaxFaults
        /\ index' = IF Hotspots THEN Fetched(failed) ELSE <<>>
        /\ faults' = IF failed = {} THEN faults ELSE faults + 1
        /\ pc' = [s \in Source |->
                     IF s \in Visited /\ Of(s).branch \notin failed THEN "waiting" ELSE "unvisited"]
    /\ history' = [history EXCEPT !.blind =
                      @ \/ (indexed = {} /\ DOMAIN cloud # {} /\ ~reason)]
    /\ UNCHANGED <<outside, cloud, todo, target, runs>>

\* waitForCloudIndexing
NoWait == stage = "waiting" /\ tries = 0 /\ NothingSubmitted /\ GoOn(FALSE) /\ UNCHANGED tries

Waits == stage = "waiting" /\ ~NothingSubmitted

Counted(n) == n + 1

Count ==
    /\ Waits /\ tries < MaxTries
    /\ IF indexed # {} THEN GoOn(FALSE) /\ UNCHANGED tries
       ELSE tries' = Counted(tries) /\ UNCHANGED <<outside, stage, cloud, index, items, runs, faults, history>>

GiveUpWaiting == Waits /\ tries = MaxTries /\ GoOn(TRUE) /\ UNCHANGED tries

\* A failed count ends the sync of the issues; the hotspots go on regardless.
CountFails ==
    /\ Waits /\ tries < MaxTries /\ faults < MaxFaults
    /\ IF Hotspots
       THEN /\ stage' = "syncing" /\ index' = Fetched({})
            /\ pc' = [s \in Source |-> IF s \in Visited THEN "waiting" ELSE "unvisited"]
            /\ UNCHANGED <<tries, todo, target>>
       ELSE stage' = "over" /\ Forgotten
    /\ faults' = faults + 1
    /\ UNCHANGED <<outside, cloud, runs, history>>

-----------------------------------------------------------------------------
(* One finding. *)

Found == IF Hotspots THEN index ELSE [c \in indexed |-> cloud[c]]
Active == {s \in Source : pc[s] = "calling"}

\* runProjectSyncLoopBounded: in order, in as many goroutines as there are slots.
MayVisit(s) ==
    /\ stage = "syncing" /\ pc[s] = "waiting"
    /\ \A t \in Source : t < s => pc[t] # "waiting"
    /\ Cardinality(Active) < Slots

\* resolveAndSyncIssue, resolveAndSyncHotspot: one candidate is the
\* counterpart; several are ambiguous.
Visit(s) ==
    /\ MayVisit(s)
    /\ LET found == Candidates(s, Found)
       IN  IF Cardinality(found) = 1
           THEN LET c == CHOOSE c \in found : TRUE
                    calls == Calls(s, c, Found[c])
                IN  /\ target' = [target EXCEPT ![s] = c]
                    /\ todo' = [todo EXCEPT ![s] = calls]
                    /\ pc' = [pc EXCEPT ![s] = IF calls = <<>> THEN "synced" ELSE "calling"]
           ELSE /\ pc' = [pc EXCEPT ![s] = IF found = {} THEN "not_found" ELSE "ambiguous"]
                /\ UNCHANGED <<todo, target>>
    /\ UNCHANGED <<outside, cloud, stage, tries, index, runs, faults, history>>

LookupFails(s) ==
    /\ MayVisit(s) /\ ~Hotspots /\ Of(s).line # 0 /\ faults < MaxFaults
    /\ pc' = [pc EXCEPT ![s] = "lookup_error"]
    /\ faults' = faults + 1
    /\ UNCHANGED <<outside, cloud, stage, tries, index, todo, target, runs, history>>

\* What a call does to the issue; a transition the state does not allow is
\* refused with a 400, which is expected and no failure.
Effect(issue, call) ==
    CASE call.op = "transition" ->
            IF issue.state = "OPEN" THEN [issue EXCEPT !.state = call.to] ELSE issue
      [] call.op = "comment" -> [issue EXCEPT !.comments = Append(@, call.says)]
      [] OTHER               -> [issue EXCEPT !.tags = call.set]

\* The next call for the finding; whatever the outcome of a call, the ones
\* after it are made.
Call(s) ==
    /\ pc[s] = "calling"
    /\ \E effect \in BOOLEAN, answered \in BOOLEAN :
        /\ (~effect \/ ~answered) => faults < MaxFaults
        /\ effect \/ ~answered
        /\ cloud' = IF effect THEN [cloud EXCEPT ![target[s]] = Effect(@, Head(todo[s]))] ELSE cloud
        /\ faults' = IF answered THEN faults ELSE faults + 1
        /\ history' = [history EXCEPT !.writers[target[s]] = @ \cup {s},
                                     !.broken = IF answered THEN @ ELSE @ \cup {target[s]}]
    /\ todo' = [todo EXCEPT ![s] = Tail(@)]
    /\ pc' = [pc EXCEPT ![s] = IF Len(todo[s]) = 1 THEN "synced" ELSE @]
    /\ UNCHANGED <<outside, stage, tries, index, target, runs>>

\* The project's row is written once every goroutine has returned.
Finish ==
    /\ stage = "syncing" /\ \A s \in Source : pc[s] \in Outcomes
    /\ stage' = "over" /\ Forgotten
    /\ UNCHANGED <<outside, cloud, runs, faults, history>>

-----------------------------------------------------------------------------
(* The environment. *)

\* The process dies; another run may follow.
Die ==
    /\ stage \in {"waiting", "syncing"} /\ runs < MaxRuns
    /\ stage' = "over" /\ Forgotten
    /\ UNCHANGED <<outside, cloud, runs, faults, history>>

IndexCatchesUp(c) ==
    /\ c \notin indexed
    /\ indexed' = indexed \cup {c}
    /\ UNCHANGED <<world, cloud, stage, tries, index, items, runs, faults, edits, history>>

\* Somebody reopens an issue or adds a tag to it.
Edit(c) ==
    /\ edits < MaxEdits
    /\ \/ cloud[c].state # "OPEN" /\ cloud' = [cloud EXCEPT ![c].state = "OPEN"]
       \/ "theirs" \notin cloud[c].tags /\ cloud' = [cloud EXCEPT ![c].tags = @ \cup {"theirs"}]
    /\ edits' = edits + 1
    /\ history' = [history EXCEPT !.edited = @ \cup {c}]
    /\ UNCHANGED <<world, indexed, stage, tries, index, items, runs, faults>>

Run == \/ Start \/ NoWait \/ Count \/ GiveUpWaiting \/ CountFails \/ Finish
       \/ \E s \in Source : Visit(s) \/ LookupFails(s) \/ Call(s)

Next == \/ Run
        \/ Die
        \/ \E c \in DOMAIN cloud : IndexCatchesUp(c) \/ Edit(c)

Spec == Init /\ [][Next]_vars

-----------------------------------------------------------------------------
Tag == {Marker, Former, "theirs"} \cup world.ruleTags
           \cup (UNION {Of(s).tags : s \in Source})
           \cup (UNION {world.cloud[c].tags : c \in DOMAIN cloud})

TypeOK ==
    /\ world \in Worlds
    /\ DOMAIN cloud = DOMAIN world.cloud /\ DOMAIN cloud \subseteq CloudIssue
    /\ \A c \in DOMAIN cloud :
        /\ cloud[c].state \in {"OPEN", "CONFIRMED", "ACCEPTED", "FALSE_POSITIVE"}
        /\ cloud[c].tags \subseteq Tag
        /\ \A i \in DOMAIN cloud[c].comments : cloud[c].comments[i].from \in Source \cup {0}
    /\ indexed \subseteq DOMAIN cloud /\ DOMAIN index \subseteq DOMAIN cloud
    /\ stage \in {"idle", "waiting", "syncing", "over"}
    /\ tries \in 0..MaxTries /\ runs \in 0..MaxRuns
    /\ faults \in 0..MaxFaults /\ edits \in 0..MaxEdits
    /\ \A s \in Source :
        /\ pc[s] \in {"waiting", "calling"} \cup Outcomes
        /\ (pc[s] = "calling") => (todo[s] # <<>> /\ target[s] \in DOMAIN cloud)
    /\ Cardinality(Active) <= Slots

\* The findings the tool wrote to an issue for; its own one if they are one.
Copies(c, body) == Cardinality({i \in DOMAIN cloud[c].comments : cloud[c].comments[i].body = body})
Times(seq, body) == Cardinality({i \in DOMAIN seq : seq[i] = body})

HoldsReview(s, c) ==
    \/ Transition(s, c) = <<>>
    \/ Hotspots /\ Category(s) # "eligible"
    \/ cloud[c].state = Wanted(s)
HoldsComments(s, c) ==
    \/ Hotspots /\ ~HasUserComment(s) /\ Category(s) # "eligible"
    \/ \A i \in DOMAIN Capped(CommentsOf(s)) : Copies(c, Capped(CommentsOf(s))[i]) > 0

\* An issue that carries the marker holds what the finding held: the review
\* state, if the target offers it, and the comments replayed. It need not
\* when a call failed, people edited it, or several findings wrote to it.
MarkedIsComplete ==
    \A c \in DOMAIN cloud, s \in Source :
        (/\ Marker \in cloud[c].tags
         /\ history.writers[c] = {s} /\ c \notin history.broken \cup history.edited)
        => HoldsReview(s, c) /\ HoldsComments(s, c)

\* However often the sync dies, is run again or loses an answer, an issue
\* never holds more copies of a finding's comment than the sync replays of it.
NothingTwice ==
    \A c \in DOMAIN cloud : \A i \in DOMAIN cloud[c].comments :
        LET it == cloud[c].comments[i]
        IN  it.from # 0 =>
              Times(cloud[c].comments, it) <= Times(Capped(CommentsOf(it.from)), it.body)

\* An issue that carried the marker when the run started keeps the state and
\* the tags people gave it since: the sync does not impose the source's again.
MarkedIsLeftAlone ==
    [][\A c \in DOMAIN cloud :
        (~Hotspots /\ Marker \in history.before[c] /\ edits' = edits)
            => cloud'[c].state = cloud[c].state /\ cloud'[c].tags = cloud[c].tags]_vars

\* set_tags replaces a set that was read long before; the tags an issue had
\* when the run started survive it.
TagsSurvive ==
    \A c \in DOMAIN cloud : history.before[c] \subseteq cloud[c].tags

\* A hotspot acknowledged on any branch is not accepted or dismissed on the
\* target by the record of another branch.
AcknowledgedStays ==
    [][\A c \in DOMAIN cloud :
        (cloud'[c].state # cloud[c].state /\ edits' = edits /\ Hotspots)
            => \E s \in Source : target[s] = c /\ pc[s] = "calling"
                  /\ \A t \in AcrossBranches(s) : ~Acknowledged(t)]_vars

\* The search index is not taken for empty before the wait is over, unless
\* nothing was submitted.
NotBlind == ~history.blind

\* Through kills, lost answers and repeated runs the sync adds to an issue what
\* its findings had, once, takes nothing away, and marks as done what is done.
SyncInv == TypeOK /\ NothingTwice /\ TagsSurvive /\ NotBlind /\ MarkedIsComplete

\* What people decided stays: on the target, since an earlier run, and on any
\* branch of the source.
PeoplesWorkStays == MarkedIsLeftAlone /\ AcknowledgedStays

-----------------------------------------------------------------------------
(* What comments of the code say and the code does not do. *)

\* The sqs-hotspot tag signals that the calls before it completed: a tagged
\* issue nobody edited holds the review and the comments of a hotspot.
TagSignalsCompletion ==
    \A c \in DOMAIN cloud, s \in Source :
        (Former \in cloud[c].tags /\ history.writers[c] = {s} /\ c \notin history.edited)
        => HoldsReview(s, c) /\ HoldsComments(s, c)

\* Every hotspot of the source whose counterpart is the only issue of its line
\* carries the tag once a sync in which nothing failed is through.
EveryHotspotIsTagged ==
    (/\ Hotspots /\ ~world.fast /\ stage = "syncing" /\ faults = 0 /\ edits = 0
     /\ \A s \in Source : pc[s] \in Outcomes
     /\ DOMAIN index = DOMAIN cloud)
    => \A s \in Source : \A c \in SameLine(s, cloud) :
           SameLine(s, cloud) = {c} => Former \in cloud[c].tags
=============================================================================
