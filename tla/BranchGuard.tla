---------------------------- MODULE BranchGuard ----------------------------
(***************************************************************************)
(* Branches whose new code is a reference branch migrate as short-lived    *)
(* ones.  For the time of the imports of a project its long-lived branch   *)
(* pattern is one that matches nothing, and a target branch that is        *)
(* long-lived already is deleted before its import makes it again: a type  *)
(* never changes.  The pattern is put back by a deferred call, which an    *)
(* interrupt does not stop and a crash does.                               *)
(***************************************************************************)
EXTENDS Naturals

CONSTANTS
    Branch,     \* the non-main branches of one project
    Reference,  \* those whose new code is a reference branch
    Purged,     \* those with no component left on the server
    MaxTries    \* bound: attempts on one run directory

ASSUME GuardAssumption == Reference \subseteq Branch /\ MaxTries \in Nat

\* A pattern as far as the short-lived branches go; the default, matching some
\* of them or not, is one of these.
Pattern == {"matches", "excludes", "never"}
Own     == Pattern \cup {"none"}
Status  == {"none", "success", "up_to_date", "failed", "no_data", "cancelled"}

VARIABLES
    at,        \* idle, guard, drop, import, restore, ended or crashed
    tries,
    org,       \* the organization's pattern
    own,       \* the project's own pattern, none when it inherits
    born,      \* history: own before the first attempt
    consults,  \* whether the Compute Engine still looks at the pattern
    target,    \* target[b]: absent, long or short
    listed,    \* the branches as fetched when the attempt began
    row,       \* row[b]: status of the last record of b
    awaiting,      \* branches still to import
    undo,      \* the restore call: none, reset, or the pattern to set
    stop,      \* the context is cancelled
    exposed,   \* history: the pattern may match a short-lived branch
    broken     \* history: a crash, or a restore that failed

guardVars == <<own, undo, exposed>>
tvars == <<at, tries, org, guardVars, born, consults, target, listed, row, awaiting, stop, broken>>

GuardTypeOK ==
    /\ at \in {"idle", "guard", "drop", "import", "restore", "ended", "crashed"}
    /\ tries \in 0 .. MaxTries
    /\ org \in Pattern /\ own \in Own /\ born \in Own
    /\ undo \in Own \cup {"reset"}
    /\ target \in [Branch -> {"absent", "long", "short"}]
    /\ listed \in [Branch -> {"absent", "long", "short"}]
    /\ row \in [Branch -> Status]
    /\ awaiting \subseteq Branch
    /\ {consults, stop, exposed, broken} \subseteq BOOLEAN

GuardInit ==
    /\ at = "idle" /\ tries = 0
    /\ org \in {"matches", "excludes"}
    /\ own \in {"none", "matches", "excludes"} /\ born = own
    /\ consults \in BOOLEAN
    /\ target \in [Branch -> {"absent", "long"}] /\ listed = target
    /\ row = [b \in Branch |-> "none"]
    /\ awaiting = {} /\ undo = "none"
    /\ stop = FALSE /\ exposed = FALSE /\ broken = FALSE

Effective == IF own = "none" THEN org ELSE own

\* patternMatchesAny: Go cannot compile "(?!)" and counts it as a match.
MatchesAny(p) == p \in {"matches", "never"}

\* markShortLivedBranches
ShortLived(b) == b \in Reference

\* loadCompletedBranches, over the rows of this run directory.
Completed(b) == row[b] \in {"success", "up_to_date"}

-----------------------------------------------------------------------------
Begin ==
    /\ at \in {"idle", "ended", "crashed"} /\ tries < MaxTries
    /\ at' = "guard" /\ tries' = tries + 1
    /\ listed' = target /\ awaiting' = Branch
    /\ undo' = "none" /\ stop' = FALSE /\ exposed' = FALSE
    /\ UNCHANGED <<org, own, born, consults, target, row, broken>>

\* Without a short-lived branch, with a pattern that excludes them, or with an
\* API that fails, nothing is changed and there is nothing to put back.
LeavePattern ==
    /\ at = "guard"
    /\ \/ (\A b \in Branch : ~ShortLived(b)) /\ UNCHANGED exposed
       \/ ~MatchesAny(Effective) /\ UNCHANGED exposed
       \/ exposed' = TRUE
    /\ at' = "drop"
    /\ UNCHANGED <<tries, org, own, undo, born, consults, target, listed, row, awaiting, stop, broken>>

Original == IF own = "none" THEN "reset" ELSE own

SetPattern ==
    /\ at = "guard"
    /\ \E b \in Branch : ShortLived(b)
    /\ MatchesAny(Effective)
    /\ own' = "never" /\ undo' = Original
    /\ at' = "drop"
    /\ UNCHANGED <<tries, org, exposed, born, consults, target, listed, row, awaiting, stop, broken>>

Dropped(b) == ShortLived(b) /\ listed[b] = "long" /\ ~Completed(b)

DropLongLivedBeforeShort ==
    /\ at = "drop"
    /\ \E fails \in SUBSET {b \in Branch : Dropped(b)} :
         target' = [b \in Branch |-> IF Dropped(b) /\ b \notin fails THEN "absent" ELSE target[b]]
    /\ at' = "import"
    /\ UNCHANGED <<tries, org, guardVars, born, consults, listed, row, awaiting, stop, broken>>

\* A branch that was never there takes the type of the handshake, or of the
\* pattern as long as the Compute Engine consults it; one that is there keeps
\* its type and refuses a report of the other.
TypeGiven(b) ==
    IF target[b] # "absent" THEN target[b]
    ELSE IF ~ShortLived(b) \/ (consults /\ Effective = "matches") THEN "long" ELSE "short"

Records(b, status) == row' = [row EXCEPT ![b] = status] /\ awaiting' = awaiting \ {b}

SkipCompleted(b) ==
    /\ at = "import" /\ b \in awaiting /\ Completed(b)
    /\ awaiting' = awaiting \ {b}
    /\ UNCHANGED <<at, tries, org, guardVars, born, consults, target, listed, row, stop, broken>>

ImportBranch(b) ==
    /\ at = "import" /\ b \in awaiting /\ ~Completed(b)
    /\ \/ b \in Purged /\ Records(b, "no_data") /\ UNCHANGED target
       \/ b \notin Purged /\ Records(b, "failed") /\ UNCHANGED target
       \/ listed[b] # "absent" /\ target[b] # "absent" /\ Records(b, "up_to_date") /\ UNCHANGED target
       \/ /\ b \notin Purged
          /\ ShortLived(b) => target[b] # "long"
          /\ target' = [target EXCEPT ![b] = TypeGiven(b)]
          /\ Records(b, "success")
    /\ UNCHANGED <<at, tries, org, guardVars, born, consults, listed, stop, broken>>

\* A branch the cancelled run never got to has a row that says so, and that is
\* read for its last one, although an earlier attempt completed it.
RecordBranchCancelled(b) ==
    /\ at = "import" /\ b \in awaiting /\ stop
    /\ Records(b, "cancelled")
    /\ UNCHANGED <<at, tries, org, guardVars, born, consults, target, listed, stop, broken>>

EndImports ==
    /\ at = "import" /\ awaiting = {}
    /\ at' = "restore"
    /\ UNCHANGED <<tries, org, guardVars, born, consults, target, listed, row, awaiting, stop, broken>>

\* Variant: the restore call uses the cancelled context.
RestoredUnlessStopped == ~stop

\* The restore call has a context of its own.
MayRestore == TRUE

Restored(u) == IF u = "reset" THEN "none" ELSE u

Restore ==
    /\ at = "restore"
    /\ IF undo = "none" \/ ~MayRestore THEN UNCHANGED own ELSE own' = Restored(undo)
    /\ at' = "ended"
    /\ UNCHANGED <<tries, org, undo, exposed, born, consults, target, listed, row, awaiting, stop, broken>>

RestoreFails ==
    /\ at = "restore" /\ undo # "none"
    /\ at' = "ended" /\ broken' = TRUE
    /\ UNCHANGED <<tries, org, guardVars, born, consults, target, listed, row, awaiting, stop>>

CancelImport ==
    /\ at = "import" /\ ~stop
    /\ stop' = TRUE
    /\ UNCHANGED <<at, tries, org, guardVars, born, consults, target, listed, row, awaiting, broken>>

CrashImport ==
    /\ at \in {"drop", "import", "restore"}
    /\ at' = "crashed" /\ broken' = TRUE
    /\ UNCHANGED <<tries, org, guardVars, born, consults, target, listed, row, awaiting, stop>>

\* setGlobalSettings writes the organization's pattern, in a phase of its own
\* or beside the imports.
SetOrgPattern ==
    /\ org' \in {"matches", "excludes"} \ {org}
    /\ at \in {"idle", "drop", "import"}
    /\ exposed' = (exposed \/ at # "idle")
    /\ UNCHANGED <<at, tries, own, undo, born, consults, target, listed, row, awaiting, stop, broken>>

GuardNext ==
    \/ Begin \/ LeavePattern \/ SetPattern \/ DropLongLivedBeforeShort
    \/ \E b \in Branch : SkipCompleted(b) \/ ImportBranch(b) \/ RecordBranchCancelled(b)
    \/ EndImports \/ Restore \/ RestoreFails
    \/ CancelImport \/ CrashImport \/ SetOrgPattern

GuardSpec == GuardInit /\ [][GuardNext]_tvars

-----------------------------------------------------------------------------
(* Properties *)

\* A reference branch that an attempt imports with its guard in place is
\* short-lived on the target, whatever the patterns and the earlier attempts.
ShortIsShort ==
    [][\A b \in Reference : row'[b] = "success" /\ row[b] # "success" /\ ~exposed =>
          target'[b] = "short"]_tvars

\* What an attempt completed, no later one deletes.
CompletedStays ==
    \A b \in Branch : Completed(b) => target[b] # "absent"

\* However the attempts end, cancelled ones included, the project is left with
\* the pattern it had, as long as no process died and no restore call failed.
PatternComesBack ==
    at \in {"idle", "ended"} /\ ~broken => own = born

\* The pattern is altered for a time only: once an attempt after a crash has
\* ended well, the project has the pattern it had.
AlteredTemporarily ==
    at = "ended" /\ undo # "none" => own = born

\* A branch that is deleted to be made again is made again by an attempt that
\* ends without a failure.
DroppedIsRecreated ==
    [][at = "restore" /\ (\A b \in Branch : row[b] \notin {"failed", "cancelled"}) =>
          \A b \in Branch : listed[b] # "absent" => target[b] # "absent"]_tvars
=============================================================================
