---------------------------- MODULE ExtractProofs -----------------------------
(***************************************************************************)
(* What is proved, for any value of the constants, of the way records get  *)
(* from the source server to the readers of an extract:                    *)
(* - what readers see of any number of extracts, finished, stopped, killed *)
(*   and resumed;                                                          *)
(* - the adaptive paging of one list;                                      *)
(* - the synthetic report that carries the measures over;                  *)
(* - the walk that fetches a project too large for one search.             *)
(***************************************************************************)
EXTENDS ExtractMerge, AdaptivePaging, SyntheticHistory, IssueSlicing, LoopFacts

-----------------------------------------------------------------------------
(* Readers see each record once, nothing hidden that was not read again,   *)
(* and whole projects.  The argument is about one directory at a time: a   *)
(* task that is done wrote what its list task holds, but for the projects  *)
(* that failed, and keeps it (Sound); and what a later extract hides is    *)
(* what its list task asked for (SlicesAsk).                               *)

Things == Projects \union Portfolios \union {Whole}
Directory == [partial : BOOLEAN, scope : Scope, marked : BOOLEAN,
              done : SUBSET Tasks, out : [Tasks -> SUBSET Things], failed : SUBSET Projects]

Types ==
  /\ disk \in Seq(Directory)
  /\ asked \in Seq([Tasks -> SUBSET Things]) /\ Len(asked) = Len(disk)
  /\ cur \in 0 .. Len(disk) /\ skipped \subseteq Projects
  /\ rescoped \subseteq 1 .. Len(disk) /\ ended \subseteq 1 .. Len(disk)
  /\ cur \notin ended

\* The projects whose failure in an extract is known somewhere.
Blamed(d) == disk[d].failed \union forgotten \union (IF d = cur THEN skipped ELSE {})

\* A directory: its scope, and that only tasks that are done have markers.
Labelled(d) ==
  /\ HasScope(disk[d].scope) => disk[d].partial
  /\ WithRoots(disk[d].scope)
  /\ disk[d].done # {} => disk[d].marked
  /\ \A t \in Tasks : disk[d].out[t] \subseteq Items(t)

\* The tasks that are done: what they wrote, what they lack, what they asked for.
Sound(d) ==
  \A t \in disk[d].done :
    /\ Root(t) \in disk[d].done
    /\ disk[d].out[t] \subseteq disk[d].out[Root(t)]
    /\ asked[d][t] = asked[d][Root(t)]
    /\ t = Root(t) => disk[d].out[t] \subseteq asked[d][t]
    /\ t \in ServerTasks => Whole \in asked[d][t]
    /\ t \in ProjectTasks => disk[d].out[Root(t)] \ disk[d].out[t] \subseteq Blamed(d)

\* The list of projects was asked for by the scope, unless that was replaced.
SlicesAsk(d) ==
  d \notin rescoped /\ ListProjects \in disk[d].done =>
    asked[d][ListProjects] = IF disk[d].scope.keys = {} THEN Projects ELSE disk[d].scope.keys

\* What an extract that ended, and one that is under way, have to show.
Over(d) ==
  /\ d \in ended => disk[d].scope.tasks \subseteq disk[d].done
  /\ d = cur => disk[d].failed \subseteq skipped

Good(d) == Labelled(d) /\ Sound(d) /\ SlicesAsk(d) /\ Over(d)
MergeIInv == Types /\ \A d \in DOMAIN disk : Good(d)

-----------------------------------------------------------------------------
\* List tasks list themselves, and what is of their kind.
LEMMA RootFacts ==
  ASSUME NEW t \in Tasks
  PROVE /\ Root(t) \in Tasks /\ Root(Root(t)) = Root(t) /\ Items(Root(t)) = Items(t)
        /\ Items(t) \subseteq Things
        /\ t \in ProjectTasks => Root(t) = ListProjects /\ Items(t) = Projects
        /\ t \in PortfolioTasks => Root(t) = ListFolios /\ Items(t) = Portfolios
        /\ t \in ServerTasks => Root(t) = t /\ Items(t) = {Whole}
<1>1. CASE t \in ProjectTasks
  BY <1>1, MergeAssumption DEF Tasks, Root, Items, Things
<1>2. CASE t \in PortfolioTasks
  BY <1>2, MergeAssumption DEF Tasks, Root, Items, Things
<1>3. CASE t \in ServerTasks
  BY <1>3, MergeAssumption DEF Tasks, Root, Items, Things
<1> QED
  BY <1>1, <1>2, <1>3 DEF Tasks

\* The fields of a directory.
LEMMA DirFacts ==
  ASSUME Types, NEW d \in DOMAIN disk
  PROVE /\ d \in 1 .. Len(disk) /\ d \in DOMAIN asked
        /\ disk[d] \in Directory /\ asked[d] \in [Tasks -> SUBSET Things]
        /\ disk[d].scope \in Scope /\ disk[d].scope.tasks \subseteq Tasks
        /\ disk[d].scope.keys \subseteq Projects
        /\ disk[d].scope.folios \subseteq Portfolios
        /\ disk[d].done \subseteq Tasks /\ disk[d].failed \subseteq Projects
        /\ disk[d].out \in [Tasks -> SUBSET Things]
        /\ disk[d].partial \in BOOLEAN /\ disk[d].marked \in BOOLEAN
<1>1. d \in 1 .. Len(disk) /\ d \in DOMAIN asked
  BY DEF Types
<1>2. disk[d] \in Directory /\ asked[d] \in [Tasks -> SUBSET Things]
  BY <1>1 DEF Types
<1>3. disk[d].scope \in Scope
  BY <1>2 DEF Directory
<1> QED
  BY <1>1, <1>2, <1>3 DEF Directory, Scope

\* What a phase is, and what its tasks find there.
LEMMA PhaseFacts ==
  ASSUME cur \in DOMAIN disk, Types, Good(cur), NEW t \in Phase
  PROVE /\ t \in Tasks /\ t \notin This.done /\ t \in This.scope.tasks
        /\ t # Root(t) => Root(t) \in This.done
        /\ \A u \in Phase : t # Root(t) => Root(u) # u
<1>1. This.scope.tasks \subseteq Tasks /\ WithRoots(This.scope)
  BY DirFacts DEF Good, Labelled, This
<1>2. Left \subseteq Tasks /\ t \in Left
  BY <1>1 DEF Left, Phase, Roots
<1>3. ASSUME t # Root(t) PROVE Roots = {}
  BY <1>3 DEF Phase, Roots
<1>4. ASSUME t # Root(t) PROVE Root(t) \in This.done
  <2>1. Root(t) \in This.scope.tasks /\ Root(Root(t)) = Root(t)
    BY <1>1, <1>2, RootFacts DEF WithRoots, Left
  <2> QED
    BY <2>1, <1>3, <1>4 DEF Roots, Left
<1> QED
  BY <1>2, <1>3, <1>4 DEF Left, Phase, Roots

\* What a task writes is of its kind.
LEMMA WrittenFacts ==
  ASSUME cur \in DOMAIN disk, Types, Good(cur), NEW t \in Phase,
         NEW failing \in SUBSET Projects, NEW had
  PROVE /\ Written(t, failing, had) \subseteq Through(t)
        /\ Written(t, failing, had) \subseteq Items(t)
        /\ t = Root(t) => Through(t) \subseteq InScope(t) /\ InScope(t) \subseteq Items(t)
        /\ t # Root(t) => Through(t) = This.out[Root(t)]
        /\ Through(t) \ Written(t, failing, had) \subseteq skipped \union failing
        /\ t = ListProjects => Written(t, failing, had) = Through(t)
<1>1. t \in Tasks
  BY PhaseFacts
<1>2. This.scope \in Scope /\ (\A u \in Tasks : This.out[u] \subseteq Items(u))
  BY DirFacts DEF Good, Labelled, This
<1>3. Root(t) \in Tasks /\ Items(Root(t)) = Items(t) /\ Items(t) \subseteq Things
  BY <1>1, RootFacts
<1>4. InScope(t) \subseteq Items(t)
  <2>1. CASE t = ListProjects
    BY <2>1, <1>2, DirFacts, MergeAssumption DEF InScope, Items, This
  <2>2. CASE t = ListFolios
    BY <2>2, <1>2, DirFacts, MergeAssumption DEF InScope, Items, This
  <2> QED
    BY <2>1, <2>2 DEF InScope
<1>5. Through(t) \subseteq Items(t)
  BY <1>2, <1>3, <1>4 DEF Through
<1>6. /\ Written(t, failing, had) \subseteq Through(t)
      /\ Through(t) \ Written(t, failing, had) \subseteq skipped \union failing
  BY DEF Written
<1> QED
  BY <1>4, <1>5, <1>6 DEF Through, Written

-----------------------------------------------------------------------------
\* Directories that a step leaves alone.
LEMMA OthersStay ==
  ASSUME NEW d \in DOMAIN disk, Good(d), disk'[d] = disk[d], asked'[d] = asked[d],
         forgotten \subseteq forgotten', d \in rescoped => d \in rescoped',
         d \in ended' => d \in ended, d # cur, d # cur'
  PROVE Good(d)'
<1>1. Labelled(d)'
  BY DEF Good, Labelled
<1>2. Blamed(d) \subseteq Blamed(d)'
  BY DEF Blamed
<1>3. Sound(d)'
  BY <1>2 DEF Good, Sound
<1>4. SlicesAsk(d)'
  BY DEF Good, SlicesAsk
<1>5. Over(d)'
  BY DEF Good, Over
<1> QED
  BY <1>1, <1>3, <1>4, <1>5 DEF Good

\* The directory in which tasks ran, however many of them finished.
LEMMA RanIsGood ==
  ASSUME Types, NEW d \in DOMAIN disk, d = cur, Good(d),
         NEW finished \in SUBSET Phase, NEW half, NEW failing \in SUBSET Projects, NEW had,
         disk'[d].partial = disk[d].partial, disk'[d].scope = disk[d].scope,
         disk'[d].done = disk[d].done \union finished,
         disk'[d].marked = (disk[d].marked \/ finished # {}),
         disk'[d].out = Ran(finished, half, failing, had).out,
         asked'[d] = Asked(finished)[d], rescoped' = rescoped,
         skipped \union failing \union Blamed(d) \subseteq Blamed(d)',
         d \notin ended', d # cur' \/ disk'[d].failed \subseteq skipped'
  PROVE Good(d)'
<1> DEFINE O == disk'[d].out
           A == asked'[d]
<1>1. This = disk[d] /\ d \in DOMAIN asked
  BY DirFacts DEF This
<1>2. /\ \A t \in Tasks : O[t] = CASE t \in finished -> Written(t, failing, had)
                                   [] t \in Phase \ finished -> Written(t, failing, had) \intersect half
                                   [] OTHER -> disk[d].out[t]
  BY <1>1 DEF Ran
<1>3. \A t \in Tasks : /\ t \notin finished => A[t] = asked[d][t]
                       /\ t \in finished /\ t = Root(t) => A[t] = InScope(t)
                       /\ t \in finished /\ t # Root(t) => A[t] = asked[d][Root(t)]
  BY <1>1 DEF Asked
<1>4. disk[d].done \subseteq Tasks /\ disk[d].done \intersect Phase = {} /\ Phase \subseteq Tasks
  BY <1>1, DirFacts, PhaseFacts
<1> HIDE DEF O, A
<1>5. Labelled(d)'
  <2>1. ASSUME NEW t \in Tasks PROVE O[t] \subseteq Items(t)
    <3>1. CASE t \in Phase
      <4>1. O[t] \subseteq Written(t, failing, had)
        BY <3>1, <1>2
      <4>2. Written(t, failing, had) \subseteq Items(t)
        BY <3>1, WrittenFacts
      <4> QED
        BY <4>1, <4>2
    <3>2. CASE t \notin Phase
      BY <3>2, <1>2 DEF Good, Labelled
    <3> QED
      BY <3>1, <3>2
  <2>2. disk'[d].done # {} => disk'[d].marked
    BY DEF Good, Labelled
  <2> QED
    BY <2>1, <2>2 DEF Labelled, Good, O
<1>6. Sound(d)'
  <2> SUFFICES ASSUME NEW t \in disk'[d].done
               PROVE /\ Root(t) \in disk'[d].done
                     /\ O[t] \subseteq O[Root(t)] /\ A[t] = A[Root(t)]
                     /\ t = Root(t) => O[t] \subseteq A[t]
                     /\ t \in ServerTasks => Whole \in A[t]
                     /\ t \in ProjectTasks => O[Root(t)] \ O[t] \subseteq Blamed(d)'
    BY DEF Sound, O, A
  <2>1. t \in Tasks /\ Root(t) \in Tasks /\ Root(Root(t)) = Root(t)
    BY <1>4, RootFacts
  <2>2. CASE t \in disk[d].done
    <3>1. Root(t) \in disk[d].done
      BY <2>2 DEF Good, Sound
    <3>2. O[t] = disk[d].out[t] /\ O[Root(t)] = disk[d].out[Root(t)]
      BY <2>1, <2>2, <3>1, <1>2, <1>4
    <3>3. t \notin finished /\ Root(t) \notin finished
      BY <2>2, <3>1, <1>4
    <3>4. A[t] = asked[d][t] /\ A[Root(t)] = asked[d][Root(t)]
      BY <2>1, <3>3, <1>3
    <3> QED
      BY <2>2, <3>1, <3>2, <3>4 DEF Good, Sound
  <2>3. CASE t \in finished /\ t = Root(t)
    <3>1. O[t] = Written(t, failing, had) /\ A[t] = InScope(t)
      BY <2>1, <2>3, <1>2, <1>3
    <3>2. O[t] \subseteq A[t]
      BY <2>3, <3>1, WrittenFacts
    <3>3. t \in ServerTasks => InScope(t) = {Whole}
      BY <2>1, RootFacts, MergeAssumption DEF InScope
    <3> QED
      BY <2>3, <3>1, <3>2, <3>3
  <2>4. CASE t \in finished /\ t # Root(t)
    <3>1. Root(t) \in disk[d].done
      BY <2>4, <1>1, PhaseFacts
    <3>2. O[t] = Written(t, failing, had) /\ O[Root(t)] = disk[d].out[Root(t)]
      BY <2>1, <2>4, <3>1, <1>2, <1>4
    <3>3. Root(t) \notin finished
      BY <3>1, <1>4
    <3>4. A[t] = asked[d][Root(t)] /\ A[Root(t)] = asked[d][Root(t)]
      BY <2>1, <2>4, <3>3, <1>3
    <3>5. O[t] \subseteq O[Root(t)] /\ O[Root(t)] \ O[t] \subseteq skipped \union failing
      BY <2>4, <3>2, <1>1, WrittenFacts
    <3>6. t \notin ServerTasks
      BY <2>1, <2>4, RootFacts
    <3> QED
      BY <2>4, <3>1, <3>4, <3>5, <3>6
  <2> QED
    BY <2>2, <2>3, <2>4
<1>7. SlicesAsk(d)'
  <2>1. ListProjects \in Tasks /\ Root(ListProjects) = ListProjects
        /\ Items(ListProjects) = Projects
    BY MergeAssumption, RootFacts DEF Tasks
  <2>2. CASE ListProjects \in disk[d].done
    <3>1. A[ListProjects] = asked[d][ListProjects]
      <4>1. ListProjects \notin finished
        BY <2>2, <1>4
      <4> QED
        BY <2>1, <4>1, <1>3
    <3> QED
      BY <2>2, <3>1 DEF Good, SlicesAsk, A
  <2>3. CASE ListProjects \in finished
    <3>1. A[ListProjects] = InScope(ListProjects)
      BY <2>1, <2>3, <1>3
    <3>2. ListProjects # ListFolios
      BY MergeAssumption
    <3>3. InScope(ListProjects) = IF disk[d].scope.keys = {} THEN Projects ELSE disk[d].scope.keys
      BY <1>1, <2>1, <3>2 DEF InScope
    <3> QED
      BY <3>1, <3>3 DEF SlicesAsk, A
  <2> QED
    BY <2>2, <2>3 DEF SlicesAsk
<1>8. Over(d)'
  BY DEF Over
<1> QED
  BY <1>5, <1>6, <1>7, <1>8 DEF Good

-----------------------------------------------------------------------------
LEMMA MergeInitIInv == MergeInit => MergeIInv
BY MergeAssumption DEF MergeInit, MergeIInv, Types

\* Scopes that are given, or recorded before.
LEMMA ScopesAreClosed ==
  /\ \A s \in Scopes \union Flags : s \in Scope /\ WithRoots(s)
  /\ NoFlags \in Scope /\ WithRoots(NoFlags)
<1>1. NoFlags \in Scope
  BY DEF NoFlags, Scope
<1>2. WithRoots(NoFlags)
  BY RootFacts DEF WithRoots, NoFlags
<1> QED
  BY <1>1, <1>2, MergeAssumption

LEMMA BeginKeeps ==
  ASSUME MergeIInv, NEW s \in Scopes, Begin(s)
  PROVE MergeIInv'
<1> DEFINE new == [partial |-> HasScope(s), scope |-> s, marked |-> FALSE,
                   done |-> {}, out |-> NoOutput, failed |-> {}]
           n == Len(disk) + 1
<1>1. /\ disk \in Seq(Directory) /\ asked \in Seq([Tasks -> SUBSET Things])
      /\ Len(asked) = Len(disk) /\ cur = 0 /\ Len(disk) \in Nat
  BY DEF MergeIInv, Types, Begin
<1>2. s \in Scope /\ WithRoots(s)
  BY ScopesAreClosed
<1>3. NoOutput \in [Tasks -> SUBSET Things]
  BY DEF NoOutput
<1>4. new \in Directory
  BY <1>2, <1>3 DEF Directory, HasScope
<1>5. disk' = Append(disk, new) /\ asked' = Append(asked, NoOutput) /\ cur' = n
  BY DEF Begin
<1> HIDE DEF new
<1>6. /\ Len(disk') = n /\ Len(asked') = n /\ disk'[n] = new
      /\ \A d \in 1 .. Len(disk) : disk'[d] = disk[d] /\ asked'[d] = asked[d]
  BY <1>1, <1>4, <1>3, <1>5
<1>7. Types'
  <2>1. disk' \in Seq(Directory) /\ asked' \in Seq([Tasks -> SUBSET Things])
    BY <1>1, <1>3, <1>4, <1>5
  <2>2. skipped' = {} /\ rescoped' = rescoped /\ ended' = ended
    BY DEF Begin
  <2>3. rescoped \subseteq 1 .. Len(disk) /\ ended \subseteq 1 .. Len(disk)
    BY DEF MergeIInv, Types
  <2>4. n \notin ended /\ 1 .. Len(disk) \subseteq 1 .. n /\ n \in 0 .. n
    BY <1>1, <2>3
  <2> QED
    BY <1>5, <1>6, <2>1, <2>2, <2>3, <2>4 DEF Types
<1>8. ASSUME NEW d \in DOMAIN disk' PROVE Good(d)'
  <2>1. CASE d \in 1 .. Len(disk)
    <3>1. d \in DOMAIN disk /\ Good(d) /\ d # cur /\ d # cur'
      BY <1>1, <1>5, <2>1 DEF MergeIInv
    <3>2. disk'[d] = disk[d] /\ asked'[d] = asked[d]
      BY <1>6, <2>1
    <3> QED
      BY <3>1, <3>2, OthersStay DEF Begin
  <2>2. CASE d = n
    <3>1. /\ disk'[d].done = {} /\ disk'[d].scope = s /\ disk'[d].partial = HasScope(s)
          /\ disk'[d].out = NoOutput /\ disk'[d].failed = {}
      BY <1>6, <2>2 DEF new
    <3>2. d \notin ended'
      BY <1>1, <2>2 DEF MergeIInv, Types, Begin
    <3>3. Labelled(d)'
      BY <1>2, <3>1 DEF Labelled, NoOutput
    <3> QED
      BY <3>1, <3>2, <3>3 DEF Good, Sound, SlicesAsk, Over
  <2>3. DOMAIN disk' = 1 .. n
    BY <1>6, <1>7 DEF Types
  <2> QED
    BY <1>1, <2>1, <2>2, <2>3
<1> QED
  BY <1>7, <1>8 DEF MergeIInv

LEMMA DeleteKeeps ==
  ASSUME MergeIInv, NEW i, Delete(i)
  PROVE MergeIInv'
<1>1. Types'
  BY DEF MergeIInv, Types, Delete
<1>2. ASSUME NEW d \in DOMAIN disk' PROVE Good(d)'
  <2>1. d \in DOMAIN disk /\ Good(d)
    BY DEF MergeIInv, Delete
  <2>2. d # cur /\ d # cur'
    BY <2>1, DirFacts DEF MergeIInv, Delete, Types
  <2> QED
    BY <2>1, <2>2, OthersStay DEF Delete
<1> QED
  BY <1>1, <1>2 DEF MergeIInv

\* A step that writes one directory only.
LEMMA OneDirectory ==
  ASSUME MergeIInv, NEW d \in DOMAIN disk, NEW x \in Directory,
         disk' = [disk EXCEPT ![d] = x],
         NEW a \in [Tasks -> SUBSET Things], asked' = [asked EXCEPT ![d] = a],
         cur = 0 \/ cur = d, cur' = 0 \/ cur' = d, skipped' \subseteq Projects,
         rescoped \subseteq rescoped', rescoped' \subseteq rescoped \union {d},
         ended' \subseteq ended \union {d}, cur' \notin ended', forgotten \subseteq forgotten',
         Good(d)'
  PROVE MergeIInv'
<1>1. /\ disk \in Seq(Directory) /\ asked \in Seq([Tasks -> SUBSET Things])
      /\ Len(asked) = Len(disk) /\ Len(disk) \in Nat /\ d \in 1 .. Len(disk)
      /\ rescoped \subseteq 1 .. Len(disk) /\ ended \subseteq 1 .. Len(disk)
  BY DEF MergeIInv, Types
<1>2. disk' \in Seq(Directory) /\ Len(disk') = Len(disk)
  BY <1>1
<1>3. asked' \in Seq([Tasks -> SUBSET Things]) /\ Len(asked') = Len(asked)
  BY <1>1
<1>4. rescoped' \subseteq 1 .. Len(disk) /\ ended' \subseteq 1 .. Len(disk)
      /\ cur' \in 0 .. Len(disk)
  BY <1>1
<1>5. Types'
  BY <1>1, <1>2, <1>3, <1>4 DEF Types
<1>6. ASSUME NEW e \in DOMAIN disk', e # d PROVE Good(e)'
  <2>1. e \in DOMAIN disk /\ e \in DOMAIN asked /\ e \in 1 .. Len(disk)
    BY <1>1, <1>2
  <2>2. disk'[e] = disk[e] /\ asked'[e] = asked[e] /\ Good(e)
    BY <2>1, <1>6 DEF MergeIInv
  <2>3. e # cur /\ e # cur' /\ (e \in ended' => e \in ended)
    BY <2>1, <1>6
  <2> QED
    BY <2>1, <2>2, <2>3, OthersStay
<1> QED
  BY <1>5, <1>6 DEF MergeIInv

\* The directory after tasks ran is one, whatever it lists as failed.
LEMMA RanIsTyped ==
  ASSUME Types, cur \in DOMAIN disk, Good(cur),
         NEW finished \in SUBSET Phase, NEW half, NEW failing \in SUBSET Projects, NEW had,
         NEW failed \in SUBSET Projects
  PROVE /\ Ran(finished, half, failing, had) \in Directory
        /\ [Ran(finished, half, failing, had) EXCEPT !.failed = failed] \in Directory
        /\ Asked(finished) = [asked EXCEPT ![cur] = Asked(finished)[cur]]
        /\ Asked(finished)[cur] \in [Tasks -> SUBSET Things]
        /\ skipped \union failing \subseteq Projects
<1> DEFINE R == Ran(finished, half, failing, had)
<1>1. This \in Directory /\ This = disk[cur] /\ cur \in DOMAIN asked
  BY DirFacts DEF This
<1>2. Phase \subseteq Tasks /\ (\A t \in Tasks : Items(t) \subseteq Things)
  BY PhaseFacts, RootFacts
<1>3. R.out \in [Tasks -> SUBSET Things]
  <2>1. \A t \in Tasks : This.out[t] \subseteq Things
    BY <1>1 DEF Directory
  <2>2. \A t \in Phase : Written(t, failing, had) \subseteq Things
    BY <1>2, WrittenFacts
  <2> QED
    BY <2>1, <2>2 DEF Ran
<1>4. R.done \in SUBSET Tasks
  BY <1>1, <1>2 DEF Ran, Directory
<1>5. R.marked \in BOOLEAN
  BY <1>1 DEF Ran, Directory
<1>6. R = [This EXCEPT !.done = R.done, !.marked = R.marked, !.out = R.out]
  BY <1>1 DEF Ran, Directory
<1> HIDE DEF R
<1>7. R \in Directory /\ [R EXCEPT !.failed = failed] \in Directory
  <2>1. R \in Directory
    BY <1>1, <1>3, <1>4, <1>5, <1>6 DEF Directory
  <2> QED
    BY <2>1 DEF Directory
<1>8. \A t \in Tasks : InScope(t) \subseteq Things
  <2>1. This.scope.keys \subseteq Projects /\ This.scope.folios \subseteq Portfolios
    BY <1>1, DirFacts
  <2> QED
    BY <1>2, <2>1 DEF InScope, Things
<1>9. Asked(finished)[cur] \in [Tasks -> SUBSET Things]
  <2>1. \A t \in Tasks : Root(t) \in Tasks
    BY RootFacts
  <2>2. asked[cur] \in [Tasks -> SUBSET Things]
    BY DirFacts
  <2> QED
    BY <1>1, <1>8, <2>1, <2>2 DEF Asked
<1>10. Asked(finished) = [asked EXCEPT ![cur] = Asked(finished)[cur]]
  BY <1>1 DEF Asked
<1> QED
  BY <1>7, <1>9, <1>10 DEF R, Types

\* Where the run is.
LEMMA CurFacts ==
  ASSUME MergeIInv, cur # 0
  PROVE /\ cur \in DOMAIN disk /\ Types /\ Good(cur) /\ cur \in DOMAIN asked
        /\ cur \notin ended /\ skipped \subseteq Projects
        /\ disk[cur].failed \subseteq skipped
<1>1. Types /\ cur \in DOMAIN disk
  BY DEF MergeIInv, Types
<1> QED
  BY <1>1, DirFacts DEF MergeIInv, Types, Good, Over

LEMMA FinishPhaseKeeps ==
  ASSUME MergeIInv, NEW failing \in SUBSET Projects, NEW had, FinishPhase(failing, had)
  PROVE MergeIInv'
<1> DEFINE R == Ran(Phase, {}, failing, had)
<1>1. /\ cur # 0 /\ disk' = [disk EXCEPT ![cur] = R] /\ asked' = Asked(Phase)
      /\ skipped' = skipped \union failing /\ cur' = cur /\ rescoped' = rescoped
      /\ ended' = ended /\ forgotten' = forgotten
  BY DEF FinishPhase
<1>2. /\ cur \in DOMAIN disk /\ Types /\ Good(cur) /\ cur \in DOMAIN asked
      /\ cur \notin ended /\ skipped \subseteq Projects /\ disk[cur].failed \subseteq skipped
  BY <1>1, CurFacts
<1>3. /\ R \in Directory /\ asked' = [asked EXCEPT ![cur] = Asked(Phase)[cur]]
      /\ Asked(Phase)[cur] \in [Tasks -> SUBSET Things]
  BY <1>1, <1>2, RanIsTyped
<1>4. /\ R.partial = disk[cur].partial /\ R.scope = disk[cur].scope
      /\ R.done = disk[cur].done \union Phase /\ R.marked = (disk[cur].marked \/ Phase # {})
      /\ R.failed = disk[cur].failed
  BY <1>2, DirFacts DEF Ran, This, Directory
<1>5. disk'[cur] = R /\ asked'[cur] = Asked(Phase)[cur]
  BY <1>1, <1>2
<1>6. Good(cur)'
  <2> DEFINE d == cur
  <2>1. skipped \union failing \union Blamed(d) \subseteq Blamed(d)'
    BY <1>1, <1>2, <1>4, <1>5 DEF Blamed
  <2>2. disk'[d].failed \subseteq skipped'
    BY <1>1, <1>2, <1>4, <1>5
  <2> HIDE DEF R
  <2>3. PICK e : e = cur
    OBVIOUS
  <2>4. Good(e)'
    BY <1>1, <1>2, <1>4, <1>5, <2>1, <2>2, <2>3, RanIsGood DEF R
  <2> QED
    BY <1>1, <2>3, <2>4
<1> QED
  BY <1>1, <1>2, <1>3, <1>6, OneDirectory

LEMMA StopKeeps ==
  ASSUME MergeIInv, NEW finished \in SUBSET Phase, NEW half, NEW failing \in SUBSET Projects,
         NEW had, Stop(finished, half, failing, had)
  PROVE MergeIInv'
<1> DEFINE P == Ran(finished, half, failing, had)
           R == [P EXCEPT !.failed = skipped \union failing]
<1>1. /\ cur # 0 /\ disk' = [disk EXCEPT ![cur] = R] /\ asked' = Asked(finished)
      /\ skipped' = {} /\ cur' = 0 /\ rescoped' = rescoped
      /\ ended' = ended /\ forgotten' = forgotten
  BY DEF Stop, Kept
<1>2. /\ cur \in DOMAIN disk /\ Types /\ Good(cur) /\ cur \in DOMAIN asked
      /\ cur \notin ended /\ skipped \subseteq Projects /\ disk[cur].failed \subseteq skipped
      /\ ended \subseteq DOMAIN disk
  BY <1>1, CurFacts DEF Types
<1>3. /\ P \in Directory /\ asked' = [asked EXCEPT ![cur] = Asked(finished)[cur]]
      /\ Asked(finished)[cur] \in [Tasks -> SUBSET Things] /\ R \in Directory
  BY <1>1, <1>2, RanIsTyped
<1>4. /\ P.partial = disk[cur].partial /\ P.scope = disk[cur].scope
      /\ P.done = disk[cur].done \union finished
      /\ P.marked = (disk[cur].marked \/ finished # {})
  BY <1>2, DirFacts DEF Ran, This, Directory
<1>5. /\ R.partial = P.partial /\ R.scope = P.scope /\ R.done = P.done
      /\ R.marked = P.marked /\ R.out = P.out /\ R.failed = skipped \union failing
  <2> HIDE DEF P
  <2> QED
    BY <1>3 DEF Directory
<1>6. disk'[cur] = R /\ asked'[cur] = Asked(finished)[cur]
  BY <1>1, <1>2
<1>7. PICK e : e = cur
  OBVIOUS
<1>8. Good(e)'
  <2> HIDE DEF R, P
  <2>1. skipped \union failing \union Blamed(e) \subseteq Blamed(e)'
    BY <1>1, <1>2, <1>5, <1>6, <1>7 DEF Blamed
  <2>2. e # cur'
    BY <1>1, <1>7
  <2> QED
    BY <1>1, <1>2, <1>4, <1>5, <1>6, <1>7, <2>1, <2>2, RanIsGood DEF P
<1>9. 0 \notin ended
  BY <1>2 DEF Types
<1> HIDE DEF R
<1> QED
  BY <1>1, <1>2, <1>3, <1>7, <1>8, <1>9, OneDirectory

LEMMA KillKeeps ==
  ASSUME MergeIInv, NEW finished \in SUBSET Phase, NEW half, NEW failing \in SUBSET Projects,
         NEW had, KillExtract(finished, half, failing, had)
  PROVE MergeIInv'
<1> DEFINE R == Ran(finished, half, failing, had)
<1>1. /\ cur # 0 /\ disk' = [disk EXCEPT ![cur] = R] /\ asked' = Asked(finished)
      /\ skipped' = {} /\ cur' = 0 /\ rescoped' = rescoped /\ ended' = ended
      /\ forgotten' = forgotten \union ((skipped \union failing) \ This.failed)
  BY DEF KillExtract
<1>2. /\ cur \in DOMAIN disk /\ Types /\ Good(cur) /\ cur \in DOMAIN asked
      /\ cur \notin ended /\ skipped \subseteq Projects /\ disk[cur].failed \subseteq skipped
      /\ ended \subseteq DOMAIN disk /\ This = disk[cur]
  BY <1>1, CurFacts DEF Types, This
<1>3. /\ R \in Directory /\ asked' = [asked EXCEPT ![cur] = Asked(finished)[cur]]
      /\ Asked(finished)[cur] \in [Tasks -> SUBSET Things]
  BY <1>1, <1>2, RanIsTyped
<1>4. /\ R.partial = disk[cur].partial /\ R.scope = disk[cur].scope
      /\ R.done = disk[cur].done \union finished
      /\ R.marked = (disk[cur].marked \/ finished # {})
      /\ R.failed = disk[cur].failed
  BY <1>2, DirFacts DEF Ran, This, Directory
<1>5. disk'[cur] = R /\ asked'[cur] = Asked(finished)[cur]
  BY <1>1, <1>2
<1>6. PICK e : e = cur
  OBVIOUS
<1>7. Good(e)'
  <2> HIDE DEF R
  <2>1. skipped \union failing \union Blamed(e) \subseteq Blamed(e)'
    BY <1>1, <1>2, <1>4, <1>5, <1>6 DEF Blamed
  <2>2. e # cur'
    BY <1>1, <1>6
  <2> QED
    BY <1>1, <1>2, <1>4, <1>5, <1>6, <2>1, <2>2, RanIsGood DEF R
<1>8. 0 \notin ended
  BY <1>2 DEF Types
<1> HIDE DEF R
<1> QED
  BY <1>1, <1>2, <1>3, <1>6, <1>7, <1>8, OneDirectory

LEMMA EndKeeps ==
  ASSUME MergeIInv, End
  PROVE MergeIInv'
<1> DEFINE R == [disk[cur] EXCEPT !.failed = skipped]
<1>1. /\ cur # 0 /\ Left = {} /\ disk' = [disk EXCEPT ![cur] = R] /\ asked' = asked
      /\ skipped' = {} /\ cur' = 0 /\ rescoped' = rescoped /\ ended' = ended \union {cur}
      /\ forgotten' = forgotten
  BY DEF End
<1>2. /\ cur \in DOMAIN disk /\ Types /\ Good(cur) /\ cur \in DOMAIN asked
      /\ cur \notin ended /\ skipped \subseteq Projects /\ disk[cur].failed \subseteq skipped
      /\ ended \subseteq DOMAIN disk /\ This = disk[cur] /\ disk[cur] \in Directory
  BY <1>1, CurFacts, DirFacts DEF Types, This
<1>3. /\ R \in Directory /\ R.partial = disk[cur].partial /\ R.scope = disk[cur].scope
      /\ R.done = disk[cur].done /\ R.marked = disk[cur].marked /\ R.out = disk[cur].out
      /\ R.failed = skipped
  BY <1>2 DEF Directory
<1>4. disk'[cur] = R /\ asked'[cur] = asked[cur]
  BY <1>1, <1>2
<1> HIDE DEF R
<1>5. PICK e : e = cur
  OBVIOUS
<1>6. Good(e)'
  <2>1. Blamed(e) \subseteq Blamed(e)'
    BY <1>1, <1>2, <1>3, <1>4, <1>5 DEF Blamed
  <2>2. Labelled(e)'
    BY <1>2, <1>3, <1>4, <1>5 DEF Good, Labelled
  <2>3. Sound(e)'
    BY <1>2, <1>3, <1>4, <1>5, <2>1 DEF Good, Sound
  <2>4. SlicesAsk(e)'
    BY <1>1, <1>2, <1>3, <1>4, <1>5 DEF Good, SlicesAsk
  <2>5. Over(e)'
    BY <1>1, <1>2, <1>3, <1>4, <1>5 DEF Over, Left
  <2> QED
    BY <2>2, <2>3, <2>4, <2>5 DEF Good
<1>7. asked' = [asked EXCEPT ![e] = asked[e]] /\ asked[e] \in [Tasks -> SUBSET Things]
  BY <1>1, <1>2, <1>5, DirFacts DEF Types
<1>8. 0 \notin ended'
  BY <1>1, <1>2 DEF Types
<1> QED
  BY <1>1, <1>2, <1>3, <1>5, <1>6, <1>7, <1>8, OneDirectory

\* A resumed run keeps the scope, or is given another.
LEMMA RestoredFacts ==
  ASSUME Types, NEW d \in DOMAIN disk, Good(d), NEW f \in Flags
  PROVE /\ Restored(disk[d], f).partial \in BOOLEAN /\ Restored(disk[d], f).scope \in Scope
        /\ WithRoots(Restored(disk[d], f).scope)
        /\ HasScope(Restored(disk[d], f).scope) => Restored(disk[d], f).partial
        /\ disk[d].partial => Restored(disk[d], f).partial
        /\ ~HasScope(f) => Restored(disk[d], f).scope = disk[d].scope
<1> DEFINE x == disk[d]
           kept == [f EXCEPT !.keys = IF @ = {} THEN x.scope.keys ELSE @]
<1>1. f \in Scope /\ WithRoots(f)
  BY ScopesAreClosed
<1>2. x.scope \in Scope /\ x.partial \in BOOLEAN /\ WithRoots(x.scope)
      /\ (HasScope(x.scope) => x.partial)
  BY DirFacts DEF Good, Labelled
<1>3. kept \in Scope /\ kept.tasks = f.tasks
  BY <1>1, <1>2 DEF Scope
<1> HIDE DEF kept, x
<1>4. CASE ~x.partial
  BY <1>1, <1>2, <1>4 DEF Restored, HasScope, x
<1>5. CASE x.partial /\ HasScope(f)
  BY <1>1, <1>2, <1>3, <1>5 DEF Restored, WithRoots, x, kept
<1>6. CASE x.partial /\ ~HasScope(f)
  BY <1>1, <1>2, <1>6 DEF Restored, x
<1> QED
  BY <1>2, <1>4, <1>5, <1>6

LEMMA ResumeKeeps ==
  ASSUME MergeIInv, NEW d \in DOMAIN disk, NEW f \in Flags, ResumeExtract(d, f)
  PROVE MergeIInv'
<1> DEFINE r == Restored(disk[d], f)
           o == [t \in Tasks |-> IF t \in r.scope.tasks \ disk[d].done THEN {} ELSE disk[d].out[t]]
           R == [disk[d] EXCEPT !.partial = r.partial, !.scope = r.scope, !.out = o]
<1>1. /\ cur = 0 /\ d \notin ended /\ cur' = d /\ skipped' = disk[d].failed
      /\ asked' = asked /\ ended' = ended /\ forgotten' = forgotten
      /\ rescoped' = IF HasScope(f) THEN rescoped \union {d} ELSE rescoped
  BY DEF ResumeExtract, FailedBefore
<1>2. Types /\ Good(d)
  BY DEF MergeIInv
<1>3. disk[d] \in Directory /\ d \in DOMAIN asked /\ asked[d] \in [Tasks -> SUBSET Things]
      /\ d # 0 /\ disk[d].done \subseteq Tasks /\ disk[d].failed \subseteq Projects
      /\ disk[d].out \in [Tasks -> SUBSET Things]
  BY <1>2, DirFacts
<1>4. /\ r.partial \in BOOLEAN /\ r.scope \in Scope /\ WithRoots(r.scope)
      /\ HasScope(r.scope) => r.partial
      /\ ~HasScope(f) => r.scope = disk[d].scope
  BY <1>2, RestoredFacts
<1> HIDE DEF r
<1>5. o \in [Tasks -> SUBSET Things] /\ (\A t \in Tasks : o[t] \subseteq disk[d].out[t])
      /\ (\A t \in disk[d].done : o[t] = disk[d].out[t])
  BY <1>3
<1>6. disk' = [disk EXCEPT ![d] = R]
  BY <1>3 DEF ResumeExtract, r, Directory
<1> HIDE DEF o
<1>7. /\ R \in Directory /\ R.partial = r.partial /\ R.scope = r.scope
      /\ R.done = disk[d].done /\ R.marked = disk[d].marked /\ R.out = o
      /\ R.failed = disk[d].failed
  BY <1>3, <1>4, <1>5 DEF Directory
<1>8. disk'[d] = R /\ asked'[d] = asked[d]
  BY <1>1, <1>6
<1> HIDE DEF R
<1>9. Good(d)'
  <2>1. Blamed(d) \subseteq Blamed(d)'
    BY <1>1, <1>3, <1>7, <1>8 DEF Blamed
  <2>2. Labelled(d)'
    BY <1>2, <1>4, <1>5, <1>7, <1>8 DEF Good, Labelled
  <2>3. Sound(d)'
    BY <1>2, <1>5, <1>7, <1>8, <2>1 DEF Good, Sound
  <2>4. SlicesAsk(d)'
    BY <1>1, <1>2, <1>4, <1>7, <1>8 DEF Good, SlicesAsk
  <2>5. Over(d)'
    BY <1>1, <1>7, <1>8 DEF Over
  <2> QED
    BY <2>2, <2>3, <2>4, <2>5 DEF Good
<1>10. asked' = [asked EXCEPT ![d] = asked[d]]
  BY <1>1, <1>2, <1>3 DEF Types
<1> QED
  BY <1>1, <1>3, <1>6, <1>7, <1>9, <1>10, OneDirectory

LEMMA MergeNextKeeps ==
  ASSUME MergeIInv, [MergeNext]_mvars
  PROVE MergeIInv'
<1>1. ASSUME NEW s \in Scopes, Begin(s) PROVE MergeIInv'
  BY <1>1, BeginKeeps
<1>2. ASSUME NEW d \in DOMAIN disk, NEW f \in Flags, ResumeExtract(d, f) PROVE MergeIInv'
  BY <1>2, ResumeKeeps
<1>3. CASE cur # 0 /\ RunOn
  <2> PICK failing \in SUBSET Projects :
        \E had \in IF failing = {} THEN {{}} ELSE SUBSET Phase :
          \/ FinishPhase(failing, had)
          \/ \E finished \in SUBSET Phase, half \in Halves :
               Stop(finished, half, failing, had) \/ KillExtract(finished, half, failing, had)
    BY <1>3 DEF RunOn
  <2> QED
    BY FinishPhaseKeeps, StopKeeps, KillKeeps
<1>4. CASE End
  BY <1>4, EndKeeps
<1>5. ASSUME NEW i \in Deletable, Delete(i) PROVE MergeIInv'
  BY <1>5, DeleteKeeps
<1>6. CASE UNCHANGED mvars
  BY <1>6 DEF mvars, MergeIInv, Types, Good, Labelled, Sound, SlicesAsk, Over, Blamed
<1> QED
  BY <1>1, <1>2, <1>3, <1>4, <1>5, <1>6 DEF MergeNext

-----------------------------------------------------------------------------
\* The extracts that are read, and the later ones of them.
LEMMA MergedFacts ==
  ASSUME MergeIInv, NEW d \in MergedSet
  PROVE /\ d \in DOMAIN disk /\ d \in Int /\ d # 0 /\ Good(d) /\ Labelled(d) /\ Sound(d)
        /\ disk[d].done \subseteq Tasks
        /\ \A t \in disk[d].done : Finished(d, t)
        /\ \A e \in Later(d) : e \in MergedSet /\ e \in Int /\ e > d /\ disk[e].partial
<1>1. Types /\ d \in DOMAIN disk /\ Good(d)
  BY DEF MergeIInv, MergedSet
<1>2. d \in 1 .. Len(disk) /\ disk[d].done \subseteq Tasks
  BY <1>1, DirFacts
<1>3. ASSUME NEW e \in Later(d)
      PROVE e \in MergedSet /\ e \in Int /\ e > d /\ disk[e].partial
  <2>1. e \in MergedSet /\ e > d /\ e \in DOMAIN disk
    BY DEF Later, MergedSet
  <2>2. e \in 1 .. Len(disk) /\ Len(disk) \in Nat
    BY <1>1, <2>1, DirFacts DEF Types
  <2>3. e \in d + 1 .. Len(disk)
    BY <1>2, <2>1, <2>2
  <2> QED
    BY <2>1, <2>2, <2>3 DEF MergedSet
<1> QED
  BY <1>1, <1>2, <1>3 DEF Good, Labelled, Finished

\* A later extract hides what its tasks wrote, and but for new scopes what it asked for.
LEMMA HidesFacts ==
  ASSUME MergeIInv, NEW e \in MergedSet, disk[e].partial,
         NEW t \in disk[e].done, t \notin ServerTasks
  PROVE /\ disk[e].out[t] \subseteq Hides(e, t)
        /\ e \notin rescoped => Hides(e, t) \subseteq asked[e][t]
        /\ t \in ProjectTasks /\ disk[e].scope.keys = {} => Hides(e, t) = Projects
        /\ t \in ProjectTasks => disk[e].scope.keys \subseteq Hides(e, t)
        /\ t \in ProjectTasks /\ disk[e].scope.keys # {} /\ e \notin rescoped
             => Hides(e, t) = disk[e].scope.keys
<1>1. /\ t \in Tasks /\ Finished(e, t) /\ Labelled(e) /\ Sound(e) /\ SlicesAsk(e)
      /\ disk[e].scope.keys \subseteq Projects
  BY MergedFacts, DirFacts DEF Good, MergeIInv
<1>2. /\ Root(t) \in disk[e].done /\ disk[e].out[t] \subseteq disk[e].out[Root(t)]
      /\ asked[e][t] = asked[e][Root(t)] /\ Root(Root(t)) = Root(t)
      /\ disk[e].out[t] \subseteq Items(t)
  BY <1>1, RootFacts DEF Sound, Labelled
<1>3. disk[e].out[Root(t)] \subseteq asked[e][t]
  BY <1>1, <1>2 DEF Sound
<1>4. CASE t \in PortfolioTasks
  <2>1. Hides(e, t) = disk[e].out[Root(t)] /\ t \notin ProjectTasks
    BY <1>1, <1>4, RootFacts, MergeAssumption DEF Hides
  <2> QED
    BY <1>2, <1>3, <2>1
<1>5. CASE t \in ProjectTasks
  <2>1. t \notin PortfolioTasks /\ Root(t) = ListProjects /\ Items(t) = Projects
    BY <1>1, <1>5, RootFacts, MergeAssumption
  <2>2. Hides(e, t) = IF disk[e].scope.keys = {} THEN Projects
                      ELSE disk[e].scope.keys \union disk[e].out[t]
    BY <1>1, <2>1 DEF Hides, ReplacedKeys
  <2>3. e \notin rescoped =>
          asked[e][t] = IF disk[e].scope.keys = {} THEN Projects ELSE disk[e].scope.keys
    BY <1>1, <1>2, <2>1 DEF SlicesAsk
  <2> QED
    BY <1>1, <1>2, <1>3, <2>1, <2>2, <2>3
<1> QED
  BY <1>1, <1>4, <1>5 DEF Tasks

\* What is read of one task.
LEMMA ViewFacts ==
  ASSUME NEW t, NEW d \in MergedSet, NEW i \in Items(t)
  PROVE /\ t \in ServerTasks =>
             (<<d, i>> \in View(t) <=> d \in ReadFor(t) /\ i \in disk[d].out[t])
        /\ t \notin ServerTasks =>
             (<<d, i>> \in View(t) <=> /\ i \in disk[d].out[t]
                                       /\ \A e \in Later(d) : i \notin Hides(e, t))
        /\ <<d, i>> \in View(t) => i \in Seen(t)
BY DEF View, Seen, ReadFor

LEMMA ViewIsRead ==
  ASSUME NEW t, NEW v \in View(t)
  PROVE v[1] \in MergedSet /\ v[2] \in Items(t) /\ v = <<v[1], v[2]>>
BY DEF View, ReadFor

LEMMA MergeTyped ==
  ASSUME MergeIInv
  PROVE MergeTypeOK
<1>1. Types /\ (\A d \in DOMAIN disk : Labelled(d))
  BY DEF MergeIInv, Good
<1>2. \A d \in DOMAIN disk :
        /\ disk[d].partial \in BOOLEAN /\ disk[d].marked \in BOOLEAN
        /\ disk[d].scope \in Scope /\ (HasScope(disk[d].scope) => disk[d].partial)
        /\ disk[d].done \subseteq Tasks /\ disk[d].failed \subseteq Projects
        /\ \A t \in Tasks : disk[d].out[t] \subseteq Items(t)
        /\ disk[d].done # {} => disk[d].marked
  BY <1>1, DirFacts DEF Labelled
<1>3. /\ cur \in 0 .. Len(disk) /\ skipped \subseteq Projects
      /\ DOMAIN asked = DOMAIN disk /\ rescoped \subseteq DOMAIN disk /\ ended \subseteq DOMAIN disk
  BY <1>1 DEF Types
<1> QED
  BY <1>2, <1>3 DEF MergeTypeOK

LEMMA ReadOnce ==
  ASSUME MergeIInv
  PROVE NothingReadTwice
<1> SUFFICES ASSUME NEW t \in Tasks, NEW v \in View(t), NEW w \in View(t),
                    v[2] = w[2], v[1] < w[1], t \in disk[w[1]].done
             PROVE FALSE
  BY DEF NothingReadTwice
<1> DEFINE d == v[1]
           e == w[1]
<1>1. /\ d \in MergedSet /\ e \in MergedSet /\ v[2] \in Items(t)
      /\ v = <<d, v[2]>> /\ w = <<e, v[2]>>
  BY ViewIsRead
<1>2. e > d /\ e \in Later(d) /\ Finished(e, t)
  BY <1>1, MergedFacts DEF Later
<1>3. CASE t \in ServerTasks
  <2>1. d \in ReadFor(t)
    BY <1>1, <1>3, ViewFacts
  <2> QED
    BY <1>1, <1>2, <2>1 DEF ReadFor
<1>4. CASE t \notin ServerTasks
  <2>1. v[2] \in disk[e].out[t] /\ v[2] \notin Hides(e, t)
    BY <1>1, <1>2, <1>4, ViewFacts
  <2> QED
    BY <1>1, <1>2, <1>4, <2>1, HidesFacts, MergedFacts
<1> QED
  BY <1>3, <1>4

LEMMA ReadAgainIfHidden ==
  ASSUME MergeIInv
  PROVE HiddenWasReadAgain
<1> SUFFICES ASSUME NEW t \in Tasks, NEW m \in Missing(t),
                    \A e \in MergedSet : e \notin rescoped /\ disk[e].marked
             PROVE ReadAgain(m[1], t, m[2])
  BY DEF HiddenWasReadAgain
<1> DEFINE d == m[1]
           i == m[2]
<1>1. /\ d \in MergedSet /\ i \in Items(t) /\ i \in disk[d].out[t] /\ m = <<d, i>>
      /\ <<d, i>> \notin View(t)
  BY DEF Missing
<1>2. \A e \in MergedSet : Finished(e, t) => t \in disk[e].done
  BY DEF Finished
<1>3. CASE t \in ServerTasks
  <2>1. \A e \in MergedSet : Finished(e, t) => i \in asked[e][t]
    BY <1>1, <1>2, <1>3, RootFacts, MergedFacts DEF Sound
  <2>2. d \notin ReadFor(t)
    BY <1>1, <1>3, ViewFacts
  <2>3. PICK e \in MergedSet : Finished(e, t) /\ (e > d \/ ~Finished(d, t))
    BY <1>1, <2>2 DEF ReadFor, Later
  <2>4. e > d \/ t \notin disk[d].done
    BY <1>1, <2>3, MergedFacts
  <2> QED
    BY <1>2, <2>1, <2>3, <2>4 DEF ReadAgain
<1>4. CASE t \notin ServerTasks
  <2>1. PICK e \in Later(d) : i \in Hides(e, t)
    BY <1>1, <1>4, ViewFacts
  <2>2. e \in MergedSet /\ e > d /\ disk[e].partial
    BY <1>1, MergedFacts
  <2>3. t \in disk[e].done
    BY <1>2, <2>1, <2>2 DEF Hides
  <2>4. i \in asked[e][t]
    BY <1>4, <2>1, <2>2, <2>3, HidesFacts
  <2> QED
    BY <2>2, <2>3, <2>4 DEF ReadAgain
<1> QED
  BY <1>3, <1>4

(***************************************************************************)
(* A project that lacks records of a task failed in the extract it is read *)
(* from.  It is in projects.csv only if a later extract clears it, but     *)
(* what clears it hides its details as well.                               *)
(***************************************************************************)
LEMMA CsvProjectsAreWhole ==
  ASSUME MergeIInv
  PROVE CsvIsWhole
<1> SUFFICES ASSUME cur = 0, AllAskedAndEnded, NEW p \in Csv, p \notin forgotten,
                    NEW t \in ProjectTasks
             PROVE p \in Seen(t)
  BY DEF CsvIsWhole, WholeProject
<1>1. \A e \in MergedSet : e \notin rescoped /\ ProjectTasks \subseteq disk[e].done
  <2> SUFFICES ASSUME NEW e \in MergedSet
               PROVE e \notin rescoped /\ ProjectTasks \subseteq disk[e].done
    OBVIOUS
  <2>1. e \in ended /\ e \notin rescoped /\ disk[e].scope.tasks = Tasks
    BY DEF AllAskedAndEnded
  <2>2. Tasks \subseteq disk[e].done
    BY <2>1, MergedFacts DEF Good, Over
  <2> QED
    BY <2>1, <2>2 DEF Tasks
<1>2. /\ Details \in ProjectTasks /\ ListProjects \in ProjectTasks
      /\ \A u \in ProjectTasks : u \notin ServerTasks /\ Root(u) = ListProjects /\ Items(u) = Projects
  BY MergeAssumption, RootFacts DEF Tasks
<1>3. PICK v \in View(Details) : v[2] = p
  BY DEF Csv, Seen
<1> DEFINE d == v[1]
<1>4. d \in MergedSet /\ p \in Projects /\ v = <<d, p>>
  BY <1>2, <1>3, ViewIsRead
<1>5. p \in disk[d].out[Details] /\ \A e \in Later(d) : p \notin Hides(e, Details)
  BY <1>2, <1>3, <1>4, ViewFacts
<1>6. ASSUME NEW e \in Later(d)
      PROVE /\ e \in MergedSet /\ disk[e].partial /\ e \notin rescoped
            /\ disk[e].scope.keys # {} /\ p \notin disk[e].scope.keys
            /\ Hides(e, t) = disk[e].scope.keys
  <2>1. e \in MergedSet /\ disk[e].partial /\ e \notin rescoped
    BY <1>1, <1>4, MergedFacts
  <2>2. disk[e].scope.keys # {} /\ p \notin disk[e].scope.keys
    BY <1>1, <1>2, <1>4, <1>5, <2>1, HidesFacts
  <2> QED
    BY <1>1, <1>2, <2>1, <2>2, HidesFacts
<1>7. p \in disk[d].out[t]
  <2> SUFFICES ASSUME p \notin disk[d].out[t] PROVE FALSE
    OBVIOUS
  <2>1. Sound(d) /\ t \in disk[d].done /\ Details \in disk[d].done /\ d # cur
    BY <1>1, <1>2, <1>4, MergedFacts
  <2>2. p \in disk[d].out[ListProjects]
    BY <1>2, <1>5, <2>1 DEF Sound
  <2>3. p \in Blamed(d)
    BY <1>2, <2>1, <2>2 DEF Sound
  <2>4. p \in disk[d].failed
    BY <2>1, <2>3 DEF Blamed
  <2>5. PICK e \in Later(d) : Clears(e, p)
    BY <1>4, <2>4 DEF Csv, FailedKeys
  <2> QED
    BY <1>6, <2>5 DEF Clears
<1>8. <<d, p>> \in View(t)
  BY <1>2, <1>4, <1>6, <1>7, ViewFacts
<1> QED
  BY <1>2, <1>4, <1>8, ViewFacts

(***************************************************************************)
(* Readers see one extract, for any number of extracts, tasks, projects,   *)
(* scopes, failures and resumed runs: each record once, none hidden that   *)
(* was not read again, and whole projects in projects.csv.                 *)
(***************************************************************************)
THEOREM MergedExtractsAreOne == MergeSpec => []ViewInv
<1>1. MergeIInv => ViewInv
  BY MergeTyped, ReadOnce, ReadAgainIfHidden, CsvProjectsAreWhole DEF ViewInv
<1> QED
  BY <1>1, MergeInitIInv, MergeNextKeeps, PTL DEF MergeSpec

-----------------------------------------------------------------------------
\* A step keeps the directories there are, and slices stay slices.
LEMMA SlicesStay ==
  ASSUME MergeIInv, [MergeNext]_mvars, Len(disk') = Len(disk)
  PROVE /\ DOMAIN disk' = DOMAIN disk
        /\ \A d \in DOMAIN disk : disk[d].partial => disk'[d].partial
<1>1. Types /\ Types' /\ Len(disk) \in Nat
  BY MergeNextKeeps DEF MergeIInv, Types
<1>2. DOMAIN disk' = DOMAIN disk
  BY <1>1 DEF Types
<1>3. ASSUME NEW s \in Scopes, Begin(s) PROVE FALSE
  <2>1. Len(disk') = Len(disk) + 1
    BY <1>1, <1>3 DEF Begin, Types
  <2> QED
    BY <1>1, <2>1
<1>4. ASSUME NEW d \in DOMAIN disk, NEW f \in Flags, ResumeExtract(d, f)
      PROVE \A e \in DOMAIN disk : disk[e].partial => disk'[e].partial
  <2> DEFINE r == Restored(disk[d], f)
  <2>1. disk[d].partial => r.partial
    BY <1>1, RestoredFacts DEF MergeIInv
  <2>2. disk[d] \in Directory
    BY <1>1, DirFacts
  <2> HIDE DEF r
  <2>3. disk'[d].partial = r.partial /\ (\A e \in DOMAIN disk : e # d => disk'[e] = disk[e])
    BY <1>4, <2>2 DEF ResumeExtract, r, Directory
  <2> QED
    BY <2>1, <2>3
<1>5. ASSUME cur # 0, NEW finished, NEW half, NEW failing, NEW had, NEW failed,
             \/ disk' = [disk EXCEPT ![cur] = Ran(finished, half, failing, had)]
             \/ disk' = [disk EXCEPT ![cur] = [Ran(finished, half, failing, had) EXCEPT !.failed = failed]]
      PROVE \A e \in DOMAIN disk : disk[e].partial => disk'[e].partial
  <2>1. cur \in DOMAIN disk /\ This = disk[cur] /\ disk[cur] \in Directory
    BY <1>1, <1>5, CurFacts, DirFacts DEF This
  <2>2. disk'[cur].partial = disk[cur].partial
    <3> DEFINE r == Ran(finished, half, failing, had)
    <3>1. r.partial = disk[cur].partial
      BY <2>1 DEF Ran, Directory
    <3>2. DOMAIN r = DOMAIN disk[cur] /\ "partial" \in DOMAIN disk[cur]
      BY <2>1 DEF Ran, Directory
    <3> HIDE DEF r
    <3>3. [r EXCEPT !.failed = failed].partial = r.partial
      BY <3>2
    <3>4. \/ disk' = [disk EXCEPT ![cur] = r]
          \/ disk' = [disk EXCEPT ![cur] = [r EXCEPT !.failed = failed]]
      BY <1>5 DEF r
    <3>5. disk'[cur] = r \/ disk'[cur] = [r EXCEPT !.failed = failed]
      BY <2>1, <3>4
    <3> QED BY <3>1, <3>3, <3>5
  <2>3. \A e \in DOMAIN disk : e # cur => disk'[e] = disk[e]
    BY <1>5
  <2> QED
    BY <2>2, <2>3
<1>6. CASE cur # 0 /\ RunOn
  <2>1. PICK failing, had, finished, half :
          \/ FinishPhase(failing, had)
          \/ Stop(finished, half, failing, had) \/ KillExtract(finished, half, failing, had)
    BY <1>6 DEF RunOn
  <2>2. CASE FinishPhase(failing, had)
    BY <1>5, <1>6, <2>2 DEF FinishPhase
  <2>3. CASE Stop(finished, half, failing, had)
    BY <1>5, <1>6, <2>3 DEF Stop
  <2>4. CASE KillExtract(finished, half, failing, had)
    BY <1>5, <1>6, <2>4 DEF KillExtract
  <2> QED
    BY <2>1, <2>2, <2>3, <2>4
<1>7. CASE End
  <2>1. cur \in DOMAIN disk /\ disk[cur] \in Directory
    BY <1>1, <1>7, CurFacts, DirFacts DEF End
  <2> QED
    BY <1>7, <2>1 DEF End, Directory
<1>8. ASSUME NEW i \in Deletable, Delete(i)
      PROVE \A e \in DOMAIN disk : disk[e].partial => disk'[e].partial
  BY <1>8 DEF Delete
<1> QED
  BY <1>2, <1>3, <1>4, <1>6, <1>7, <1>8 DEF MergeNext, mvars

(***************************************************************************)
(* An extract that is resumed, runs on, stops or is killed never pushes    *)
(* another out of what is read, and a slice stays a slice, with any flags. *)
(***************************************************************************)
THEOREM ResumedExtractsHideNone == MergeSpec => ResumeHidesNoExtract
<1>1. ASSUME MergeIInv, [MergeNext]_mvars, Len(disk') = Len(disk)
      PROVE /\ MergedSet \subseteq MergedSet'
            /\ \A d \in DOMAIN disk : disk[d].partial => disk'[d].partial
  <2>1. DOMAIN disk = 1 .. Len(disk) /\ Len(disk) \in Nat
    BY <1>1 DEF MergeIInv, Types
  <2>2. \A d \in DOMAIN disk : \A e \in d + 1 .. Len(disk) : e \in DOMAIN disk
    BY <2>1
  <2> QED
    BY <1>1, <2>2, SlicesStay DEF MergedSet
<1>2. MergeIInv /\ [MergeNext]_mvars =>
        [Len(disk') = Len(disk) => /\ MergedSet \subseteq MergedSet'
                                   /\ \A d \in DOMAIN disk : disk[d].partial => disk'[d].partial]_mvars
  BY <1>1
<1> QED
  BY <1>2, MergeInitIInv, MergeNextKeeps, PTL DEF MergeSpec, ResumeHidesNoExtract

-----------------------------------------------------------------------------
(* Adaptive paging.  A fetch holds exactly the entries shown up to its     *)
(* offset, and an aligned fetch has no gap before its offset; so the       *)
(* largest smaller size that divides the offset resumes where the last     *)
(* page ended.  PagingIInv says this with the types of a fetch, and that   *)
(* the size others remember is the least some fetch had to come down to.   *)

LEMMA DivFacts ==
    ASSUME NEW a \in Nat, NEW b \in Nat \ {0}
    PROVE  /\ a \div b \in Nat /\ (a \div b) * b =< a /\ a < (a \div b) * b + b
OBVIOUS

\* Rounding up.
LEMMA CeilFacts ==
    ASSUME NEW a \in Nat, NEW b \in Nat \ {0}
    PROVE  /\ CeilDiv(a, b) \in Nat /\ a =< CeilDiv(a, b) * b
           /\ CeilDiv(a, b) * b < a + b
           /\ a # 0 => CeilDiv(a, b) # 0
<1>1. a + b - 1 \in Nat
  OBVIOUS
<1> DEFINE k == (a + b - 1) \div b
<1>2. k \in Nat /\ k * b =< a + b - 1 /\ a + b - 1 < k * b + b
  BY <1>1, DivFacts
<1>3. k = CeilDiv(a, b)
  BY DEF CeilDiv
<1> HIDE DEF k
<1>4. k * b \in Int
  BY <1>2
<1>5. a =< k * b /\ k * b < a + b
  BY <1>2, <1>4
<1>6. k = 0 => k * b = 0
  BY <1>2
<1> QED BY <1>2, <1>3, <1>4, <1>5, <1>6

\* A product grows with its factor.
LEMMA Products ==
    ASSUME NEW k \in Nat, NEW m \in Nat, NEW s \in Nat \ {0}
    PROVE  /\ k * s \in Nat /\ (k + 1) * s = k * s + s
           /\ k =< m => k * s =< m * s
           /\ k * s =< m * s => k =< m
           /\ k # 0 => s =< k * s
           /\ k * s < m * s + s => k =< m
<1>1. k * s \in Nat /\ m * s \in Nat /\ (k + 1) * s = k * s + s /\ (m + 1) * s = m * s + s
  OBVIOUS
<1>2. ASSUME k =< m PROVE k * s =< m * s
  <2>1. m - k \in Nat /\ m * s = k * s + (m - k) * s /\ (m - k) * s \in Nat
    BY <1>2
  <2> QED BY <1>1, <2>1
<1>3. ASSUME k > m PROVE k * s >= m * s + s
  <2>1. k - m - 1 \in Nat
    BY <1>3
  <2>2. k * s = (k - m - 1) * s + (m + 1) * s /\ (k - m - 1) * s \in Nat
    BY <2>1
  <2> QED BY <1>1, <2>2
<1>4. k # 0 => s =< k * s
  <2>1. ASSUME k # 0 PROVE s =< k * s
    <3>1. k - 1 \in Nat /\ k * s = (k - 1) * s + s
      BY <2>1
    <3>2. (k - 1) * s \in Nat
      BY <3>1
    <3> QED BY <3>1, <3>2
  <2> QED BY <2>1
<1> QED BY <1>1, <1>2, <1>3, <1>4

LEMMA MinOfTwo ==
    ASSUME NEW a \in Int, NEW b \in Int
    PROVE  Min({a, b}) = IF a =< b THEN a ELSE b
<1> DEFINE m == IF a =< b THEN a ELSE b
<1>1. m \in {a, b} /\ \A y \in {a, b} : m =< y
  OBVIOUS
<1>2. Min({a, b}) \in {a, b} /\ \A y \in {a, b} : Min({a, b}) =< y
  BY <1>1 DEF Min
<1> QED BY <1>1, <1>2

\* The sizes a fetch may read with.
PageSizes == ToSet(FallbackPageSizes) \union RequestedSizes

LEMMA PagingConstants ==
    /\ ToSet(FallbackPageSizes) \in SUBSET (Nat \ {0}) /\ PageSizes \in SUBSET (Nat \ {0})
    /\ RequestedSizes \in SUBSET (Nat \ {0}) /\ PageLimits \in SUBSET Nat /\ Totals \in SUBSET Nat
    /\ MinPageSizeSlowRetries \in Nat /\ ResultWindowLimit \in Nat
<1>1. \A i \in DOMAIN FallbackPageSizes : FallbackPageSizes[i] \in Nat \ {0}
  BY PagingAssumption
<1>2. ToSet(FallbackPageSizes) \in SUBSET (Nat \ {0})
  BY <1>1 DEF ToSet
<1> QED BY <1>2, PagingAssumption DEF PageSizes

\* The next smaller size is the greatest of those below.
LEMMA NextSmallerIs ==
    ASSUME NEW size \in Nat
    PROVE  /\ Smaller(size) \in SUBSET ToSet(FallbackPageSizes)
           /\ \A x \in Smaller(size) : x < size /\ x \in Nat \ {0}
           /\ Smaller(size) # {} =>
                 NextSmaller(size) \in Smaller(size) /\ \A x \in Smaller(size) : x =< NextSmaller(size)
<1>1. /\ Smaller(size) \in SUBSET ToSet(FallbackPageSizes)
      /\ \A x \in Smaller(size) : x < size /\ x \in Nat \ {0}
  BY PagingConstants DEF Smaller
<1>2. ASSUME Smaller(size) # {}
      PROVE  NextSmaller(size) \in Smaller(size) /\ \A x \in Smaller(size) : x =< NextSmaller(size)
  <2>1. Smaller(size) \in SUBSET (1 .. size) /\ Smaller(size) \in SUBSET Int
    <3>1. \A x \in Nat \ {0} : x < size => x \in 1 .. size
      OBVIOUS
    <3> QED BY <1>1, <3>1
  <2>2. IsFiniteSet(Smaller(size))
    BY <2>1, FS_Interval, FS_Subset
  <2>3. \E x \in Smaller(size) : \A y \in Smaller(size) : y =< x
    BY <1>2, <2>1, <2>2, GreatestElement
  <2>4. \E x \in Smaller(size) : \A y \in Smaller(size) : x >= y
    BY <2>1, <2>3
  <2>5. Max(Smaller(size)) \in Smaller(size) /\ \A y \in Smaller(size) : Max(Smaller(size)) >= y
    <3> HIDE DEF Smaller
    <3> QED BY <2>4 DEF Max
  <2> QED BY <2>1, <2>5 DEF NextSmaller
<1> QED BY <1>1, <1>2

\* What is to be remembered after a slow failure at a size.
Remembered(size) == IF Smaller(size) = {} THEN size ELSE NextSmaller(size)

\* A fetch that came down from a smaller size is remembered with one no greater.
LEMMA RememberedIs ==
    ASSUME NEW a \in PageSizes, NEW b \in PageSizes
    PROVE  /\ Remembered(a) \in PageSizes /\ Remembered(a) =< a
           /\ a =< b => Remembered(a) =< Remembered(b)
<1>1. a \in Nat \ {0} /\ b \in Nat \ {0}
  BY PagingConstants
<1>2. /\ Smaller(a) # {} => NextSmaller(a) \in Smaller(a) /\ \A x \in Smaller(a) : x =< NextSmaller(a)
      /\ Smaller(b) # {} => NextSmaller(b) \in Smaller(b) /\ \A x \in Smaller(b) : x =< NextSmaller(b)
      /\ \A x \in Smaller(a) : x < a /\ x \in Nat \ {0} /\ x \in PageSizes
      /\ \A x \in Smaller(b) : x < b /\ x \in Nat \ {0} /\ x \in ToSet(FallbackPageSizes)
  BY <1>1, NextSmallerIs DEF PageSizes
<1>3. Remembered(a) \in PageSizes /\ Remembered(a) =< a
  BY <1>1, <1>2 DEF Remembered
<1>4. ASSUME a =< b PROVE Remembered(a) =< Remembered(b)
  <2>1. \A x \in Smaller(a) : x \in Smaller(b)
    BY <1>1, <1>4, PagingConstants DEF Smaller
  <2>2. \A x \in Smaller(b) : x < a => x \in Smaller(a)
    BY <1>1 DEF Smaller
  <2>3. CASE Smaller(a) = {} /\ Smaller(b) = {}
    BY <1>4, <2>3 DEF Remembered
  <2>4. CASE Smaller(a) = {} /\ Smaller(b) # {}
    <3>1. NextSmaller(b) \in Nat /\ ~(NextSmaller(b) < a)
      BY <1>2, <2>2, <2>4
    <3> QED BY <1>1, <2>4, <3>1 DEF Remembered
  <2>5. CASE Smaller(a) # {}
    <3>1. NextSmaller(a) \in Smaller(b) /\ Smaller(b) # {} /\ NextSmaller(a) =< NextSmaller(b)
      BY <1>2, <2>1, <2>5
    <3> QED BY <2>5, <3>1 DEF Remembered
  <2> QED BY <2>3, <2>4, <2>5
<1> QED BY <1>3, <1>4

-----------------------------------------------------------------------------
(* What the server shows of a range of its items.                          *)

\* Shown is a loop from an item to another one.
OneMore(s, k) == IF k \in server.hidden THEN s ELSE Append(s, k)
\* f lists what is shown after a, up to each position.
ShowsUpTo(f, a, b) ==
    f[a] = <<>> /\ \A i, k \in a .. b : k = i + 1 => f[k] = OneMore(f[i], k)

\* What is shown satisfies the recursion that defines it.
LEMMA ShownIsRecursive ==
    ASSUME NEW a \in Nat, NEW b \in Nat, a =< b
    PROVE  \E f \in [a .. b -> Seq(Nat)] : Shown(a, b) = f[b] /\ ShowsUpTo(f, a, b)
<1> DEFINE W == Seq(Nat)
           Def(g) == [n \in a .. b |-> IF n = a THEN <<>>
                                      ELSE IF n \in server.hidden THEN g[n - 1]
                                      ELSE Append(g[n - 1], n)]
           f == CHOOSE g : g = Def(g)
           next == [x \in (a .. b) \X W |-> IF x[1] \in server.hidden THEN x[2]
                                            ELSE Append(x[2], x[1])]
<1>1. Shown(a, b) = f[b]
  BY DEF Shown
<1>2. a \in Int /\ b \in Int /\ a \in a .. b /\ b \in a .. b /\ <<>> \in W /\ a .. b \in SUBSET Nat
  OBVIOUS
<1>3. next \in [(a .. b) \X W -> W]
  <2>1. \A s \in W, n \in Nat : Append(s, n) \in W
    OBVIOUS
  <2> HIDE DEF W
  <2> QED BY <1>2, <2>1
<1>4. \E g \in [a .. b -> W] : Loop(g, a, b, <<>>, next)
  <2> HIDE DEF next, W
  <2> QED BY <1>2, <1>3, Recursion
<1>5. PICK g \in [a .. b -> W] : \A i \in a .. b : g[i] = IF i = a THEN <<>> ELSE next[<<i, g[i - 1]>>]
  BY <1>4 DEF Loop
<1>6. g = Def(g)
  <2>1. \A i \in a .. b : i # a =>
          next[<<i, g[i - 1]>>] = IF i \in server.hidden THEN g[i - 1] ELSE Append(g[i - 1], i)
    <3> TAKE i \in a .. b
    <3> HAVE i # a
    <3>1. i - 1 \in a .. b
      OBVIOUS
    <3>2. g[i - 1] \in W
      <4> HIDE DEF W
      <4> QED BY <3>1
    <3>3. <<i, g[i - 1]>> \in (a .. b) \X W
      BY <3>2
    <3> HIDE DEF W
    <3> QED BY <3>3
  <2>2. \A i \in a .. b : g[i] = IF i = a THEN <<>> ELSE IF i \in server.hidden THEN g[i - 1]
                                 ELSE Append(g[i - 1], i)
    <3> TAKE i \in a .. b
    <3>1. g[i] = IF i = a THEN <<>> ELSE next[<<i, g[i - 1]>>]
      <4> HIDE DEF next, W
      <4> QED BY <1>5
    <3> HIDE DEF next, W
    <3>2. CASE i = a
      BY <3>1, <3>2
    <3>3. CASE i # a
      BY <2>1, <3>1, <3>3
    <3> QED BY <3>2, <3>3
  <2>3. g \in [a .. b -> W]
    OBVIOUS
  <2> HIDE DEF next, W
  <2> QED BY <2>2, <2>3
<1>7. f = Def(f)
  <2>1. \E x : x = Def(x)
    BY <1>6
  <2> HIDE DEF Def
  <2> QED BY <2>1
<1> HIDE DEF f
<1>8. \A i \in a .. b : f[i] = IF i = a THEN <<>> ELSE IF i \in server.hidden THEN f[i - 1]
                               ELSE Append(f[i - 1], i)
  BY <1>7
<1>9. f[a] = <<>>
  BY <1>2, <1>8
<1>10. \A i, k \in a .. b : k = i + 1 =>
          f[k] = IF k \in server.hidden THEN f[i] ELSE Append(f[i], k)
  <2> TAKE i, k \in a .. b
  <2> HAVE k = i + 1
  <2>1. k # a /\ k - 1 = i
    OBVIOUS
  <2>2. f[k] = IF k \in server.hidden THEN f[k - 1] ELSE Append(f[k - 1], k)
    BY <1>8, <2>1
  <2> QED BY <2>1, <2>2
<1> DEFINE S == {i \in a .. b : f[i] \in W}
<1>11. a .. b \subseteq S
  <2>1. a \in S
    <3> HIDE DEF W
    <3> QED BY <1>2, <1>9
  <2>2. ASSUME NEW i \in a .. b - 1, i \in S PROVE i + 1 \in S
    <3>1. PICK k : k = i + 1
      OBVIOUS
    <3>2. k \in a .. b /\ i \in a .. b /\ k \in Nat
      BY <3>1
    <3>3. f[k] = (IF k \in server.hidden THEN f[i] ELSE Append(f[i], k)) /\ f[i] \in W
      <4> HIDE DEF W
      <4> QED BY <1>10, <2>2, <3>1, <3>2
    <3>4. f[k] \in W
      BY <3>2, <3>3
    <3> HIDE DEF W
    <3> QED BY <3>1, <3>2, <3>4
  <2> HIDE DEF S
  <2> QED BY <1>2, <2>1, <2>2, Counting
<1>12. f \in [a .. b -> W]
  <2>1. f = [n \in a .. b |-> f[n]]
    BY <1>7
  <2>2. \A n \in a .. b : f[n] \in W
    <3> HIDE DEF W
    <3> QED BY <1>11
  <2> HIDE DEF W
  <2> QED BY <2>1, <2>2
<1>13. ShowsUpTo(f, a, b)
  BY <1>9, <1>10 DEF ShowsUpTo, OneMore
<1> QED BY <1>1, <1>12, <1>13

\* One item more.
LEMMA ShownStep ==
    ASSUME NEW a \in Nat
    PROVE  /\ Shown(a, a) = <<>>
           /\ \A b \in Nat : a =< b =>
                 /\ Shown(a, b) \in Seq(Nat)
                 /\ Shown(a, b + 1) = IF b + 1 \in server.hidden THEN Shown(a, b)
                                      ELSE Append(Shown(a, b), b + 1)
<1>1. Shown(a, a) = <<>>
  <2>1. PICK f \in [a .. a -> Seq(Nat)] : Shown(a, a) = f[a] /\ ShowsUpTo(f, a, a)
    <3>1. a =< a
      OBVIOUS
    <3> QED BY <3>1, ShownIsRecursive
  <2> QED BY <2>1 DEF ShowsUpTo
<1>2. ASSUME NEW b \in Nat, a =< b
      PROVE  /\ Shown(a, b) \in Seq(Nat)
             /\ Shown(a, b + 1) = IF b + 1 \in server.hidden THEN Shown(a, b)
                                  ELSE Append(Shown(a, b), b + 1)
  <2> DEFINE n == b + 1
  <2>1. PICK f \in [a .. b -> Seq(Nat)] : Shown(a, b) = f[b] /\ ShowsUpTo(f, a, b)
    BY <1>2, ShownIsRecursive
  <2>2. n \in Nat /\ a =< n /\ n \in a .. n /\ b \in a .. n /\ b \in a .. b /\ a \in a .. b /\ a \in a .. n
    BY <1>2
  <2>3. PICK g \in [a .. n -> Seq(Nat)] : Shown(a, n) = g[n] /\ ShowsUpTo(g, a, n)
    <3> HIDE DEF n
    <3> QED BY <2>2, ShownIsRecursive
  <2> DEFINE S == {i \in a .. b : f[i] = g[i]}
  <2>4. a .. b \subseteq S
    <3>1. a \in S
      BY <2>1, <2>2, <2>3 DEF ShowsUpTo
    <3>2. ASSUME NEW i \in a .. b - 1, i \in S PROVE i + 1 \in S
      <4>1. PICK k : k = i + 1
        OBVIOUS
      <4>2. k \in a .. b /\ i \in a .. b /\ k \in a .. n /\ i \in a .. n
        BY <4>1
      <4>3. f[k] = OneMore(f[i], k) /\ g[k] = OneMore(g[i], k)
        <5> HIDE DEF n
        <5> QED BY <2>1, <2>3, <4>1, <4>2 DEF ShowsUpTo
      <4> HIDE DEF n
      <4> QED BY <3>2, <4>1, <4>2, <4>3
    <3>3. a \in Int /\ b \in Int
      OBVIOUS
    <3> HIDE DEF S, n
    <3> QED BY <3>1, <3>2, <3>3, Counting
  <2>5. f[b] = g[b]
    BY <2>2, <2>4
  <2>6. g[n] = OneMore(g[b], n)
    BY <2>2, <2>3 DEF ShowsUpTo
  <2>7. f[b] \in Seq(Nat)
    BY <2>2
  <2> HIDE DEF n
  <2> QED BY <2>1, <2>3, <2>5, <2>6, <2>7 DEF n, OneMore
<1> QED BY <1>1, <1>2

\* Of b - a items at most as many are shown, and all if none is hidden.
LEMMA ShownIs ==
    ASSUME NEW a \in Nat, NEW b \in Nat, a =< b
    PROVE  /\ Shown(a, b) \in Seq(Nat) /\ Shown(a, b) \in Seq(a + 1 .. b)
           /\ Len(Shown(a, b)) \in 0 .. b - a
           /\ server.hidden = {} => Len(Shown(a, b)) = b - a
<1> DEFINE Fits(n) == /\ Shown(a, n) \in Seq(Nat) /\ Len(Shown(a, n)) \in 0 .. n - a
                      /\ \A i \in DOMAIN Shown(a, n) : Shown(a, n)[i] \in a + 1 .. n
                      /\ server.hidden = {} => Len(Shown(a, n)) = n - a
           S == {n \in a .. b : Fits(n)}
<1>1. a \in S
  <2>1. Shown(a, a) = <<>> /\ Shown(a, a) \in Seq(Nat)
    BY ShownStep
  <2>2. Len(<<>>) = 0 /\ DOMAIN <<>> = {}
    OBVIOUS
  <2> QED BY <2>1, <2>2
<1>2. ASSUME NEW n \in a .. b - 1, n \in S PROVE n + 1 \in S
  <2>1. PICK k : k = n + 1
    OBVIOUS
  <2>2. k \in a .. b /\ k \in Nat /\ n \in Nat /\ a =< n
    BY <2>1
  <2>3. Shown(a, k) = IF k \in server.hidden THEN Shown(a, n) ELSE Append(Shown(a, n), k)
    BY <2>1, <2>2, ShownStep
  <2>4. Fits(n)
    BY <1>2
  <2>5. Fits(k)
    <3>1. CASE k \in server.hidden
      <4>1. Shown(a, k) = Shown(a, n) /\ server.hidden # {}
        BY <2>3, <3>1
      <4>2. \A x \in a + 1 .. n : x \in a + 1 .. k
        BY <2>1, <2>2
      <4>3. \A x \in 0 .. n - a : x \in 0 .. k - a
        BY <2>1, <2>2
      <4> QED BY <2>4, <4>1, <4>2, <4>3
    <3>2. CASE k \notin server.hidden
      <4>1. Shown(a, k) = Append(Shown(a, n), k)
        BY <2>3, <3>2
      <4> DEFINE s == Shown(a, n)
      <4>2. s \in Seq(Nat) /\ Len(s) \in 0 .. n - a /\ \A i \in 1 .. Len(s) : s[i] \in a + 1 .. n
        BY <2>4
      <4> HIDE DEF s
      <4>3. /\ Append(s, k) \in Seq(Nat) /\ Len(Append(s, k)) = Len(s) + 1
            /\ DOMAIN Append(s, k) = 1 .. Len(s) + 1
            /\ \A i \in 1 .. Len(s) : Append(s, k)[i] = s[i]
            /\ Append(s, k)[Len(s) + 1] = k
        BY <2>2, <4>2
      <4>4. \A i \in DOMAIN Append(s, k) : Append(s, k)[i] \in a + 1 .. k
        <5> TAKE i \in DOMAIN Append(s, k)
        <5>1. i \in 1 .. Len(s) \/ i = Len(s) + 1
          BY <4>2, <4>3
        <5>2. \A x \in a + 1 .. n : x \in a + 1 .. k
          BY <2>1, <2>2
        <5>3. k \in a + 1 .. k
          BY <2>1, <2>2
        <5> QED BY <4>2, <4>3, <5>1, <5>2, <5>3
      <4>5. Len(s) + 1 \in 0 .. k - a
        BY <2>1, <2>2, <4>2
      <4>6. server.hidden = {} => Len(s) + 1 = k - a
        <5>1. server.hidden = {} => Len(s) = n - a
          BY <2>4 DEF s
        <5> HIDE DEF S, Fits
        <5> QED BY <2>1, <2>2, <5>1
      <4> QED BY <4>1, <4>3, <4>4, <4>5, <4>6 DEF s
    <3> QED BY <3>1, <3>2
  <2> HIDE DEF Fits
  <2> QED BY <2>1, <2>2, <2>5
<1>3. a .. b \subseteq S
  <2> HIDE DEF S
  <2> QED BY <1>1, <1>2, Counting
<1>4. Fits(b)
  <2>1. b \in a .. b
    OBVIOUS
  <2> HIDE DEF Fits
  <2> QED BY <1>3, <2>1
<1>5. Shown(a, b) \in Seq(a + 1 .. b)
  <2>1. Shown(a, b) \in Seq(Nat) /\ \A i \in 1 .. Len(Shown(a, b)) : Shown(a, b)[i] \in a + 1 .. b
    BY <1>4
  <2>2. \A s \in Seq(Nat) : (\A i \in 1 .. Len(s) : s[i] \in a + 1 .. b) => s \in Seq(a + 1 .. b)
    OBVIOUS
  <2> QED BY <2>1, <2>2
<1> QED BY <1>4, <1>5

\* Two ranges, one after the other.
LEMMA ShownTogether ==
    ASSUME NEW a \in Nat, NEW b \in Nat, NEW c \in Nat, a =< b, b =< c
    PROVE  Shown(a, b) \o Shown(b, c) = Shown(a, c)
<1> DEFINE S == {n \in b .. c : Shown(a, b) \o Shown(b, n) = Shown(a, n)}
           s == Shown(a, b)
<1>0. s \in Seq(Nat)
  BY ShownIs
<1>1. b \in S
  <2>1. Shown(b, b) = <<>> /\ b \in b .. c
    BY ShownStep
  <2>2. s \o <<>> = s
    BY <1>0
  <2> QED BY <2>1, <2>2
<1>2. ASSUME NEW n \in b .. c - 1, n \in S PROVE n + 1 \in S
  <2>1. PICK k : k = n + 1
    OBVIOUS
  <2>2. k \in b .. c /\ k \in Nat /\ n \in Nat /\ a =< n /\ b =< n
    BY <2>1
  <2>3. /\ Shown(a, k) = IF k \in server.hidden THEN Shown(a, n) ELSE Append(Shown(a, n), k)
        /\ Shown(b, k) = IF k \in server.hidden THEN Shown(b, n) ELSE Append(Shown(b, n), k)
        /\ Shown(b, n) \in Seq(Nat)
    BY <2>1, <2>2, ShownStep
  <2>4. s \o Append(Shown(b, n), k) = Append(s \o Shown(b, n), k)
    <3>1. \A x, y \in Seq(Nat), z \in Nat : x \o Append(y, z) = Append(x \o y, z)
      OBVIOUS
    <3> HIDE DEF s
    <3> QED BY <1>0, <2>2, <2>3, <3>1
  <2>5. s \o Shown(b, n) = Shown(a, n)
    BY <1>2
  <2>6. s \o Shown(b, k) = Shown(a, k)
    <3> HIDE DEF s
    <3> QED BY <2>3, <2>4, <2>5
  <2> QED BY <2>1, <2>2, <2>6
<1>3. b .. c \subseteq S
  <2> HIDE DEF S
  <2> QED BY <1>1, <1>2, Counting
<1> QED BY <1>3

\* When nothing is hidden of b items, the first n of them are what is shown of n.
LEMMA ShownFirst ==
    ASSUME NEW b \in Nat, Len(Shown(0, b)) = b, NEW n \in 0 .. b
    PROVE  SubSeq(Shown(0, b), 1, n) = Shown(0, n) /\ Len(Shown(0, n)) = n
<1> DEFINE s == Shown(0, n)
           t == Shown(n, b)
<1>1. n \in Nat /\ 0 =< n /\ n =< b /\ 0 \in Nat /\ 0 =< b
  OBVIOUS
<1>2. s \o t = Shown(0, b)
  BY <1>1, ShownTogether
<1>3. s \in Seq(Nat) /\ t \in Seq(Nat) /\ Len(s) \in 0 .. n - 0 /\ Len(t) \in 0 .. b - n
  BY <1>1, ShownIs
<1>4. Len(s) = n
  <2>1. Len(s \o t) = Len(s) + Len(t)
    <3> HIDE DEF s, t
    <3> QED BY <1>3
  <2>2. Len(s \o t) = b
    BY <1>2
  <2> HIDE DEF s, t
  <2> QED BY <1>1, <1>3, <2>1, <2>2
<1>5. SubSeq(s \o t, 1, Len(s)) = s
  <2>1. \A x, y \in Seq(Nat) : SubSeq(x \o y, 1, Len(x)) = x
    OBVIOUS
  <2> HIDE DEF s, t
  <2> QED BY <1>3, <2>1
<1> QED BY <1>2, <1>4, <1>5

\* Where a walk of k pages of size s has come to.
Reach(k, s) == IF k * s =< server.total THEN k * s ELSE server.total

\* A page is what is shown between two ends.
LEMMA ReachIs ==
    ASSUME server.total \in Nat, NEW k \in Nat, NEW s \in Nat \ {0}
    PROVE  /\ Reach(k, s) \in 0 .. server.total /\ Reach(k, s) =< Reach(k + 1, s)
           /\ Page(k + 1, s) = Shown(Reach(k, s), Reach(k + 1, s))
           /\ Reach(0, s) = 0
<1>1. k * s \in Nat /\ (k + 1) * s = k * s + s /\ (k + 1) * s \in Nat /\ 0 * s = 0
  BY Products
<1>2. Reach(k, s) \in 0 .. server.total /\ Reach(k, s) =< Reach(k + 1, s) /\ Reach(0, s) = 0
  <2> DEFINE p == k * s
             q == (k + 1) * s
  <2>1. p \in Nat /\ q = p + s
    BY <1>1
  <2>2. Reach(k, s) = (IF p =< server.total THEN p ELSE server.total)
        /\ Reach(k + 1, s) = (IF q =< server.total THEN q ELSE server.total)
    BY DEF Reach
  <2>3. Reach(0, s) = 0
    BY <1>1 DEF Reach
  <2> HIDE DEF p, q
  <2> QED BY <2>1, <2>2, <2>3
<1>3. Min({k * s, server.total}) = Reach(k, s) /\ Min({(k + 1) * s, server.total}) = Reach(k + 1, s)
  BY <1>1, MinOfTwo DEF Reach
<1>4. k + 1 - 1 = k
  OBVIOUS
<1> QED BY <1>2, <1>3, <1>4 DEF Page

-----------------------------------------------------------------------------
(* Paging: what is true all along.                                         *)

WalkType == [items : Seq(Nat), started : BOOLEAN, nextPage : Nat \ {0}, aligned : BOOLEAN,
             lastFull : BOOLEAN]
FetchType == [pc : {"idle", "reading", "done", "failed"}, requested : Nat, limit : Nat,
              stop : BOOLEAN, start : Nat, size : Nat, walk : WalkType, slowAt : Nat,
              retries : Nat, reason : {"", "unknown_total", "page_limit_clamp"}]

\* A server that hides entries says how many it has.
ServerFits ==
    /\ server.total \in Totals /\ server.known \in BOOLEAN
    /\ server.known \/ server.hidden = {}

\* What the table of sizes keeps.
TableFits ==
    /\ table \in [sticky : PageSizes \cup {None}, fast : PageSizes \cup {None}, live : BOOLEAN]
    /\ slowest \in PageSizes \cup {None}
    /\ StickyIsBelowSlowest

\* How many items the pages read so far stand for, shown or not.
Offset(c) == (c.walk.nextPage - 1) * c.size

\* The walk holds what is shown up to there.
WalkFits(c) ==
    /\ ~c.walk.started => c.walk = NoWalk
    /\ c.walk.started =>
          /\ c.walk.items = Shown(0, Reach(c.walk.nextPage - 1, c.size))
          /\ c.walk.aligned => Len(c.walk.items) = Offset(c) /\ c.walk.lastFull
          /\ ~server.known => (c.walk.lastFull <=> Offset(c) =< server.total)

\* What the caller asked for, and that a fetch only comes down.
CallFits(c) ==
    /\ c.requested \in RequestedSizes /\ c.limit \in PageLimits
    /\ c.start \in PageSizes /\ c.size \in PageSizes /\ c.size =< c.start /\ c.start =< c.requested
    /\ c.slowAt \in PageSizes \cup {None} /\ c.retries =< MinPageSizeSlowRetries
    /\ c.reason = IF c.pc = "done" THEN Reason(c) ELSE ""
    /\ c.pc = "done" => ~MustRead(c)

\* A fetch under way.
FetchFits(c) == c.pc # "idle" => CallFits(c) /\ WalkFits(c)

\* The inductive invariant.
PagingIInv ==
    /\ ServerFits /\ TableFits
    /\ fetch \in [Fetches -> FetchType]
    /\ \A f \in Fetches : fetch[f].pc = "idle" => fetch[f] = Idle
    /\ \A f \in Fetches : FetchFits(fetch[f])

-----------------------------------------------------------------------------
LEMMA IdleTyped == NoWalk \in WalkType /\ Idle \in FetchType
<1>1. NoWalk \in WalkType
  <2>1. <<>> \in Seq(Nat)
    OBVIOUS
  <2> QED BY <2>1 DEF NoWalk, WalkType
<1> QED BY <1>1 DEF Idle, FetchType, None

LEMMA PagingInit == Init => PagingIInv
<1> SUFFICES ASSUME Init PROVE PagingIInv
  OBVIOUS
<1>1. ServerFits
  BY DEF Init, ServerFits
<1>2. TableFits
  BY DEF Init, TableFits, StickyIsBelowSlowest, None
<1>3. fetch \in [Fetches -> FetchType] /\ \A f \in Fetches : fetch[f] = Idle
  BY IdleTyped DEF Init
<1>4. Idle.pc = "idle"
  BY DEF Idle
<1> QED BY <1>1, <1>2, <1>3, <1>4 DEF PagingIInv, FetchFits

\* The sizes of a fetch are page sizes.
LEMMA SizeTypes ==
    ASSUME NEW c \in FetchType, CallFits(c)
    PROVE  /\ c.size \in Nat \ {0} /\ c.start \in Nat \ {0} /\ c.requested \in Nat \ {0}
           /\ c.limit \in Nat /\ c.size =< c.requested
<1>1. c.size \in Nat \ {0} /\ c.start \in Nat \ {0} /\ c.requested \in Nat \ {0} /\ c.limit \in Nat
  BY PagingConstants DEF CallFits
<1>2. c.size =< c.start /\ c.start =< c.requested
  BY DEF CallFits
<1>3. \A x, y, z \in Nat : x =< y /\ y =< z => x =< z
  OBVIOUS
<1>4. c.size =< c.requested
  BY <1>1, <1>2, <1>3
<1> QED BY <1>1, <1>4

\* A good page.
LEMMA ReadFits ==
    ASSUME ServerFits, NEW c \in FetchType, CallFits(c), WalkFits(c), c.pc = "reading", MustRead(c)
    PROVE  LET d == [c EXCEPT !.walk = Add(c.walk, Page(c.walk.nextPage, c.size), c.size)]
           IN  d \in FetchType /\ CallFits(d) /\ WalkFits(d)
<1> DEFINE page == Page(c.walk.nextPage, c.size)
           w == Add(c.walk, page, c.size)
           d == [c EXCEPT !.walk = w]
           k == c.walk.nextPage - 1
           s == c.size
<1>1. /\ c.walk \in WalkType /\ c.walk.items \in Seq(Nat) /\ c.walk.nextPage \in Nat \ {0}
      /\ c.walk.started \in BOOLEAN /\ c.walk.aligned \in BOOLEAN /\ c.walk.lastFull \in BOOLEAN
  BY DEF FetchType, WalkType
<1>2. k \in Nat /\ s \in Nat \ {0} /\ c.walk.nextPage = k + 1 /\ server.total \in Nat
  <2>1. server.total \in Nat
    BY PagingConstants DEF ServerFits
  <2>2. c.size \in Nat \ {0}
    BY SizeTypes
  <2> QED BY <1>1, <2>1, <2>2
<1> HIDE DEF k, s
<1>3. /\ page = Shown(Reach(k, s), Reach(k + 1, s)) /\ Reach(k, s) \in 0 .. server.total
      /\ Reach(k, s) =< Reach(k + 1, s)
      /\ Reach(k + 1, s) \in 0 .. server.total /\ Reach(0, s) = 0
  <2>1. k + 1 \in Nat
    BY <1>2
  <2> QED BY <1>2, <2>1, ReachIs DEF s
<1>4. page \in Seq(Nat) /\ Len(page) \in 0 .. Reach(k + 1, s) - Reach(k, s)
      /\ (server.hidden = {} => Len(page) = Reach(k + 1, s) - Reach(k, s))
  <2>1. \A x \in 0 .. server.total : x \in Nat
    BY <1>2
  <2>2. Reach(k, s) \in Nat /\ Reach(k + 1, s) \in Nat
    BY <1>3, <2>1
  <2> QED BY <1>3, <2>2, ShownIs
<1>5. c.walk.items = Shown(0, Reach(k, s)) /\ (~c.walk.started => k = 0 /\ c.walk.aligned)
  <2>1. CASE c.walk.started
    BY <2>1 DEF WalkFits, k, s
  <2>2. CASE ~c.walk.started
    <3>1. c.walk = NoWalk
      BY <2>2 DEF WalkFits
    <3>2. c.walk.items = <<>> /\ c.walk.nextPage = 1 /\ c.walk.aligned
      BY <3>1 DEF NoWalk
    <3>3. k = 0
      BY <3>2 DEF k
    <3> QED BY <1>3, <3>2, <3>3, ShownStep
  <2> QED BY <2>1, <2>2
<1>6. /\ w.items = c.walk.items \o page /\ w.started /\ w.nextPage = k + 1 + 1
      /\ w.lastFull = (Len(page) = s) /\ w.aligned = (c.walk.aligned /\ Len(page) = s)
      /\ w \in WalkType
  <2>1. c.walk.items \o page \in Seq(Nat)
    <3>1. \A x, y \in Seq(Nat) : x \o y \in Seq(Nat)
      OBVIOUS
    <3> HIDE DEF page
    <3> QED BY <1>1, <1>4, <3>1
  <2> HIDE DEF page
  <2>2. /\ w.items = c.walk.items \o page /\ w.started = TRUE /\ w.nextPage = c.walk.nextPage + 1
        /\ w.lastFull = (Len(page) = s) /\ w.aligned = (c.walk.aligned /\ Len(page) = s)
    BY DEF Add, s
  <2>3. w \in WalkType
    BY <1>1, <1>2, <2>1 DEF Add, WalkType
  <2> QED BY <1>2, <2>2, <2>3
<1> HIDE DEF w, page
<1>7. /\ d \in FetchType /\ d.walk = w /\ d.size = s /\ d.pc = "reading"
      /\ d.requested = c.requested /\ d.limit = c.limit /\ d.start = c.start
      /\ d.slowAt = c.slowAt /\ d.retries = c.retries /\ d.reason = c.reason
  <2>1. c \in FetchType
    OBVIOUS
  <2> QED BY <1>6 DEF FetchType, s
<1> HIDE DEF d
<1>8. CallFits(d)
  BY <1>7 DEF CallFits, s
<1>9. w.nextPage - 1 = k + 1 /\ w.items = Shown(0, Reach(k + 1, s))
  <2>1. Reach(k, s) \in Nat /\ Reach(k + 1, s) \in Nat /\ 0 =< Reach(k, s)
    BY <1>2, <1>3
  <2>2. Shown(0, Reach(k, s)) \o Shown(Reach(k, s), Reach(k + 1, s)) = Shown(0, Reach(k + 1, s))
    BY <1>3, <2>1, ShownTogether
  <2>3. w.items = Shown(0, Reach(k, s)) \o Shown(Reach(k, s), Reach(k + 1, s))
    BY <1>3, <1>5, <1>6, Zenon
  <2>4. w.nextPage - 1 = k + 1
    BY <1>2, <1>6
  <2> QED BY <2>2, <2>3, <2>4, Zenon
<1>10. (k + 1) * s = k * s + s /\ k * s \in Nat /\ (k + 1) * s \in Nat
  BY <1>2, Products
<1>11. w.aligned => Len(w.items) = (k + 1) * s /\ w.lastFull
  <2> SUFFICES ASSUME w.aligned PROVE Len(w.items) = (k + 1) * s /\ w.lastFull
    OBVIOUS
  <2>1. c.walk.aligned /\ Len(page) = s /\ w.lastFull
    BY <1>6
  <2>2. Len(c.walk.items) = k * s
    <3>1. CASE c.walk.started
      BY <2>1, <3>1 DEF WalkFits, Offset, k, s
    <3>2. CASE ~c.walk.started
      <4>1. c.walk.items = <<>>
        BY <3>2 DEF WalkFits, NoWalk
      <4>2. k * s = 0
        BY <1>2, <1>5, <3>2
      <4> QED BY <4>1, <4>2
    <3> QED BY <3>1, <3>2
  <2>3. Len(c.walk.items \o page) = Len(c.walk.items) + Len(page)
    BY <1>1, <1>4
  <2> QED BY <1>6, <1>10, <2>1, <2>2, <2>3
<1>12. ~server.known => (w.lastFull <=> (k + 1) * s =< server.total)
  <2> SUFFICES ASSUME ~server.known PROVE Len(page) = s <=> (k + 1) * s =< server.total
    BY <1>6
  <2>1. server.hidden = {}
    BY DEF ServerFits
  <2>2. Len(page) = Reach(k + 1, s) - Reach(k, s)
    BY <1>4, <2>1
  <2> DEFINE p == k * s
             q == (k + 1) * s
  <2>3. p \in Nat /\ q = p + s /\ Reach(k, s) = (IF p =< server.total THEN p ELSE server.total)
        /\ Reach(k + 1, s) = (IF q =< server.total THEN q ELSE server.total)
    BY <1>10 DEF Reach
  <2> HIDE DEF p, q
  <2>4. Len(page) = s <=> q =< server.total
    BY <1>2, <2>2, <2>3
  <2> QED BY <2>4 DEF q
<1>13. WalkFits(d)
  BY <1>6, <1>7, <1>9, <1>11, <1>12 DEF WalkFits, Offset
<1> QED BY <1>7, <1>8, <1>13 DEF d, w, page

\* A step down: what was read whole is kept, the walk goes on from there.
LEMMA StepDown ==
    ASSUME ServerFits, NEW c \in FetchType, WalkFits(c), c.size \in Nat \ {0},
           NEW size \in Nat \ {0}
    PROVE  LET d == [c EXCEPT !.size = size, !.walk = Resize(c.walk, size)]
           IN  d \in FetchType /\ WalkFits(d)
<1> DEFINE n == Len(c.walk.items) \div size
           keep == n * size
           w == Resize(c.walk, size)
           d == [c EXCEPT !.size = size, !.walk = w]
           k == c.walk.nextPage - 1
<1>1. /\ c.walk \in WalkType /\ c.walk.items \in Seq(Nat) /\ c.walk.nextPage \in Nat \ {0}
      /\ c.walk.started \in BOOLEAN /\ c.walk.aligned \in BOOLEAN /\ c.walk.lastFull \in BOOLEAN
      /\ server.total \in Nat
  BY PagingConstants DEF FetchType, WalkType, ServerFits
<1>2. Len(c.walk.items) \in Nat
  BY <1>1
<1>3. n \in Nat /\ keep \in Nat /\ keep =< Len(c.walk.items)
  <2>1. n \in Nat /\ n * size =< Len(c.walk.items)
    BY <1>2, DivFacts
  <2> HIDE DEF n
  <2>2. n * size \in Nat
    BY <2>1, Products
  <2> QED BY <2>1, <2>2
<1>4. ASSUME w \in WalkType
      PROVE  d \in FetchType /\ d.walk = w /\ d.size = size
  BY <1>4 DEF FetchType
<1>5. CASE ~c.walk.started \/ ~c.walk.aligned \/ keep = 0
  <2>1. w = NoWalk
    BY <1>5 DEF Resize
  <2>2. d \in FetchType /\ d.walk = NoWalk
    BY <1>4, <2>1, IdleTyped
  <2>3. ~NoWalk.started
    BY DEF NoWalk
  <2> QED BY <2>2, <2>3 DEF WalkFits
<1>6. CASE c.walk.started /\ c.walk.aligned /\ keep # 0
  <2> DEFINE items == SubSeq(c.walk.items, 1, keep)
  <2>1. keep \div size = n
    <3> HIDE DEF n
    <3> DEFINE m == keep \div size
    <3>1. m \in Nat /\ m * size =< n * size /\ n * size < m * size + size
      BY <1>3, DivFacts
    <3> HIDE DEF m
    <3>2. m =< n /\ n =< m
      BY <1>3, <3>1, Products
    <3>3. m = n
      BY <1>3, <3>1, <3>2
    <3> QED BY <3>3 DEF m
  <2>2. w = [c.walk EXCEPT !.items = items, !.nextPage = n + 1]
    BY <1>6, <2>1 DEF Resize
  <2>3. items \in Seq(Nat)
    <3>1. \A x \in Seq(Nat), y \in Nat : y =< Len(x) => SubSeq(x, 1, y) \in Seq(Nat)
      OBVIOUS
    <3> HIDE DEF keep
    <3> QED BY <1>1, <1>3, <3>1
  <2>4. n + 1 \in Nat \ {0} /\ n + 1 - 1 = n
    <3> HIDE DEF n
    <3> QED BY <1>3
  <2> HIDE DEF items, n
  <2>5. /\ w \in WalkType /\ w.items = items /\ w.nextPage = n + 1 /\ w.started
        /\ w.aligned /\ w.lastFull = c.walk.lastFull
    BY <1>1, <1>6, <2>2, <2>3, <2>4 DEF WalkType
  <2>6. d \in FetchType /\ d.walk = w /\ d.size = size
    BY <1>4, <2>5
  <2>7. /\ c.walk.items = Shown(0, Reach(k, c.size)) /\ Len(c.walk.items) = k * c.size
        /\ c.walk.lastFull
    BY <1>6 DEF WalkFits, Offset
  <2>8. k \in Nat /\ Reach(k, c.size) \in 0 .. server.total /\ k * c.size \in Nat
    <3>1. k \in Nat
      BY <1>1
    <3> HIDE DEF k
    <3> QED BY <1>1, <3>1, ReachIs, Products
  <2> DEFINE b == Reach(k, c.size)
  <2>9. b \in Nat /\ b =< server.total /\ Len(Shown(0, b)) \in 0 .. b - 0
    <3>1. b \in Nat /\ b =< server.total /\ 0 =< b
      BY <1>1, <2>8
    <3> HIDE DEF b
    <3> QED BY <3>1, ShownIs
  <2>10. Len(Shown(0, b)) = b
    <3> DEFINE p == k * c.size
    <3>1. Reach(k, c.size) = IF p =< server.total THEN p ELSE server.total
      BY DEF Reach
    <3>2. Len(Shown(0, b)) = p
      BY <2>7
    <3> HIDE DEF p
    <3> QED BY <1>1, <2>8, <2>9, <3>1, <3>2 DEF p
  <2>11. keep \in 0 .. b /\ keep \in Nat /\ keep =< server.total
    BY <1>1, <1>3, <2>7, <2>9, <2>10
  <2>12. items = Shown(0, keep) /\ Len(items) = keep
    <3> HIDE DEF b, keep, k
    <3>1. SubSeq(Shown(0, b), 1, keep) = Shown(0, keep) /\ Len(Shown(0, keep)) = keep
      BY <2>9, <2>10, <2>11, ShownFirst
    <3> QED BY <2>7, <3>1 DEF items, b
  <2>13. Reach(n, size) = keep
    BY <2>11 DEF Reach
  <2>14. d.walk.nextPage - 1 = n /\ Offset(d) = keep
    <3> HIDE DEF d, w
    <3>1. d.walk.nextPage = n + 1
      BY <2>5, <2>6
    <3>2. d.walk.nextPage - 1 = n
      BY <1>3, <3>1
    <3> QED BY <2>6, <3>2 DEF Offset
  <2>15. WalkFits(d)
    <3> HIDE DEF d, w, keep
    <3> QED BY <2>5, <2>6, <2>7, <2>11, <2>12, <2>13, <2>14 DEF WalkFits
  <2> QED BY <2>6, <2>15
<1> QED BY <1>5, <1>6 DEF d, w

\* What a walk holds when no request is left.
LEMMA WalkWhole ==
    ASSUME ServerFits, NEW c \in FetchType, CallFits(c), WalkFits(c), ~MustRead(c)
    PROVE  /\ c.walk.started
           /\ \E n \in 0 .. server.total : c.walk.items = Visible(n)
           /\ Reason(c) = "" => c.walk.items = Visible(server.total)
<1> DEFINE k == c.walk.nextPage - 1
           s == c.size
<1>1. c.walk.nextPage \in Nat \ {0} /\ server.total \in Nat /\ server.known \in BOOLEAN
  BY PagingConstants DEF FetchType, WalkType, ServerFits
<1>2. k \in Nat /\ s \in Nat \ {0} /\ c.walk.nextPage = k + 1
  BY <1>1, SizeTypes
<1>3. c.walk.started /\ c.walk.items = Shown(0, Reach(k, s))
  BY DEF MustRead, WalkFits
<1>4. Reach(k, s) \in 0 .. server.total
  <2> HIDE DEF k, s
  <2> QED BY <1>1, <1>2, ReachIs
<1>5. ASSUME Reason(c) = "" PROVE Reach(k, s) = server.total
  <2>1. ~(~server.known /\ c.walk.lastFull) /\ ~Clamped(c)
    BY <1>5 DEF Reason
  <2>2. CASE ~server.known
    <3>1. ~(Offset(c) =< server.total)
      BY <1>3, <2>1, <2>2 DEF WalkFits
    <3>2. ~(k * s =< server.total)
      BY <3>1 DEF Offset
    <3> QED BY <3>2 DEF Reach
  <2>3. CASE server.known
    <3>1. ~Cut(c) /\ ~(c.walk.nextPage =< Pages(c))
      BY <1>3, <2>1, <2>3 DEF MustRead, Clamped
    <3>2. Pages(c) = CeilDiv(server.total, s)
      BY <2>3, <3>1 DEF Pages, AllPages
    <3> DEFINE m == CeilDiv(server.total, s)
    <3>3. m \in Nat /\ server.total =< m * s
      <4> HIDE DEF s
      <4> QED BY <1>1, <1>2, CeilFacts
    <3>4. m =< k
      <4> HIDE DEF m, k
      <4> QED BY <1>2, <3>1, <3>2, <3>3 DEF m
    <3>5. server.total =< k * s /\ k * s \in Nat
      <4> HIDE DEF m, k, s
      <4>1. m * s =< k * s /\ k * s \in Nat /\ m * s \in Nat
        BY <1>2, <3>3, <3>4, Products
      <4> QED BY <1>1, <3>3, <4>1
    <3> HIDE DEF k, s
    <3> QED BY <1>1, <3>5 DEF Reach
  <2> QED BY <2>2, <2>3
<1> QED BY <1>3, <1>4, <1>5 DEF Visible

\* The cap of a fetch at any smaller size.
Cap(c) == PageLimitAt(c.limit, c.requested, c.size)

\* Within the ceiling, the pages read hold what is promised and fit the window.
LEMMA CapIs ==
    ASSUME NEW c \in FetchType, CallFits(c), c.limit # 0
    PROVE  /\ Cap(c) \in Nat /\ Promised(c) \in Nat /\ Promised(c) =< Cap(c) * c.size
           /\ Ceiling(c) =< ResultWindowLimit =>
                 Cap(c) # 0 /\ Cap(c) * c.size =< ResultWindowLimit
<1> DEFINE s == c.size
           r == c.requested
           e == c.limit * c.requested
           n == CeilDiv(e, s)
           q == ResultWindowLimit \div s
           W == ResultWindowLimit
<1>1. s \in Nat \ {0} /\ r \in Nat \ {0} /\ c.limit \in Nat \ {0} /\ s =< r /\ W \in Nat
  BY SizeTypes, PagingConstants
<1>2. e \in Nat /\ r =< e
  <2>1. c.limit * r \in Nat /\ r =< c.limit * r
    <3> HIDE DEF r
    <3> QED BY <1>1, Products
  <2> QED BY <2>1
<1>3. Cap(c) = IF s >= r THEN c.limit ELSE IF e =< W /\ n * s > W THEN q ELSE n
  BY <1>1 DEF Cap, PageLimitAt
<1> HIDE DEF e, s, r, W
<1>4. n \in Nat /\ e =< n * s /\ n * s \in Nat /\ (e # 0 => n # 0)
  <2>1. n \in Nat /\ e =< n * s /\ (e # 0 => n # 0)
    BY <1>1, <1>2, CeilFacts
  <2> HIDE DEF n
  <2> QED BY <1>1, <2>1, Products
<1>5. q \in Nat /\ q * s \in Nat /\ q * s =< W /\ W < q * s + s
  <2>1. q \in Nat /\ q * s =< W /\ W < q * s + s
    BY <1>1, DivFacts DEF W
  <2> HIDE DEF q
  <2> QED BY <1>1, <2>1, Products
<1> DEFINE p == q * s
<1>6. Promised(c) = IF e =< W THEN IF e =< p THEN e ELSE p ELSE e
  <2>1. Promised(c) = IF e =< W THEN Min({e, p}) ELSE e
    BY DEF Promised, Ceiling, WholePages, e, s, W
  <2>2. p \in Int /\ e \in Int
    BY <1>2, <1>5
  <2> HIDE DEF p
  <2>3. Min({e, p}) = IF e =< p THEN e ELSE p
    BY <2>2, MinOfTwo
  <2> QED BY <2>1, <2>3
<1> HIDE DEF n, q
<1>7. CASE s >= r
  <2>1. s = r /\ Cap(c) = c.limit
    BY <1>1, <1>3, <1>7
  <2>2. Cap(c) * s = e
    BY <2>1 DEF e, r
  <2>3. Promised(c) \in Nat /\ Promised(c) =< e
    <3> HIDE DEF p
    <3> QED BY <1>2, <1>5, <1>6 DEF p
  <2> QED BY <1>1, <1>2, <2>1, <2>2, <2>3 DEF s, e, Ceiling, W
<1>8. CASE ~(s >= r) /\ e =< W /\ n * s > W
  <2>1. Cap(c) = q /\ Cap(c) * s = p
    BY <1>3, <1>8
  <2>2. Promised(c) \in Nat /\ Promised(c) =< p
    <3> HIDE DEF p
    <3> QED BY <1>2, <1>5, <1>6, <1>8 DEF p
  <2>3. q # 0
    <3>1. q = 0 => q * s = 0
      BY <1>1
    <3>2. s =< W
      BY <1>1, <1>2, <1>8
    <3>3. q = 0 => W < s
      BY <1>1, <1>5, <3>1
    <3> QED BY <1>1, <3>2, <3>3
  <2> QED BY <1>5, <2>1, <2>2, <2>3 DEF s, W
<1>9. CASE ~(s >= r) /\ ~(e =< W /\ n * s > W)
  <2>1. Cap(c) = n
    BY <1>3, <1>9
  <2> DEFINE t == n * s
  <2>2. Promised(c) \in Nat /\ Promised(c) =< e /\ e =< t /\ t \in Nat
    <3> HIDE DEF p
    <3> QED BY <1>2, <1>4, <1>5, <1>6 DEF p
  <2>3. e =< W => n # 0 /\ t =< W
    <3>1. e # 0
      BY <1>1, <1>2
    <3> HIDE DEF t
    <3>2. e =< W => ~(t > W)
      BY <1>9 DEF t
    <3> QED BY <1>1, <1>4, <2>2, <3>1, <3>2
  <2>4. Promised(c) =< t
    <3> HIDE DEF t
    <3> QED BY <1>2, <2>2
  <2> QED BY <1>4, <2>1, <2>2, <2>3, <2>4 DEF s, e, Ceiling, W
<1> QED BY <1>7, <1>8, <1>9

\* More of the items, more is shown.
LEMMA ShownGrows ==
    ASSUME NEW a \in Nat, NEW b \in Nat, a =< b
    PROVE  ToSet(Shown(0, a)) \subseteq ToSet(Shown(0, b))
<1> DEFINE s == Shown(0, a)
           t == Shown(a, b)
<1>1. s \in Seq(Nat) /\ t \in Seq(Nat) /\ s \o t = Shown(0, b)
  <2>1. 0 \in Nat /\ 0 =< a /\ 0 =< b
    OBVIOUS
  <2> QED BY <2>1, ShownIs, ShownTogether
<1>2. \A x, y \in Seq(Nat) : \A i \in DOMAIN x : i \in DOMAIN (x \o y) /\ (x \o y)[i] = x[i]
  OBVIOUS
<1> HIDE DEF s, t
<1>3. ToSet(s) \subseteq ToSet(s \o t)
  <2> SUFFICES ASSUME NEW x \in ToSet(s) PROVE x \in ToSet(s \o t)
    OBVIOUS
  <2>1. PICK i \in DOMAIN s : x = s[i]
    BY DEF ToSet
  <2>2. i \in DOMAIN (s \o t) /\ (s \o t)[i] = x
    BY <1>1, <1>2, <2>1
  <2> QED BY <2>2 DEF ToSet
<1> QED BY <1>1, <1>3 DEF s

\* A sequence of a set is one of any larger set.
LEMMA WiderSeq ==
    ASSUME NEW A, NEW B, A \subseteq B, NEW x \in Seq(A)
    PROVE  x \in Seq(B)
<1>1. x = [i \in 1 .. Len(x) |-> x[i]] /\ Len(x) \in Nat /\ \A i \in 1 .. Len(x) : x[i] \in A
  OBVIOUS
<1>2. \A i \in 1 .. Len(x) : x[i] \in B
  BY <1>1
<1> QED BY <1>1, <1>2

\* A fetch that ended without a reason holds everything up to the ceiling.
LEMMA CeilingHolds == PagingIInv => CeilingKept
<1> SUFFICES ASSUME PagingIInv PROVE CeilingKept
  OBVIOUS
<1>1. ServerFits /\ fetch \in [Fetches -> FetchType]
      /\ \A f \in Fetches : fetch[f].pc # "idle" => CallFits(fetch[f]) /\ WalkFits(fetch[f])
  BY DEF PagingIInv, FetchFits
<1>2. ASSUME NEW c \in FetchType, CallFits(c), WalkFits(c),
             c.pc = "done", c.reason = "page_limit_clamp", ~c.stop
      PROVE  ToSet(Visible(Min({Promised(c), server.total}))) \subseteq ToSet(c.walk.items)
  <2> DEFINE k == c.walk.nextPage - 1
             s == c.size
             p == Promised(c)
             m == Min({p, server.total})
  <2>1. Clamped(c) /\ ~MustRead(c)
    BY <1>2 DEF CallFits, Reason
  <2>2. c.limit # 0 /\ Cut(c) /\ server.known /\ Pages(c) = Cap(c)
    <3>1. Cut(c) /\ server.known
      BY <2>1 DEF Clamped
    <3>2. Cap(c) > 0
      BY <3>1 DEF Cut, Cap
    <3>3. c.limit = 0 => Cap(c) = 0
      BY DEF Cap, PageLimitAt
    <3> QED BY <3>1, <3>2, <3>3 DEF Pages, Cap
  <2>3. c.walk.started /\ ~(c.walk.nextPage =< Cap(c))
    BY <1>2, <2>1, <2>2 DEF MustRead
  <2>4. Cap(c) \in Nat /\ p \in Nat /\ p =< Cap(c) * s
    BY <1>2, <2>2, CapIs
  <2>5. c.walk.nextPage \in Nat \ {0} /\ server.total \in Nat /\ s \in Nat \ {0}
    BY <1>1, <1>2, SizeTypes, PagingConstants DEF FetchType, WalkType, ServerFits
  <2>6. k \in Nat /\ Cap(c) =< k
    BY <2>3, <2>4, <2>5
  <2>7. c.walk.items = Shown(0, Reach(k, s))
    BY <1>2, <2>3 DEF WalkFits
  <2> HIDE DEF k, s, p
  <2>8. Reach(k, s) \in 0 .. server.total
    BY <2>5, <2>6, ReachIs
  <2>9. m = IF p =< server.total THEN p ELSE server.total
    <3>1. p \in Int /\ server.total \in Int
      BY <2>4, <2>5
    <3> QED BY <3>1, MinOfTwo
  <2>10. Cap(c) * s =< k * s /\ k * s \in Nat /\ Cap(c) * s \in Nat
    BY <2>4, <2>5, <2>6, Products
  <2> HIDE DEF m
  <2>11. m \in Nat /\ m =< Reach(k, s) /\ Reach(k, s) \in Nat
    <3> DEFINE x == Cap(c) * s
               y == k * s
    <3>1. Reach(k, s) = IF y =< server.total THEN y ELSE server.total
      BY DEF Reach
    <3>2. p =< x /\ x =< y /\ x \in Nat /\ y \in Nat
      BY <2>4, <2>10
    <3> HIDE DEF x, y
    <3> QED BY <2>4, <2>5, <2>8, <2>9, <3>1, <3>2
  <2>12. ToSet(Shown(0, m)) \subseteq ToSet(Shown(0, Reach(k, s)))
    BY <2>11, ShownGrows
  <2> QED BY <2>7, <2>12 DEF m, p, Visible
<1>3. ASSUME NEW c \in FetchType, CallFits(c), c.walk.started, MustRead(c), c.limit > 0,
             Ceiling(c) =< ResultWindowLimit
      PROVE  c.walk.nextPage * c.size =< ResultWindowLimit
  <2>1. c.limit # 0
    BY <1>3
  <2>2. Cap(c) \in Nat /\ Cap(c) # 0 /\ Cap(c) * c.size =< ResultWindowLimit
    BY <1>3, <2>1, CapIs
  <2>3. c.walk.nextPage \in Nat \ {0} /\ c.size \in Nat \ {0} /\ ResultWindowLimit \in Nat
    BY <1>3, SizeTypes, PagingConstants DEF FetchType, WalkType
  <2>4. c.walk.nextPage =< Pages(c)
    BY <1>3 DEF MustRead
  <2>5. AllPages(c) \in Nat
    <3>1. server.total \in Nat /\ c.requested \in Nat
      BY <1>1, <1>3, SizeTypes, PagingConstants DEF ServerFits
    <3>2. CeilDiv(server.total, c.size) \in Nat /\ CeilDiv(c.requested, c.size) \in Nat
      BY <2>3, <3>1, CeilFacts
    <3> QED BY <3>2 DEF AllPages
  <2>6. Pages(c) \in Nat /\ Pages(c) =< Cap(c)
    <3>1. Cap(c) > 0
      BY <2>2
    <3>2. CASE Cut(c)
      BY <2>2, <3>2 DEF Pages, Cap
    <3>3. CASE ~Cut(c)
      <4>1. ~(AllPages(c) > Cap(c))
        BY <3>1, <3>3 DEF Cut, Cap
      <4>2. Pages(c) = AllPages(c)
        BY <3>3 DEF Pages
      <4> QED BY <2>2, <2>5, <4>1, <4>2
    <3> QED BY <3>2, <3>3
  <2>7. c.walk.nextPage =< Cap(c)
    BY <2>2, <2>3, <2>4, <2>6
  <2> DEFINE x == c.walk.nextPage * c.size
             y == Cap(c) * c.size
  <2>8. x \in Nat /\ y \in Nat /\ x =< y
    <3>1. c.walk.nextPage \in Nat
      BY <2>3
    <3> QED BY <2>2, <2>3, <2>7, <3>1, Products
  <2>9. y =< ResultWindowLimit
    BY <2>2
  <2> HIDE DEF x, y
  <2>10. x =< ResultWindowLimit
    BY <2>3, <2>8, <2>9
  <2> QED BY <2>10 DEF x
<1>4. ASSUME NEW f \in Fetches
      PROVE  /\ fetch[f].pc = "done" /\ fetch[f].reason = "page_limit_clamp" /\ ~fetch[f].stop =>
                  ToSet(Visible(Min({Promised(fetch[f]), server.total})))
                     \subseteq ToSet(fetch[f].walk.items)
             /\ fetch[f].pc = "reading" /\ fetch[f].walk.started /\ MustRead(fetch[f])
                  /\ fetch[f].limit > 0 /\ Ceiling(fetch[f]) =< ResultWindowLimit =>
                  fetch[f].walk.nextPage * fetch[f].size =< ResultWindowLimit
  <2>1. PICK c : c = fetch[f]
    OBVIOUS
  <2>2. c \in FetchType /\ (c.pc # "idle" => CallFits(c) /\ WalkFits(c))
    BY <1>1, <2>1
  <2>3. c.pc = "done" /\ c.reason = "page_limit_clamp" /\ ~c.stop =>
           ToSet(Visible(Min({Promised(c), server.total}))) \subseteq ToSet(c.walk.items)
    BY <1>2, <2>2
  <2>4. c.pc = "reading" /\ c.walk.started /\ MustRead(c) /\ c.limit > 0
             /\ Ceiling(c) =< ResultWindowLimit =>
             c.walk.nextPage * c.size =< ResultWindowLimit
    BY <1>3, <2>2
  <2> QED BY <2>1, <2>3, <2>4
<1> QED BY <1>4 DEF CeilingKept

-----------------------------------------------------------------------------
\* The invariant says all that PagingInv claims.
LEMMA PagingHolds == PagingIInv => PagingInv
<1> SUFFICES ASSUME PagingIInv PROVE PagingInv
  OBVIOUS
<1>1. ServerFits /\ TableFits /\ fetch \in [Fetches -> FetchType]
      /\ (\A f \in Fetches : fetch[f].pc = "idle" => fetch[f] = Idle)
      /\ \A f \in Fetches : fetch[f].pc # "idle" => CallFits(fetch[f]) /\ WalkFits(fetch[f])
  BY DEF PagingIInv, FetchFits
<1>2. PageSizes \cup {None} \in SUBSET Nat
  BY PagingConstants DEF None
<1>3. table \in [sticky : Nat, fast : Nat, live : BOOLEAN] /\ slowest \in Nat
  <2>1. /\ table = [sticky |-> table.sticky, fast |-> table.fast, live |-> table.live]
        /\ table.sticky \in Nat /\ table.fast \in Nat /\ table.live \in BOOLEAN
        /\ slowest \in Nat
    BY <1>1, <1>2 DEF TableFits
  <2> QED BY <2>1
<1>4. ASSUME NEW f \in Fetches
      PROVE  /\ fetch[f].pc \in {"idle", "reading", "done", "failed"}
             /\ fetch[f].pc # "idle" => fetch[f].size \in PageSizes
             /\ fetch[f].walk.items \in Seq(1 .. server.total)
             /\ fetch[f].reason \in {"", "unknown_total", "page_limit_clamp"}
             /\ fetch[f].pc = "done" =>
                  /\ \E n \in 0 .. server.total : fetch[f].walk.items = Visible(n)
                  /\ fetch[f].reason = "" => fetch[f].walk.items = Visible(server.total)
  <2>1. PICK c : c = fetch[f]
    OBVIOUS
  <2>2. c \in FetchType /\ (c.pc # "idle" => CallFits(c) /\ WalkFits(c)) /\ (c.pc = "idle" => c = Idle)
    BY <1>1, <2>1
  <2>3. c.pc \in {"idle", "reading", "done", "failed"}
        /\ c.reason \in {"", "unknown_total", "page_limit_clamp"}
        /\ c.walk.nextPage \in Nat \ {0}
    BY <2>2 DEF FetchType, WalkType
  <2>4. c.pc # "idle" => c.size \in PageSizes
    BY <2>2 DEF CallFits
  <2>5. ~c.walk.started \/ c.pc = "idle" => c.walk.items = <<>>
    <3>1. c.pc = "idle" => c.walk = NoWalk
      <4>1. Idle.walk = NoWalk
        BY DEF Idle
      <4> QED BY <2>2, <4>1
    <3>2. ~c.walk.started => c.walk = NoWalk
      BY <2>2, <3>1 DEF WalkFits
    <3> QED BY <3>1, <3>2 DEF NoWalk
  <2>6. c.walk.items \in Seq(1 .. server.total)
    <3>1. CASE ~c.walk.started \/ c.pc = "idle"
      <4>1. <<>> \in Seq(1 .. server.total)
        OBVIOUS
      <4> QED BY <2>5, <3>1, <4>1
    <3>2. CASE c.walk.started /\ c.pc # "idle"
      <4> DEFINE k == c.walk.nextPage - 1
                 b == Reach(k, c.size)
      <4>1. c.walk.items = Shown(0, b)
        BY <2>2, <3>2 DEF WalkFits
      <4>2. k \in Nat /\ c.size \in Nat \ {0} /\ server.total \in Nat
        <5>1. server.total \in Nat
          BY <1>1, PagingConstants DEF ServerFits
        <5>2. c.size \in Nat \ {0}
          BY <2>4, <3>2, PagingConstants
        <5>3. \A x \in Nat \ {0} : x - 1 \in Nat
          OBVIOUS
        <5>4. c.walk.nextPage - 1 \in Nat
          BY <2>3, <5>3
        <5> QED BY <5>1, <5>2, <5>4
      <4> HIDE DEF k
      <4>3. b \in 0 .. server.total
        BY <4>2, ReachIs
      <4>4. b \in Nat /\ 0 =< b
        BY <4>2, <4>3
      <4> HIDE DEF b
      <4>5. Shown(0, b) \in Seq(Nat) /\ Shown(0, b) \in Seq(0 + 1 .. b)
        BY <4>4, ShownIs
      <4>6. \A x \in 0 + 1 .. b : x \in 1 .. server.total
        BY <4>2, <4>3
      <4>7. Shown(0, b) \in Seq(1 .. server.total)
        <5> DEFINE A == 0 + 1 .. b
                   B == 1 .. server.total
        <5>1. A \subseteq B
          BY <4>6
        <5>2. Shown(0, b) \in Seq(A)
          BY <4>5
        <5> HIDE DEF A, B
        <5>3. Shown(0, b) \in Seq(B)
          BY <5>1, <5>2, WiderSeq
        <5> QED BY <5>3 DEF B
      <4> QED BY <4>1, <4>7
    <3> QED BY <3>1, <3>2
  <2>7. ASSUME c.pc = "done"
        PROVE  /\ \E n \in 0 .. server.total : c.walk.items = Visible(n)
               /\ c.reason = "" => c.walk.items = Visible(server.total)
    <3>1. CallFits(c) /\ WalkFits(c) /\ ~MustRead(c) /\ c.reason = Reason(c)
      BY <2>2, <2>7 DEF CallFits
    <3> QED BY <1>1, <2>2, <3>1, WalkWhole
  <2> QED BY <2>1, <2>3, <2>4, <2>6, <2>7
<1>5. TypeOK
  BY <1>3, <1>4 DEF TypeOK, PageSizes
<1>6. NothingTwiceOrSkipped
  BY <1>4 DEF NothingTwiceOrSkipped
<1>7. StickyIsBelowSlowest
  BY <1>1 DEF TableFits
<1> QED BY <1>5, <1>6, <1>7, CeilingHolds DEF PagingInv

-----------------------------------------------------------------------------
(* Paging: the steps.                                                      *)

\* What is shown depends on the server only.
LEMMA SameShown ==
    ASSUME server' = server, NEW CONSTANT a, NEW CONSTANT b
    PROVE  Shown(a, b)' = Shown(a, b)
BY DEF Shown

\* No step changes the server, so what is said of a fetch stays true of it.
LEMMA SameServer ==
    ASSUME server' = server, NEW CONSTANT c
    PROVE  ServerFits' = ServerFits /\ FetchFits(c)' = FetchFits(c)
<1>1. ServerFits' = ServerFits
  BY DEF ServerFits
<1>2. \A n, s : Reach(n, s)' = Reach(n, s)
  BY DEF Reach
<1>3. AllPages(c)' = AllPages(c) /\ Cut(c)' = Cut(c) /\ Pages(c)' = Pages(c) /\ Clamped(c)' = Clamped(c)
  BY DEF AllPages, Cut, Pages, Clamped, PageLimitAt
<1>4. MustRead(c)' = MustRead(c) /\ Reason(c)' = Reason(c)
  BY <1>3 DEF MustRead, Reason
<1>5. CallFits(c)' = CallFits(c)
  BY <1>4 DEF CallFits
<1>6. Shown(0, Reach(c.walk.nextPage - 1, c.size))' = Shown(0, Reach(c.walk.nextPage - 1, c.size))
  <2>1. PICK b : b = Reach(c.walk.nextPage - 1, c.size)
    OBVIOUS
  <2>2. Reach(c.walk.nextPage - 1, c.size)' = Reach(c.walk.nextPage - 1, c.size)
    BY <1>2
  <2> QED BY <2>2, SameShown DEF Shown, Reach
<1>7. WalkFits(c)' = WalkFits(c)
  BY <1>6 DEF WalkFits, Offset, Reach, NoWalk, Shown
<1> QED BY <1>1, <1>5, <1>7 DEF FetchFits

\* Only one fetch moves.
LEMMA OneFetch ==
    ASSUME PagingIInv, server' = server, TableFits', NEW CONSTANT f \in Fetches,
           NEW CONSTANT d \in FetchType, FetchFits(d), d.pc # "idle",
           fetch' = [fetch EXCEPT ![f] = d]
    PROVE  PagingIInv'
<1>1. /\ fetch \in [Fetches -> FetchType] /\ ServerFits
      /\ (\A g \in Fetches : fetch[g].pc = "idle" => fetch[g] = Idle)
      /\ \A g \in Fetches : FetchFits(fetch[g])
  BY DEF PagingIInv
<1>2. fetch' \in [Fetches -> FetchType]
      /\ \A g \in Fetches : fetch'[g] = IF g = f THEN d ELSE fetch[g]
  BY <1>1
<1>3. ServerFits'
  BY <1>1, SameServer
<1>4. ASSUME NEW CONSTANT g \in Fetches
      PROVE  (fetch[g].pc = "idle" => fetch[g] = Idle)' /\ FetchFits(fetch[g])'
  <2>1. PICK c : c = IF g = f THEN d ELSE fetch[g]
    OBVIOUS
  <2>2. fetch'[g] = c
    BY <1>2, <2>1
  <2>3. FetchFits(c) /\ (c.pc = "idle" => c = Idle)
    BY <1>1, <2>1
  <2>4. FetchFits(c)'
    BY <2>3, SameServer
  <2>5. Idle' = Idle
    BY DEF Idle, NoWalk, None
  <2> QED BY <2>2, <2>3, <2>4, <2>5
<1> QED BY <1>2, <1>3, <1>4 DEF PagingIInv

\* A step that leaves the table alone.
LEMMA SameTable ==
    ASSUME TableFits, table' = table \/ (table.live /\ table' = [table EXCEPT !.live = FALSE]),
           slowest' = slowest
    PROVE  TableFits'
<1>1. table' \in [sticky : PageSizes \cup {None}, fast : PageSizes \cup {None}, live : BOOLEAN]
      /\ table'.sticky = table.sticky
  BY DEF TableFits
<1> QED BY <1>1 DEF TableFits, StickyIsBelowSlowest

LEMMA MinOfFew ==
    ASSUME NEW S \in SUBSET Nat, S # {}, IsFiniteSet(S)
    PROVE  Min(S) \in S /\ \A y \in S : Min(S) =< y
<1>1. \E x \in S : \A y \in S : x =< y
  BY LeastElement
<1> QED BY <1>1 DEF Min

\* The first size tried is one of the sizes, and no greater than the one requested.
LEMMA SizeForIs ==
    ASSUME TableFits, NEW requested \in RequestedSizes
    PROVE  SizeFor(requested) \in PageSizes /\ SizeFor(requested) =< requested
<1> DEFINE A == {table.sticky} \ {None}
           B == IF table.live THEN {table.fast} \ {None} ELSE {}
           S == {requested} \cup A \cup B
<1>1. table.sticky \in PageSizes \cup {None} /\ table.fast \in PageSizes \cup {None}
  BY DEF TableFits
<1>2. S \in SUBSET PageSizes /\ requested \in S
  BY <1>1 DEF PageSizes
<1>3. IsFiniteSet(S)
  <2>1. IsFiniteSet({requested}) /\ IsFiniteSet({table.sticky}) /\ IsFiniteSet({table.fast})
    BY FS_Singleton
  <2>2. A \subseteq {table.sticky} /\ B \subseteq {table.fast}
    OBVIOUS
  <2>3. IsFiniteSet(A) /\ IsFiniteSet(B)
    <3> HIDE DEF A, B
    <3> QED BY <2>1, <2>2, FS_Subset
  <2> HIDE DEF A, B
  <2> QED BY <2>1, <2>3, FS_Union
<1>4. SizeFor(requested) = Min(S)
  BY DEF SizeFor
<1>5. S \in SUBSET Nat
  BY <1>2, PagingConstants
<1> HIDE DEF S
<1>6. Min(S) \in S /\ \A y \in S : Min(S) =< y
  BY <1>2, <1>3, <1>5, MinOfFew
<1> QED BY <1>2, <1>4, <1>6

\* Each action keeps the invariant.
LEMMA BeginFits ==
    ASSUME PagingIInv, NEW CONSTANT f \in Fetches, BeginFetch(f)
    PROVE  PagingIInv'
<1>1. ServerFits /\ TableFits /\ fetch[f] \in FetchType
  BY DEF PagingIInv
<1>2. PICK requested \in RequestedSizes, limit \in PageLimits, stop \in BOOLEAN :
        fetch' = [fetch EXCEPT ![f] =
         [Idle EXCEPT !.pc = "reading", !.requested = requested, !.limit = limit, !.stop = stop,
                      !.start = SizeFor(requested), !.size = SizeFor(requested)]]
  BY DEF BeginFetch
<1>3. PICK size : size = SizeFor(requested)
  OBVIOUS
<1>4. size \in PageSizes /\ size =< requested /\ size \in Nat \ {0} /\ requested \in Nat /\ limit \in Nat
  BY <1>1, <1>3, SizeForIs, PagingConstants
<1>5. PICK d : d = [Idle EXCEPT !.pc = "reading", !.requested = requested, !.limit = limit,
                               !.stop = stop, !.start = size, !.size = size]
  OBVIOUS
<1>6. /\ d \in FetchType /\ d.pc = "reading" /\ d.requested = requested /\ d.limit = limit
      /\ d.start = size /\ d.size = size /\ d.walk = NoWalk /\ d.slowAt = None /\ d.retries = 0
      /\ d.reason = ""
  <2>1. d = [pc |-> "reading", requested |-> requested, limit |-> limit, stop |-> stop,
             start |-> size, size |-> size, walk |-> NoWalk, slowAt |-> None, retries |-> 0,
             reason |-> ""]
    BY <1>5 DEF Idle
  <2>2. None \in Nat
    BY DEF None
  <2> QED BY <1>4, <2>1, <2>2, IdleTyped DEF FetchType
<1>7. CallFits(d)
  <2>1. 0 =< MinPageSizeSlowRetries /\ size =< size
    BY <1>4, PagingConstants
  <2>2. d.requested \in RequestedSizes /\ d.limit \in PageLimits
    BY <1>6
  <2> QED BY <1>4, <1>6, <2>1, <2>2 DEF CallFits
<1>8. WalkFits(d)
  <2>1. ~NoWalk.started
    BY DEF NoWalk
  <2> QED BY <1>6, <2>1 DEF WalkFits
<1>9. server' = server /\ TableFits'
  BY <1>1, SameTable DEF BeginFetch
<1>10. fetch' = [fetch EXCEPT ![f] = d]
  BY <1>2, <1>3, <1>5
<1> QED BY <1>6, <1>7, <1>8, <1>9, <1>10, OneFetch DEF FetchFits

LEMMA ReadPageFits ==
    ASSUME PagingIInv, NEW CONSTANT f \in Fetches, ReadPage(f)
    PROVE  PagingIInv'
<1>1. PICK c : c = fetch[f]
  OBVIOUS
<1>2. c \in FetchType /\ c.pc = "reading" /\ MustRead(c) /\ ServerFits /\ TableFits /\ FetchFits(c)
  BY <1>1 DEF PagingIInv, ReadPage
<1>3. PICK d : d = [c EXCEPT !.walk = Add(c.walk, Page(c.walk.nextPage, c.size), c.size)]
  OBVIOUS
<1>4. d \in FetchType /\ CallFits(d) /\ WalkFits(d)
  BY <1>2, <1>3, ReadFits DEF FetchFits
<1>5. d.pc # "idle"
  BY <1>2, <1>3 DEF FetchType
<1>6. fetch' = [fetch EXCEPT ![f] = d] /\ server' = server
  BY <1>1, <1>3 DEF ReadPage, PagingIInv
<1>7. TableFits'
  BY <1>2, SameTable DEF ReadPage
<1> QED BY <1>4, <1>5, <1>6, <1>7, OneFetch DEF FetchFits

\* What a fallback that worked leaves in the table.
LEMMA RememberedFits ==
    ASSUME TableFits, NEW CONSTANT size \in PageSizes, NEW CONSTANT slowAt \in PageSizes \cup {None},
           table' = RememberFallback(size, slowAt),
           slowest' = IF slowAt # None THEN Min({slowAt, slowest} \ {None}) ELSE slowest
    PROVE  TableFits'
<1>1. /\ table = [sticky |-> table.sticky, fast |-> table.fast, live |-> table.live]
      /\ table.sticky \in PageSizes \cup {None} /\ table.fast \in PageSizes \cup {None}
      /\ table.live \in BOOLEAN /\ slowest \in PageSizes \cup {None}
      /\ table.sticky = IF slowest = None THEN None ELSE Remembered(slowest)
  BY DEF TableFits, StickyIsBelowSlowest, Remembered
<1>2. \A x \in PageSizes : x \in Nat /\ x # None
  BY PagingConstants DEF None
<1> DEFINE T == [sticky : PageSizes \cup {None}, fast : PageSizes \cup {None}, live : BOOLEAN]
<1>3. ASSUME NEW t \in T
      PROVE  RememberFast(t, size) \in T /\ RememberFast(t, size).sticky = t.sticky
  BY DEF RememberFast
<1>4. table \in T
  BY DEF TableFits
<1>5. CASE slowAt = None
  <2>1. table' = RememberFast(table, size) /\ slowest' = slowest
    BY <1>5 DEF RememberFallback
  <2>2. table' \in T /\ table'.sticky = table.sticky
    BY <1>3, <1>4, <2>1
  <2> QED BY <1>1, <2>1, <2>2 DEF TableFits, StickyIsBelowSlowest, Remembered
<1>6. CASE slowAt # None
  <2> DEFINE m == Remembered(slowAt)
             kept == RememberSticky(table, m)
  <2>1. slowAt \in PageSizes
    BY <1>6
  <2>2. m \in PageSizes
    BY <2>1, RememberedIs
  <2>3. kept \in T /\ kept.sticky = IF table.sticky = None \/ m < table.sticky THEN m ELSE table.sticky
    <3> HIDE DEF m
    <3> QED BY <1>1, <1>4, <2>2 DEF RememberSticky
  <2>4. table' = IF size < m THEN RememberFast(kept, size) ELSE kept
    BY <1>6 DEF RememberFallback, Remembered
  <2> HIDE DEF m, kept
  <2>5. table' \in T /\ table'.sticky = kept.sticky
    BY <1>3, <2>3, <2>4
  <2>6. slowest' = Min({slowAt, slowest} \ {None})
    BY <1>6
  <2>7. CASE slowest = None
    <3>1. {slowAt, slowest} \ {None} = {slowAt, slowAt} /\ slowAt \in Int
      BY <1>2, <2>1, <2>7
    <3>2. slowest' = slowAt
      BY <2>6, <3>1, MinOfTwo
    <3>3. table'.sticky = m
      BY <1>1, <2>3, <2>5, <2>7
    <3> QED BY <1>2, <2>1, <2>5, <3>2, <3>3 DEF TableFits, StickyIsBelowSlowest, Remembered, m
  <2>8. CASE slowest # None
    <3>1. slowest \in PageSizes /\ slowest \in Nat /\ slowAt \in Nat
      BY <1>1, <1>2, <2>1, <2>8
    <3>2. {slowAt, slowest} \ {None} = {slowAt, slowest}
      BY <1>6, <2>8
    <3>3. slowest' = IF slowAt =< slowest THEN slowAt ELSE slowest
      BY <2>6, <3>1, <3>2, MinOfTwo
    <3> DEFINE n == Remembered(slowest)
    <3>4. n \in PageSizes /\ (slowAt =< slowest => m =< n) /\ (slowest =< slowAt => n =< m)
      BY <2>1, <3>1, RememberedIs DEF m
    <3>5. table.sticky = n
      BY <1>1, <2>8
    <3> HIDE DEF n
    <3>6. n \in Nat /\ m \in Nat /\ table.sticky # None
      BY <1>2, <2>2, <3>4, <3>5
    <3>7. table'.sticky = IF m < n THEN m ELSE n
      BY <2>3, <2>5, <3>5, <3>6
    <3>8. CASE slowAt =< slowest
      <4>1. slowest' = slowAt /\ m =< n
        BY <3>3, <3>4, <3>8
      <4>2. table'.sticky = m
        BY <3>6, <3>7, <4>1
      <4>3. slowest' # None /\ slowest' \in PageSizes
        BY <1>6, <2>1, <4>1
      <4> QED BY <2>5, <4>1, <4>2, <4>3 DEF TableFits, StickyIsBelowSlowest, Remembered, m
    <3>9. CASE ~(slowAt =< slowest)
      <4>1. slowest' = slowest /\ n =< m
        BY <3>1, <3>3, <3>4, <3>9
      <4>2. table'.sticky = n
        BY <3>6, <3>7, <4>1
      <4>3. slowest' # None /\ slowest' \in PageSizes
        BY <2>8, <3>1, <4>1
      <4> QED BY <2>5, <4>1, <4>2, <4>3 DEF TableFits, StickyIsBelowSlowest, Remembered, n
    <3> QED BY <3>8, <3>9
  <2> QED BY <2>7, <2>8
<1> QED BY <1>5, <1>6

LEMMA SucceedFits ==
    ASSUME PagingIInv, NEW CONSTANT f \in Fetches, Succeed(f)
    PROVE  PagingIInv'
<1>1. PICK c : c = fetch[f]
  OBVIOUS
<1>2. c \in FetchType /\ c.pc = "reading" /\ ~MustRead(c) /\ ServerFits /\ TableFits /\ FetchFits(c)
      /\ CallFits(c) /\ WalkFits(c)
  BY <1>1 DEF PagingIInv, Succeed, FetchFits
<1>3. PICK d : d = [c EXCEPT !.pc = "done", !.reason = Reason(c)]
  OBVIOUS
<1>4. Reason(c) \in {"", "unknown_total", "page_limit_clamp"}
  BY DEF Reason
<1>5. /\ d \in FetchType /\ d.pc = "done" /\ d.reason = Reason(c)
      /\ d.requested = c.requested /\ d.limit = c.limit /\ d.stop = c.stop /\ d.start = c.start
      /\ d.size = c.size /\ d.walk = c.walk /\ d.slowAt = c.slowAt /\ d.retries = c.retries
  BY <1>2, <1>3, <1>4 DEF FetchType
<1>6. AllPages(d) = AllPages(c)
  BY <1>5 DEF AllPages
<1>7. Cut(d) = Cut(c)
  BY <1>5, <1>6 DEF Cut
<1>8. Pages(d) = Pages(c) /\ Clamped(d) = Clamped(c)
  BY <1>5, <1>6, <1>7 DEF Pages, Clamped
<1>9. Reason(d) = Reason(c) /\ MustRead(d) = MustRead(c)
  BY <1>5, <1>8 DEF Reason, MustRead
<1>10. CallFits(d)
  BY <1>2, <1>5, <1>9 DEF CallFits
<1>11. WalkFits(d)
  BY <1>2, <1>5 DEF WalkFits, Offset
<1>12. fetch' = [fetch EXCEPT ![f] = d] /\ server' = server
  <2>1. fetch' = [fetch EXCEPT ![f].pc = "done", ![f].reason = Reason(c)]
    BY <1>1 DEF Succeed
  <2>2. fetch \in [Fetches -> FetchType]
    BY DEF PagingIInv
  <2> QED BY <1>1, <1>3, <2>1, <2>2 DEF Succeed
<1>13. TableFits'
  <2>1. CASE c.size < c.start
    <3>1. /\ table' = RememberFallback(c.size, c.slowAt)
          /\ slowest' = IF c.slowAt # None THEN Min({c.slowAt, slowest} \ {None}) ELSE slowest
      BY <1>1, <2>1 DEF Succeed
    <3>2. c.size \in PageSizes /\ c.slowAt \in PageSizes \cup {None}
      BY <1>2 DEF CallFits
    <3> QED BY <1>2, <3>1, <3>2, RememberedFits
  <2>2. CASE ~(c.size < c.start)
    <3>1. table' = table /\ slowest' = slowest
      BY <1>1, <2>2 DEF Succeed
    <3> QED BY <1>2, <3>1, SameTable
  <2> QED BY <2>1, <2>2
<1> QED BY <1>5, <1>10, <1>11, <1>12, <1>13, OneFetch DEF FetchFits

\* A fetch that failed has nothing more to say.
LEMMA FailedFits ==
    ASSUME PagingIInv, NEW CONSTANT f \in Fetches, NEW CONSTANT c \in FetchType,
           CallFits(c), WalkFits(c), c.pc = "reading", server' = server, TableFits',
           fetch' = [fetch EXCEPT ![f] = [c EXCEPT !.pc = "failed"]]
    PROVE  PagingIInv'
<1>1. PICK d : d = [c EXCEPT !.pc = "failed"]
  OBVIOUS
<1>2. /\ d \in FetchType /\ d.pc = "failed" /\ d.reason = c.reason
      /\ d.requested = c.requested /\ d.limit = c.limit /\ d.stop = c.stop /\ d.start = c.start
      /\ d.size = c.size /\ d.walk = c.walk /\ d.slowAt = c.slowAt /\ d.retries = c.retries
  BY <1>1 DEF FetchType
<1>3. CallFits(d)
  BY <1>2 DEF CallFits
<1>4. WalkFits(d)
  BY <1>2 DEF WalkFits, Offset
<1> QED BY <1>1, <1>2, <1>3, <1>4, OneFetch DEF FetchFits

LEMMA FallBackFits ==
    ASSUME PagingIInv, NEW CONSTANT f \in Fetches, NEW CONSTANT slow \in BOOLEAN, FallBack(f, slow)
    PROVE  PagingIInv'
<1>1. PICK b : b = fetch[f]
  OBVIOUS
<1>2. b \in FetchType /\ b.pc = "reading" /\ ServerFits /\ TableFits /\ CallFits(b) /\ WalkFits(b)
      /\ fetch \in [Fetches -> FetchType]
  BY <1>1 DEF PagingIInv, FallBack, FetchFits
<1>3. PICK c : c = [b EXCEPT !.slowAt = IF slow THEN b.size ELSE @]
  OBVIOUS
<1>4. /\ c \in FetchType /\ c.pc = "reading" /\ c.reason = b.reason
      /\ c.requested = b.requested /\ c.limit = b.limit /\ c.stop = b.stop /\ c.start = b.start
      /\ c.size = b.size /\ c.walk = b.walk /\ c.slowAt = (IF slow THEN b.size ELSE b.slowAt)
      /\ c.retries = b.retries
  BY <1>2, <1>3 DEF FetchType
<1>5. CallFits(c)
  <2>1. c.slowAt \in PageSizes \cup {None}
    BY <1>2, <1>4 DEF CallFits
  <2> QED BY <1>2, <1>4, <2>1 DEF CallFits
<1>6. WalkFits(c)
  BY <1>2, <1>4 DEF WalkFits, Offset
<1>7. /\ server' = server /\ TableFits'
      /\ fetch' = [fetch EXCEPT ![f] =
           IF Smaller(c.size) # {}
           THEN [c EXCEPT !.size = NextSmaller(c.size), !.walk = Resize(c.walk, NextSmaller(c.size))]
           ELSE IF RetryAtMinimum(c, slow) THEN Counted(c)
           ELSE [c EXCEPT !.pc = "failed"]]
  BY <1>1, <1>2, <1>3, SameTable DEF FallBack
<1>8. c.size \in Nat \ {0} /\ c.size \in PageSizes /\ c.size =< c.start /\ c.start \in Nat
  BY <1>4, <1>5, SizeTypes DEF CallFits
<1>9. CASE Smaller(c.size) # {}
  <2>1. PICK size : size = NextSmaller(c.size)
    OBVIOUS
  <2>2. size \in Smaller(c.size)
    BY <1>8, <1>9, <2>1, NextSmallerIs
  <2>3. size \in PageSizes /\ size \in Nat \ {0} /\ size < c.size
    BY <1>8, <2>2, NextSmallerIs DEF PageSizes
  <2>4. PICK d : d = [c EXCEPT !.size = size, !.walk = Resize(c.walk, size)]
    OBVIOUS
  <2>5. d \in FetchType /\ WalkFits(d)
    BY <1>2, <1>4, <1>6, <1>8, <2>3, <2>4, StepDown
  <2>6. /\ d.pc = "reading" /\ d.reason = c.reason
        /\ d.requested = c.requested /\ d.limit = c.limit /\ d.stop = c.stop /\ d.start = c.start
        /\ d.size = size /\ d.slowAt = c.slowAt /\ d.retries = c.retries
    BY <1>4, <2>4 DEF FetchType
  <2>7. size =< c.start
    BY <1>8, <2>3
  <2>8. CallFits(d)
    BY <1>4, <1>5, <2>3, <2>6, <2>7 DEF CallFits
  <2>9. fetch' = [fetch EXCEPT ![f] = d]
    BY <1>7, <1>9, <2>1, <2>4
  <2> QED BY <1>7, <2>5, <2>6, <2>8, <2>9, OneFetch DEF FetchFits
<1>10. CASE Smaller(c.size) = {} /\ RetryAtMinimum(c, slow)
  <2>1. PICK d : d = Counted(c)
    OBVIOUS
  <2>2. c.retries \in Nat /\ c.retries + 1 \in Nat /\ c.retries + 1 =< MinPageSizeSlowRetries
    <3>1. c.retries \in Nat
      BY <1>4 DEF FetchType
    <3>2. c.retries < MinPageSizeSlowRetries /\ MinPageSizeSlowRetries \in Nat
      BY <1>10, PagingConstants DEF RetryAtMinimum
    <3> QED BY <3>1, <3>2
  <2>3. /\ d \in FetchType /\ d.pc = "reading" /\ d.reason = c.reason
        /\ d.requested = c.requested /\ d.limit = c.limit /\ d.stop = c.stop /\ d.start = c.start
        /\ d.size = c.size /\ d.slowAt = c.slowAt /\ d.retries = c.retries + 1 /\ d.walk = c.walk
    BY <1>4, <2>1, <2>2 DEF FetchType, Counted
  <2>4. CallFits(d)
    BY <1>4, <1>5, <2>2, <2>3 DEF CallFits
  <2>5. WalkFits(d)
    BY <1>6, <2>3 DEF WalkFits, Offset
  <2>6. fetch' = [fetch EXCEPT ![f] = d]
    BY <1>7, <1>10, <2>1
  <2> QED BY <1>7, <2>3, <2>4, <2>5, <2>6, OneFetch DEF FetchFits
<1>11. CASE Smaller(c.size) = {} /\ ~RetryAtMinimum(c, slow)
  <2>1. fetch' = [fetch EXCEPT ![f] = [c EXCEPT !.pc = "failed"]]
    BY <1>7, <1>11
  <2> QED BY <1>4, <1>5, <1>6, <1>7, <2>1, FailedFits
<1> QED BY <1>9, <1>10, <1>11

LEMMA PagingStep == PagingIInv /\ [Next]_vars => PagingIInv'
<1> SUFFICES ASSUME PagingIInv, [Next]_vars PROVE PagingIInv'
  OBVIOUS
<1>1. ServerFits /\ TableFits /\ fetch \in [Fetches -> FetchType]
      /\ (\A g \in Fetches : fetch[g].pc = "idle" => fetch[g] = Idle)
      /\ \A g \in Fetches : FetchFits(fetch[g])
  BY DEF PagingIInv
<1>2. ASSUME NEW CONSTANT f \in Fetches, BeginFetch(f) PROVE PagingIInv'
  BY <1>2, BeginFits
<1>3. ASSUME NEW CONSTANT f \in Fetches, ReadPage(f) PROVE PagingIInv'
  BY <1>3, ReadPageFits
<1>4. ASSUME NEW CONSTANT f \in Fetches, FailAtOnce(f) PROVE PagingIInv'
  <2>1. PICK c : c = fetch[f]
    OBVIOUS
  <2>2. c \in FetchType /\ c.pc = "reading" /\ CallFits(c) /\ WalkFits(c)
    BY <1>1, <1>4, <2>1 DEF FailAtOnce, FetchFits
  <2>3. server' = server /\ TableFits'
    BY <1>1, <1>4, SameTable DEF FailAtOnce
  <2>4. fetch' = [fetch EXCEPT ![f] = [c EXCEPT !.pc = "failed"]]
    BY <1>1, <1>4, <2>1 DEF FailAtOnce
  <2> QED BY <2>2, <2>3, <2>4, FailedFits
<1>5. ASSUME NEW CONSTANT f \in Fetches, NEW CONSTANT slow \in BOOLEAN, FallBack(f, slow)
      PROVE  PagingIInv'
  BY <1>5, FallBackFits
<1>6. ASSUME NEW CONSTANT f \in Fetches, Succeed(f) PROVE PagingIInv'
  BY <1>6, SucceedFits
<1>7. ASSUME fetch' = fetch, server' = server, TableFits' PROVE PagingIInv'
  <2>1. ASSUME NEW CONSTANT g \in Fetches
        PROVE  (fetch[g].pc = "idle" => fetch[g] = Idle)' /\ FetchFits(fetch[g])'
    <3>1. PICK c : c = fetch[g]
      OBVIOUS
    <3>2. fetch'[g] = c /\ FetchFits(c) /\ (c.pc = "idle" => c = Idle)
      BY <1>1, <1>7, <3>1
    <3>3. FetchFits(c)'
      BY <1>7, <3>2, SameServer
    <3>4. Idle' = Idle
      BY DEF Idle, NoWalk, None
    <3> QED BY <3>2, <3>3, <3>4
  <2>2. ServerFits'
    BY <1>1, <1>7, SameServer
  <2> QED BY <1>1, <1>7, <2>1, <2>2 DEF PagingIInv
<1>8. CASE ForgetFast
  <2>1. TableFits' /\ fetch' = fetch /\ server' = server
    BY <1>1, <1>8, SameTable DEF ForgetFast
  <2> QED BY <1>7, <2>1
<1>9. CASE UNCHANGED vars
  <2>1. TableFits' /\ fetch' = fetch /\ server' = server
    BY <1>1, <1>9, SameTable DEF vars
  <2> QED BY <1>7, <2>1
<1> QED BY <1>2, <1>3, <1>4, <1>5, <1>6, <1>8, <1>9 DEF Next, Request, Quiet

(***************************************************************************)
(* Whatever the sizes, the hidden entries, the time-outs and the fetches   *)
(* under way at once: a fetch that ends holds every entry it is shown once *)
(* and in order, or says why not, never past the window; and no size is    *)
(* remembered that a fetch did not have to come down to.                   *)
(***************************************************************************)
THEOREM PagingIsExact == Spec => []PagingInv
<1>1. Init => PagingIInv
  BY PagingInit
<1>2. PagingIInv /\ [Next]_vars => PagingIInv'
  BY PagingStep
<1>3. PagingIInv => PagingInv
  BY PagingHolds
<1> QED BY <1>1, <1>2, <1>3, PTL DEF Spec

-----------------------------------------------------------------------------
\* A page read brings a fetch ahead.
LEMMA PagesAhead ==
    ASSUME ServerFits, NEW c \in FetchType, CallFits(c), WalkFits(c), MustRead(c)
    PROVE  c.walk.nextPage =< Max({1, AllPages(c), CeilDiv(server.total, c.size) + 1})
<1> DEFINE S == {1, AllPages(c), CeilDiv(server.total, c.size) + 1}
           p == c.walk.nextPage
<1>1. c.size \in Nat \ {0} /\ c.requested \in Nat /\ server.total \in Nat /\ p \in Nat
      /\ c.limit \in Nat
  BY SizeTypes, PagingConstants DEF ServerFits, FetchType, WalkType
<1>2. AllPages(c) \in Nat /\ CeilDiv(server.total, c.size) + 1 \in Nat
  <2>1. CeilDiv(server.total, c.size) \in Nat /\ CeilDiv(c.requested, c.size) \in Nat
    BY <1>1, CeilFacts
  <2> QED BY <2>1 DEF AllPages
<1>3. S \in SUBSET Nat /\ S \in SUBSET Int /\ IsFiniteSet(S) /\ S # {}
  <2>1. IsFiniteSet({1}) /\ IsFiniteSet({AllPages(c)}) /\ IsFiniteSet({CeilDiv(server.total, c.size) + 1})
    BY FS_Singleton
  <2>2. S = {1} \cup {AllPages(c)} \cup {CeilDiv(server.total, c.size) + 1}
    OBVIOUS
  <2>3. IsFiniteSet(S)
    <3>1. IsFiniteSet({1} \cup {AllPages(c)})
      BY <2>1, FS_Union
    <3>2. IsFiniteSet(({1} \cup {AllPages(c)}) \cup {CeilDiv(server.total, c.size) + 1})
      BY <2>1, <3>1, FS_Union
    <3> QED BY <2>2, <3>2
  <2>4. S \in SUBSET Nat
    BY <1>2
  <2>5. S \in SUBSET Int /\ S # {}
    BY <2>4
  <2> QED BY <2>3, <2>4, <2>5
<1>4. 1 \in S /\ AllPages(c) \in S
  OBVIOUS
<1> HIDE DEF S, p
<1>5. \E x \in S : \A y \in S : y =< x
  BY <1>3, GreatestElement
<1>6. Max(S) \in S /\ \A y \in S : Max(S) >= y
  <2>1. \E x \in S : \A y \in S : x >= y
    BY <1>3, <1>5
  <2> QED BY <2>1 DEF Max
<1>7. Max(S) \in Nat /\ Max(S) >= 1 /\ Max(S) >= AllPages(c)
  BY <1>3, <1>4, <1>6
<1>8. p = 1 \/ p =< AllPages(c)
  <2>1. CASE ~c.walk.started
    <3>1. NoWalk.nextPage = 1
      BY DEF NoWalk
    <3> QED BY <2>1, <3>1 DEF WalkFits, p
  <2>2. CASE c.walk.started
    <3>1. p =< Pages(c)
      BY <2>2 DEF MustRead, p
    <3>2. CASE Cut(c)
      <4>1. AllPages(c) > Cap(c) /\ Pages(c) = Cap(c) /\ c.limit # 0
        <5>1. AllPages(c) > Cap(c) /\ Pages(c) = Cap(c) /\ Cap(c) > 0
          BY <3>2 DEF Cut, Pages, Cap
        <5>2. c.limit = 0 => Cap(c) = 0
          BY DEF Cap, PageLimitAt
        <5> QED BY <5>1, <5>2
      <4>2. Cap(c) \in Nat
        BY <4>1, CapIs
      <4> QED BY <1>1, <1>2, <3>1, <4>1, <4>2 DEF p
    <3>3. CASE ~Cut(c)
      BY <3>1, <3>3 DEF Pages
    <3> QED BY <3>2, <3>3
  <2> QED BY <2>1, <2>2
<1>9. p =< Max(S)
  BY <1>1, <1>2, <1>7, <1>8 DEF p
<1> QED BY <1>9 DEF S, p

\* So does every step of a fetch that goes on reading.
LEMMA FetchAhead ==
    ASSUME PagingIInv, [Next]_vars, NEW CONSTANT f \in Fetches,
           fetch'[f] # fetch[f], fetch[f].pc = "reading", fetch'[f].pc = "reading"
    PROVE  Ahead(fetch[f], fetch'[f])
<1>1. PICK c : c = fetch[f]
  OBVIOUS
<1>2. c \in FetchType /\ c.pc = "reading" /\ ServerFits /\ CallFits(c) /\ WalkFits(c)
      /\ fetch \in [Fetches -> FetchType]
  BY <1>1 DEF PagingIInv, FetchFits
<1>3. c.size \in Nat \ {0} /\ c.walk.nextPage \in Nat \ {0} /\ c.retries \in Nat
  BY <1>2, SizeTypes DEF FetchType, WalkType
<1>4. ReadPage(f) \/ \E slow \in BOOLEAN : FallBack(f, slow)
  <2>1. fetch' # fetch
    OBVIOUS
  <2>2. ~ForgetFast /\ ~Quiet /\ ~(UNCHANGED vars)
    BY <2>1 DEF ForgetFast, Quiet, vars
  <2>3. PICK g \in Fetches : BeginFetch(g) \/ Request(g) \/ Succeed(g)
    BY <2>2 DEF Next
  <2>4. g = f
    <3>1. ASSUME g # f PROVE fetch'[f] = fetch[f]
      <4>1. CASE BeginFetch(g)
        BY <1>2, <3>1, <4>1 DEF BeginFetch
      <4>2. CASE Request(g)
        BY <1>2, <3>1, <4>2 DEF Request, ReadPage, FailAtOnce, FallBack
      <4>3. CASE Succeed(g)
        BY <1>2, <3>1, <4>3 DEF Succeed
      <4> QED BY <2>3, <4>1, <4>2, <4>3
    <3> QED BY <3>1
  <2>5. ~BeginFetch(f)
    BY DEF BeginFetch
  <2>6. ~Succeed(f)
    <3>1. ASSUME Succeed(f) PROVE fetch'[f].pc = "done"
      BY <1>2, <3>1 DEF Succeed, FetchType
    <3> QED BY <3>1
  <2>7. ~FailAtOnce(f)
    <3>1. ASSUME FailAtOnce(f) PROVE fetch'[f].pc = "failed"
      BY <1>2, <3>1 DEF FailAtOnce, FetchType
    <3> QED BY <3>1
  <2> QED BY <2>3, <2>4, <2>5, <2>6, <2>7 DEF Request
<1>5. CASE ReadPage(f)
  <2>1. PICK w : w = Add(c.walk, Page(c.walk.nextPage, c.size), c.size)
    OBVIOUS
  <2>2. fetch'[f] = [c EXCEPT !.walk = w] /\ MustRead(c)
    BY <1>1, <1>2, <1>5, <2>1 DEF ReadPage
  <2>3. w.nextPage = c.walk.nextPage + 1
    BY <2>1 DEF Add
  <2>4. PICK d : d = fetch'[f]
    OBVIOUS
  <2>5. d.size = c.size /\ d.retries = c.retries /\ d.walk.nextPage = c.walk.nextPage + 1
    BY <1>2, <2>2, <2>3, <2>4 DEF FetchType
  <2>6. c.walk.nextPage =< Max({1, AllPages(c), CeilDiv(server.total, c.size) + 1})
    BY <1>2, <2>2, PagesAhead
  <2>7. d.walk.nextPage > c.walk.nextPage
    BY <1>3, <2>5
  <2> QED BY <1>1, <2>4, <2>5, <2>6, <2>7 DEF Ahead
<1>6. ASSUME NEW CONSTANT slow \in BOOLEAN, FallBack(f, slow) PROVE Ahead(fetch[f], fetch'[f])
  <2>1. PICK b : b = [c EXCEPT !.slowAt = IF slow THEN c.size ELSE @]
    OBVIOUS
  <2>2. /\ b \in FetchType /\ b.pc = "reading" /\ b.size = c.size /\ b.walk = c.walk
        /\ b.retries = c.retries
    <3>1. b.slowAt \in Nat
      BY <1>2, <1>3, <2>1 DEF FetchType
    <3> QED BY <1>2, <2>1, <3>1 DEF FetchType
  <2>3. fetch'[f] = IF Smaller(b.size) # {}
           THEN [b EXCEPT !.size = NextSmaller(b.size), !.walk = Resize(b.walk, NextSmaller(b.size))]
           ELSE IF RetryAtMinimum(b, slow) THEN Counted(b)
           ELSE [b EXCEPT !.pc = "failed"]
    BY <1>1, <1>2, <1>6, <2>1 DEF FallBack
  <2>4. CASE Smaller(b.size) # {}
    <3>1. NextSmaller(b.size) < b.size
      BY <1>3, <2>2, <2>4, NextSmallerIs
    <3>2. fetch'[f].size = NextSmaller(b.size)
      BY <2>2, <2>3, <2>4 DEF FetchType
    <3> QED BY <1>1, <2>2, <3>1, <3>2 DEF Ahead
  <2>5. CASE Smaller(b.size) = {} /\ RetryAtMinimum(b, slow)
    <3>1. fetch'[f] = Counted(b)
      BY <2>3, <2>5
    <3>2. fetch'[f].size = c.size /\ fetch'[f].retries = c.retries + 1
      BY <2>2, <3>1 DEF Counted, FetchType
    <3>3. c.retries + 1 > c.retries /\ c.retries + 1 =< MinPageSizeSlowRetries
      <4>1. c.retries < MinPageSizeSlowRetries /\ MinPageSizeSlowRetries \in Nat
        BY <2>2, <2>5, PagingConstants DEF RetryAtMinimum
      <4> QED BY <1>3, <4>1
    <3> QED BY <1>1, <3>2, <3>3 DEF Ahead
  <2>6. CASE Smaller(b.size) = {} /\ ~RetryAtMinimum(b, slow)
    <3>1. fetch'[f] = [b EXCEPT !.pc = "failed"]
      BY <2>3, <2>6
    <3>2. fetch'[f].pc = "failed"
      BY <2>2, <3>1 DEF FetchType
    <3> QED BY <3>2
  <2> QED BY <2>4, <2>5, <2>6
<1> QED BY <1>4, <1>5, <1>6

(***************************************************************************)
(* Every step of a fetch that goes on reading brings it ahead: it reads a  *)
(* later page, comes down to a smaller size or uses up a retry; it cannot  *)
(* go round in circles.                                                    *)
(***************************************************************************)
THEOREM FetchesEnd == Spec => EveryFetchEnds
<1>1. Init => PagingIInv
  BY PagingInit
<1>2. PagingIInv /\ [Next]_vars => PagingIInv'
  BY PagingStep
<1>3. PagingIInv /\ [Next]_vars =>
        [\A f \in Fetches :
           fetch'[f] # fetch[f] /\ fetch[f].pc = "reading" /\ fetch'[f].pc = "reading"
           => Ahead(fetch[f], fetch'[f])]_fetch
  BY FetchAhead
<1> QED BY <1>1, <1>2, <1>3, PTL DEF Spec, EveryFetchEnds

-----------------------------------------------------------------------------
(* The synthetic report.  What a loop adds up is its running sums, known   *)
(* by their recursion; HistoryIInv gives the sums of each loop.            *)

\* Sequences as arrays.
LEMMA ArrayIs ==
    ASSUME NEW n \in Nat, NEW T, NEW s \in [1 .. n -> T]
    PROVE  s \in Seq(T) /\ Len(s) = n /\ DOMAIN s = 1 .. n
OBVIOUS

\* Sums that satisfy their recursion are the running sums.
LEMMA RunningIs ==
    ASSUME NEW n \in Nat, NEW s \in [1 .. n -> Int], NEW f \in [0 .. n -> Int], f[0] = 0,
           \A i \in 1 .. n : f[i] = f[i - 1] + s[i]
    PROVE  Running(s) = f
<1> DEFINE Def(g) == [m \in 0 .. Len(s) |-> IF m = 0 THEN 0 ELSE g[m - 1] + s[m]]
           h == CHOOSE g : g = Def(g)
<1>1. Len(s) = n
  BY ArrayIs
<1>2. Running(s) = h
  BY DEF Running
<1>3. f = Def(f)
  <2>1. \A m \in 0 .. n : f[m] = IF m = 0 THEN 0 ELSE f[m - 1] + s[m]
    OBVIOUS
  <2>2. Def(f) = [m \in 0 .. n |-> IF m = 0 THEN 0 ELSE f[m - 1] + s[m]]
    BY <1>1
  <2> HIDE DEF Def
  <2> QED BY <2>1, <2>2
<1>4. h = Def(h)
  <2>1. \E x : x = Def(x)
    BY <1>3
  <2> HIDE DEF Def
  <2> QED BY <2>1
<1> HIDE DEF h
<1>5. /\ h = [m \in 0 .. n |-> h[m]]
      /\ \A m \in 0 .. n : h[m] = IF m = 0 THEN 0 ELSE h[m - 1] + s[m]
  BY <1>1, <1>4
<1> DEFINE S == {i \in 0 .. n : h[i] = f[i]}
<1>6. 0 .. n \subseteq S
  <2>1. 0 \in S
    <3>1. 0 \in 0 .. n
      OBVIOUS
    <3> QED BY <1>5, <3>1
  <2>2. ASSUME NEW i \in 0 .. n - 1, i \in S PROVE i + 1 \in S
    <3>1. PICK k : k = i + 1
      OBVIOUS
    <3>2. k \in 1 .. n /\ k \in 0 .. n /\ k # 0 /\ k - 1 = i
      BY <3>1
    <3>3. h[k] = h[i] + s[k] /\ f[k] = f[i] + s[k]
      BY <1>5, <3>2
    <3> QED BY <2>2, <3>1, <3>2, <3>3
  <2>3. 0 \in Int /\ n \in Int
    OBVIOUS
  <2> HIDE DEF S
  <2> QED BY <2>1, <2>2, <2>3, Counting
<1>7. \A i \in 0 .. n : h[i] = f[i]
  BY <1>6
<1> QED BY <1>2, <1>5, <1>7

\* The total is the last running sum.
LEMMA TotalIs ==
    ASSUME NEW n \in Nat, NEW s \in [1 .. n -> Int], NEW f \in [0 .. n -> Int], f[0] = 0,
           \A i \in 1 .. n : f[i] = f[i - 1] + s[i]
    PROVE  Total(s) = f[n]
BY RunningIs, ArrayIs DEF Total

\* The shares of a total, and where each of them ends.
ShareEnds(total, n) == [i \in 0 .. n |-> IF i = n THEN total ELSE i * (total \div n)]

\* The shares of DistributeInt have the running sums ShareEnds.
LEMMA Shares ==
    ASSUME NEW total \in Nat, NEW n \in Nat \ {0}
    PROVE  /\ DistributeInt(total, n) \in [1 .. n -> Nat]
           /\ Running(DistributeInt(total, n)) = ShareEnds(total, n)
           /\ ShareEnds(total, n) \in [0 .. n -> Nat]
           /\ ShareEnds(total, n)[0] = 0 /\ ShareEnds(total, n)[n] = total
           /\ \A i \in 1 .. n : /\ ShareEnds(total, n)[i]
                                     = ShareEnds(total, n)[i - 1] + DistributeInt(total, n)[i]
                                /\ n =< total => DistributeInt(total, n)[i] >= 1
<1> DEFINE q == total \div n
           r == total % n
           s == DistributeInt(total, n)
           f == ShareEnds(total, n)
<1>1. q \in Nat /\ r \in Nat /\ total = n * q + r /\ r < n
  OBVIOUS
<1>2. s = [i \in 1 .. n |-> q + IF i = n THEN r ELSE 0]
  BY DEF DistributeInt
<1>3. f = [i \in 0 .. n |-> IF i = n THEN total ELSE i * q]
  BY DEF ShareEnds
<1> HIDE DEF q, r, s, f
<1>4. s \in [1 .. n -> Nat] /\ s \in [1 .. n -> Int]
  BY <1>1, <1>2
<1>5. \A i \in Nat : i * q \in Nat /\ (i # 0 => i * q = (i - 1) * q + q)
  BY <1>1
<1>6. f \in [0 .. n -> Nat] /\ f \in [0 .. n -> Int]
  BY <1>1, <1>3, <1>5
<1>7. f[0] = 0 /\ f[n] = total
  BY <1>1, <1>3
<1>8. \A i \in 1 .. n : f[i] = f[i - 1] + s[i]
  <2> TAKE i \in 1 .. n
  <2>1. i - 1 \in 0 .. n /\ i - 1 # n /\ i \in 0 .. n /\ i \in Nat /\ i # 0
    OBVIOUS
  <2>2. f[i - 1] = (i - 1) * q /\ s[i] = q + (IF i = n THEN r ELSE 0)
    BY <1>2, <1>3, <2>1
  <2>3. i * q = (i - 1) * q + q /\ i * q \in Nat
    BY <1>5, <2>1
  <2> DEFINE a == (i - 1) * q
             b == i * q
  <2>4. b = a + q /\ a \in Nat
    <3>1. i - 1 \in Nat
      BY <2>1
    <3> QED BY <1>5, <2>3, <3>1
  <2>5. CASE i = n
    <3>1. total = b + r
      BY <1>1, <2>5
    <3>2. f[i] = total
      BY <1>7, <2>5
    <3> HIDE DEF a, b
    <3>3. f[i] = a + (q + r)
      BY <1>1, <2>4, <3>1, <3>2
    <3> QED BY <2>2, <2>5, <3>3 DEF a
  <2>6. CASE i # n
    <3>1. f[i] = b
      BY <1>3, <2>1, <2>6
    <3> HIDE DEF a, b
    <3>2. f[i] = a + (q + 0)
      BY <1>1, <2>4, <3>1
    <3> QED BY <2>2, <2>6, <3>2 DEF a
  <2> QED BY <2>5, <2>6
<1>9. Running(s) = f
  BY <1>4, <1>6, <1>7, <1>8, RunningIs
<1>10. ASSUME n =< total PROVE q >= 1
  <2>1. q = 0 => n * q = 0
    OBVIOUS
  <2> QED BY <1>1, <1>10, <2>1
<1>11. \A i \in 1 .. n : n =< total => s[i] >= 1
  BY <1>1, <1>2, <1>10
<1> QED BY <1>4, <1>6, <1>7, <1>8, <1>9, <1>11 DEF s, f

\* What a point has.
LEMMA PointIs ==
    ASSUME NEW p \in Point
    PROVE  /\ p.lines \in Nat /\ p.ncloc \in Nat /\ p.lines_to_cover \in Nat /\ p.uncovered_lines \in Nat
           /\ p.conditions_to_cover \in Nat /\ p.uncovered_conditions \in Nat
           /\ p.duplicated_lines \in Nat /\ p.duplicated_blocks \in Nat
           /\ p.bugs \in Nat /\ p.vulnerabilities \in Nat /\ p.code_smells \in Nat
           /\ p.reliability_rating \in 0 .. 5 /\ p.security_rating \in 0 .. 5 /\ p.sqale_index \in Nat
<1>1. p \in [Metric -> Nat] /\ p.reliability_rating =< 5 /\ p.security_rating =< 5
  BY HistoryAssumption
<1> QED BY <1>1 DEF Metric

\* The lesser and the greatest of a few numbers.
LEMMA LesserIs ==
    ASSUME NEW a \in Int, NEW b \in Int
    PROVE  Min({a, b}) = IF a =< b THEN a ELSE b
<1> DEFINE m == IF a =< b THEN a ELSE b
<1>1. m \in {a, b} /\ \A y \in {a, b} : m =< y
  OBVIOUS
<1>2. Min({a, b}) \in {a, b} /\ \A y \in {a, b} : Min({a, b}) =< y
  BY <1>1 DEF Min
<1> QED BY <1>1, <1>2

LEMMA GreatestIs ==
    ASSUME NEW S \in SUBSET Int, NEW x \in S, \A y \in S : y =< x
    PROVE  Max(S) = x
<1>1. \A y \in S : x >= y
  OBVIOUS
<1>2. Max(S) \in S /\ \A y \in S : Max(S) >= y
  BY <1>1 DEF Max
<1>3. Max(S) \in Int /\ x \in Int /\ Max(S) >= x /\ Max(S) =< x
  BY <1>2
<1> QED BY <1>3

LEMMA ClampIs ==
    ASSUME NEW v \in Nat, NEW max \in Nat
    PROVE  Clamp(v, max) = Min({v, max}) /\ Clamp(v, max) \in 0 .. max /\ Clamp(v, max) =< v
<1>1. Min({v, max}) = IF v =< max THEN v ELSE max
  BY LesserIs
<1> QED BY <1>1 DEF Clamp

LEMMA IntervalSize ==
    ASSUME NEW a \in Nat, NEW b \in Nat, a =< b
    PROVE  Cardinality(a + 1 .. b) = b - a /\ IsFiniteSet(a + 1 .. b)
<1>1. a + 1 \in Int /\ b \in Int
  OBVIOUS
<1>2. IsFiniteSet(a + 1 .. b)
      /\ Cardinality(a + 1 .. b) = IF a + 1 > b THEN 0 ELSE b - (a + 1) + 1
  BY <1>1, FS_Interval
<1> QED BY <1>2

\* Sizes of intervals and of prefixes.
LEMMA UptoSize ==
    ASSUME NEW b \in Nat
    PROVE  Cardinality(1 .. b) = b /\ IsFiniteSet(1 .. b)
<1>1. 1 \in Int /\ b \in Int
  OBVIOUS
<1>2. IsFiniteSet(1 .. b) /\ Cardinality(1 .. b) = IF 1 > b THEN 0 ELSE b - 1 + 1
  BY <1>1, FS_Interval
<1> QED BY <1>2

-----------------------------------------------------------------------------
\* The lines of the report: covered, uncovered and duplicated as many as the measures say.
LEMMA CoverageIs ==
    ASSUME NEW p \in Point, NEW lines, lines = LineCoverage(p)
    PROVE  LET Known == {i \in DOMAIN lines : lines[i].hasHits}
           IN  /\ Len(lines) \in Nat /\ (Len(lines) =< p.lines_to_cover \/ Len(lines) = 1)
               /\ Cardinality(Known) = p.lines_to_cover
               /\ Cardinality({i \in Known : ~lines[i].hits})
                     = Min({p.uncovered_lines, p.lines_to_cover})
               /\ Total([i \in DOMAIN lines |-> lines[i].conditions]) = p.conditions_to_cover
               /\ Total([i \in DOMAIN lines |-> lines[i].conditions - lines[i].covered])
                     = Min({p.uncovered_conditions, p.conditions_to_cover})
<1> DEFINE t == p.lines_to_cover
           c == p.conditions_to_cover
           u == Clamp(p.uncovered_lines, t)
           v == Clamp(p.uncovered_conditions, c)
           n == IF t = 0 /\ c > 0 THEN 1 ELSE t
           Known == {i \in DOMAIN lines : lines[i].hasHits}
           Open == {i \in Known : ~lines[i].hits}
           conditions == [i \in DOMAIN lines |-> lines[i].conditions]
           opens == [i \in DOMAIN lines |-> lines[i].conditions - lines[i].covered]
<1>1. t \in Nat /\ c \in Nat /\ u \in 0 .. t /\ v \in 0 .. c
      /\ u = Min({p.uncovered_lines, t}) /\ v = Min({p.uncovered_conditions, c})
  BY PointIs, ClampIs
<1>2. lines = [i \in 1 .. n |-> [hasHits    |-> i <= t,
                                hits       |-> i <= t /\ i > u,
                                conditions |-> IF i = 1 THEN c ELSE 0,
                                covered    |-> IF i = 1 THEN c - v ELSE 0]]
  BY DEF LineCoverage
<1> HIDE DEF t, c, u, v
<1>3. n \in Nat /\ t =< n /\ (n = 0 => c = 0) /\ (n =< t \/ n = 1)
  BY <1>1
<1> HIDE DEF n
<1>4. /\ DOMAIN lines = 1 .. n
      /\ \A i \in 1 .. n : /\ lines[i].hasHits = (i <= t) /\ lines[i].hits = (i <= t /\ i > u)
                           /\ lines[i].conditions = (IF i = 1 THEN c ELSE 0)
                           /\ lines[i].covered = (IF i = 1 THEN c - v ELSE 0)
  BY <1>2
<1>5. Len(lines) = n
  BY <1>2, <1>3
<1>6. Cardinality(Known) = t
  <2>1. Known = {i \in 1 .. n : i <= t}
    BY <1>4
  <2>2. {i \in 1 .. n : i <= t} = 1 .. t
    BY <1>1, <1>3
  <2> HIDE DEF Known
  <2> QED BY <1>1, <2>1, <2>2, UptoSize
<1>7. Cardinality(Open) = u
  <2>1. Open = {i \in 1 .. n : i <= t /\ ~(i <= t /\ i > u)}
    BY <1>4
  <2>2. {i \in 1 .. n : i <= t /\ ~(i <= t /\ i > u)} = 1 .. u
    BY <1>1, <1>3
  <2>3. u \in Nat
    BY <1>1
  <2> HIDE DEF Open
  <2> QED BY <2>1, <2>2, <2>3, UptoSize
<1>8. ASSUME NEW x \in Nat, NEW s, n = 0 => x = 0, s = [i \in 1 .. n |-> IF i = 1 THEN x ELSE 0]
      PROVE  Total(s) = x
  <2> DEFINE f == [i \in 0 .. n |-> IF i = 0 THEN 0 ELSE x]
  <2>1. s \in [1 .. n -> Int] /\ f \in [0 .. n -> Int] /\ f[0] = 0
    BY <1>3, <1>8
  <2>2. \A i \in 1 .. n : f[i] = f[i - 1] + s[i]
    BY <1>3, <1>8
  <2>3. f[n] = x
    BY <1>3, <1>8
  <2> HIDE DEF f
  <2> QED BY <1>3, <2>1, <2>2, <2>3, TotalIs
<1>9. Total(conditions) = c
  <2>1. conditions = [i \in 1 .. n |-> IF i = 1 THEN c ELSE 0]
    BY <1>4
  <2> HIDE DEF conditions
  <2> QED BY <1>1, <1>3, <1>8, <2>1
<1>10. Total(opens) = v
  <2>1. \A i \in 1 .. n : lines[i].conditions - lines[i].covered = IF i = 1 THEN v ELSE 0
    <3> TAKE i \in 1 .. n
    <3>1. CASE i = 1
      <4>1. lines[i].conditions = c /\ lines[i].covered = c - v
        BY <1>4, <3>1
      <4>2. c - (c - v) = v
        BY <1>1
      <4> QED BY <3>1, <4>1, <4>2
    <3>2. CASE i # 1
      <4>1. lines[i].conditions = 0 /\ lines[i].covered = 0
        BY <1>4, <3>2
      <4> QED BY <3>2, <4>1
    <3> QED BY <3>1, <3>2
  <2>2. opens = [i \in 1 .. n |-> IF i = 1 THEN v ELSE 0]
    BY <1>4, <2>1
  <2>3. v \in Nat /\ (n = 0 => v = 0)
    BY <1>1, <1>3
  <2> HIDE DEF opens
  <2> QED BY <1>8, <2>2, <2>3
<1> HIDE DEF Known, Open, conditions, opens
<1> QED BY <1>1, <1>3, <1>5, <1>6, <1>7, <1>9, <1>10 DEF t, c, Known, Open, conditions, opens

LEMMA DuplicationIs ==
    ASSUME NEW p \in Point, NEW ranges, ranges = Duplication(p)
    PROVE  IF p.duplicated_lines < 2 \/ p.duplicated_blocks < 2 THEN ranges = <<>>
           ELSE /\ Len(ranges) = Min({p.duplicated_blocks, p.duplicated_lines})
                /\ DOMAIN ranges = 1 .. Len(ranges) /\ Len(ranges) \in Nat
                /\ \A i \in DOMAIN ranges : /\ ranges[i].start .. ranges[i].end # {}
                                            /\ ranges[i].end =< p.duplicated_lines
                                            /\ ranges[i].end \in Nat
                /\ \A i, j \in DOMAIN ranges : i # j =>
                      (ranges[i].start .. ranges[i].end) \cap (ranges[j].start .. ranges[j].end) = {}
                /\ Cardinality(UNION {ranges[i].start .. ranges[i].end : i \in DOMAIN ranges})
                      = p.duplicated_lines
<1> DEFINE d == p.duplicated_lines
           few == d < 2 \/ p.duplicated_blocks < 2
           n == Clamp(p.duplicated_blocks, d)
           f == Running(DistributeInt(d, n))
           s == DistributeInt(d, n)
           Of(i) == ranges[i].start .. ranges[i].end
<1>1. CASE few
  BY <1>1 DEF Duplication
<1>2. CASE ~few
  <2>1. d \in Nat /\ n \in Nat \ {0} /\ n =< d /\ n = Min({p.duplicated_blocks, d})
    <3>1. d \in Nat /\ p.duplicated_blocks \in Nat
      BY PointIs
    <3>2. n = Min({p.duplicated_blocks, d}) /\ n \in 0 .. d
      BY <3>1, ClampIs
    <3>3. n # 0
      BY <1>2, <3>1 DEF Clamp
    <3> HIDE DEF n
    <3> QED BY <3>1, <3>2, <3>3
  <2>2. ranges = [i \in 1 .. n |-> [start |-> f[i - 1] + 1, end |-> f[i]]]
    BY <1>2 DEF Duplication
  <2> HIDE DEF n, d
  <2>3. /\ s \in [1 .. n -> Nat] /\ f \in [0 .. n -> Nat] /\ f[0] = 0 /\ f[n] = d
        /\ \A i \in 1 .. n : f[i] = f[i - 1] + s[i] /\ s[i] >= 1
    <3> DEFINE e == ShareEnds(d, n)
    <3>1. s \in [1 .. n -> Nat] /\ f = e /\ e \in [0 .. n -> Nat] /\ e[0] = 0 /\ e[n] = d
      BY <2>1, Shares
    <3>2. \A i \in 1 .. n : e[i] = e[i - 1] + s[i] /\ (n =< d => s[i] >= 1)
      BY <2>1, Shares
    <3> HIDE DEF f, s, e
    <3> QED BY <2>1, <3>1, <3>2
  <2> HIDE DEF f, s
  <2>4. Len(ranges) = n /\ DOMAIN ranges = 1 .. n
        /\ \A i \in 1 .. n : ranges[i].start = f[i - 1] + 1 /\ ranges[i].end = f[i]
    BY <2>1, <2>2
  <2>5. \A i \in 1 .. n : f[i] \in Nat /\ f[i - 1] \in Nat /\ f[i - 1] < f[i]
    <3> TAKE i \in 1 .. n
    <3>1. i \in 0 .. n /\ i - 1 \in 0 .. n
      BY <2>1
    <3> QED BY <2>3, <3>1
  \* The ends grow.
  <2>6. \A i \in 0 .. n : \A j \in i .. n : f[i] =< f[j]
    <3> TAKE i \in 0 .. n
    <3> DEFINE S == {j \in i .. n : f[i] =< f[j]}
    <3>1. i \in S
      <4>1. i \in i .. n
        BY <2>1
      <4>2. f[i] \in Nat
        BY <2>3
      <4> QED BY <4>1, <4>2
    <3>2. ASSUME NEW j \in i .. n - 1, j \in S PROVE j + 1 \in S
      <4>1. PICK k : k = j + 1
        OBVIOUS
      <4>2. k \in i .. n /\ k \in 1 .. n /\ k - 1 = j /\ i \in 0 .. n
        BY <2>1, <4>1
      <4>3. f[j] < f[k] /\ f[i] =< f[j] /\ f[i] \in Nat /\ f[j] \in Nat /\ f[k] \in Nat
        BY <2>3, <2>5, <3>2, <4>2
      <4>4. f[i] =< f[k]
        BY <4>3
      <4> QED BY <4>1, <4>2, <4>4
    <3>3. i \in Int /\ n \in Int
      BY <2>1
    <3> HIDE DEF S
    <3>4. i .. n \subseteq S
      BY <3>1, <3>2, <3>3, Counting
    <3> QED BY <3>4 DEF S
  <2>7. \A i \in 1 .. n : Of(i) # {} /\ ranges[i].end =< d /\ Of(i) = f[i - 1] + 1 .. f[i]
    <3> TAKE i \in 1 .. n
    <3>1. f[i] \in f[i - 1] + 1 .. f[i]
      BY <2>5
    <3>2. f[i] =< f[n]
      <4>1. i \in 0 .. n /\ n \in i .. n
        BY <2>1
      <4> QED BY <2>6, <4>1
    <3> QED BY <2>3, <2>4, <3>1, <3>2
  <2>8. \A i, j \in 1 .. n : i < j => Of(i) \cap Of(j) = {}
    <3> TAKE i, j \in 1 .. n
    <3> HAVE i < j
    <3>1. i \in 0 .. n /\ j - 1 \in i .. n
      BY <2>1
    <3>2. f[i] =< f[j - 1] /\ f[i] \in Nat /\ f[j - 1] \in Nat
      BY <2>5, <2>6, <3>1
    <3>3. \A x \in f[i - 1] + 1 .. f[i] : x \notin f[j - 1] + 1 .. f[j]
      BY <3>2
    <3> HIDE DEF Of
    <3> QED BY <2>7, <3>3
  <2>9. \A i, j \in 1 .. n : i # j => Of(i) \cap Of(j) = {}
    <3> TAKE i, j \in 1 .. n
    <3> HAVE i # j
    <3>1. i < j \/ j < i
      OBVIOUS
    <3> HIDE DEF Of
    <3> QED BY <2>8, <3>1
  \* Together they are the first lines.
  <2> DEFINE U == UNION {Of(i) : i \in 1 .. n}
  <2>10. U = 1 .. d
    <3>1. ASSUME NEW x \in U PROVE x \in 1 .. d
      <4>1. PICK i \in 1 .. n : x \in Of(i)
        OBVIOUS
      <4>2. x \in f[i - 1] + 1 .. f[i]
        BY <2>7, <4>1
      <4>3. f[i] =< d /\ f[i - 1] \in Nat
        BY <2>4, <2>5, <2>7
      <4> QED BY <2>1, <2>5, <4>2, <4>3
    <3>2. ASSUME NEW x \in 1 .. d PROVE x \in U
      <4> DEFINE T == {i \in 1 .. n : x =< f[i]}
      <4>1. n \in T
        BY <2>1, <2>3
      <4>2. T \in SUBSET Int /\ IsFiniteSet(T)
        <5>1. T \in SUBSET (1 .. n)
          OBVIOUS
        <5>2. 1 .. n \in SUBSET Int /\ IsFiniteSet(1 .. n)
          BY <2>1, UptoSize
        <5> HIDE DEF T
        <5> QED BY <5>1, <5>2, FS_Subset
      <4>3. PICK i \in T : \A j \in T : i =< j
        <5> HIDE DEF T
        <5> QED BY <4>1, <4>2, LeastElement
      <4>4. ~(x =< f[i - 1])
        <5>1. CASE i = 1
          BY <2>3, <5>1
        <5>2. CASE i # 1
          <6>1. i - 1 \in 1 .. n /\ ~(i =< i - 1)
            BY <2>1, <5>2
          <6> QED BY <4>3, <6>1
        <5> QED BY <5>1, <5>2
      <4>5. x \in f[i - 1] + 1 .. f[i]
        BY <2>5, <4>4
      <4>6. x \in Of(i) /\ i \in 1 .. n
        BY <2>7, <4>5
      <4> HIDE DEF Of
      <4> QED BY <4>6
    <3> HIDE DEF U
    <3> QED BY <3>1, <3>2
  <2>11. Cardinality(U) = d
    <3> HIDE DEF U
    <3> QED BY <2>1, <2>10, UptoSize
  <2>12. \A i \in 1 .. n : ranges[i].end \in Nat
    BY <2>4, <2>5
  <2>13. n \in Nat /\ n = Min({p.duplicated_blocks, p.duplicated_lines}) /\ ~few
    BY <1>2, <2>1 DEF d
  <2> QED BY <2>4, <2>7, <2>9, <2>11, <2>12, <2>13 DEF d
<1> QED BY <1>1, <1>2

\* Three lists of issues, one after another.
LEMMA OneAfterAnother ==
    ASSUME NEW T, NEW x \in Seq(T), NEW y \in Seq(T)
    PROVE  /\ x \o y \in Seq(T) /\ Len(x \o y) = Len(x) + Len(y)
           /\ \A i \in 1 .. Len(x) : (x \o y)[i] = x[i]
           /\ \A i \in 1 .. Len(y) : (x \o y)[Len(x) + i] = y[i]
OBVIOUS

\* The severities of a rating.
LEMMA SeverityIs ==
    /\ \A r, q \in 1 .. 5 : Severity[r] = Severity[q] => r = q
    /\ Severity[2] = "MINOR"
    /\ \A rating \in 0 .. 5 : RatingToSeverity(rating) = Severity[IF rating = 0 THEN 1 ELSE rating]
<1>1. /\ Severity[1] = "INFO" /\ Severity[2] = "MINOR" /\ Severity[3] = "MAJOR"
      /\ Severity[4] = "CRITICAL" /\ Severity[5] = "BLOCKER"
  BY DEF Severity
<1>2. \A r \in 1 .. 5 : r = 1 \/ r = 2 \/ r = 3 \/ r = 4 \/ r = 5
  OBVIOUS
<1>3. \A r, q \in 1 .. 5 : Severity[r] = Severity[q] => r = q
  BY <1>1, <1>2
<1>4. ASSUME NEW rating \in 0 .. 5
      PROVE  RatingToSeverity(rating) = Severity[IF rating = 0 THEN 1 ELSE rating]
  <2> DEFINE m == IF rating = 0 THEN 1 ELSE rating
  <2>1. {rating, 1} \in SUBSET Int /\ m \in {rating, 1} /\ \A y \in {rating, 1} : y =< m
    OBVIOUS
  <2>2. Max({rating, 1}) = m
    <3> HIDE DEF m
    <3> QED BY <2>1, GreatestIs
  <2> QED BY <2>2 DEF RatingToSeverity
<1> QED BY <1>1, <1>3, <1>4

\* The rating of issues that are all minor but for the last of them.
WorstOf(severity, I) ==
    Max({1} \cup {r \in 1 .. 5 : \E i \in I : severity[i] = Severity[r]})
\* The rating the last of n issues gives.
OfLast(rating, n) == Max({rating, IF n > 1 THEN 2 ELSE 1})

\* The worst of the issues of a type has the rating.
LEMMA RatingIs ==
    ASSUME NEW a \in Nat, NEW n \in Nat \ {0}, NEW rating \in 0 .. 5, NEW severity,
           \A i \in a + 1 .. a + n :
              severity[i] = IF i = a + n THEN RatingToSeverity(rating) ELSE "MINOR"
    PROVE  WorstOf(severity, a + 1 .. a + n) = OfLast(rating, n)
<1> DEFINE m == IF rating = 0 THEN 1 ELSE rating
           least == IF n > 1 THEN 2 ELSE 1
           x == IF rating >= least THEN rating ELSE least
           R == {r \in 1 .. 5 : \E i \in a + 1 .. a + n : severity[i] = Severity[r]}
<1>1. Max({rating, least}) = x
  <2>1. {rating, least} \in SUBSET Int /\ x \in {rating, least} /\ \A y \in {rating, least} : y =< x
    OBVIOUS
  <2> HIDE DEF x, least
  <2> QED BY <2>1, GreatestIs
<1>2. severity[a + n] = Severity[m] /\ a + n \in a + 1 .. a + n
  <2>1. a + n \in a + 1 .. a + n
    OBVIOUS
  <2>2. severity[a + n] = RatingToSeverity(rating)
    BY <2>1
  <2> QED BY <2>1, <2>2, SeverityIs
<1>3. \A i \in a + 1 .. a + n : i # a + n => severity[i] = Severity[2] /\ n > 1
  <2> TAKE i \in a + 1 .. a + n
  <2> HAVE i # a + n
  <2>1. severity[i] = "MINOR"
    OBVIOUS
  <2>2. n > 1
    OBVIOUS
  <2> QED BY <2>1, <2>2, SeverityIs
<1>4. x \in {1} \cup R
  <2>1. CASE rating >= least
    <3>1. x = rating /\ rating = m /\ rating \in 1 .. 5
      BY <2>1
    <3>2. rating \in R
      <4> HIDE DEF m
      <4> QED BY <1>2, <3>1
    <3> QED BY <3>1, <3>2
  <2>2. CASE ~(rating >= least) /\ n > 1
    <3>1. x = 2 /\ a + 1 \in a + 1 .. a + n /\ a + 1 # a + n
      BY <2>2
    <3>2. severity[a + 1] = Severity[2]
      BY <1>3, <3>1
    <3>3. 2 \in R
      BY <3>1, <3>2
    <3> QED BY <3>1, <3>3
  <2>3. CASE ~(rating >= least) /\ ~(n > 1)
    BY <2>3
  <2> QED BY <2>1, <2>2, <2>3
<1>5. \A y \in {1} \cup R : y =< x
  <2> TAKE y \in {1} \cup R
  <2>1. CASE y = 1
    BY <2>1
  <2>2. CASE y \in R
    <3>1. PICK i \in a + 1 .. a + n : severity[i] = Severity[y]
      BY <2>2
    <3>2. CASE i = a + n
      <4>1. y = m
        <5>1. m \in 1 .. 5 /\ y \in 1 .. 5
          BY <2>2
        <5> HIDE DEF m, R
        <5> QED BY <1>2, <3>1, <3>2, <5>1, SeverityIs
      <4>2. m =< x
        OBVIOUS
      <4> QED BY <4>1, <4>2
    <3>3. CASE i # a + n
      <4>1. y = 2 /\ n > 1
        <5>1. 2 \in 1 .. 5 /\ y \in 1 .. 5
          BY <2>2
        <5> HIDE DEF R
        <5> QED BY <1>3, <3>1, <3>3, <5>1, SeverityIs
      <4>2. 2 =< x
        BY <4>1
      <4> QED BY <4>1, <4>2
    <3> QED BY <3>2, <3>3
  <2> QED BY <2>1, <2>2
<1>6. {1} \cup R \in SUBSET Int
  OBVIOUS
<1>7. Max({1} \cup R) = x
  <2> HIDE DEF R, x
  <2> QED BY <1>4, <1>5, <1>6, GreatestIs
<1> HIDE DEF R, x
<1> QED BY <1>1, <1>7 DEF R, WorstOf, OfLast


\* A sequence of n elements.
ArrayOf(s, n) == Len(s) = n /\ DOMAIN s = 1 .. n /\ s = [i \in 1 .. n |-> s[i]]
\* The issues of a type and a rating, and the code smells.
Rated(s, type, n, rating) ==
    ArrayOf(s, n) /\ \A i \in 1 .. n :
        /\ s[i].type = type /\ s[i].effort = 0
        /\ s[i].severity = IF i = n THEN RatingToSeverity(rating) ELSE "MINOR"
Smells(s, n, sqale) ==
    ArrayOf(s, n) /\ \A i \in 1 .. n :
        s[i].type = "CODE_SMELL" /\ s[i].effort = DistributeInt(sqale, n)[i]

LEMMA RatedIssues ==
    ASSUME NEW type, type # "CODE_SMELL", NEW n \in Nat, NEW rating
    PROVE  Rated(IssuesOf(type, n, rating, TRUE, 0), type, n, rating)
<1> DEFINE s == IssuesOf(type, n, rating, TRUE, 0)
<1>1. s = [i \in 1 .. n |-> [type     |-> type,
                            severity |-> IF i = n THEN RatingToSeverity(rating) ELSE "MINOR",
                            effort   |-> 0]]
  BY DEF IssuesOf, Severities, Efforts
<1> HIDE DEF s
<1>2. Len(s) = n /\ DOMAIN s = 1 .. n /\ s = [i \in 1 .. n |-> s[i]]
  BY <1>1
<1>3. \A i \in 1 .. n :
         /\ s[i].type = type /\ s[i].effort = 0
         /\ s[i].severity = IF i = n THEN RatingToSeverity(rating) ELSE "MINOR"
  BY <1>1
<1>4. Rated(s, type, n, rating)
  BY <1>2, <1>3 DEF Rated, ArrayOf
<1> QED BY <1>4 DEF s

LEMMA SmellIssues ==
    ASSUME NEW n \in Nat, NEW sqale \in Nat
    PROVE  Smells(IssuesOf("CODE_SMELL", n, 0, FALSE, sqale), n, sqale)
<1> DEFINE s == IssuesOf("CODE_SMELL", n, 0, FALSE, sqale)
<1>1. s = [i \in 1 .. n |-> [type     |-> "CODE_SMELL",
                            severity |-> "MINOR",
                            effort   |-> DistributeInt(sqale, n)[i]]]
  BY DEF IssuesOf, Severities, Efforts
<1> HIDE DEF s
<1>2. Len(s) = n /\ DOMAIN s = 1 .. n /\ s = [i \in 1 .. n |-> s[i]]
  BY <1>1
<1>3. \A i \in 1 .. n : s[i].type = "CODE_SMELL" /\ s[i].effort = DistributeInt(sqale, n)[i]
  BY <1>1
<1>4. Smells(s, n, sqale)
  BY <1>2, <1>3 DEF Smells, ArrayOf
<1> QED BY <1>4 DEF s

LEMMA IssuesAre ==
    ASSUME NEW p \in Point, NEW s, s = SyntheticIssues(p)
    PROVE  LET a == p.bugs
               b == p.vulnerabilities
               c == p.code_smells
           IN  /\ DOMAIN s = 1 .. a + b + c
               /\ \A i \in 1 .. a : /\ s[i].type = "BUG" /\ s[i].effort = 0
                                    /\ s[i].severity = IF i = a THEN RatingToSeverity(p.reliability_rating)
                                                       ELSE "MINOR"
               /\ \A i \in 1 .. b : /\ s[a + i].type = "VULNERABILITY" /\ s[a + i].effort = 0
                                    /\ s[a + i].severity
                                         = IF i = b THEN RatingToSeverity(p.security_rating) ELSE "MINOR"
               /\ \A i \in 1 .. c : /\ s[a + b + i].type = "CODE_SMELL"
                                    /\ s[a + b + i].effort = DistributeInt(p.sqale_index, c)[i]
<1> DEFINE a == p.bugs
           b == p.vulnerabilities
           c == p.code_smells
           A == IssuesOf("BUG", a, p.reliability_rating, TRUE, 0)
           B == IssuesOf("VULNERABILITY", b, p.security_rating, TRUE, 0)
           C == IssuesOf("CODE_SMELL", c, 0, FALSE, p.sqale_index)
<1>1. a \in Nat /\ b \in Nat /\ c \in Nat /\ p.sqale_index \in Nat
  BY PointIs
<1>2. s = (A \o B) \o C
  BY DEF SyntheticIssues
<1> HIDE DEF a, b, c
<1>3. Rated(A, "BUG", a, p.reliability_rating)
  BY <1>1, RatedIssues
<1>4. Rated(B, "VULNERABILITY", b, p.security_rating)
  BY <1>1, RatedIssues
<1>5. Smells(C, c, p.sqale_index)
  BY <1>1, SmellIssues
<1> HIDE DEF A, B, C
<1>16. /\ Len(A) = a /\ Len(B) = b /\ Len(C) = c
      /\ A = [i \in 1 .. a |-> A[i]] /\ B = [i \in 1 .. b |-> B[i]] /\ C = [i \in 1 .. c |-> C[i]]
  BY <1>3, <1>4, <1>5 DEF Rated, Smells, ArrayOf
<1> DEFINE T == {A[i] : i \in 1 .. a} \cup {B[i] : i \in 1 .. b} \cup {C[i] : i \in 1 .. c}
<1>6. A \in Seq(T) /\ B \in Seq(T) /\ C \in Seq(T)
  <2>2. A \in [1 .. a -> T] /\ B \in [1 .. b -> T] /\ C \in [1 .. c -> T]
    BY <1>16
  <2> HIDE DEF T
  <2> QED BY <1>1, <2>2, ArrayIs
<1> HIDE DEF T
<1>7. /\ A \o B \in Seq(T) /\ Len(A \o B) = a + b
      /\ \A i \in 1 .. a : (A \o B)[i] = A[i]
      /\ \A i \in 1 .. b : (A \o B)[a + i] = B[i]
  <2>1. /\ A \o B \in Seq(T) /\ Len(A \o B) = Len(A) + Len(B)
        /\ \A i \in 1 .. Len(A) : (A \o B)[i] = A[i]
        /\ \A i \in 1 .. Len(B) : (A \o B)[Len(A) + i] = B[i]
    BY <1>6, OneAfterAnother
  <2> QED BY <1>16, <2>1
<1>8. /\ s \in Seq(T) /\ Len(s) = a + b + c
      /\ \A i \in 1 .. a + b : s[i] = (A \o B)[i]
      /\ \A i \in 1 .. c : s[a + b + i] = C[i]
  <2> DEFINE D == A \o B
  <2>1. D \in Seq(T) /\ Len(D) = a + b
    BY <1>7
  <2> HIDE DEF D
  <2>2. s = D \o C
    BY <1>2 DEF D
  <2>3. /\ s \in Seq(T) /\ Len(s) = a + b + c
        /\ \A i \in 1 .. a + b : s[i] = D[i]
        /\ \A i \in 1 .. c : s[a + b + i] = C[i]
    <3>1. /\ D \o C \in Seq(T) /\ Len(D \o C) = Len(D) + Len(C)
          /\ \A i \in 1 .. Len(D) : (D \o C)[i] = D[i]
          /\ \A i \in 1 .. Len(C) : (D \o C)[Len(D) + i] = C[i]
      <4>1. C \in Seq(T) /\ D \in Seq(T)
        BY <1>6, <2>1
      <4> HIDE DEF a, b, c
      <4> QED BY <4>1, OneAfterAnother
    <3> QED BY <1>16, <2>1, <2>2, <3>1
  <2> QED BY <2>3 DEF D
<1>9. DOMAIN s = 1 .. a + b + c
  BY <1>8
<1>10. \A i \in 1 .. a : s[i] = A[i]
  <2>1. \A i \in 1 .. a : i \in 1 .. a + b
    BY <1>1
  <2> QED BY <1>7, <1>8, <2>1
<1>11. \A i \in 1 .. b : s[a + i] = B[i]
  <2>1. \A i \in 1 .. b : a + i \in 1 .. a + b
    BY <1>1
  <2> QED BY <1>7, <1>8, <2>1
<1>12. \A i \in 1 .. c : s[a + b + i] = C[i]
  BY <1>8
<1>13. \A i \in 1 .. a : /\ s[i].type = "BUG" /\ s[i].effort = 0
                          /\ s[i].severity = IF i = a THEN RatingToSeverity(p.reliability_rating)
                                             ELSE "MINOR"
  BY <1>3, <1>10 DEF Rated
<1>14. \A i \in 1 .. b : /\ s[a + i].type = "VULNERABILITY" /\ s[a + i].effort = 0
                          /\ s[a + i].severity
                               = IF i = b THEN RatingToSeverity(p.security_rating) ELSE "MINOR"
  BY <1>4, <1>11 DEF Rated
<1>15. \A i \in 1 .. c : /\ s[a + b + i].type = "CODE_SMELL"
                          /\ s[a + b + i].effort = DistributeInt(p.sqale_index, c)[i]
  BY <1>5, <1>12 DEF Smells
<1> QED BY <1>9, <1>13, <1>14, <1>15 DEF a, b, c

\* No effort, and then the shares of the debt.
EffortsAre(m, c, sqale) ==
    [i \in 1 .. m + c |-> IF i =< m THEN 0 ELSE DistributeInt(sqale, c)[i - m]]

\* The efforts of the code smells add up to the debt.
LEMMA EffortsAddUp ==
    ASSUME NEW m \in Nat, NEW c \in Nat, NEW sqale \in Nat
    PROVE  Total(EffortsAre(m, c, sqale)) = IF c = 0 THEN 0 ELSE sqale
<1> DEFINE e == EffortsAre(m, c, sqale)
<1>0. e = [i \in 1 .. m + c |-> IF i =< m THEN 0 ELSE DistributeInt(sqale, c)[i - m]]
  BY DEF EffortsAre
<1> HIDE DEF e
<1>1. m + c \in Nat
  OBVIOUS
<1>2. CASE c = 0
  <2> DEFINE f == [i \in 0 .. m + c |-> 0]
  <2>1. e = [i \in 1 .. m + c |-> 0]
    BY <1>0, <1>2
  <2>2. e \in [1 .. m + c -> Int] /\ f \in [0 .. m + c -> Int] /\ f[0] = 0 /\ f[m + c] = 0
    BY <1>1, <2>1
  <2>3. \A i \in 1 .. m + c : f[i] = f[i - 1] + e[i]
    <3> TAKE i \in 1 .. m + c
    <3>1. i \in 0 .. m + c /\ i - 1 \in 0 .. m + c
      BY <1>1
    <3>2. e[i] = 0 /\ f[i] = 0 /\ f[i - 1] = 0
      BY <2>1, <3>1
    <3> QED BY <3>2
  <2> HIDE DEF f
  <2>4. Total(e) = f[m + c]
    BY <1>1, <2>2, <2>3, TotalIs
  <2> QED BY <1>2, <2>2, <2>4 DEF e
<1>3. CASE c # 0
  <2> DEFINE g == ShareEnds(sqale, c)
             d == DistributeInt(sqale, c)
             n == m + c
             f == [i \in 0 .. n |-> IF i =< m THEN 0 ELSE g[i - m]]
  <2>1. /\ d \in [1 .. c -> Nat] /\ g \in [0 .. c -> Nat] /\ g[0] = 0 /\ g[c] = sqale
    BY <1>3, Shares
  <2>2. \A i \in 1 .. c : g[i] = g[i - 1] + d[i]
    BY <1>3, Shares
  <2> HIDE DEF g, d
  <2>3. n \in Nat /\ n - m = c /\ ~(n =< m) /\ n \in 0 .. n
    BY <1>3
  <2>4. e = [i \in 1 .. n |-> IF i =< m THEN 0 ELSE d[i - m]]
    BY <1>0 DEF d
  <2>5. \A i \in 1 .. n : ~(i =< m) => i - m \in 1 .. c
    OBVIOUS
  <2>6. e \in [1 .. n -> Int]
    <3> HIDE DEF n
    <3> QED BY <2>1, <2>4, <2>5
  <2>7. \A i \in 0 .. n : ~(i =< m) => i - m \in 0 .. c
    OBVIOUS
  <2>8. f \in [0 .. n -> Int]
    <3> HIDE DEF n
    <3> QED BY <2>1, <2>7
  <2>9. f[0] = 0 /\ f[n] = sqale
    <3> HIDE DEF n
    <3>1. 0 \in 0 .. n /\ 0 =< m
      BY <2>3
    <3> QED BY <2>1, <2>3, <3>1
  <2>10. \A i \in 1 .. n : f[i] = f[i - 1] + e[i]
    <3> TAKE i \in 1 .. n
    <3>1. i \in 0 .. n /\ i - 1 \in 0 .. n /\ i \in Int
      OBVIOUS
    <3>2. CASE i =< m
      <4>1. f[i] = 0 /\ f[i - 1] = 0 /\ e[i] = 0
        BY <2>4, <3>1, <3>2
      <4> QED BY <4>1
    <3>3. CASE i = m + 1
      <4>1. i - m = 1 /\ ~(i =< m) /\ i - 1 =< m /\ 1 \in 1 .. c
        BY <1>3, <3>3
      <4>2. f[i] = g[1] /\ f[i - 1] = 0 /\ e[i] = d[1]
        <5> HIDE DEF n
        <5> QED BY <2>4, <3>1, <4>1
      <4>3. g[1] = g[1 - 1] + d[1] /\ 1 - 1 = 0 /\ d[1] \in Nat
        BY <2>1, <2>2, <4>1
      <4> QED BY <2>1, <4>2, <4>3
    <3>4. CASE i > m + 1
      <4>1. PICK j : j = i - m
        OBVIOUS
      <4>2. j \in 1 .. c /\ i - 1 - m = j - 1 /\ ~(i =< m) /\ ~(i - 1 =< m)
        BY <3>4, <4>1
      <4>3. f[i] = g[j] /\ f[i - 1] = g[j - 1] /\ e[i] = d[j]
        <5> HIDE DEF n
        <5> QED BY <2>4, <3>1, <4>1, <4>2
      <4> QED BY <2>2, <4>2, <4>3
    <3> QED BY <3>2, <3>3, <3>4
  <2> HIDE DEF n, f
  <2>11. Total(e) = f[n]
    BY <2>3, <2>6, <2>8, <2>9, <2>10, TotalIs
  <2> QED BY <1>3, <2>9, <2>11 DEF e
<1> QED BY <1>2, <1>3

\* The issues are as many as the measures say, of their ratings and their debt.
LEMMA IssuesComeOut ==
    ASSUME point \in Point, snapshot.issues = SyntheticIssues(point)
    PROVE  IssuesAddUp
<1> DEFINE p == point
           s == snapshot.issues
           a == p.bugs
           b == p.vulnerabilities
           c == p.code_smells
           n == a + b + c
           bug == p.reliability_rating
           hole == p.security_rating
           severity == [i \in 1 .. n |-> s[i].severity]
           Worst(I) == Max({1} \cup {r \in 1 .. 5 : \E i \in I : s[i].severity = Severity[r]})
<1>1. /\ a \in Nat /\ b \in Nat /\ c \in Nat /\ p.sqale_index \in Nat /\ bug \in 0 .. 5 /\ hole \in 0 .. 5
  BY PointIs
<1>2. /\ DOMAIN s = 1 .. n
      /\ \A i \in 1 .. a : /\ s[i].type = "BUG" /\ s[i].effort = 0
                           /\ s[i].severity = IF i = a THEN RatingToSeverity(bug) ELSE "MINOR"
      /\ \A i \in 1 .. b : /\ s[a + i].type = "VULNERABILITY" /\ s[a + i].effort = 0
                           /\ s[a + i].severity = IF i = b THEN RatingToSeverity(hole) ELSE "MINOR"
      /\ \A i \in 1 .. c : /\ s[a + b + i].type = "CODE_SMELL"
                           /\ s[a + b + i].effort = DistributeInt(p.sqale_index, c)[i]
  BY IssuesAre
<1> HIDE DEF p, s, a, b, c, bug, hole
<1>3. n \in Nat
  BY <1>1
<1>4. \A i \in 1 .. n : \/ i \in 0 + 1 .. 0 + a /\ i \in 1 .. a
                        \/ i \in a + 1 .. a + b /\ i - a \in 1 .. b /\ a + (i - a) = i
                        \/ i \in a + b + 1 .. a + b + c /\ i - (a + b) \in 1 .. c /\ a + b + (i - (a + b)) = i
  BY <1>1
<1>5. \A i \in 1 .. n : \/ i \in 0 + 1 .. 0 + a /\ s[i].type = "BUG"
                        \/ i \in a + 1 .. a + b /\ s[i].type = "VULNERABILITY"
                        \/ i \in a + b + 1 .. a + b + c /\ s[i].type = "CODE_SMELL"
  <2> TAKE i \in 1 .. n
  <2>1. CASE i \in 1 .. a /\ i \in 0 + 1 .. 0 + a
    BY <1>2, <2>1
  <2>2. CASE i \in a + 1 .. a + b /\ i - a \in 1 .. b /\ a + (i - a) = i
    BY <1>2, <2>2
  <2>3. CASE i \in a + b + 1 .. a + b + c /\ i - (a + b) \in 1 .. c /\ a + b + (i - (a + b)) = i
    BY <1>2, <2>3
  <2> QED BY <1>4, <2>1, <2>2, <2>3
<1>6. /\ 0 + 1 .. 0 + a \subseteq 1 .. n /\ a + 1 .. a + b \subseteq 1 .. n
      /\ a + b + 1 .. a + b + c \subseteq 1 .. n
      /\ \A i \in 1 .. n : ~(i \in 0 + 1 .. 0 + a /\ i \in a + 1 .. a + b)
                           /\ ~(i \in 0 + 1 .. 0 + a /\ i \in a + b + 1 .. a + b + c)
                           /\ ~(i \in a + 1 .. a + b /\ i \in a + b + 1 .. a + b + c)
  BY <1>1
<1>7. /\ Issues("BUG") = 0 + 1 .. 0 + a /\ Issues("VULNERABILITY") = a + 1 .. a + b
      /\ Issues("CODE_SMELL") = a + b + 1 .. a + b + c
  <2>1. \A type : Issues(type) = {i \in 1 .. n : s[i].type = type}
    BY <1>2 DEF Issues, s
  <2> DEFINE X == 0 + 1 .. 0 + a
             Y == a + 1 .. a + b
             Z == a + b + 1 .. a + b + c
             N == 1 .. n
  <2>2. /\ X \subseteq N /\ Y \subseteq N /\ Z \subseteq N
        /\ \A i \in N : ~(i \in X /\ i \in Y) /\ ~(i \in X /\ i \in Z) /\ ~(i \in Y /\ i \in Z)
    BY <1>6
  <2>3. \A i \in N : \/ i \in X /\ s[i].type = "BUG"
                     \/ i \in Y /\ s[i].type = "VULNERABILITY"
                     \/ i \in Z /\ s[i].type = "CODE_SMELL"
    BY <1>5
  <2> HIDE DEF X, Y, Z, N
  <2>4. {i \in N : s[i].type = "BUG"} = X
    BY <2>2, <2>3
  <2>5. {i \in N : s[i].type = "VULNERABILITY"} = Y
    BY <2>2, <2>3
  <2>6. {i \in N : s[i].type = "CODE_SMELL"} = Z
    BY <2>2, <2>3
  <2> QED BY <2>1, <2>4, <2>5, <2>6 DEF X, Y, Z, N
<1>8. /\ Cardinality(Issues("BUG")) = a /\ Cardinality(Issues("VULNERABILITY")) = b
      /\ Cardinality(Issues("CODE_SMELL")) = c
  <2>1. \A x, y \in Nat : Cardinality(x + 1 .. x + y) = y
    <3> TAKE x, y \in Nat
    <3>1. x + y \in Nat /\ x =< x + y /\ x + y - x = y
      OBVIOUS
    <3>2. Cardinality(x + 1 .. x + y) = x + y - x
      BY <3>1, IntervalSize
    <3> QED BY <3>1, <3>2
  <2>2. 0 \in Nat /\ a + b \in Nat
    BY <1>1
  <2>3. Cardinality(0 + 1 .. 0 + a) = a
    BY <1>1, <2>1, <2>2
  <2>4. Cardinality(a + 1 .. a + b) = b
    BY <1>1, <2>1
  <2>5. Cardinality(a + b + 1 .. a + b + c) = c
    BY <1>1, <2>1, <2>2
  <2> QED BY <1>7, <2>3, <2>4, <2>5
<1>9. ASSUME a > 0 PROVE RatingAddsUp("BUG", bug)
  <2>1. \A i \in 0 + 1 .. 0 + a :
           severity[i] = IF i = 0 + a THEN RatingToSeverity(bug) ELSE "MINOR"
    <3> TAKE i \in 0 + 1 .. 0 + a
    <3>1. i \in 1 .. n /\ i \in 1 .. a /\ 0 + a = a
      BY <1>1
    <3>2. severity[i] = s[i].severity
      BY <3>1
    <3> HIDE DEF severity
    <3> QED BY <1>2, <3>1, <3>2
  <2>2. a \in Nat \ {0} /\ 0 \in Nat
    BY <1>1, <1>9
  <2>3. \A i \in 0 + 1 .. 0 + a : severity[i] = s[i].severity
    BY <1>6
  <2> HIDE DEF severity
  <2>4. WorstOf(severity, 0 + 1 .. 0 + a) = OfLast(bug, a)
    BY <1>1, <2>1, <2>2, RatingIs
  <2>5. {r \in 1 .. 5 : \E i \in 0 + 1 .. 0 + a : severity[i] = Severity[r]}
          = {r \in 1 .. 5 : \E i \in 0 + 1 .. 0 + a : s[i].severity = Severity[r]}
    BY <2>3
  <2>6. RatingFor("BUG")
          = Max({1} \cup {r \in 1 .. 5 : \E i \in 0 + 1 .. 0 + a : s[i].severity = Severity[r]})
    BY <1>7 DEF RatingFor, s
  <2> QED BY <1>8, <2>4, <2>5, <2>6 DEF RatingAddsUp, WorstOf, OfLast
<1>10. ASSUME b > 0 PROVE RatingAddsUp("VULNERABILITY", hole)
  <2>1. \A i \in a + 1 .. a + b :
           severity[i] = IF i = a + b THEN RatingToSeverity(hole) ELSE "MINOR"
    <3> TAKE i \in a + 1 .. a + b
    <3>1. PICK j : j = i - a
      OBVIOUS
    <3>2. i \in 1 .. n /\ j \in 1 .. b /\ a + j = i /\ (i = a + b <=> j = b)
      BY <1>1, <3>1
    <3>3. severity[i] = s[i].severity
      BY <3>2
    <3>4. s[a + j].severity = IF j = b THEN RatingToSeverity(hole) ELSE "MINOR"
      BY <1>2, <3>2
    <3> HIDE DEF severity
    <3> QED BY <3>2, <3>3, <3>4
  <2>2. b \in Nat \ {0}
    BY <1>1, <1>10
  <2>3. \A i \in a + 1 .. a + b : severity[i] = s[i].severity
    BY <1>6
  <2> HIDE DEF severity
  <2>4. WorstOf(severity, a + 1 .. a + b) = OfLast(hole, b)
    BY <1>1, <2>1, <2>2, RatingIs
  <2>5. {r \in 1 .. 5 : \E i \in a + 1 .. a + b : severity[i] = Severity[r]}
          = {r \in 1 .. 5 : \E i \in a + 1 .. a + b : s[i].severity = Severity[r]}
    BY <2>3
  <2>6. RatingFor("VULNERABILITY")
          = Max({1} \cup {r \in 1 .. 5 : \E i \in a + 1 .. a + b : s[i].severity = Severity[r]})
    BY <1>7 DEF RatingFor, s
  <2> QED BY <1>8, <2>4, <2>5, <2>6 DEF RatingAddsUp, WorstOf, OfLast
<1>11. Total([i \in DOMAIN s |-> s[i].effort]) = IF c = 0 THEN 0 ELSE p.sqale_index
  <2> DEFINE m == a + b
             e == [i \in DOMAIN s |-> s[i].effort]
  <2>1. \A i \in 1 .. n : s[i].effort = IF i =< m THEN 0 ELSE DistributeInt(p.sqale_index, c)[i - m]
    <3> TAKE i \in 1 .. n
    <3>1. CASE i \in 1 .. a
      <4>1. i =< m
        BY <1>1, <3>1
      <4> HIDE DEF m
      <4> QED BY <1>2, <3>1, <4>1
    <3>2. CASE i \in a + 1 .. a + b /\ i - a \in 1 .. b /\ a + (i - a) = i
      <4>1. i =< m
        BY <1>1, <3>2
      <4>2. s[i].effort = 0
        BY <1>2, <3>2
      <4> HIDE DEF m
      <4> QED BY <4>1, <4>2
    <3>3. CASE i \in a + b + 1 .. a + b + c /\ i - (a + b) \in 1 .. c /\ a + b + (i - (a + b)) = i
      <4>1. ~(i =< m)
        BY <1>1, <3>3
      <4>2. s[i].effort = DistributeInt(p.sqale_index, c)[i - (a + b)]
        BY <1>2, <3>3
      <4> QED BY <4>1, <4>2
    <3> QED BY <1>4, <3>1, <3>2, <3>3
  <2>2. m \in Nat /\ n = m + c
    BY <1>1
  <2> HIDE DEF m
  <2>3. e = EffortsAre(m, c, p.sqale_index)
    BY <1>2, <2>1, <2>2 DEF EffortsAre
  <2> HIDE DEF e
  <2>4. Total(e) = IF c = 0 THEN 0 ELSE p.sqale_index
    BY <1>1, <2>2, <2>3, EffortsAddUp
  <2> QED BY <2>4 DEF e
<1> QED BY <1>8, <1>9, <1>10, <1>11 DEF IssuesAddUp, p, s, a, b, c, bug, hole

\* The lines exist.
LEMMA LinesAre ==
    ASSUME NEW p \in Point
    PROVE  LET n == LineCount(p)
           IN  n \in Nat /\ n >= 1 /\ n >= p.lines_to_cover /\ n >= p.duplicated_lines
<1> DEFINE S == {1, p.lines, p.ncloc, p.lines_to_cover, p.duplicated_lines}
<1>1. S \in SUBSET Nat
  BY PointIs
<1>2. IsFiniteSet(S)
  <2>1. \A x : IsFiniteSet({x})
    BY FS_Singleton
  <2>2. IsFiniteSet({1} \cup {p.lines})
    BY <2>1, FS_Union
  <2>3. IsFiniteSet(({1} \cup {p.lines}) \cup {p.ncloc})
    BY <2>1, <2>2, FS_Union
  <2>4. IsFiniteSet((({1} \cup {p.lines}) \cup {p.ncloc}) \cup {p.lines_to_cover})
    BY <2>1, <2>3, FS_Union
  <2>5. IsFiniteSet(((({1} \cup {p.lines}) \cup {p.ncloc}) \cup {p.lines_to_cover})
                      \cup {p.duplicated_lines})
    BY <2>1, <2>4, FS_Union
  <2>6. S = ((({1} \cup {p.lines}) \cup {p.ncloc}) \cup {p.lines_to_cover}) \cup {p.duplicated_lines}
    OBVIOUS
  <2> QED BY <2>5, <2>6
<1>3. 1 \in S /\ p.lines_to_cover \in S /\ p.duplicated_lines \in S
  OBVIOUS
<1> HIDE DEF S
<1>4. S \in SUBSET Int
  BY <1>1
<1>5. \E x \in S : \A y \in S : y =< x
  BY <1>2, <1>3, <1>4, GreatestElement
<1>6. PICK x \in S : \A y \in S : y =< x
  BY <1>5
<1>7. Max(S) = x
  BY <1>4, <1>6, GreatestIs
<1>8. LineCount(p) = Max(S)
  BY DEF LineCount, S
<1> QED BY <1>1, <1>3, <1>6, <1>7, <1>8

\* The report of a point.
SnapshotOf(p) == [lines |-> LineCount(p), coverage |-> LineCoverage(p),
                  duplication |-> Duplication(p), issues |-> SyntheticIssues(p)]

\* The inductive invariant.
HistoryIInv == point \in Point /\ (snapshot = NoSnapshot \/ snapshot = SnapshotOf(point))

\* The invariant says all that SnapshotAddsUp claims.
LEMMA HistoryHolds == HistoryIInv => SnapshotAddsUp
<1> SUFFICES ASSUME HistoryIInv, snapshot # NoSnapshot
             PROVE  CoverageAddsUp /\ DuplicationAddsUp /\ LinesExist /\ IssuesAddUp
  BY DEF SnapshotAddsUp
<1>1. /\ point \in Point /\ snapshot.lines = LineCount(point)
      /\ snapshot.coverage = LineCoverage(point) /\ snapshot.duplication = Duplication(point)
      /\ snapshot.issues = SyntheticIssues(point)
  BY DEF HistoryIInv, SnapshotOf
<1>2. CoverageAddsUp
  BY <1>1, CoverageIs DEF CoverageAddsUp
<1>3. DuplicationAddsUp
  BY <1>1, DuplicationIs DEF DuplicationAddsUp
<1>4. LinesExist
  <2>1. /\ Len(snapshot.coverage) \in Nat
        /\ Len(snapshot.coverage) =< point.lines_to_cover \/ Len(snapshot.coverage) = 1
    BY <1>1, CoverageIs
  <2>2. snapshot.lines \in Nat /\ snapshot.lines >= 1 /\ snapshot.lines >= point.lines_to_cover
        /\ snapshot.lines >= point.duplicated_lines
        /\ point.lines_to_cover \in Nat /\ point.duplicated_lines \in Nat
    BY <1>1, LinesAre, PointIs
  <2>3. Len(snapshot.coverage) <= snapshot.lines
    <3>1. \A x, y, z \in Nat : (x =< y \/ x = 1) /\ z >= 1 /\ z >= y => x <= z
      OBVIOUS
    <3> QED BY <2>1, <2>2, <3>1
  <2>4. ASSUME NEW i \in DOMAIN snapshot.duplication
        PROVE  snapshot.duplication[i].end <= snapshot.lines
    <3>1. CASE point.duplicated_lines < 2 \/ point.duplicated_blocks < 2
      <4>1. snapshot.duplication = <<>>
        BY <1>1, <3>1, DuplicationIs
      <4> QED BY <2>4, <4>1
    <3>2. CASE ~(point.duplicated_lines < 2 \/ point.duplicated_blocks < 2)
      <4>1. snapshot.duplication[i].end =< point.duplicated_lines
        BY <1>1, <2>4, <3>2, DuplicationIs
      <4>2. snapshot.duplication[i].end \in Nat
        BY <1>1, <2>4, <3>2, DuplicationIs
      <4> QED BY <2>2, <4>1, <4>2
    <3> QED BY <3>1, <3>2
  <2> QED BY <2>3, <2>4 DEF LinesExist
<1>5. IssuesAddUp
  BY <1>1, IssuesComeOut
<1> QED BY <1>2, <1>3, <1>4, <1>5

(***************************************************************************)
(* For any measures of a point, the report made up for it adds up to them: *)
(* lines, covered lines, conditions, duplicated lines and blocks, issues by *)
(* type, their efforts and what each rating is computed from.              *)
(***************************************************************************)
THEOREM SnapshotsAddUp == HistorySpec => []SnapshotAddsUp
<1>1. HistoryInit => HistoryIInv
  BY DEF HistoryInit, HistoryIInv
<1>2. HistoryIInv /\ [HistoryNext]_pvars => HistoryIInv'
  BY DEF HistoryIInv, HistoryNext, BuildSnapshot, pvars, SnapshotOf, LineCount
<1>3. HistoryIInv => SnapshotAddsUp
  BY HistoryHolds
<1> QED BY <1>1, <1>2, <1>3, PTL DEF HistorySpec

-----------------------------------------------------------------------------
(* Issue slicing.  Each call of the recursion is about a region of issues: *)
(* those with a second in its window and the values of its cell.  The      *)
(* regions of the pending calls are disjoint and hold nothing fetched, so  *)
(* nothing comes twice.  As long as no issue is born, what is lost so far is *)
(* no more than the issues of the start neither fetched nor in a pending   *)
(* region; as long as no request failed either, it is no less than those of *)
(* them that are still there.  So the last step can make the sum exact, and *)
(* what is missing at the end is on record.  That no window is dropped takes *)
(* the span of the range: each bisection halves it, and MaxDepth is more   *)
(* bisections than it takes to get to one second.  SlicingIInv has the types *)
(* (SliceTypes, WalkTypes, Fresh), the regions (ApartInv), the check of the *)
(* dates (CaughtInv), the losses from above and below (CalmInv, SmoothInv) *)
(* and what goes on record (Recorded).                                     *)

\* The constants, as the provers need them.
LEMMA SliceConstants ==
    /\ IsFiniteSet(Issue) /\ Issue \in SUBSET Int
    /\ ResultCeiling \in Nat \ {0} /\ MaxDepth \in Nat \ {0} /\ MaxBuckets \in Nat \ {0}
    /\ Today \in Nat /\ MaxMoves \in Nat /\ MaxTroubles \in Nat
    /\ Cardinality(Issue) \in Nat
<1>1. /\ IsFiniteSet(Issue) /\ Issue \in SUBSET Nat
      /\ {ResultCeiling, MaxDepth, MaxBuckets} \subseteq Nat \ {0}
      /\ {Today, MaxMoves, MaxTroubles} \subseteq Nat
  BY SlicingAssumption
<1>2. Cardinality(Issue) \in Nat
  BY <1>1, FS_CardinalityType
<1> QED BY <1>1, <1>2

\* Sets of issues are finite.
LEMMA IssueSets ==
    ASSUME NEW S \in SUBSET Issue
    PROVE  IsFiniteSet(S) /\ Cardinality(S) \in 0 .. Cardinality(Issue) /\ Cardinality(S) \in Nat
<1>1. IsFiniteSet(S) /\ Cardinality(S) =< Cardinality(Issue)
  BY SliceConstants, FS_Subset
<1>2. Cardinality(S) \in Nat
  BY <1>1, FS_CardinalityType
<1> QED BY <1>1, <1>2, SliceConstants

\* A part of a set of issues, and what is left of it.
LEMMA IssueParts ==
    ASSUME NEW S \in SUBSET Issue, NEW T \in SUBSET S
    PROVE  /\ Cardinality(T) =< Cardinality(S) /\ Cardinality(S \ T) = Cardinality(S) - Cardinality(T)
           /\ Cardinality(T) = Cardinality(S) => T = S
<1>1. IsFiniteSet(S) /\ IsFiniteSet(T) /\ IsFiniteSet(S \ T)
  BY IssueSets
<1>2. Cardinality(T) =< Cardinality(S) /\ (Cardinality(T) = Cardinality(S) => T = S)
  BY <1>1, FS_Subset
<1>3. Cardinality(T \cup (S \ T)) = Cardinality(T) + Cardinality(S \ T) - Cardinality(T \cap (S \ T))
  BY <1>1, FS_Union
<1>4. T \cup (S \ T) = S /\ T \cap (S \ T) = {} /\ Cardinality({}) = 0
  BY FS_EmptySet
<1>5. Cardinality(T) \in Nat /\ Cardinality(S \ T) \in Nat
  BY IssueSets
<1>6. Cardinality(S) = Cardinality(T) + Cardinality(S \ T)
  <2>1. Cardinality(S) = Cardinality(T) + Cardinality(S \ T) - 0
    BY <1>3, <1>4, Zenon
  <2> QED BY <2>1, <1>5
<1>7. Cardinality(S \ T) = Cardinality(S) - Cardinality(T)
  BY <1>5, <1>6
<1> QED BY <1>2, <1>7

\* The parts of a set are as many as the whole.
LEMMA IssueUnion ==
    ASSUME NEW S \in SUBSET Issue, NEW T \in SUBSET Issue, S \cap T = {}
    PROVE  Cardinality(S \cup T) = Cardinality(S) + Cardinality(T)
<1>1. IsFiniteSet(S) /\ IsFiniteSet(T)
  BY IssueSets
<1>2. Cardinality(S \cup T) = Cardinality(S) + Cardinality(T) - Cardinality(S \cap T)
  BY <1>1, FS_Union
<1>3. S \cap T = {} /\ Cardinality({}) = 0
  BY FS_EmptySet
<1>4. Cardinality(S \cap T) = 0
  BY <1>3
<1>5. Cardinality(S) \in Nat /\ Cardinality(T) \in Nat
  BY IssueSets
<1> QED BY <1>2, <1>4, <1>5

\* A capped fetch returns no more than the ceiling.
LEMMA FirstOfFits ==
    ASSUME NEW S \in SUBSET Issue
    PROVE  FirstOf(S) \in SUBSET S /\ Cardinality(FirstOf(S)) =< ResultCeiling
<1> DEFINE F == FirstOf(S)
           Before(i) == {j \in S : j < i}
<1>1. F \in SUBSET S /\ \A i \in F : Cardinality(Before(i)) < ResultCeiling
  BY DEF FirstOf
<1>2. F \in SUBSET Issue /\ IsFiniteSet(F) /\ Cardinality(F) \in Nat /\ F \in SUBSET Int
  BY <1>1, IssueSets, SliceConstants
<1> HIDE DEF F
<1>3. CASE F = {}
  BY <1>1, <1>3, FS_EmptySet, SliceConstants DEF F
<1>4. CASE F # {}
  <2>1. PICK g \in F : \A i \in F : i =< g
    BY <1>2, <1>4, GreatestElement
  <2>2. F \ {g} \in SUBSET Before(g)
    BY <1>1, <1>2, <2>1
  <2>3. Before(g) \in SUBSET Issue /\ Cardinality(Before(g)) < ResultCeiling
    BY <1>1
  <2>4. Cardinality(F \ {g}) = Cardinality(F) - 1
    BY <1>2, FS_RemoveElement
  <2> HIDE DEF Before
  <2>5. Cardinality(F \ {g}) =< Cardinality(Before(g)) /\ Cardinality(Before(g)) \in Nat
    BY <2>2, <2>3, IssueParts, IssueSets
  <2>6. Cardinality(F) =< ResultCeiling
    BY <1>2, <2>3, <2>4, <2>5, SliceConstants
  <2> QED BY <1>1, <2>6 DEF F
<1> QED BY <1>3, <1>4

\* A capped fetch returns all it can.
LEMMA FirstOfFills ==
    ASSUME NEW S \in SUBSET Issue
    PROVE  FirstOf(S) = S \/ Cardinality(FirstOf(S)) >= ResultCeiling
<1> DEFINE F == FirstOf(S)
           Before(i) == {j \in S : j < i}
           R == S \ F
<1>1. F \in SUBSET S /\ \A i \in R : ~(Cardinality(Before(i)) < ResultCeiling)
  BY DEF FirstOf
<1>2. F \in SUBSET Issue /\ R \in SUBSET Issue
  BY <1>1
<1>3. IsFiniteSet(R) /\ R \in SUBSET Int /\ Cardinality(F) \in Nat
  BY <1>2, IssueSets, SliceConstants
<1> HIDE DEF F
<1>4. CASE R = {}
  BY <1>1, <1>4 DEF F
<1>5. CASE R # {}
  <2> HIDE DEF R
  <2>1. PICK g \in R : \A i \in R : g =< i
    BY <1>3, <1>5, LeastElement
  <2>2. Before(g) \in SUBSET F
    <3> SUFFICES ASSUME NEW j \in S, j < g, j \notin F PROVE FALSE
      OBVIOUS
    <3>1. j \in R /\ g =< j /\ g \in Int /\ j \in Int
      BY <1>3, <2>1 DEF R
    <3> QED BY <3>1
  <2>3. ~(Cardinality(Before(g)) < ResultCeiling)
    BY <1>1, <2>1
  <2> HIDE DEF Before
  <2>4. Cardinality(Before(g)) =< Cardinality(F) /\ Cardinality(Before(g)) \in Nat
    <3>1. Before(g) \in SUBSET Issue
      BY <1>2, <2>2
    <3> QED BY <1>2, <2>2, <3>1, IssueParts, IssueSets
  <2>5. Cardinality(F) >= ResultCeiling
    BY <1>3, <2>3, <2>4, SliceConstants
  <2> QED BY <2>5 DEF F
<1> QED BY <1>4, <1>5

\* Lesser and greater of two.
LEMMA TwoInts ==
    ASSUME NEW a \in Int, NEW b \in Int
    PROVE  /\ Min({a, b}) = (IF a =< b THEN a ELSE b)
           /\ Max({a, b}) = (IF a =< b THEN b ELSE a)
<1>1. (IF a =< b THEN a ELSE b) \in {a, b} /\ \A y \in {a, b} : (IF a =< b THEN a ELSE b) =< y
  OBVIOUS
<1>2. (IF a =< b THEN b ELSE a) \in {a, b} /\ \A y \in {a, b} : (IF a =< b THEN b ELSE a) >= y
  OBVIOUS
<1>3. Min({a, b}) \in {a, b} /\ \A y \in {a, b} : Min({a, b}) =< y
  BY <1>1 DEF Min
<1>4. Max({a, b}) \in {a, b} /\ \A y \in {a, b} : Max({a, b}) >= y
  BY <1>2 DEF Max
<1> QED BY <1>3, <1>4

\* The ends of an interval.
LEMMA IntervalEnds ==
    ASSUME NEW a \in Int, NEW b \in Int, a =< b
    PROVE  Min(a .. b) = a /\ Max(a .. b) = b
<1>1. a \in a .. b /\ \A y \in a .. b : a =< y
  OBVIOUS
<1>2. b \in a .. b /\ \A y \in a .. b : b >= y
  OBVIOUS
<1>3. Min(a .. b) \in a .. b /\ \A y \in a .. b : Min(a .. b) =< y
  BY <1>1 DEF Min
<1>4. Max(a .. b) \in a .. b /\ \A y \in a .. b : Max(a .. b) >= y
  BY <1>2 DEF Max
<1>5. Min(a .. b) = a
  BY <1>1, <1>3
<1>6. Max(a .. b) = b
  BY <1>2, <1>4
<1> QED BY <1>5, <1>6

\* The dates of issues.
LEMMA SecondsAre ==
    ASSUME project \in SlicedProjects, NEW S \in SUBSET Issue
    PROVE  /\ \A i \in Issue : Second(i) \in 0 .. Today
           /\ S # {} => /\ Oldest(S) \in 0 .. Today /\ Newest(S) \in 0 .. Today
                        /\ \A i \in S : Oldest(S) =< Second(i) /\ Second(i) =< Newest(S)
<1>1. project.second \in [Issue -> 0 .. Today]
  BY SlicingAssumption
<1>2. \A i \in Issue : Second(i) \in 0 .. Today
  BY <1>1 DEF Second
<1>3. ASSUME S # {}
      PROVE  /\ Oldest(S) \in 0 .. Today /\ Newest(S) \in 0 .. Today
             /\ \A i \in S : Oldest(S) =< Second(i) /\ Second(i) =< Newest(S)
  <2> DEFINE T == {Second(i) : i \in S}
  <2>1. T \in SUBSET (0 .. Today) /\ T # {} /\ \A i \in S : Second(i) \in T
    BY <1>2, <1>3
  <2>2. Oldest(S) = Min(T) /\ Newest(S) = Max(T)
    BY DEF Oldest, Newest
  <2> HIDE DEF T
  <2>3. IsFiniteSet(T)
    <3>1. IsFiniteSet(0 .. Today)
      BY SliceConstants, FS_Interval
    <3> QED BY <2>1, <3>1, FS_Subset
  <2>4. T \in SUBSET Int
    BY <2>1, SliceConstants
  <2>5. (\E x \in T : \A y \in T : x =< y) /\ (\E x \in T : \A y \in T : y =< x)
    BY <2>1, <2>3, <2>4, LeastElement, GreatestElement
  <2>6. Min(T) \in T /\ \A y \in T : Min(T) =< y
    BY <2>5 DEF Min
  <2>7. \E x \in T : \A y \in T : x >= y
    BY <2>4, <2>5
  <2>8. Max(T) \in T /\ \A y \in T : Max(T) >= y
    BY <2>7 DEF Max
  <2>9. \A y \in T : y =< Max(T)
    BY <2>4, <2>8
  <2> QED BY <2>1, <2>2, <2>6, <2>8, <2>9
<1> QED BY <1>2, <1>3

\* How much there is left to cut, and that MaxDepth is never reached.
LEMMA SpanIs ==
    /\ Span \in [0 .. MaxDepth -> Nat] /\ Span[0] = Today /\ Span[MaxDepth - 1] = 0
    /\ \A d \in 0 .. MaxDepth - 1 : Span[d + 1] = Span[d] \div 2
<1> DEFINE next == [x \in (0 .. MaxDepth) \X Nat |-> x[2] \div 2]
           Def(g) == [d \in 0 .. MaxDepth |-> IF d = 0 THEN Today ELSE g[d - 1] \div 2]
<1>1. next \in [(0 .. MaxDepth) \X Nat -> Nat]
  OBVIOUS
<1>2. \A i \in 0 .. MaxDepth, v \in Nat : next[<<i, v>>] = v \div 2
  OBVIOUS
<1> HIDE DEF next
<1>3. PICK f \in [0 .. MaxDepth -> Nat] : Loop(f, 0, MaxDepth, Today, next)
  <2>1. 0 \in Int /\ MaxDepth \in Int /\ Today \in Nat
    BY SliceConstants
  <2> QED BY <1>1, <2>1, Recursion
<1>4. \A d \in 0 .. MaxDepth : f[d] = IF d = 0 THEN Today ELSE f[d - 1] \div 2
  <2> SUFFICES ASSUME NEW d \in 0 .. MaxDepth PROVE f[d] = IF d = 0 THEN Today ELSE f[d - 1] \div 2
    OBVIOUS
  <2>1. f[d] = IF d = 0 THEN Today ELSE next[<<d, f[d - 1]>>]
    BY <1>3 DEF Loop
  <2>2. CASE d = 0
    BY <2>1, <2>2
  <2>3. CASE d # 0
    <3>1. d - 1 \in 0 .. MaxDepth
      BY <2>3, SliceConstants
    <3>2. f[d - 1] \in Nat
      BY <3>1
    <3>3. next[<<d, f[d - 1]>>] = f[d - 1] \div 2
      BY <1>2, <3>2
    <3> QED BY <2>1, <2>3, <3>3
  <2> QED BY <2>2, <2>3
<1>5. f = Def(f)
  <2>1. f = [d \in 0 .. MaxDepth |-> f[d]]
    OBVIOUS
  <2>2. [d \in 0 .. MaxDepth |-> f[d]] = Def(f)
    BY <1>4
  <2> QED BY <2>1, <2>2
<1>6. Span = CHOOSE g : g = Def(g)
  BY DEF Span
<1>7. Span = Def(Span)
  <2> HIDE DEF Def
  <2> QED BY <1>5, <1>6
<1>8. \A d \in 0 .. MaxDepth : Span[d] = IF d = 0 THEN Today ELSE Span[d - 1] \div 2
  BY <1>7
<1>9. \A d \in 0 .. MaxDepth : Span[d] = f[d]
  <2> DEFINE S == {d \in 0 .. MaxDepth : Span[d] = f[d]}
  <2>1. 0 \in S
    BY <1>4, <1>8, SliceConstants
  <2>2. ASSUME NEW d \in 0 .. MaxDepth - 1, d \in S PROVE d + 1 \in S
    <3>1. d + 1 \in 0 .. MaxDepth /\ d + 1 # 0 /\ d + 1 - 1 = d
      BY <2>2, SliceConstants
    <3> QED BY <1>4, <1>8, <2>2, <3>1
  <2>3. 0 .. MaxDepth \subseteq S
    <3>1. 0 \in Int /\ MaxDepth \in Int
      BY SliceConstants
    <3> HIDE DEF S
    <3> QED BY <2>1, <2>2, <3>1, Counting
  <2> QED BY <2>3
<1>10. Span \in [0 .. MaxDepth -> Nat]
  <2>1. Span = [d \in 0 .. MaxDepth |-> Span[d]]
    BY <1>7
  <2> QED BY <1>9, <2>1
<1>11. \A d \in 0 .. MaxDepth - 1 : Span[d + 1] = Span[d] \div 2
  <2> TAKE d \in 0 .. MaxDepth - 1
  <2>1. d + 1 \in 0 .. MaxDepth /\ d + 1 # 0 /\ d + 1 - 1 = d
    BY SliceConstants
  <2> QED BY <1>8, <2>1
<1>12. Span[0] = Today
  BY <1>8, SliceConstants
<1> QED BY <1>10, <1>11, <1>12, DepthAssumption

-----------------------------------------------------------------------------
\* The calls of the walk, and the issues each is about.
Doings == {"window", "fetch", "atomic", "close", "facets", "cell", "give up"}
Windows == [lo : 0 .. Today + 1, hi : 0 .. Today + 1, openLo : BOOLEAN, openHi : BOOLEAN]
Filtered == {{}, {"kind"}, {"kind", "rule"}, {"kind", "rule", "file"}}
FacetValues == {p.facet[f][i] : p \in SlicedProjects, f \in {"kind", "rule", "file"}, i \in Issue}
Cells == UNION {[D -> FacetValues] : D \in Filtered}
Closed(w) == ~w.openLo /\ ~w.openHi

SliceFits(c) ==
    /\ c.w.lo < c.w.hi
    /\ c.do = "atomic" => ~Closed(c.w) /\ c.w.hi = c.w.lo + 1 /\ c.depth < MaxDepth
    /\ c.do \in {"close", "facets", "cell", "give up"} => Closed(c.w) /\ c.w.hi = c.w.lo + 1
    /\ c.do \in {"window", "fetch", "atomic", "close"} => c.cell = NoCell

CallType == [do : Doings, w : Windows, cell : Cells, total : 0 .. Cardinality(Issue),
             depth : 0 .. MaxDepth]
Calls == {c \in CallType : SliceFits(c)}

Region(p, c) == {i \in Issue : /\ In(p.second[i], c.w)
                               /\ \A f \in DOMAIN c.cell : p.facet[f][i] = c.cell[f]}

Disjoint(p, calls) ==
    \A m, n \in DOMAIN calls : m # n => Region(p, calls[m]) \cap Region(p, calls[n]) = {}

Pending(p, calls) == UNION {Region(p, calls[n]) : n \in DOMAIN calls}

\* While no issue is born: a window keeps to the range it was cut
\* from, few bisections lie behind it, and a second was at least as full.
Settled(p, rt, c) ==
    /\ c.w.openLo => c.w.lo = rt.lo
    /\ c.w.openHi => c.w.hi = rt.hi
    /\ c.do = "window" => c.depth < MaxDepth /\ c.w.hi - c.w.lo - 1 =< Span[c.depth]
    /\ c.do \in {"facets", "cell", "give up"} => c.total =< Cardinality(p.atFirst \cap Region(p, c))

\* The range the walk starts from is that of the issues there.
Covers(p, rt, issues) == \A i \in issues : rt.lo =< p.second[i] /\ p.second[i] < rt.hi

\* And as long as no request failed, a second is no fuller than was counted.
Tallied(p, issues, c) ==
    c.do \in {"facets", "give up"} => Cardinality(issues \cap Region(p, c)) =< c.total

AllTallied(p, issues, calls) == \A n \in DOMAIN calls : Tallied(p, issues, calls[n])

AllSettled(p, rt, calls) == \A n \in DOMAIN calls : Settled(p, rt, calls[n])

\* Where the calls of the new stack come from.
LEMMA CallsArrive ==
    ASSUME NEW s \in Seq(Calls), s # <<>>, NEW calls \in Seq(Calls)
    PROVE  /\ Head(s) \in Calls /\ Tail(s) \in Seq(Calls) /\ calls \o Tail(s) \in Seq(Calls)
           /\ \A n \in DOMAIN (calls \o Tail(s)) :
                 \/ n \in DOMAIN calls /\ (calls \o Tail(s))[n] = calls[n]
                 \/ /\ n \notin DOMAIN calls /\ n - Len(calls) + 1 \in DOMAIN s \ {1}
                    /\ (calls \o Tail(s))[n] = s[n - Len(calls) + 1]
           /\ 1 \in DOMAIN s /\ s[1] = Head(s)
<1>1. Head(s) \in Calls /\ Tail(s) \in Seq(Calls) /\ 1 \in DOMAIN s /\ s[1] = Head(s)
  OBVIOUS
<1>2. calls \o Tail(s) \in Seq(Calls)
  BY <1>1
<1>3. /\ Len(s) \in Nat \ {0} /\ DOMAIN s = 1 .. Len(s) /\ Len(Tail(s)) = Len(s) - 1
      /\ \A k \in 1 .. Len(s) - 1 : Tail(s)[k] = s[k + 1]
      /\ Len(calls) \in Nat /\ DOMAIN calls = 1 .. Len(calls)
  OBVIOUS
<1> DEFINE t == Tail(s)
           k == Len(calls)
<1>4. /\ DOMAIN (calls \o t) = 1 .. (k + Len(t))
      /\ \A n \in 1 .. (k + Len(t)) : (calls \o t)[n] = IF n =< k THEN calls[n] ELSE t[n - k]
  BY <1>1
<1> HIDE DEF t, k
<1>5. ASSUME NEW n \in DOMAIN (calls \o t)
      PROVE  \/ n \in DOMAIN calls /\ (calls \o t)[n] = calls[n]
             \/ /\ n \notin DOMAIN calls /\ n - k + 1 \in DOMAIN s \ {1}
                /\ (calls \o t)[n] = s[n - k + 1]
  <2>1. n \in 1 .. (k + Len(t)) /\ k \in Nat /\ Len(t) = Len(s) - 1
    BY <1>3, <1>4 DEF k, t
  <2>2. CASE n =< k
    <3>1. n \in 1 .. k
      BY <2>1, <2>2
    <3> QED BY <1>3, <1>4, <2>1, <2>2, <3>1 DEF k
  <2>3. CASE ~(n =< k)
    <3>1. n - k \in 1 .. Len(s) - 1 /\ n - k + 1 \in 1 .. Len(s) /\ n - k + 1 # 1 /\ n \notin 1 .. k
      BY <1>3, <2>1, <2>3
    <3>2. t[n - k] = s[n - k + 1]
      BY <1>3, <3>1 DEF t
    <3> QED BY <1>3, <1>4, <2>1, <2>3, <3>1, <3>2 DEF k
  <2> QED BY <2>2, <2>3
<1> QED BY <1>1, <1>2, <1>5 DEF t, k

\* Calls in place of the first one, about parts of its issues.
LEMMA PartsStayApart ==
    ASSUME NEW p, NEW s \in Seq(Calls), s # <<>>, NEW calls \in Seq(Calls),
           Disjoint(p, s), Disjoint(p, calls),
           \A n \in DOMAIN calls : Region(p, calls[n]) \subseteq Region(p, Head(s))
    PROVE  Disjoint(p, calls \o Tail(s)) /\ Pending(p, calls \o Tail(s)) \subseteq Pending(p, s)
<1> DEFINE new == calls \o Tail(s)
           From(n) == n - Len(calls) + 1
<1>1. /\ 1 \in DOMAIN s /\ s[1] = Head(s)
      /\ \A n \in DOMAIN new : \/ n \in DOMAIN calls /\ new[n] = calls[n]
                               \/ n \notin DOMAIN calls /\ From(n) \in DOMAIN s \ {1} /\ new[n] = s[From(n)]
  BY CallsArrive
<1>2. \A m, n \in DOMAIN new : From(m) = From(n) => m = n
  <2>1. DOMAIN new \subseteq Int /\ Len(calls) \in Int
    OBVIOUS
  <2> HIDE DEF new
  <2> QED BY <2>1
<1> HIDE DEF new, From
<1>3. ASSUME NEW m \in DOMAIN new, NEW n \in DOMAIN new, m # n
      PROVE  Region(p, new[m]) \cap Region(p, new[n]) = {}
  <2>1. CASE m \in DOMAIN calls /\ n \in DOMAIN calls
    <3>1. new[m] = calls[m] /\ new[n] = calls[n]
      BY <1>1, <2>1
    <3> QED BY <1>3, <2>1, <3>1 DEF Disjoint
  <2>2. CASE m \in DOMAIN calls /\ n \notin DOMAIN calls
    <3>1. new[m] = calls[m] /\ new[n] = s[From(n)] /\ From(n) \in DOMAIN s \ {1}
      BY <1>1, <2>2
    <3>2. Region(p, s[1]) \cap Region(p, s[From(n)]) = {}
      BY <1>1, <3>1 DEF Disjoint
    <3>3. Region(p, calls[m]) \subseteq Region(p, s[1])
      BY <1>1, <2>2
    <3> QED BY <3>1, <3>2, <3>3
  <2>3. CASE m \notin DOMAIN calls /\ n \in DOMAIN calls
    <3>1. new[n] = calls[n] /\ new[m] = s[From(m)] /\ From(m) \in DOMAIN s \ {1}
      BY <1>1, <2>3
    <3>2. Region(p, s[1]) \cap Region(p, s[From(m)]) = {}
      BY <1>1, <3>1 DEF Disjoint
    <3>3. Region(p, calls[n]) \subseteq Region(p, s[1])
      BY <1>1, <2>3
    <3> QED BY <3>1, <3>2, <3>3
  <2>4. CASE m \notin DOMAIN calls /\ n \notin DOMAIN calls
    <3>1. /\ new[m] = s[From(m)] /\ From(m) \in DOMAIN s
          /\ new[n] = s[From(n)] /\ From(n) \in DOMAIN s
      BY <1>1, <2>4
    <3>2. From(m) # From(n)
      BY <1>2, <1>3
    <3> QED BY <3>1, <3>2 DEF Disjoint
  <2> QED BY <2>1, <2>2, <2>3, <2>4
<1>4. ASSUME NEW n \in DOMAIN new PROVE \E m \in DOMAIN s : Region(p, new[n]) \subseteq Region(p, s[m])
  <2>1. CASE n \in DOMAIN calls
    BY <1>1, <2>1
  <2>2. CASE n \notin DOMAIN calls
    BY <1>1, <2>2
  <2> QED BY <2>1, <2>2
<1>5. Disjoint(p, new)
  BY <1>3 DEF Disjoint
<1>6. Pending(p, new) \subseteq Pending(p, s)
  BY <1>4 DEF Pending
<1> QED BY <1>5, <1>6 DEF new

\* The first call is made.
LEMMA FirstIsMade ==
    ASSUME NEW p, NEW s \in Seq(Calls), s # <<>>, Disjoint(p, s)
    PROVE  /\ Tail(s) \in Seq(Calls) /\ Disjoint(p, Tail(s))
           /\ Pending(p, s) = Region(p, Head(s)) \cup Pending(p, Tail(s))
           /\ Region(p, Head(s)) \cap Pending(p, Tail(s)) = {}
<1>1. /\ Len(s) \in Nat \ {0} /\ DOMAIN s = 1 .. Len(s) /\ Len(Tail(s)) = Len(s) - 1
      /\ DOMAIN Tail(s) = 1 .. Len(s) - 1 /\ Tail(s) \in Seq(Calls) /\ Head(s) = s[1]
      /\ \A k \in 1 .. Len(s) - 1 : Tail(s)[k] = s[k + 1]
  OBVIOUS
<1>2. \A k \in DOMAIN Tail(s) : k + 1 \in DOMAIN s /\ k + 1 # 1 /\ Tail(s)[k] = s[k + 1]
  BY <1>1
<1>3. \A n \in DOMAIN s : n = 1 \/ (n - 1 \in DOMAIN Tail(s) /\ Tail(s)[n - 1] = s[n])
  BY <1>1
<1>4. 1 \in DOMAIN s
  BY <1>1
<1>5. \A m, n \in DOMAIN Tail(s) : m # n => m + 1 # n + 1
  BY <1>1
<1>6. Disjoint(p, Tail(s))
  BY <1>2, <1>5 DEF Disjoint
<1>7. Region(p, Head(s)) \cap Pending(p, Tail(s)) = {}
  <2>1. \A k \in DOMAIN Tail(s) : Region(p, Head(s)) \cap Region(p, Tail(s)[k]) = {}
    BY <1>1, <1>2, <1>4 DEF Disjoint
  <2> QED BY <2>1 DEF Pending
<1>8. Pending(p, s) = Region(p, Head(s)) \cup Pending(p, Tail(s))
  <2>1. ASSUME NEW i \in Pending(p, s) PROVE i \in Region(p, Head(s)) \cup Pending(p, Tail(s))
    <3>1. PICK n \in DOMAIN s : i \in Region(p, s[n])
      BY <2>1 DEF Pending
    <3>2. CASE n = 1
      BY <1>1, <3>1, <3>2
    <3>3. CASE n # 1
      BY <1>3, <3>1, <3>3 DEF Pending
    <3> QED BY <3>2, <3>3
  <2>2. ASSUME NEW i \in Pending(p, Tail(s)) PROVE i \in Pending(p, s)
    BY <1>2, <2>2 DEF Pending
  <2>3. Region(p, Head(s)) \subseteq Pending(p, s)
    BY <1>1, <1>4 DEF Pending
  <2> QED BY <2>1, <2>2, <2>3
<1> QED BY <1>1, <1>6, <1>7, <1>8

\* What the server selects for a call are the issues there that it is about.
LEMMA SelectedAre ==
    ASSUME live \in SUBSET Issue, NEW c \in Calls
    PROVE  /\ Selected(c.w) \in SUBSET live /\ InCell(c.w, c.cell) \in SUBSET live
           /\ serverKind # "ignores" => InCell(c.w, c.cell) = live \cap Region(project, c)
           /\ c.cell = NoCell => InCell(c.w, c.cell) = Selected(c.w)
<1>1. Selected(c.w) \in SUBSET live /\ InCell(c.w, c.cell) \in SUBSET live
  BY DEF Selected, InCell
<1>2. ASSUME serverKind # "ignores" PROVE InCell(c.w, c.cell) = live \cap Region(project, c)
  <2>1. Selected(c.w) = {i \in live : In(project.second[i], c.w)}
    BY <1>2 DEF Selected, Within, Second
  <2> QED BY <2>1 DEF InCell, Region
<1>3. ASSUME c.cell = NoCell PROVE InCell(c.w, c.cell) = Selected(c.w)
  <2>1. DOMAIN c.cell = {}
    BY <1>3 DEF NoCell, NoFilter
  <2> QED BY <2>1 DEF InCell
<1> QED BY <1>1, <1>2, <1>3

\* There are buckets the server may return.
LEMMA Largest ==
    ASSUME NEW V, IsFiniteSet(V), NEW c \in [V -> Nat], NEW k \in 0 .. Cardinality(V)
    PROVE  \E kept \in SUBSET V :
              Cardinality(kept) = k /\ \A v \in kept, u \in V \ kept : c[v] >= c[u]
<1> DEFINE HasTop(n, kept) == /\ Cardinality(kept) = n
                              /\ \A v \in kept, u \in V \ kept : c[v] >= c[u]
           N == Cardinality(V)
           S == {n \in 0 .. N : \E kept \in SUBSET V : HasTop(n, kept)}
<1>1. N \in Nat
  BY FS_CardinalityType
<1>2. 0 \in S
  <2>1. {} \in SUBSET V /\ HasTop(0, {})
    BY FS_EmptySet
  <2> HIDE DEF HasTop
  <2> QED BY <1>1, <2>1
<1>3. ASSUME NEW n \in 0 .. N - 1, n \in S PROVE n + 1 \in S
  <2>1. PICK kept \in SUBSET V : HasTop(n, kept)
    BY <1>3
  <2>2. IsFiniteSet(kept) /\ IsFiniteSet(V \ kept)
    BY FS_Subset
  <2>3. V \ kept # {}
    <3>1. kept # V
      BY <1>1, <1>3, <2>1
    <3> QED BY <3>1
  <2> DEFINE T == {c[u] : u \in V \ kept}
  <2>4. T \in SUBSET Int /\ T # {}
    BY <2>3
  <2>5. IsFiniteSet(T)
    <3> DEFINE im == [u \in V \ kept |-> c[u]]
    <3>1. im \in Surjection(V \ kept, T)
      BY DEF Surjection
    <3> HIDE DEF im, T
    <3> QED BY <2>2, <3>1, FS_Surjection
  <2>6. PICK t \in T : \A y \in T : y =< t
    <3> HIDE DEF T
    <3> QED BY <2>4, <2>5, GreatestElement
  <2>7. PICK u \in V \ kept : t = c[u]
    OBVIOUS
  <2>8. \A x \in V \ kept : c[x] =< c[u]
    BY <2>6, <2>7
  <2> HIDE DEF T
  <2>9. kept \cup {u} \in SUBSET V /\ Cardinality(kept \cup {u}) = n + 1
    BY <2>1, <2>2, <2>7, FS_AddElement
  <2>10. ASSUME NEW v \in kept \cup {u}, NEW x \in V \ (kept \cup {u}) PROVE c[v] >= c[x]
    <3>1. x \in V \ kept /\ c[x] \in Nat /\ c[u] \in Nat
      BY <2>7, <2>10
    <3>2. CASE v \in kept
      BY <2>1, <3>1, <3>2
    <3>3. CASE v = u
      BY <2>8, <3>1, <3>3
    <3> QED BY <2>10, <3>2, <3>3
  <2>11. HasTop(n + 1, kept \cup {u})
    BY <2>9, <2>10
  <2>12. n + 1 \in 0 .. N
    BY <1>1
  <2> HIDE DEF HasTop, N
  <2> QED BY <2>9, <2>11, <2>12
<1>4. 0 .. N \subseteq S
  <2> HIDE DEF S, N
  <2> QED BY <1>1, <1>2, <1>3, Counting
<1>5. k \in S
  <2> HIDE DEF S
  <2> QED BY <1>4
<1> QED BY <1>5

\* The buckets of a facet are values of issues of the cell.
LEMMA BucketsAre ==
    ASSUME live \in SUBSET Issue, NEW w, NEW cell, NEW f, InCell(w, cell) \in SUBSET live
    PROVE  /\ Buckets(w, cell, f) \in SUBSET ValuesOf(w, cell, f)
           /\ IsFiniteSet(Buckets(w, cell, f)) /\ IsFiniteSet(ValuesOf(w, cell, f))
           /\ Cardinality(Buckets(w, cell, f)) = (IF MaxBuckets =< Cardinality(ValuesOf(w, cell, f))
                 THEN MaxBuckets ELSE Cardinality(ValuesOf(w, cell, f)))
           /\ \A v \in Buckets(w, cell, f) : \E i \in InCell(w, cell) : v = project.facet[f][i]
<1> DEFINE V == ValuesOf(w, cell, f)
           c == [v \in V |-> CountOf(w, cell, f, v)]
           K == Min({MaxBuckets, Cardinality(V)})
           TopBuckets(kept) == /\ Cardinality(kept) = K
                         /\ \A v \in kept, u \in V \ kept :
                               CountOf(w, cell, f, v) >= CountOf(w, cell, f, u)
<1>1. IsFiniteSet(V) /\ \A v \in V : \E i \in InCell(w, cell) : v = project.facet[f][i]
  <2> DEFINE I == InCell(w, cell)
             im == [i \in I |-> project.facet[f][i]]
             T == {project.facet[f][i] : i \in I}
  <2>1. IsFiniteSet(I)
    BY IssueSets
  <2>2. im \in Surjection(I, T)
    BY DEF Surjection
  <2>3. V \subseteq T
    BY DEF ValuesOf
  <2>4. IsFiniteSet(T)
    <3> HIDE DEF im, T, I
    <3> QED BY <2>1, <2>2, FS_Surjection
  <2>5. IsFiniteSet(V)
    <3> HIDE DEF T, V
    <3> QED BY <2>3, <2>4, FS_Subset
  <2> QED BY <2>3, <2>5
<1>2. c \in [V -> Nat]
  <2>1. \A v \in V : CountOf(w, cell, f, v) \in Nat
    <3> TAKE v \in V
    <3>1. {i \in InCell(w, cell) : project.facet[f][i] = v} \in SUBSET Issue
      OBVIOUS
    <3> QED BY <3>1, IssueSets DEF CountOf
  <2> HIDE DEF V
  <2> QED BY <2>1
<1>3. K \in 0 .. Cardinality(V) /\ K = IF MaxBuckets =< Cardinality(V) THEN MaxBuckets ELSE Cardinality(V)
  <2> HIDE DEF V
  <2>1. Cardinality(V) \in Nat /\ MaxBuckets \in Nat
    BY <1>1, FS_CardinalityType, SliceConstants
  <2> QED BY <2>1, TwoInts
<1>4. \E kept \in SUBSET V : TopBuckets(kept)
  <2>1. PICK kept \in SUBSET V : Cardinality(kept) = K /\ \A v \in kept, u \in V \ kept : c[v] >= c[u]
    <3> HIDE DEF V, c, K
    <3> QED BY <1>1, <1>2, <1>3, Largest
  <2>2. \A v \in V : c[v] = CountOf(w, cell, f, v)
    <3> HIDE DEF V
    <3> QED OBVIOUS
  <2> HIDE DEF V, c, K
  <2> QED BY <2>1, <2>2
<1>5. Buckets(w, cell, f) = CHOOSE kept \in SUBSET V : TopBuckets(kept)
  BY DEF Buckets
<1>6. Buckets(w, cell, f) \in SUBSET V /\ TopBuckets(Buckets(w, cell, f))
  <2> HIDE DEF TopBuckets, V
  <2> QED BY <1>4, <1>5
<1>8. Cardinality(Buckets(w, cell, f)) = K
  <2> HIDE DEF V, K
  <2> QED BY <1>6
<1>7. IsFiniteSet(Buckets(w, cell, f))
  <2> HIDE DEF V
  <2> QED BY <1>1, <1>6, FS_Subset
<1> QED BY <1>1, <1>3, <1>6, <1>7, <1>8

\* There are so few kinds that none is left out.
LEMMA KindsAreAll ==
    ASSUME live \in SUBSET Issue, project \in SlicedProjects, NEW w, NEW cell,
           InCell(w, cell) \in SUBSET live
    PROVE  \A i \in InCell(w, cell) : project.facet["kind"][i] \in Buckets(w, cell, "kind")
<1> DEFINE f == "kind"
           V == ValuesOf(w, cell, f)
           B == Buckets(w, cell, f)
           I == InCell(w, cell)
           kinds == {project.facet[f][i] : i \in Issue}
<1>1. /\ B \in SUBSET V /\ IsFiniteSet(V)
      /\ Cardinality(B) = IF MaxBuckets =< Cardinality(V) THEN MaxBuckets ELSE Cardinality(V)
  <2> HIDE DEF f
  <2> QED BY BucketsAre
<1>2. NoValue \notin kinds /\ Cardinality(kinds) =< MaxBuckets
  BY KindAssumption
<1>3. IsFiniteSet(kinds)
  <2> DEFINE im == [i \in Issue |-> project.facet[f][i]]
  <2>1. im \in Surjection(Issue, kinds)
    BY DEF Surjection
  <2> HIDE DEF im, kinds
  <2> QED BY <2>1, SliceConstants, FS_Surjection
<1>4. \A i \in I : project.facet[f][i] \in kinds
  OBVIOUS
<1> HIDE DEF kinds, I
<1>5. V = {project.facet[f][i] : i \in I}
  BY <1>2, <1>4 DEF ValuesOf, I
<1>6. V \in SUBSET kinds
  BY <1>4, <1>5
<1> HIDE DEF V, B, f
<1>7. Cardinality(V) =< Cardinality(kinds) /\ Cardinality(V) \in Nat /\ Cardinality(kinds) \in Nat
  BY <1>1, <1>3, <1>6, FS_Subset, FS_CardinalityType
<1>8. Cardinality(B) = Cardinality(V)
  <2>1. MaxBuckets \in Int /\ Cardinality(V) \in Int /\ Cardinality(V) =< MaxBuckets
    BY <1>2, <1>7, SliceConstants
  <2> QED BY <1>1, <2>1
<1>9. B = V
  BY <1>1, <1>8, FS_Subset
<1>10. \A i \in I : project.facet[f][i] \in B
  BY <1>5, <1>9
<1> QED BY <1>10 DEF B, I, f

\* The elements of a finite set, one after another.
LEMMA InSomeOrder ==
    ASSUME NEW S, IsFiniteSet(S)
    PROVE  LET s == SetToSeq(S) IN
           /\ s \in Seq(S) /\ \A m, n \in DOMAIN s : s[m] = s[n] => m = n
           /\ \A v \in S : \E n \in DOMAIN s : s[n] = v
<1> DEFINE N == Cardinality(S)
<1>1. N \in Nat /\ ExistsBijection(1 .. N, S)
  BY FS_CardinalityType
<1>2. \E g \in [1 .. N -> S] : IsInjective(g)
  <2>1. PICK g : g \in Bijection(1 .. N, S)
    BY <1>1 DEF ExistsBijection
  <2>2. g \in [1 .. N -> S] /\ \A a, b \in 1 .. N : g[a] = g[b] => a = b
    BY <2>1 DEF Bijection, Injection, IsInjective
  <2> HIDE DEF N
  <2> QED BY <2>2 DEF IsInjective
<1>3. SetToSeq(S) \in [1 .. N -> S] /\ IsInjective(SetToSeq(S))
  <2> HIDE DEF N
  <2>1. SetToSeq(S) = CHOOSE g \in [1 .. N -> S] : IsInjective(g)
    BY DEF SetToSeq, N
  <2> QED BY <1>2, <2>1
<1>5. \A v \in S : \E n \in DOMAIN SetToSeq(S) : SetToSeq(S)[n] = v
  <2> DEFINE s == SetToSeq(S)
             D == 1 .. N
  <2>1. Cardinality(D) = Cardinality(S)
    <3>1. ExistsBijection(D, S) /\ IsFiniteSet(D)
      BY <1>1, FS_Interval
    <3> HIDE DEF D
    <3> QED BY <3>1, FS_Bijection
  <2>2. s \in Injection(D, S)
    <3> HIDE DEF s, N
    <3>1. s \in [D -> S] /\ IsInjective(s)
      BY <1>3 DEF s
    <3> QED BY <3>1 DEF Injection, IsInjective
  <2> HIDE DEF s, D
  <2>3. s \in Surjection(D, S)
    BY <2>1, <2>2, FS_Injection
  <2>4. DOMAIN s = D /\ \A v \in S : \E n \in D : s[n] = v
    BY <2>3 DEF Surjection
  <2> QED BY <2>4 DEF s
<1> HIDE DEF N
<1>4. SetToSeq(S) \in Seq(S)
  BY <1>1, <1>3
<1> QED BY <1>3, <1>4, <1>5 DEF IsInjective

Reasons == {"page_limit_clamp", "atomic_window", "dates_ignored", "dates_rejected",
            "max_depth", "incomplete_slice", "count_drift"}
Degradations == {"no", "max_depth", "dates_ignored", "dates_rejected"}
Ranges == {w \in Windows : w.openLo /\ w.openHi /\ w.lo < w.hi}

SliceTypes ==
    /\ project \in SlicedProjects /\ live \in SUBSET Issue /\ collected \in SUBSET Issue
    /\ before \in 0 .. Cardinality(Issue) /\ lost \in Nat /\ twice \in Nat
    /\ reasons \in SUBSET Reasons /\ degraded \in Degradations /\ fellBack \in BOOLEAN
    /\ births \in Nat /\ closings \in Nat /\ births + closings =< MaxMoves
    /\ troubles \in Nat /\ troubles =< MaxTroubles

WalkTypes ==
    /\ phase \in {"entry", "range", "check", "walk", "done", "failed"}
    /\ stack \in Seq(Calls) /\ (phase # "walk" => stack = <<>>)
    /\ phase = "walk" => serverKind # "rejects"
    /\ phase \in {"check", "walk"} => root \in Ranges
    /\ AtomicIsOneSecond

\* Before the walk nothing is fetched.
Fresh == phase \in {"entry", "range", "check"} =>
    collected = {} /\ twice = 0 /\ lost = 0 /\ fellBack = FALSE /\ degraded = "no"

\* No two calls are about the same issue, and none about one that was fetched.
ApartInv == fellBack = FALSE /\ serverKind # "ignores" =>
    twice = 0 /\ Disjoint(project, stack) /\ collected \cap Pending(project, stack) = {}

\* A server that ignores dates does not get past the check.
CaughtInv == serverKind = "ignores" /\ closings = 0 =>
    phase # "walk" /\ (phase \in {"range", "check"} => before =< Cardinality(live))

\* No issue is born, and the server does not go unnoticed when it ignores dates.
Calm == births = 0 /\ (serverKind = "ignores" => closings = 0)

\* Meanwhile what is counted as lost was there at first, and is neither fetched
\* nor still to be fetched.
CalmWalk ==
    /\ serverKind # "ignores" /\ fellBack = FALSE /\ degraded = "no"
    /\ collected \subseteq project.atFirst
    /\ lost =< Cardinality(project.atFirst \ (collected \cup Pending(project, stack)))
    /\ AllSettled(project, root, stack)

Undisturbed ==
    /\ live \subseteq project.atFirst
    /\ closings = 0 \/ phase = "entry" => live = project.atFirst
    /\ phase \in {"range", "check", "walk"} => before = Cardinality(project.atFirst)
    /\ phase \in {"check", "walk"} => Covers(project, root, live)
    /\ phase = "walk" => CalmWalk
    /\ phase \in {"done", "failed"} /\ closings = 0 =>
          lost = Cardinality(live) - Cardinality(collected)

CalmInv == Calm => Undisturbed

\* And as long as no request failed, what is neither fetched nor still to be
\* fetched is counted as lost.
Smooth == births = 0 /\ troubles = 0 /\ serverKind # "ignores"

SmoothWalk ==
    /\ Cardinality(live \ (collected \cup Pending(project, stack))) =< lost
    /\ AllTallied(project, live, stack)

SmoothInv == Smooth /\ phase = "walk" => SmoothWalk

\* A loss has a reason; what is missing at the end is a loss; and a record tells
\* of nothing else.
Recorded ==
    /\ lost = 0 \/ reasons # {}
    /\ phase \in {"done", "failed"} /\ births = 0 /\ troubles = 0 /\ serverKind # "ignores" =>
          live \subseteq collected \/ reasons # {}
    /\ births = 0 /\ serverKind = "honours" => "max_depth" \notin reasons \cup {degraded}
    /\ Smooth => "count_drift" \notin reasons

SlicingIInv == /\ SliceTypes /\ WalkTypes /\ Fresh /\ ApartInv /\ CaughtInv
               /\ CalmInv /\ SmoothInv /\ Recorded

-----------------------------------------------------------------------------
\* The invariant holds at first, and when nothing happens.
LEMMA SlicingStarts == SlicingInit => SlicingIInv
<1> SUFFICES ASSUME SlicingInit PROVE SlicingIInv
  OBVIOUS
<1>1. /\ project \in SlicedProjects /\ live = project.atFirst /\ phase = "entry" /\ stack = <<>>
      /\ before = 0 /\ collected = {} /\ twice = 0 /\ lost = 0 /\ reasons = {} /\ atomics = {}
      /\ degraded = "no" /\ fellBack = FALSE /\ births = 0 /\ closings = 0 /\ troubles = 0
  BY DEF SlicingInit
<1>2. live \in SUBSET Issue
  BY <1>1, SlicingAssumption
<1>3. SliceTypes
  <2>1. /\ before \in 0 .. Cardinality(Issue) /\ births + closings =< MaxMoves
        /\ troubles =< MaxTroubles /\ {births, closings, troubles, lost, twice} \subseteq Nat
    BY <1>1, SliceConstants
  <2> QED BY <1>1, <1>2, <2>1 DEF SliceTypes, Degradations
<1>4. stack \in Seq(Calls) /\ DOMAIN stack = {}
  BY <1>1
<1>5. WalkTypes
  BY <1>1, <1>4 DEF WalkTypes, AtomicIsOneSecond
<1>6. ApartInv
  BY <1>1, <1>4 DEF ApartInv, Disjoint
<1>7. Fresh /\ CaughtInv /\ CalmInv /\ SmoothInv /\ Recorded
  BY <1>1 DEF Fresh, CaughtInv, CalmInv, Undisturbed, SmoothInv, Recorded
<1> QED BY <1>3, <1>5, <1>6, <1>7 DEF SlicingIInv

\* Nor does a stutter disturb it.
LEMMA SlicingStays == SlicingIInv /\ UNCHANGED lvars => SlicingIInv'
<1> SUFFICES ASSUME SlicingIInv, UNCHANGED lvars PROVE SlicingIInv'
  OBVIOUS
<1>1. /\ project' = project /\ serverKind' = serverKind /\ live' = live /\ phase' = phase
      /\ stack' = stack /\ root' = root /\ before' = before /\ collected' = collected
      /\ twice' = twice /\ lost' = lost /\ reasons' = reasons /\ atomics' = atomics
      /\ degraded' = degraded /\ fellBack' = fellBack /\ births' = births
      /\ closings' = closings /\ troubles' = troubles
  BY DEF lvars
<1>2. SliceTypes'
  BY <1>1 DEF SlicingIInv, SliceTypes
<1>3. WalkTypes'
  BY <1>1 DEF SlicingIInv, WalkTypes, AtomicIsOneSecond
<1>4. Fresh' /\ CaughtInv'
  BY <1>1 DEF SlicingIInv, Fresh, CaughtInv
<1>5. ApartInv'
  BY <1>1 DEF SlicingIInv, ApartInv
<1>6. CalmInv'
  BY <1>1 DEF SlicingIInv, CalmInv, Undisturbed, Calm, CalmWalk
<1>7. SmoothInv' /\ Recorded'
  BY <1>1 DEF SlicingIInv, SmoothInv, Smooth, SmoothWalk, Recorded
<1> QED BY <1>2, <1>3, <1>4, <1>5, <1>6, <1>7 DEF SlicingIInv

\* What the steps of the walk leave alone.
Unmoved ==
    /\ project' = project /\ serverKind' = serverKind /\ live' = live /\ births' = births
    /\ closings' = closings /\ phase' = phase /\ root' = root /\ before' = before
    /\ degraded' = degraded /\ fellBack' = fellBack
    /\ troubles' \in Nat /\ troubles' =< MaxTroubles /\ (troubles' = 0 => troubles = 0)

\* Nothing the first call was about is left out of the calls in its place.
LEMMA NoneIsDropped ==
    ASSUME NEW p, NEW s \in Seq(Calls), s # <<>>, NEW calls \in Seq(Calls), NEW L,
           L \cap Region(p, Head(s)) \subseteq Pending(p, calls)
    PROVE  L \cap Pending(p, s) \subseteq Pending(p, calls \o Tail(s))
<1> DEFINE t == Tail(s)
           k == Len(calls)
           new == calls \o t
<1>1. /\ Len(s) \in Nat \ {0} /\ DOMAIN s = 1 .. Len(s) /\ Len(t) = Len(s) - 1
      /\ DOMAIN t = 1 .. Len(s) - 1 /\ Head(s) = s[1]
      /\ \A n \in 1 .. Len(s) - 1 : t[n] = s[n + 1]
      /\ k \in Nat /\ DOMAIN calls = 1 .. k /\ t \in Seq(Calls)
  OBVIOUS
<1>2. /\ DOMAIN new = 1 .. (k + Len(t))
      /\ \A n \in 1 .. (k + Len(t)) : new[n] = IF n =< k THEN calls[n] ELSE t[n - k]
  BY <1>1
<1> HIDE DEF t, k, new
<1>3. \A n \in DOMAIN calls : n \in DOMAIN new /\ new[n] = calls[n]
  BY <1>1, <1>2
<1>4. ASSUME NEW n \in DOMAIN s, n # 1 PROVE n - 1 + k \in DOMAIN new /\ new[n - 1 + k] = s[n]
  <2>1. n \in 1 .. Len(s) /\ Len(s) \in Nat /\ k \in Nat /\ Len(t) = Len(s) - 1
    BY <1>1
  <2>2. /\ n - 1 \in 1 .. Len(s) - 1 /\ n - 1 + k \in 1 .. (k + Len(t))
        /\ ~(n - 1 + k =< k) /\ (n - 1 + k) - k = n - 1 /\ n - 1 + 1 = n
    BY <1>4, <2>1
  <2>3. new[n - 1 + k] = t[n - 1]
    BY <1>2, <2>2
  <2> QED BY <1>1, <1>2, <2>2, <2>3
<1>5. ASSUME NEW i \in L \cap Pending(p, s) PROVE i \in Pending(p, new)
  <2>1. PICK n \in DOMAIN s : i \in Region(p, s[n])
    BY DEF Pending
  <2>2. CASE n = 1
    <3>1. i \in Pending(p, calls)
      BY <1>1, <2>1, <2>2
    <3>2. PICK m \in DOMAIN calls : i \in Region(p, calls[m])
      BY <3>1 DEF Pending
    <3> QED BY <1>3, <3>2 DEF Pending
  <2>3. CASE n # 1
    BY <1>4, <2>1, <2>3 DEF Pending
  <2> QED BY <2>2, <2>3
<1> QED BY <1>5 DEF new, t

\* The first call is replaced by calls about parts of its issues.
LEMMA PushKeeps ==
    ASSUME SlicingIInv, phase = "walk", stack # <<>>, Unmoved, NEW calls \in Seq(Calls),
           stack' = calls \o Tail(stack),
           collected' = collected, twice' = twice, lost' = lost, reasons' = reasons,
           atomics' = atomics,
           serverKind # "ignores" =>
              /\ Disjoint(project, calls)
              /\ \A n \in DOMAIN calls : Region(project, calls[n]) \subseteq Region(project, Head(stack)),
           Calm => AllSettled(project, root, calls),
           Smooth' => /\ live \cap Region(project, Head(stack)) \subseteq Pending(project, calls)
                      /\ AllTallied(project, live, calls)
    PROVE  SlicingIInv'
<1>1. SliceTypes'
  BY DEF SlicingIInv, SliceTypes, Unmoved
<1>2. stack \in Seq(Calls)
  BY DEF SlicingIInv, WalkTypes
<1>3. stack' \in Seq(Calls)
  BY <1>2, CallsArrive
<1>4. WalkTypes'
  BY <1>3 DEF SlicingIInv, WalkTypes, Unmoved, AtomicIsOneSecond
<1>5. Fresh' /\ CaughtInv'
  BY DEF SlicingIInv, Fresh, CaughtInv, Unmoved
<1>6. ASSUME fellBack = FALSE, serverKind # "ignores"
      PROVE  /\ twice = 0 /\ Disjoint(project, stack') /\ collected \cap Pending(project, stack') = {}
             /\ Pending(project, stack') \subseteq Pending(project, stack)
  <2>1. twice = 0 /\ Disjoint(project, stack) /\ collected \cap Pending(project, stack) = {}
    BY <1>6 DEF SlicingIInv, ApartInv
  <2>2. /\ Disjoint(project, calls \o Tail(stack))
        /\ Pending(project, calls \o Tail(stack)) \subseteq Pending(project, stack)
    BY <1>2, <1>6, <2>1, PartsStayApart
  <2> QED BY <2>1, <2>2
<1>7. ApartInv'
  BY <1>6 DEF ApartInv, Unmoved
<1>8. CalmInv'
  <2> SUFFICES ASSUME Calm' PROVE Undisturbed'
    BY DEF CalmInv
  <2>1. Calm
    BY DEF Calm, Unmoved
  <2>2. Undisturbed /\ CalmWalk
    BY <2>1 DEF SlicingIInv, CalmInv, Undisturbed
  <2>3. Pending(project, stack') \subseteq Pending(project, stack)
    BY <1>6, <2>2 DEF CalmWalk
  <2>4. lost =< Cardinality(project.atFirst \ (collected \cup Pending(project, stack')))
    <3> DEFINE A == project.atFirst \ (collected \cup Pending(project, stack))
               B == project.atFirst \ (collected \cup Pending(project, stack'))
    <3>1. A \in SUBSET B /\ B \in SUBSET Issue
      BY <2>3, SlicingAssumption DEF SlicingIInv, SliceTypes
    <3> HIDE DEF A, B
    <3>2. Cardinality(A) =< Cardinality(B) /\ Cardinality(A) \in Nat /\ Cardinality(B) \in Nat
      BY <3>1, IssueParts, IssueSets
    <3>3. lost =< Cardinality(A) /\ lost \in Nat
      BY <2>2 DEF CalmWalk, A, SlicingIInv, SliceTypes
    <3>4. lost =< Cardinality(B)
      BY <3>2, <3>3
    <3> QED BY <3>4 DEF B
  <2>5. AllSettled(project, root, stack')
    <3>1. \A n \in DOMAIN stack : Settled(project, root, stack[n])
      BY <2>2 DEF CalmWalk, AllSettled
    <3>2. \A n \in DOMAIN calls : Settled(project, root, calls[n])
      BY <2>1 DEF AllSettled
    <3>3. \A n \in DOMAIN (calls \o Tail(stack)) :
             \/ n \in DOMAIN calls /\ (calls \o Tail(stack))[n] = calls[n]
             \/ /\ n - Len(calls) + 1 \in DOMAIN stack
                /\ (calls \o Tail(stack))[n] = stack[n - Len(calls) + 1]
      BY <1>2, CallsArrive
    <3>4. \A n \in DOMAIN (calls \o Tail(stack)) : Settled(project, root, (calls \o Tail(stack))[n])
      BY <3>1, <3>2, <3>3
    <3> QED BY <3>4 DEF AllSettled
  <2>6. CalmWalk'
    <3>1. (collected \subseteq project.atFirst)' /\ (serverKind # "ignores" /\ fellBack = FALSE /\ degraded = "no")'
      BY <2>2 DEF CalmWalk, Unmoved
    <3>2. (lost =< Cardinality(project.atFirst \ (collected \cup Pending(project, stack))))'
      BY <2>4 DEF Unmoved
    <3>3. AllSettled(project, root, stack)'
      BY <2>5 DEF Unmoved
    <3> QED BY <3>1, <3>2, <3>3 DEF CalmWalk
  <2> QED BY <2>2, <2>6 DEF Unmoved, Undisturbed
<1>9. SmoothInv'
  <2> SUFFICES ASSUME Smooth' PROVE SmoothWalk'
    BY DEF SmoothInv
  <2>1. Smooth
    BY DEF Smooth, Unmoved
  <2>2. SmoothWalk
    BY <2>1 DEF SlicingIInv, SmoothInv
  <2> DEFINE new == calls \o Tail(stack)
  <2>3. live \cap Pending(project, stack) \subseteq Pending(project, new)
    BY <1>2, NoneIsDropped
  <2>4. Cardinality(live \ (collected \cup Pending(project, new))) =< lost
    <3> DEFINE A == live \ (collected \cup Pending(project, stack))
               B == live \ (collected \cup Pending(project, new))
    <3>1. B \in SUBSET A /\ A \in SUBSET Issue
      BY <2>3 DEF SlicingIInv, SliceTypes
    <3>2. Cardinality(A) =< lost
      BY <2>2 DEF SmoothWalk
    <3>3. lost \in Nat
      BY DEF SlicingIInv, SliceTypes
    <3> HIDE DEF A, B
    <3>4. Cardinality(B) =< Cardinality(A) /\ Cardinality(A) \in Nat /\ Cardinality(B) \in Nat
      BY <3>1, IssueParts, IssueSets
    <3>5. Cardinality(B) =< lost
      BY <3>2, <3>3, <3>4
    <3> QED BY <3>5 DEF B
  <2>5. AllTallied(project, live, new)
    <3>1. \A n \in DOMAIN stack : Tallied(project, live, stack[n])
      BY <2>2 DEF SmoothWalk, AllTallied
    <3>2. \A n \in DOMAIN calls : Tallied(project, live, calls[n])
      BY DEF AllTallied
    <3>3. \A n \in DOMAIN new :
             \/ n \in DOMAIN calls /\ new[n] = calls[n]
             \/ n - Len(calls) + 1 \in DOMAIN stack /\ new[n] = stack[n - Len(calls) + 1]
      BY <1>2, CallsArrive
    <3> HIDE DEF new
    <3>4. \A n \in DOMAIN new : Tallied(project, live, new[n])
      BY <3>1, <3>2, <3>3
    <3> QED BY <3>4 DEF AllTallied
  <2> QED BY <2>4, <2>5 DEF SmoothWalk, Unmoved
<1>10. Recorded'
  BY DEF SlicingIInv, Recorded, Smooth, Unmoved
<1> QED BY <1>1, <1>4, <1>5, <1>7, <1>8, <1>9, <1>10 DEF SlicingIInv

\* The first call fetches some of its issues, and what it does not fetch may
\* be put down as lost.
LEMMA FetchKeeps ==
    ASSUME SlicingIInv, phase = "walk", stack # <<>>, Unmoved, stack' = Tail(stack),
           NEW found \in SUBSET live, NEW got \in SUBSET found, NEW loss \in Nat,
           NEW more \in SUBSET {"page_limit_clamp", "atomic_window"}, loss = 0 \/ more # {},
           NEW seconds,
           collected' = collected \cup got, twice' = twice + Cardinality(got \cap collected),
           lost' = lost + loss, reasons' = reasons \cup more, atomics' = atomics \cup seconds,
           \A w \in seconds : ~w.openLo /\ ~w.openHi /\ w.hi = w.lo + 1,
           serverKind # "ignores" => found = live \cap Region(project, Head(stack)),
           Calm /\ Undisturbed /\ CalmWalk =>
              loss =< Cardinality(project.atFirst \cap Region(project, Head(stack))) - Cardinality(got),
           Smooth /\ SmoothWalk => Cardinality(found) - Cardinality(got) =< loss
    PROVE  SlicingIInv'
<1>1. stack \in Seq(Calls) /\ live \in SUBSET Issue /\ collected \in SUBSET Issue /\ lost \in Nat
  BY DEF SlicingIInv, WalkTypes, SliceTypes
<1>2. got \cap collected \in SUBSET Issue /\ Cardinality(got \cap collected) \in Nat
  BY <1>1, IssueSets
<1>3. SliceTypes'
  <2>1. (collected \cup got) \in SUBSET Issue /\ (twice + Cardinality(got \cap collected)) \in Nat
    BY <1>1, <1>2 DEF SlicingIInv, SliceTypes
  <2>2. (reasons \cup more) \in SUBSET Reasons /\ lost + loss \in Nat
    BY <1>1 DEF SlicingIInv, SliceTypes, Reasons
  <2> QED BY <2>1, <2>2 DEF SlicingIInv, SliceTypes, Unmoved
<1>4. stack' \in Seq(Calls)
  BY <1>1
<1>5. WalkTypes'
  BY <1>4 DEF SlicingIInv, WalkTypes, Unmoved, AtomicIsOneSecond
<1>6. Fresh' /\ CaughtInv'
  BY DEF SlicingIInv, Fresh, CaughtInv, Unmoved
<1> DEFINE R == Region(project, Head(stack))
           P == Pending(project, Tail(stack))
<1>7. ASSUME fellBack = FALSE, serverKind # "ignores"
      PROVE  /\ twice = 0 /\ Disjoint(project, Tail(stack)) /\ found = live \cap R
             /\ collected \cap R = {} /\ collected \cap P = {} /\ R \cap P = {}
             /\ Pending(project, stack) = R \cup P
  <2>1. twice = 0 /\ Disjoint(project, stack) /\ collected \cap Pending(project, stack) = {}
    BY <1>7 DEF SlicingIInv, ApartInv
  <2>2. Disjoint(project, Tail(stack)) /\ Pending(project, stack) = R \cup P /\ R \cap P = {}
    BY <1>1, <2>1, FirstIsMade
  <2> HIDE DEF R, P
  <2>3. collected \cap R = {} /\ collected \cap P = {}
    BY <2>1, <2>2
  <2> QED BY <1>7, <2>1, <2>2, <2>3 DEF R
<1>8. ApartInv'
  <2> SUFFICES ASSUME fellBack = FALSE, serverKind # "ignores"
               PROVE  twice' = 0 /\ Disjoint(project, stack') /\ collected' \cap P = {}
    BY DEF ApartInv, Unmoved
  <2> HIDE DEF R, P
  <2>1. got \cap collected = {} /\ (collected \cup got) \cap P = {}
    BY <1>7
  <2>2. Cardinality(got \cap collected) = 0
    BY <2>1, FS_EmptySet
  <2>3. twice' = 0
    <3>1. twice = 0
      BY <1>7
    <3>2. twice' = twice + Cardinality(got \cap collected)
      OBVIOUS
    <3> QED BY <2>2, <3>1, <3>2
  <2>4. Disjoint(project, stack')
    BY <1>7
  <2>5. collected' \cap P = {}
    BY <2>1
  <2> QED BY <2>3, <2>4, <2>5
<1>9. CalmInv'
  <2> SUFFICES ASSUME Calm' PROVE Undisturbed'
    BY DEF CalmInv
  <2>1. Calm
    BY DEF Calm, Unmoved
  <2>2. Undisturbed /\ CalmWalk
    BY <2>1 DEF SlicingIInv, CalmInv, Undisturbed
  <2> DEFINE F == project.atFirst
  <2>3. lost + loss =< Cardinality(F \ ((collected \cup got) \cup P))
    <3> DEFINE A == F \ (collected \cup Pending(project, stack))
               FR == F \cap R
               C == FR \ got
               B == F \ ((collected \cup got) \cup P)
    <3>0. /\ found = live \cap R /\ collected \cap R = {} /\ R \cap P = {}
          /\ Pending(project, stack) = R \cup P
      BY <1>7, <2>2 DEF CalmWalk
    <3>1. lost =< Cardinality(A)
      BY <2>2 DEF CalmWalk
    <3>2. live \subseteq F /\ F \in SUBSET Issue
      BY <2>2, SlicingAssumption DEF Undisturbed, SlicingIInv, SliceTypes
    <3>3. loss =< Cardinality(FR) - Cardinality(got)
      BY <2>1, <2>2
    <3> HIDE DEF R, P, F
    <3>4. /\ A \cap C = {} /\ A \cup C \in SUBSET B /\ B \in SUBSET Issue /\ A \in SUBSET Issue
          /\ C \in SUBSET Issue /\ got \in SUBSET FR /\ FR \in SUBSET Issue
      BY <3>0, <3>2
    <3> HIDE DEF FR
    <3>5. Cardinality(C) = Cardinality(FR) - Cardinality(got)
      BY <3>4, IssueParts
    <3> HIDE DEF A, B, C
    <3>6. Cardinality(A \cup C) = Cardinality(A) + Cardinality(C)
      BY <3>4, IssueUnion
    <3>7. Cardinality(A \cup C) =< Cardinality(B)
      BY <3>4, IssueParts
    <3>8. Cardinality(A) \in Nat /\ Cardinality(C) \in Nat /\ Cardinality(B) \in Nat
      BY <3>4, IssueSets
    <3>9. loss =< Cardinality(C)
      BY <3>3, <3>5
    <3>10. lost + loss =< Cardinality(B)
      BY <1>1, <3>1, <3>6, <3>7, <3>8, <3>9
    <3> QED BY <3>10 DEF B
  <2>4. AllSettled(project, root, Tail(stack))
    <3>1. \A n \in DOMAIN stack : Settled(project, root, stack[n])
      BY <2>2 DEF CalmWalk, AllSettled
    <3>2. \A n \in DOMAIN Tail(stack) : n + 1 \in DOMAIN stack /\ Tail(stack)[n] = stack[n + 1]
      BY <1>1
    <3> QED BY <3>1, <3>2 DEF AllSettled
  <2>5. CalmWalk'
    <3>1. (collected \subseteq project.atFirst)' /\ (serverKind # "ignores" /\ fellBack = FALSE /\ degraded = "no")'
      <4>1. collected \subseteq project.atFirst /\ live \subseteq project.atFirst
        BY <2>2 DEF CalmWalk, Undisturbed
      <4>2. collected \cup got \subseteq project.atFirst
        BY <4>1
      <4> QED BY <2>2, <4>2 DEF CalmWalk, Unmoved
    <3>2. (lost =< Cardinality(project.atFirst \ (collected \cup Pending(project, stack))))'
      BY <2>3 DEF Unmoved
    <3>3. AllSettled(project, root, stack)'
      BY <2>4 DEF Unmoved
    <3> QED BY <3>1, <3>2, <3>3 DEF CalmWalk
  <2> QED BY <2>2, <2>5 DEF Unmoved, Undisturbed
<1>10. SmoothInv'
  <2> SUFFICES ASSUME Smooth' PROVE SmoothWalk'
    BY DEF SmoothInv
  <2>1. Smooth /\ Calm
    BY DEF Smooth, Calm, Unmoved
  <2>2. SmoothWalk /\ Undisturbed /\ CalmWalk
    BY <2>1 DEF SlicingIInv, SmoothInv, CalmInv, Undisturbed
  <2>3. Cardinality(live \ ((collected \cup got) \cup P)) =< lost + loss
    <3> DEFINE A == live \ (collected \cup Pending(project, stack))
               C == found \ got
               B == live \ ((collected \cup got) \cup P)
    <3>0. found = live \cap R /\ Pending(project, stack) = R \cup P
      BY <1>7, <2>2 DEF CalmWalk
    <3>1. Cardinality(A) =< lost
      BY <2>2 DEF SmoothWalk
    <3>2. Cardinality(found) - Cardinality(got) =< loss
      BY <2>1, <2>2
    <3> HIDE DEF R, P
    <3>3. B \in SUBSET (A \cup C) /\ A \in SUBSET Issue /\ C \in SUBSET Issue /\ A \cap C = {}
          /\ found \in SUBSET Issue
      BY <1>1, <3>0
    <3>4. Cardinality(C) = Cardinality(found) - Cardinality(got)
      BY <3>3, IssueParts
    <3> HIDE DEF A, B, C
    <3>5. A \cup C \in SUBSET Issue /\ B \in SUBSET Issue
      BY <3>3
    <3>6. Cardinality(B) =< Cardinality(A \cup C)
      BY <3>3, <3>5, IssueParts
    <3>7. Cardinality(A \cup C) = Cardinality(A) + Cardinality(C)
      BY <3>3, IssueUnion
    <3>8. Cardinality(A) \in Nat /\ Cardinality(C) \in Nat /\ Cardinality(B) \in Nat
      BY <3>3, <3>5, IssueSets
    <3>9. Cardinality(C) =< loss
      BY <3>2, <3>4
    <3>10. Cardinality(B) =< lost + loss
      BY <1>1, <3>1, <3>6, <3>7, <3>8, <3>9
    <3> QED BY <3>10 DEF B
  <2>4. AllTallied(project, live, Tail(stack))
    <3>1. \A n \in DOMAIN stack : Tallied(project, live, stack[n])
      BY <2>2 DEF SmoothWalk, AllTallied
    <3>2. \A n \in DOMAIN Tail(stack) : n + 1 \in DOMAIN stack /\ Tail(stack)[n] = stack[n + 1]
      BY <1>1
    <3> QED BY <3>1, <3>2 DEF AllTallied
  <2> QED BY <2>3, <2>4 DEF SmoothWalk, Unmoved
<1>11. Recorded'
  <2>1. Recorded
    BY DEF SlicingIInv
  <2>2. lost' = 0 \/ reasons' # {}
    <3>1. CASE lost = 0 /\ loss = 0
      <4>1. lost + loss = 0
        BY <3>1
      <4> QED BY <4>1
    <3>2. CASE reasons # {} \/ more # {}
      BY <3>2
    <3> QED BY <2>1, <3>1, <3>2 DEF Recorded
  <2>3. "max_depth" \notin more /\ "count_drift" \notin more
    OBVIOUS
  <2> QED BY <2>1, <2>2, <2>3 DEF Recorded, Smooth, Unmoved
<1> QED BY <1>3, <1>5, <1>6, <1>8, <1>9, <1>10, <1>11 DEF SlicingIInv

\* What a step finds at the top of the stack.
LEMMA DoingFacts ==
    ASSUME SlicingIInv, NEW do, Doing(do)
    PROVE  /\ phase = "walk" /\ stack # <<>> /\ stack \in Seq(Calls) /\ Top = Head(stack)
           /\ Top \in Calls /\ Top \in CallType /\ SliceFits(Top) /\ Top.do = do
           /\ live \in SUBSET Issue /\ project \in SlicedProjects
           /\ Calm => /\ Undisturbed /\ CalmWalk /\ Settled(project, root, Top)
                      /\ live \subseteq project.atFirst /\ Covers(project, root, live)
           /\ Smooth => Calm /\ SmoothWalk /\ Tallied(project, live, Top)
<1>1. phase = "walk" /\ stack # <<>> /\ stack \in Seq(Calls) /\ Top = Head(stack) /\ Top.do = do
  BY DEF Doing, Top, SlicingIInv, WalkTypes
<1>2. Head(stack) \in Calls /\ 1 \in DOMAIN stack /\ Head(stack) = stack[1]
  BY <1>1
<1>3. Top \in CallType /\ SliceFits(Top)
  BY <1>1, <1>2 DEF Calls
<1>4. ASSUME Calm PROVE /\ Undisturbed /\ CalmWalk /\ Settled(project, root, Top)
                        /\ live \subseteq project.atFirst /\ Covers(project, root, live)
  <2>1. Undisturbed /\ CalmWalk
    BY <1>1, <1>4 DEF SlicingIInv, CalmInv, Undisturbed
  <2>2. Settled(project, root, Top)
    BY <1>1, <1>2, <2>1 DEF CalmWalk, AllSettled
  <2> QED BY <1>1, <2>1, <2>2 DEF Undisturbed
<1>5. ASSUME Smooth PROVE Calm /\ SmoothWalk /\ Tallied(project, live, Top)
  <2>1. Calm
    BY <1>5 DEF Smooth, Calm
  <2>2. SmoothWalk
    BY <1>1, <1>5 DEF SlicingIInv, SmoothInv
  <2>3. Tallied(project, live, Top)
    BY <1>1, <1>2, <2>2 DEF SmoothWalk, AllTallied
  <2> QED BY <2>1, <2>2, <2>3
<1> QED BY <1>1, <1>2, <1>3, <1>4, <1>5 DEF SlicingIInv, SliceTypes

\* What the server counts for a call, while no issue is born.
LEMMA CountedIs ==
    ASSUME live \in SUBSET Issue, project \in SlicedProjects, NEW c \in Calls,
           serverKind # "ignores"
    PROVE  /\ Cardinality(InCell(c.w, c.cell)) = Cardinality(live \cap Region(project, c))
           /\ live \subseteq project.atFirst =>
                 Cardinality(InCell(c.w, c.cell)) =< Cardinality(project.atFirst \cap Region(project, c))
<1> DEFINE T == live \cap Region(project, c)
           S == project.atFirst \cap Region(project, c)
<1>1. InCell(c.w, c.cell) = T
  BY SelectedAre
<1>2. S \in SUBSET Issue
  BY DEF Region
<1>3. ASSUME live \subseteq project.atFirst PROVE Cardinality(T) =< Cardinality(S)
  <2>1. T \in SUBSET S
    BY <1>3
  <2> HIDE DEF S, T
  <2> QED BY <1>2, <2>1, IssueParts
<1> QED BY <1>1, <1>3

\* What a frame holds.
LEMMA FrameIs ==
    ASSUME NEW do \in Doings, NEW w \in Windows, NEW cell \in Cells,
           NEW total \in 0 .. Cardinality(Issue), NEW depth \in 0 .. MaxDepth
    PROVE  LET c == Frame(do, w, cell, total, depth) IN
           /\ c \in CallType /\ c.do = do /\ c.w = w /\ c.cell = cell /\ c.total = total
           /\ c.depth = depth
BY DEF Frame, CallType

\* The cell of a window has no facet.
LEMMA NoCellIs == NoCell \in Cells /\ DOMAIN NoCell = {}
<1>1. NoCell \in [{} -> FacetValues]
  BY DEF NoCell, NoFilter
<1> QED BY <1>1 DEF Cells, Filtered

\* What a call is about depends on its window and cell.
LEMMA SameRegion ==
    ASSUME NEW p, NEW c, NEW d, c.cell = d.cell, c.w = d.w
    PROVE  Region(p, c) = Region(p, d)
BY DEF Region

\* A call about fewer seconds is about fewer issues.
LEMMA NarrowerRegion ==
    ASSUME NEW p, NEW c, NEW d, c.cell = d.cell,
           \A i \in Issue : In(p.second[i], c.w) => In(p.second[i], d.w)
    PROVE  Region(p, c) \subseteq Region(p, d)
BY DEF Region

\* The first call is replaced by one, or by none.
LEMMA PushOne ==
    ASSUME SlicingIInv, phase = "walk", stack # <<>>, Unmoved, NEW c \in Calls,
           stack' = <<c>> \o Tail(stack),
           collected' = collected, twice' = twice, lost' = lost, reasons' = reasons,
           atomics' = atomics,
           serverKind # "ignores" => Region(project, c) \subseteq Region(project, Head(stack)),
           Calm => Settled(project, root, c),
           Smooth' => /\ live \cap Region(project, Head(stack)) \subseteq Region(project, c)
                      /\ Tallied(project, live, c)
    PROVE  SlicingIInv'
<1>1. <<c>> \in Seq(Calls) /\ DOMAIN <<c>> = {1} /\ <<c>>[1] = c
  OBVIOUS
<1>2. Disjoint(project, <<c>>)
  BY <1>1 DEF Disjoint
<1>3. Calm => AllSettled(project, root, <<c>>)
  BY <1>1 DEF AllSettled
<1>4. serverKind # "ignores" =>
        /\ Disjoint(project, <<c>>)
        /\ \A n \in DOMAIN <<c>> : Region(project, <<c>>[n]) \subseteq Region(project, Head(stack))
  BY <1>1, <1>2
<1>5. Smooth' => /\ live \cap Region(project, Head(stack)) \subseteq Pending(project, <<c>>)
                 /\ AllTallied(project, live, <<c>>)
  <2>1. Region(project, c) \subseteq Pending(project, <<c>>)
    BY <1>1 DEF Pending
  <2>2. Tallied(project, live, c) => AllTallied(project, live, <<c>>)
    BY <1>1 DEF AllTallied
  <2> QED BY <2>1, <2>2
<1> QED BY <1>1, <1>3, <1>4, <1>5, PushKeeps

\* Or by none: what it was about is behind it.
LEMMA PushNone ==
    ASSUME SlicingIInv, phase = "walk", stack # <<>>, Unmoved, stack' = <<>> \o Tail(stack),
           collected' = collected, twice' = twice, lost' = lost, reasons' = reasons,
           atomics' = atomics, Smooth' => live \cap Region(project, Head(stack)) = {}
    PROVE  SlicingIInv'
<1>1. <<>> \in Seq(Calls) /\ DOMAIN <<>> = {}
  OBVIOUS
<1>2. /\ Disjoint(project, <<>>) /\ AllSettled(project, root, <<>>)
      /\ AllTallied(project, live, <<>>)
  BY <1>1 DEF Disjoint, AllSettled, AllTallied
<1> QED BY <1>1, <1>2, PushKeeps

-----------------------------------------------------------------------------
\* Two halves part a window.
LEMMA HalvesAre ==
    ASSUME NEW w \in Windows, w.lo < w.hi, Splittable(w)
    PROVE  /\ LeftHalf(w) \in Windows /\ LeftHalf(w).lo = w.lo /\ LeftHalf(w).lo < LeftHalf(w).hi
           /\ LeftHalf(w).openLo = w.openLo /\ LeftHalf(w).openHi = FALSE
           /\ RightHalf(w) \in Windows /\ RightHalf(w).hi = w.hi /\ RightHalf(w).lo < RightHalf(w).hi
           /\ RightHalf(w).openHi = w.openHi /\ RightHalf(w).openLo = FALSE
           /\ LeftHalf(w).hi - LeftHalf(w).lo - 1 =< (w.hi - w.lo - 1) \div 2
           /\ RightHalf(w).hi - RightHalf(w).lo - 1 =< (w.hi - w.lo - 1) \div 2
           /\ \A s \in Int : /\ In(s, LeftHalf(w)) => In(s, w)
                             /\ In(s, RightHalf(w)) => In(s, w)
                             /\ ~(In(s, LeftHalf(w)) /\ In(s, RightHalf(w)))
                             /\ In(s, w) => In(s, LeftHalf(w)) \/ In(s, RightHalf(w))
<1> DEFINE a == w.lo
           b == w.hi
           m == Mid(w)
<1>1. Today \in Nat
  BY SliceConstants
<1>2. a \in 0 .. Today + 1 /\ b \in 0 .. Today + 1 /\ b - a > 1 /\ w.openLo \in BOOLEAN /\ w.openHi \in BOOLEAN
  BY DEF Windows, Splittable
<1>3. m = a + (b - a) \div 2
  BY DEF Mid
<1> HIDE DEF a, b, m
<1>4. /\ m \in 0 .. Today + 1 /\ a < m /\ m < b
      /\ m - a - 1 =< (b - a - 1) \div 2 /\ b - m - 1 =< (b - a - 1) \div 2
  BY <1>1, <1>2, <1>3
<1> DEFINE l == LeftHalf(w)
           r == RightHalf(w)
<1>5. /\ l \in Windows /\ l.lo = a /\ l.hi = m /\ l.openLo = w.openLo /\ l.openHi = FALSE
      /\ r \in Windows /\ r.lo = m /\ r.hi = b /\ r.openHi = w.openHi /\ r.openLo = FALSE
  BY <1>4 DEF LeftHalf, RightHalf, Windows, a, b, m
<1> HIDE DEF l, r
<1>6. ASSUME NEW s \in Int
      PROVE  /\ In(s, l) => In(s, w)
             /\ In(s, r) => In(s, w)
             /\ ~(In(s, l) /\ In(s, r))
             /\ In(s, w) => In(s, l) \/ In(s, r)
  <2>1. In(s, l) <=> (w.openLo \/ s >= a) /\ s < m
    BY <1>5 DEF In
  <2>2. In(s, r) <=> s >= m /\ (w.openHi \/ s < b)
    BY <1>5 DEF In
  <2>3. In(s, w) <=> (w.openLo \/ s >= a) /\ (w.openHi \/ s < b)
    BY DEF In, a, b
  <2>4. m \in Int /\ a \in Int /\ b \in Int
    BY <1>1, <1>2, <1>4
  <2> QED BY <1>4, <2>1, <2>2, <2>3, <2>4
<1> QED BY <1>4, <1>5, <1>6 DEF l, r, a, b

\* The depth backstop drops a window only where dates moved: on a source that is
\* still, the span of a window so deep is one second.
LEMMA BackstopKeeps == SlicingIInv /\ Backstop => SlicingIInv'
<1> SUFFICES ASSUME SlicingIInv, Backstop PROVE SlicingIInv'
  OBVIOUS
<1>1. /\ Doing("window") /\ (~SafeToRequest(Top.w) \/ Top.depth >= MaxDepth)
      /\ Degrade("max_depth") /\ stack' = Tail(stack) /\ lost' = lost /\ reasons' = reasons
      /\ troubles' = troubles /\ project' = project /\ serverKind' = serverKind /\ live' = live
      /\ births' = births /\ closings' = closings /\ phase' = phase /\ root' = root
      /\ before' = before /\ atomics' = atomics
  BY DEF Backstop, Pop, RecordsNothing, NoTrouble, WalkSame, SlicerSame
<1>2. /\ phase = "walk" /\ stack # <<>> /\ stack \in Seq(Calls) /\ Top \in CallType /\ SliceFits(Top)
      /\ Top.do = "window" /\ live \in SUBSET Issue
      /\ Calm => Settled(project, root, Top)
  BY <1>1, DoingFacts
<1>3. /\ fellBack' = TRUE /\ degraded' \in Degradations
      /\ collected' \in SUBSET Issue /\ twice' \in Nat
  <2>1. fellBack' = TRUE /\ degraded' \in {degraded, "max_depth"}
    BY <1>1 DEF Degrade
  <2>2. \/ collected' = collected /\ twice' = twice
        \/ /\ collected' = collected \cup FirstOf(live)
           /\ twice' = twice + Cardinality(FirstOf(live) \cap collected)
    BY <1>1 DEF Degrade, Absorb, AbsorbsNothing
  <2>3. FirstOf(live) \in SUBSET live
    BY <1>2, FirstOfFits
  <2>4. FirstOf(live) \cap collected \in SUBSET Issue
    BY <1>2, <2>3
  <2>5. Cardinality(FirstOf(live) \cap collected) \in Nat
    BY <2>4, IssueSets
  <2> QED BY <1>2, <2>1, <2>2, <2>3, <2>5 DEF SlicingIInv, SliceTypes, Degradations
<1>4. ~Calm
  <2>1. Top.w.lo < Top.w.hi /\ Top.w.lo \in Int /\ Top.w.hi \in Int /\ Top.depth \in Int
    BY <1>2, SliceConstants DEF SliceFits, CallType, Windows
  <2>2. SafeToRequest(Top.w)
    BY <2>1 DEF SafeToRequest
  <2>3. Top.depth >= MaxDepth
    BY <1>1, <2>2
  <2> QED BY <1>2, <2>1, <2>3, SliceConstants DEF Settled
<1>5. SliceTypes'
  BY <1>1, <1>3 DEF SlicingIInv, SliceTypes
<1>6. WalkTypes'
  <2>1. stack' \in Seq(Calls)
    BY <1>1, <1>2
  <2> QED BY <1>1, <2>1 DEF SlicingIInv, WalkTypes, AtomicIsOneSecond
<1>7. Fresh' /\ CaughtInv' /\ ApartInv'
  BY <1>1, <1>2, <1>3 DEF SlicingIInv, Fresh, CaughtInv, ApartInv
<1>8. CalmInv' /\ SmoothInv'
  <2>1. ~Calm' /\ ~Smooth'
    BY <1>1, <1>4 DEF Calm, Smooth
  <2> QED BY <2>1 DEF CalmInv, SmoothInv
<1>9. Recorded'
  <2>1. ~(births = 0 /\ serverKind = "honours")
    BY <1>4 DEF Calm
  <2>2. lost = 0 \/ reasons # {}
    BY DEF SlicingIInv, Recorded
  <2>3. ~Smooth'
    BY <1>1, <1>4 DEF Calm, Smooth
  <2> QED BY <1>1, <1>2, <2>1, <2>2, <2>3 DEF Recorded
<1> QED BY <1>5, <1>6, <1>7, <1>8, <1>9 DEF SlicingIInv

\* Counting a window fetches it, halves it, or goes on with its one second.
LEMMA CountWindowKeeps == SlicingIInv /\ CountWindow => SlicingIInv'
<1> SUFFICES ASSUME SlicingIInv, CountWindow PROVE SlicingIInv'
  OBVIOUS
<1> DEFINE w == Top.w
           d == Top.depth
           count == Cardinality(Selected(w))
           Calls1 == IF count = 0 THEN <<>>
                     ELSE IF count <= ResultCeiling THEN <<Frame("fetch", w, NoCell, count, d)>>
                     ELSE IF Splittable(w) THEN BothHalves(w, d)
                     ELSE <<Frame(OneSecond(w), w, NoCell, count, d)>>
<1>1. /\ Doing("window") /\ d < MaxDepth /\ Push(Calls1)
      /\ collected' = collected /\ twice' = twice /\ lost' = lost /\ reasons' = reasons
      /\ troubles' = troubles /\ project' = project /\ serverKind' = serverKind /\ live' = live
      /\ births' = births /\ closings' = closings /\ phase' = phase /\ root' = root
      /\ before' = before /\ atomics' = atomics /\ degraded' = degraded /\ fellBack' = fellBack
  BY DEF CountWindow, AbsorbsNothing, RecordsNothing, NoTrouble, WalkSame, SlicerSame
<1>2. /\ phase = "walk" /\ stack # <<>> /\ stack \in Seq(Calls) /\ Top = Head(stack) /\ Top \in Calls
      /\ Top \in CallType /\ SliceFits(Top) /\ Top.do = "window" /\ live \in SUBSET Issue
      /\ project \in SlicedProjects
      /\ Calm => Settled(project, root, Top) /\ CalmWalk /\ live \subseteq project.atFirst
  BY <1>1, DoingFacts
<1>3. stack' = Calls1 \o Tail(stack)
  BY <1>1 DEF Push
<1>4. Unmoved
  BY <1>1 DEF Unmoved, SlicingIInv, SliceTypes
<1>5. w \in Windows /\ w.lo < w.hi /\ d \in 0 .. MaxDepth /\ Top.cell = NoCell
  BY <1>2 DEF CallType, SliceFits
<1>6. Selected(w) \in SUBSET live /\ count \in 0 .. Cardinality(Issue)
  <2>1. Selected(w) \in SUBSET live
    BY <1>2, SelectedAre
  <2> QED BY <1>2, <2>1, IssueSets
<1>7. w.lo \in Int /\ w.hi \in Int /\ d \in Int /\ count \in Nat
  BY <1>5, <1>6, SliceConstants DEF Windows
<1>12. serverKind # "ignores" => Selected(w) = live \cap Region(project, Head(stack))
  BY <1>2, <1>5, SelectedAre
<1>13. Smooth' => serverKind # "ignores"
  BY <1>1 DEF Smooth
<1>8. CASE count = 0
  <2>1. stack' = <<>> \o Tail(stack)
    BY <1>3, <1>8
  <2>2. Selected(w) = {}
    <3>1. IsFiniteSet(Selected(w))
      BY <1>2, <1>6, IssueSets
    <3> QED BY <1>8, <3>1, FS_EmptySet
  <2>3. Smooth' => live \cap Region(project, Head(stack)) = {}
    BY <1>12, <1>13, <2>2
  <2> QED BY <1>1, <1>2, <1>4, <2>1, <2>3, PushNone
<1>9. CASE count # 0 /\ count <= ResultCeiling
  <2> DEFINE c == Frame("fetch", w, NoCell, count, d)
  <2>1. stack' = <<c>> \o Tail(stack)
    BY <1>3, <1>9
  <2>2. c \in CallType /\ c.do = "fetch" /\ c.w = w /\ c.cell = NoCell
    <3>1. "fetch" \in Doings
      BY DEF Doings
    <3> HIDE DEF w, d, count
    <3> QED BY <1>5, <1>6, <3>1, NoCellIs, FrameIs
  <2> HIDE DEF c, w, count, d
  <2>3. c \in Calls
    BY <1>5, <2>2 DEF Calls, SliceFits
  <2>4. Region(project, c) = Region(project, Head(stack))
    BY <1>2, <1>5, <2>2, SameRegion DEF w
  <2>5. Calm => Settled(project, root, c)
    BY <1>2, <2>2 DEF Settled, w
  <2>6. Tallied(project, live, c)
    BY <2>2 DEF Tallied
  <2> QED BY <1>1, <1>2, <1>4, <2>1, <2>3, <2>4, <2>5, <2>6, PushOne
<1>10. CASE count # 0 /\ ~(count <= ResultCeiling) /\ Splittable(w)
  <2> DEFINE l == Frame("window", LeftHalf(w), NoCell, 0, d + 1)
             r == Frame("window", RightHalf(w), NoCell, 0, d + 1)
  <2>1. stack' = <<l, r>> \o Tail(stack)
    BY <1>3, <1>10 DEF BothHalves
  <2>2. /\ LeftHalf(w) \in Windows /\ LeftHalf(w).lo = w.lo /\ LeftHalf(w).lo < LeftHalf(w).hi
        /\ LeftHalf(w).openLo = w.openLo /\ LeftHalf(w).openHi = FALSE
        /\ RightHalf(w) \in Windows /\ RightHalf(w).hi = w.hi /\ RightHalf(w).lo < RightHalf(w).hi
        /\ RightHalf(w).openHi = w.openHi /\ RightHalf(w).openLo = FALSE
        /\ LeftHalf(w).hi - LeftHalf(w).lo - 1 =< (w.hi - w.lo - 1) \div 2
        /\ RightHalf(w).hi - RightHalf(w).lo - 1 =< (w.hi - w.lo - 1) \div 2
        /\ \A s \in Int : /\ In(s, LeftHalf(w)) => In(s, w)
                          /\ In(s, RightHalf(w)) => In(s, w)
                          /\ ~(In(s, LeftHalf(w)) /\ In(s, RightHalf(w)))
                          /\ In(s, w) => In(s, LeftHalf(w)) \/ In(s, RightHalf(w))
    <3> HIDE DEF w
    <3> QED BY <1>5, <1>10, HalvesAre
  <2>3. d + 1 \in 0 .. MaxDepth /\ 0 \in 0 .. Cardinality(Issue)
    BY <1>1, <1>5, SliceConstants
  <2>4. /\ l \in CallType /\ l.do = "window" /\ l.w = LeftHalf(w) /\ l.cell = NoCell /\ l.depth = d + 1
        /\ r \in CallType /\ r.do = "window" /\ r.w = RightHalf(w) /\ r.cell = NoCell /\ r.depth = d + 1
    <3> HIDE DEF w, d
    <3>1. "window" \in Doings
      BY DEF Doings
    <3> QED BY <2>2, <2>3, <3>1, NoCellIs, FrameIs
  <2> HIDE DEF l, r, w, d
  <2>5. l \in Calls /\ r \in Calls
    BY <2>2, <2>4 DEF Calls, SliceFits
  <2>6. \A i \in Issue : project.second[i] \in Int
    <3>1. \A i \in Issue : Second(i) \in 0 .. Today
      <4>1. {} \in SUBSET Issue
        OBVIOUS
      <4> QED BY <1>2, <4>1, SecondsAre
    <3> QED BY <3>1, SliceConstants DEF Second
  <2>7. /\ Region(project, l) \subseteq Region(project, Head(stack))
        /\ Region(project, r) \subseteq Region(project, Head(stack))
        /\ Region(project, l) \cap Region(project, r) = {}
        /\ Region(project, Head(stack)) \subseteq Region(project, l) \cup Region(project, r)
    <3>1. Region(project, l) \subseteq Region(project, Top)
      BY <1>5, <2>2, <2>4, <2>6, NarrowerRegion DEF w
    <3>2. Region(project, r) \subseteq Region(project, Top)
      BY <1>5, <2>2, <2>4, <2>6, NarrowerRegion DEF w
    <3>3. Region(project, l) \cap Region(project, r) = {}
      BY <2>2, <2>4, <2>6 DEF Region
    <3>4. Region(project, Top) \subseteq Region(project, l) \cup Region(project, r)
      <4> SUFFICES ASSUME NEW i \in Region(project, Top)
                   PROVE  i \in Region(project, l) \cup Region(project, r)
        OBVIOUS
      <4>1. i \in Issue /\ In(project.second[i], w) /\ project.second[i] \in Int
        BY <2>6 DEF Region, w
      <4>2. In(project.second[i], l.w) \/ In(project.second[i], r.w)
        BY <2>2, <2>4, <4>1
      <4>3. DOMAIN l.cell = {} /\ DOMAIN r.cell = {}
        BY <2>4, NoCellIs
      <4> QED BY <4>1, <4>2, <4>3 DEF Region
    <3> QED BY <1>2, <3>1, <3>2, <3>3, <3>4
  <2>8. Calm => Settled(project, root, l) /\ Settled(project, root, r)
    <3> SUFFICES ASSUME Calm PROVE Settled(project, root, l) /\ Settled(project, root, r)
      OBVIOUS
    <3>1. /\ w.openLo => w.lo = root.lo
          /\ w.openHi => w.hi = root.hi
          /\ w.hi - w.lo - 1 =< Span[d]
      BY <1>2 DEF Settled, w, d
    <3>2. d \in 0 .. MaxDepth - 1 /\ Span[d] \in Nat /\ Span[d + 1] = Span[d] \div 2
      BY <1>1, <1>5, SpanIs, SliceConstants
    <3>3. w.hi - w.lo - 1 >= 1
      BY <1>7, <1>10 DEF Splittable
    <3>4. d + 1 < MaxDepth
      <4>1. Span[d] # 0
        BY <1>7, <3>1, <3>2, <3>3
      <4>2. d # MaxDepth - 1
        BY <4>1, SpanIs
      <4> QED BY <3>2, <4>2, SliceConstants
    <3>5. (w.hi - w.lo - 1) \div 2 =< Span[d + 1]
      <4> DEFINE x == w.hi - w.lo - 1
                 y == Span[d]
      <4>1. x \in Int /\ y \in Int /\ x =< y
        BY <1>7, <3>1, <3>2
      <4> HIDE DEF x, y
      <4>2. x \div 2 =< y \div 2
        BY <4>1
      <4> QED BY <3>2, <4>2 DEF x, y
    <3>6. /\ l.w.hi - l.w.lo - 1 =< Span[d + 1]
          /\ r.w.hi - r.w.lo - 1 =< Span[d + 1]
      <4> DEFINE x == (w.hi - w.lo - 1) \div 2
                 a == LeftHalf(w).hi - LeftHalf(w).lo - 1
                 b == RightHalf(w).hi - RightHalf(w).lo - 1
      <4>1. a =< x /\ b =< x /\ x =< Span[d + 1]
        BY <2>2, <3>5
      <4>2. a \in Int /\ b \in Int /\ x \in Int /\ Span[d + 1] \in Int
        BY <1>7, <2>2, <3>2, SliceConstants DEF Windows
      <4> HIDE DEF a, b, x
      <4>3. a =< Span[d + 1] /\ b =< Span[d + 1]
        BY <4>1, <4>2
      <4> QED BY <2>4, <4>3 DEF a, b
    <3> QED BY <2>2, <2>4, <3>1, <3>4, <3>6 DEF Settled
  <2> DEFINE s == <<l, r>>
  <2>9. s \in Seq(Calls) /\ DOMAIN s = {1, 2} /\ s[1] = l /\ s[2] = r
    BY <2>5
  <2> HIDE DEF s
  <2>10. Disjoint(project, s)
    BY <2>7, <2>9 DEF Disjoint
  <2>11. \A n \in DOMAIN s : Region(project, s[n]) \subseteq Region(project, Head(stack))
    BY <2>7, <2>9
  <2>12. Calm => AllSettled(project, root, s)
    BY <2>8, <2>9 DEF AllSettled
  <2>13. stack' = s \o Tail(stack)
    BY <2>1 DEF s
  <2>14. live \cap Region(project, Head(stack)) \subseteq Pending(project, s)
    <3>1. Region(project, l) \subseteq Pending(project, s) /\ Region(project, r) \subseteq Pending(project, s)
      BY <2>9 DEF Pending
    <3> QED BY <2>7, <3>1
  <2>15. AllTallied(project, live, s)
    BY <2>4, <2>9 DEF AllTallied, Tallied
  <2> QED BY <1>1, <1>2, <1>4, <2>9, <2>10, <2>11, <2>12, <2>13, <2>14, <2>15, PushKeeps
<1>11. CASE count # 0 /\ ~(count <= ResultCeiling) /\ ~Splittable(w)
  <2> DEFINE c == Frame(OneSecond(w), w, NoCell, count, d)
  <2>1. stack' = <<c>> \o Tail(stack)
    BY <1>3, <1>11
  <2>2. OneSecond(w) = IF Closed(w) THEN "facets" ELSE "atomic"
    BY DEF OneSecond, Closed
  <2>3. c \in CallType /\ c.do = OneSecond(w) /\ c.w = w /\ c.cell = NoCell /\ c.depth = d /\ c.total = count
    <3>1. OneSecond(w) \in Doings
      BY <2>2 DEF Doings
    <3> HIDE DEF w, d, count
    <3> QED BY <1>5, <1>6, <3>1, NoCellIs, FrameIs
  <2>4. w.hi = w.lo + 1
    BY <1>5, <1>7, <1>11 DEF Splittable
  <2>5. InCell(w, NoCell) = Selected(w)
    BY <1>2, <1>5, SelectedAre
  <2> HIDE DEF c, w, count, d
  <2>6. c \in Calls
    BY <1>1, <1>5, <2>2, <2>3, <2>4 DEF Calls, SliceFits
  <2>7. Region(project, c) = Region(project, Head(stack))
    BY <1>2, <1>5, <2>3, SameRegion DEF w
  <2>8. serverKind # "ignores" => c.total = Cardinality(live \cap Region(project, c))
    BY <1>12, <2>3, <2>7 DEF count
  <2>9. Calm => Settled(project, root, c)
    <3> SUFFICES ASSUME Calm PROVE Settled(project, root, c)
      OBVIOUS
    <3>1. Cardinality(InCell(c.w, c.cell)) =< Cardinality(project.atFirst \cap Region(project, c))
      BY <1>2, <2>6, CountedIs DEF CalmWalk
    <3>2. c.total = Cardinality(InCell(c.w, c.cell))
      BY <2>3, <2>5 DEF count
    <3>3. c.total =< Cardinality(project.atFirst \cap Region(project, c))
      BY <3>1, <3>2
    <3>4. c.do # "window"
      BY <2>2, <2>3
    <3>5. (c.w.openLo => c.w.lo = root.lo) /\ (c.w.openHi => c.w.hi = root.hi)
      BY <1>2, <2>3 DEF Settled, w
    <3> QED BY <3>3, <3>4, <3>5 DEF Settled
  <2>10. Smooth' => Tallied(project, live, c)
    <3>1. c.total \in Nat
      BY <1>7, <2>3
    <3>2. Smooth' => Cardinality(live \cap Region(project, c)) =< c.total
      BY <1>13, <2>8, <3>1
    <3> QED BY <3>2 DEF Tallied
  <2> QED BY <1>1, <1>2, <1>4, <2>1, <2>6, <2>7, <2>9, <2>10, PushOne
<1> QED BY <1>8, <1>9, <1>10, <1>11

\* What a fetch cannot read goes on record.
LEMMA FetchWindowKeeps == SlicingIInv /\ FetchWindow => SlicingIInv'
<1> SUFFICES ASSUME SlicingIInv, FetchWindow PROVE SlicingIInv'
  OBVIOUS
<1> DEFINE found == Selected(Top.w)
           over == Cardinality(found) > ResultCeiling
           loss == IF over THEN Cardinality(found) - ResultCeiling ELSE 0
           more == IF over THEN {"page_limit_clamp"} ELSE {}
<1>1. /\ Doing("fetch") /\ stack' = Tail(stack) /\ atomics' = atomics
      /\ collected' = collected \cup FirstOf(found)
      /\ twice' = twice + Cardinality(FirstOf(found) \cap collected)
      /\ troubles' = troubles /\ project' = project /\ serverKind' = serverKind /\ live' = live
      /\ births' = births /\ closings' = closings /\ phase' = phase /\ root' = root
      /\ before' = before /\ degraded' = degraded /\ fellBack' = fellBack
  BY DEF FetchWindow, Absorb, Pop, NoTrouble, WalkSame, SlicerSame
<1>2. IF over THEN PutOnRecord("page_limit_clamp", Cardinality(found) - ResultCeiling)
      ELSE RecordsNothing
  BY DEF FetchWindow
<1>3. /\ phase = "walk" /\ stack # <<>> /\ stack \in Seq(Calls) /\ Top = Head(stack) /\ Top \in Calls
      /\ SliceFits(Top) /\ Top.do = "fetch" /\ live \in SUBSET Issue /\ project \in SlicedProjects
      /\ Calm => CalmWalk /\ live \subseteq project.atFirst
  BY <1>1, DoingFacts
<1>4. Top.cell = NoCell
  BY <1>3 DEF SliceFits
<1>5. /\ found \in SUBSET live
      /\ serverKind # "ignores" => found = live \cap Region(project, Head(stack))
  BY <1>3, <1>4, SelectedAre
<1> DEFINE got == FirstOf(found)
<1>6. /\ found \in SUBSET Issue /\ got \in SUBSET found /\ Cardinality(got) =< ResultCeiling
      /\ got = found \/ Cardinality(got) >= ResultCeiling
  BY <1>3, <1>5, FirstOfFits, FirstOfFills
<1>7. /\ Cardinality(got) =< Cardinality(found) /\ Cardinality(found) \in Nat
      /\ Cardinality(got) \in Nat /\ ResultCeiling \in Nat
  BY <1>6, IssueParts, IssueSets, SliceConstants
<1>8. lost' = lost + loss /\ reasons' = reasons \cup more
  <2>0. lost \in Nat
    BY DEF SlicingIInv, SliceTypes
  <2>1. CASE over
    BY <1>2, <2>1 DEF PutOnRecord
  <2>2. CASE ~over
    BY <1>2, <2>0, <2>2 DEF RecordsNothing
  <2> QED BY <2>1, <2>2
<1>9. loss \in Nat /\ more \in SUBSET {"page_limit_clamp", "atomic_window"} /\ (loss = 0 \/ more # {})
  BY <1>7
<1>10. loss =< Cardinality(found) - Cardinality(got)
  BY <1>6, <1>7
<1>14. Cardinality(found) - Cardinality(got) =< loss
  BY <1>6, <1>7
<1>15. Calm => loss =< Cardinality(project.atFirst \cap Region(project, Head(stack))) - Cardinality(got)
  <2> SUFFICES ASSUME Calm
               PROVE  loss =< Cardinality(project.atFirst \cap Region(project, Head(stack))) - Cardinality(got)
    OBVIOUS
  <2> DEFINE S == project.atFirst \cap Region(project, Head(stack))
  <2>1. found \in SUBSET S /\ S \in SUBSET Issue
    BY <1>3, <1>5 DEF CalmWalk, Region
  <2> HIDE DEF S, found
  <2>2. Cardinality(found) =< Cardinality(S) /\ Cardinality(S) \in Nat
    BY <2>1, IssueParts, IssueSets
  <2> HIDE DEF got, loss
  <2>3. loss =< Cardinality(S) - Cardinality(got)
    BY <1>7, <1>9, <1>10, <2>2
  <2> QED BY <2>3 DEF S
<1>11. Unmoved
  BY <1>1 DEF Unmoved, SlicingIInv, SliceTypes
<1> DEFINE seconds == {}
<1>12. atomics' = atomics \cup seconds /\ \A w \in seconds : ~w.openLo /\ ~w.openHi /\ w.hi = w.lo + 1
  BY <1>1
<1>13. collected' = collected \cup got /\ twice' = twice + Cardinality(got \cap collected)
  BY <1>1
<1> HIDE DEF found, got, loss, more, seconds, over
<1> QED BY <1>1, <1>3, <1>5, <1>6, <1>8, <1>9, <1>11, <1>12, <1>13, <1>14, <1>15, FetchKeeps

\* Widening moves an edge that is open, and so changes nothing but the numbers.
LEMMA WidenedIs ==
    ASSUME live \in SUBSET Issue, project \in SlicedProjects, NEW w \in Windows, w.lo < w.hi,
           ReachesLater(w) \/ ReachesEarlier(w)
    PROVE  /\ Widened(w) \in Windows /\ Widened(w).lo < Widened(w).hi
           /\ \A s \in Int : In(s, Widened(w)) => In(s, w)
           /\ \E i \in live : (w.openHi /\ Second(i) >= w.hi) \/ (w.openLo /\ Second(i) < w.lo)
<1> DEFINE S == Selected(w)
<1>1. S \in SUBSET live
  BY DEF Selected
<1>2. Today \in Nat /\ w.lo \in 0 .. Today + 1 /\ w.hi \in 0 .. Today + 1
  BY SliceConstants DEF Windows
<1>3. S # {} => /\ Oldest(S) \in 0 .. Today /\ Newest(S) \in 0 .. Today
  BY <1>1, SecondsAre
<1>4. S # {} => (\E i \in S : Second(i) = Oldest(S)) /\ (\E i \in S : Second(i) = Newest(S))
  <2> SUFFICES ASSUME S # {}
               PROVE (\E i \in S : Second(i) = Oldest(S)) /\ (\E i \in S : Second(i) = Newest(S))
    OBVIOUS
  <2> DEFINE T == {Second(i) : i \in S}
  <2>1. T \in SUBSET Int /\ T # {} /\ IsFiniteSet(T)
    <3>1. \A i \in Issue : Second(i) \in 0 .. Today
      BY <1>1, SecondsAre
    <3>2. T \in SUBSET (0 .. Today) /\ T # {}
      BY <1>1, <3>1
    <3> HIDE DEF T
    <3>3. IsFiniteSet(0 .. Today)
      BY <1>2, FS_Interval
    <3>4. IsFiniteSet(T)
      BY <3>2, <3>3, FS_Subset
    <3> QED BY <1>2, <3>2, <3>4
  <2>2. Oldest(S) = Min(T) /\ Newest(S) = Max(T)
    BY DEF Oldest, Newest
  <2> HIDE DEF T
  <2>3. (\E x \in T : \A y \in T : x =< y) /\ (\E x \in T : \A y \in T : y =< x)
    BY <2>1, LeastElement, GreatestElement
  <2>4. \E x \in T : \A y \in T : x >= y
    BY <2>1, <2>3
  <2>5. Min(T) \in T /\ Max(T) \in T
    BY <2>3, <2>4 DEF Min, Max
  <2> QED BY <2>2, <2>5 DEF T
<1> HIDE DEF S
<1>5. CASE ReachesLater(w)
  <2>1. w.openHi /\ S # {} /\ Newest(S) >= w.hi
    BY <1>5 DEF ReachesLater, S
  <2> DEFINE n == Newest(S) + 1
  <2>2. Widened(w) = [w EXCEPT !.hi = n]
    BY <1>5 DEF Widened, S
  <2>3. n \in 0 .. Today + 1 /\ w.lo < n
    BY <1>2, <1>3, <2>1
  <2> HIDE DEF n
  <2>4. /\ Widened(w) \in Windows /\ Widened(w).lo = w.lo /\ Widened(w).hi = n
        /\ Widened(w).openLo = w.openLo /\ Widened(w).openHi = w.openHi
    BY <2>2, <2>3 DEF Windows
  <2>5. \A s \in Int : In(s, Widened(w)) => In(s, w)
    BY <2>1, <2>4 DEF In
  <2> QED BY <1>1, <1>4, <2>1, <2>3, <2>4, <2>5
<1>6. CASE ~ReachesLater(w)
  <2>1. w.openLo /\ S # {} /\ Oldest(S) < w.lo
    BY <1>6 DEF ReachesEarlier, S
  <2> DEFINE n == Oldest(S)
  <2>2. Widened(w) = [w EXCEPT !.lo = n]
    BY <1>6 DEF Widened, S
  <2>3. n \in 0 .. Today + 1 /\ n < w.hi
    BY <1>2, <1>3, <2>1
  <2> HIDE DEF n
  <2>4. /\ Widened(w) \in Windows /\ Widened(w).lo = n /\ Widened(w).hi = w.hi
        /\ Widened(w).openLo = w.openLo /\ Widened(w).openHi = w.openHi
    BY <2>2, <2>3 DEF Windows
  <2>5. \A s \in Int : In(s, Widened(w)) => In(s, w)
    BY <2>1, <2>4 DEF In
  <2> QED BY <1>1, <1>4, <2>1, <2>3, <2>4, <2>5
<1> QED BY <1>5, <1>6

\* Closing an edge leaves issues out only where dates moved.
LEMMA WidenOrCloseKeeps == SlicingIInv /\ WidenOrClose => SlicingIInv'
<1> SUFFICES ASSUME SlicingIInv, WidenOrClose PROVE SlicingIInv'
  OBVIOUS
<1> DEFINE w == Top.w
           v == [w EXCEPT !.openLo = FALSE, !.openHi = FALSE]
           closed == Frame("close", v, NoCell, 0, Top.depth)
           wider == Frame("window", Widened(w), NoCell, 0, Top.depth + 1)
           Reaches == ReachesLater(w) \/ ReachesEarlier(w)
<1>1. /\ Doing("atomic")
      /\ collected' = collected /\ twice' = twice /\ lost' = lost /\ reasons' = reasons
      /\ project' = project /\ serverKind' = serverKind /\ live' = live
      /\ births' = births /\ closings' = closings /\ phase' = phase /\ root' = root
      /\ before' = before /\ atomics' = atomics /\ degraded' = degraded /\ fellBack' = fellBack
  BY DEF WidenOrClose, AbsorbsNothing, RecordsNothing, WalkSame, SlicerSame
<1>2. \/ Reaches /\ Push(<<wider>>) /\ troubles' = troubles
      \/ /\ Push(<<closed>>)
         /\ \/ ~Reaches /\ troubles' = troubles
            \/ troubles < MaxTroubles /\ troubles' = troubles + 1
  BY DEF WidenOrClose, NoTrouble
<1>3. /\ phase = "walk" /\ stack # <<>> /\ stack \in Seq(Calls) /\ Top = Head(stack) /\ Top \in Calls
      /\ Top \in CallType /\ SliceFits(Top) /\ Top.do = "atomic" /\ live \in SUBSET Issue
      /\ project \in SlicedProjects
      /\ Calm => Settled(project, root, Top) /\ Covers(project, root, live)
  BY <1>1, DoingFacts
<1>4. Unmoved
  <2>1. troubles \in Nat /\ troubles =< MaxTroubles /\ MaxTroubles \in Nat
    BY SliceConstants DEF SlicingIInv, SliceTypes
  <2>2. troubles' \in Nat /\ troubles' =< MaxTroubles /\ (troubles' = 0 => troubles = 0)
    <3> HIDE DEF closed, wider, Reaches
    <3> QED BY <1>2, <2>1
  <2> QED BY <1>1, <2>2 DEF Unmoved
<1>5. /\ w \in Windows /\ w.lo < w.hi /\ w.hi = w.lo + 1 /\ ~Closed(w) /\ Top.cell = NoCell
      /\ Top.depth \in 0 .. MaxDepth /\ Top.depth < MaxDepth
  BY <1>3 DEF CallType, SliceFits
<1>6. \A i \in Issue : project.second[i] \in Int
  <2>1. \A i \in Issue : Second(i) \in 0 .. Today
    BY <1>3, SecondsAre
  <2> QED BY <2>1, SliceConstants DEF Second
<1>7. 0 \in 0 .. Cardinality(Issue) /\ Top.depth + 1 \in 0 .. MaxDepth
  BY <1>5, SliceConstants
<1>8. CASE Reaches /\ Push(<<wider>>)
  <2>1. stack' = <<wider>> \o Tail(stack)
    BY <1>8 DEF Push
  <2>2. /\ Widened(w) \in Windows /\ Widened(w).lo < Widened(w).hi
        /\ \A s \in Int : In(s, Widened(w)) => In(s, w)
        /\ \E i \in live : (w.openHi /\ Second(i) >= w.hi) \/ (w.openLo /\ Second(i) < w.lo)
    <3> HIDE DEF w
    <3> QED BY <1>3, <1>5, <1>8, WidenedIs
  <2>3. wider \in CallType /\ wider.do = "window" /\ wider.w = Widened(w) /\ wider.cell = NoCell
    <3>1. "window" \in Doings
      BY DEF Doings
    <3> HIDE DEF w
    <3> QED BY <1>7, <2>2, <3>1, NoCellIs, FrameIs
  <2> HIDE DEF wider, w
  <2>4. wider \in Calls
    BY <2>2, <2>3 DEF Calls, SliceFits
  <2>5. Region(project, wider) \subseteq Region(project, Head(stack))
    <3>1. Region(project, wider) \subseteq Region(project, Top)
      BY <1>5, <1>6, <2>2, <2>3, NarrowerRegion DEF w
    <3> QED BY <1>3, <3>1
  <2>6. ~Calm
    <3> SUFFICES ASSUME Calm PROVE FALSE
      OBVIOUS
    <3>1. (w.openLo => w.lo = root.lo) /\ (w.openHi => w.hi = root.hi)
      BY <1>3 DEF Settled, w
    <3>2. \A i \in live : root.lo =< Second(i) /\ Second(i) < root.hi
      BY <1>3 DEF Covers, Second
    <3>3. w.lo \in Int /\ w.hi \in Int /\ \A i \in live : Second(i) \in Int
      BY <1>3, <1>5, <1>6, SliceConstants DEF Windows, Second
    <3> QED BY <2>2, <3>1, <3>2, <3>3
  <2>7. ~Smooth'
    BY <1>1, <2>6 DEF Smooth, Calm
  <2> QED BY <1>1, <1>3, <1>4, <2>1, <2>4, <2>5, <2>6, <2>7, PushOne
<1>9. CASE Push(<<closed>>) /\ (Smooth' => ~Reaches)
  <2>1. stack' = <<closed>> \o Tail(stack)
    BY <1>9 DEF Push
  <2>2. v \in Windows /\ v.lo = w.lo /\ v.hi = w.hi /\ v.openLo = FALSE /\ v.openHi = FALSE
    <3> HIDE DEF w
    <3> QED BY <1>5 DEF Windows
  <2>3. closed \in CallType /\ closed.do = "close" /\ closed.w = v /\ closed.cell = NoCell
    <3>1. "close" \in Doings
      BY DEF Doings
    <3> HIDE DEF w, v
    <3> QED BY <1>5, <1>7, <2>2, <3>1, NoCellIs, FrameIs
  <2> HIDE DEF closed, v, w
  <2>4. closed \in Calls
    BY <1>5, <2>2, <2>3 DEF Calls, SliceFits, Closed
  <2>5. Region(project, closed) \subseteq Region(project, Head(stack))
    <3>1. \A s \in Int : In(s, v) => In(s, w)
      BY <2>2 DEF In
    <3>2. Region(project, closed) \subseteq Region(project, Top)
      BY <1>5, <1>6, <2>3, <3>1, NarrowerRegion DEF w
    <3> QED BY <1>3, <3>2
  <2>6. Settled(project, root, closed)
    BY <2>2, <2>3 DEF Settled
  <2>7. Tallied(project, live, closed)
    BY <2>3 DEF Tallied
  <2>8. Smooth' => live \cap Region(project, Head(stack)) \subseteq Region(project, closed)
    <3> SUFFICES ASSUME Smooth', NEW i \in live, i \in Region(project, Head(stack))
                 PROVE  i \in Region(project, closed)
      OBVIOUS
    <3>1. serverKind # "ignores" /\ ~Reaches
      BY <1>1, <1>9 DEF Smooth
    <3>2. Selected(w) = live \cap Region(project, Top)
      BY <1>3, <1>5, <3>1, SelectedAre DEF w
    <3>3. i \in Selected(w) /\ i \in Issue /\ In(project.second[i], w)
      BY <1>3, <3>2 DEF Region, w
    <3>4. Selected(w) \in SUBSET Issue
      BY <1>3, <3>2
    <3>5. /\ Oldest(Selected(w)) \in 0 .. Today /\ Newest(Selected(w)) \in 0 .. Today
          /\ Oldest(Selected(w)) =< Second(i) /\ Second(i) =< Newest(Selected(w))
          /\ Second(i) \in 0 .. Today
      BY <1>3, <3>3, <3>4, SecondsAre
    <3>6. /\ w.openHi => ~(Newest(Selected(w)) >= w.hi)
          /\ w.openLo => ~(Oldest(Selected(w)) < w.lo)
      BY <3>1, <3>3 DEF ReachesLater, ReachesEarlier
    <3>7. w.lo \in Int /\ w.hi \in Int /\ Today \in Nat /\ w.openLo \in BOOLEAN /\ w.openHi \in BOOLEAN
      BY <1>5, SliceConstants DEF Windows
    <3>8. In(project.second[i], v)
      <4> DEFINE o == Oldest(Selected(w))
                 m == Newest(Selected(w))
                 x == project.second[i]
      <4>1. /\ x \in Int /\ o \in Int /\ m \in Int /\ o =< x /\ x =< m
        BY <3>5, <3>7 DEF Second
      <4>2. (w.openLo \/ x >= w.lo) /\ (w.openHi \/ x < w.hi)
        BY <3>3 DEF In
      <4> HIDE DEF o, m, x
      <4>3. x >= w.lo
        BY <3>6, <3>7, <4>1, <4>2 DEF o
      <4>4. x < w.hi
        BY <3>6, <3>7, <4>1, <4>2 DEF m
      <4> QED BY <2>2, <4>3, <4>4 DEF In, x
    <3>9. DOMAIN closed.cell = {}
      BY <2>3, NoCellIs
    <3> QED BY <2>3, <3>3, <3>8, <3>9 DEF Region
  <2> QED BY <1>1, <1>3, <1>4, <2>1, <2>4, <2>5, <2>6, <2>7, <2>8, PushOne
<1>10. troubles < MaxTroubles /\ troubles' = troubles + 1 => ~Smooth'
  <2>1. troubles \in Nat
    BY DEF SlicingIInv, SliceTypes
  <2> QED BY <2>1 DEF Smooth
<1> HIDE DEF closed, wider, Reaches
<1> QED BY <1>2, <1>8, <1>9, <1>10

\* A closed second is counted again, and fetched or narrowed by a facet.
LEMMA CountSecondKeeps == SlicingIInv /\ CountSecond => SlicingIInv'
<1> SUFFICES ASSUME SlicingIInv, CountSecond PROVE SlicingIInv'
  OBVIOUS
<1> DEFINE w == Top.w
           d == Top.depth
           count == Cardinality(Selected(w))
           do == IF count <= ResultCeiling THEN "fetch" ELSE "facets"
           c == Frame(do, w, NoCell, count, d)
           calls == IF count = 0 THEN <<>> ELSE <<c>>
<1>1. /\ Doing("close") /\ Push(calls)
      /\ collected' = collected /\ twice' = twice /\ lost' = lost /\ reasons' = reasons
      /\ troubles' = troubles /\ project' = project /\ serverKind' = serverKind /\ live' = live
      /\ births' = births /\ closings' = closings /\ phase' = phase /\ root' = root
      /\ before' = before /\ atomics' = atomics /\ degraded' = degraded /\ fellBack' = fellBack
  BY DEF CountSecond, AbsorbsNothing, RecordsNothing, NoTrouble, WalkSame, SlicerSame
<1>2. /\ phase = "walk" /\ stack # <<>> /\ stack \in Seq(Calls) /\ Top = Head(stack) /\ Top \in Calls
      /\ Top \in CallType /\ SliceFits(Top) /\ Top.do = "close" /\ live \in SUBSET Issue
      /\ project \in SlicedProjects
      /\ Calm => Settled(project, root, Top) /\ CalmWalk /\ live \subseteq project.atFirst
  BY <1>1, DoingFacts
<1>3. stack' = calls \o Tail(stack)
  BY <1>1 DEF Push
<1>4. Unmoved
  BY <1>1 DEF Unmoved, SlicingIInv, SliceTypes
<1>5. w \in Windows /\ w.lo < w.hi /\ w.hi = w.lo + 1 /\ Closed(w) /\ d \in 0 .. MaxDepth /\ Top.cell = NoCell
  BY <1>2 DEF CallType, SliceFits
<1>6. Selected(w) \in SUBSET live /\ count \in 0 .. Cardinality(Issue) /\ count \in Nat
  <2>1. Selected(w) \in SUBSET live
    BY <1>2, SelectedAre
  <2> QED BY <1>2, <2>1, IssueSets
<1>9. serverKind # "ignores" => Selected(w) = live \cap Region(project, Head(stack))
  BY <1>2, <1>5, SelectedAre
<1>10. Smooth' => serverKind # "ignores"
  BY <1>1 DEF Smooth
<1>7. CASE count = 0
  <2>1. stack' = <<>> \o Tail(stack)
    BY <1>3, <1>7
  <2>2. Selected(w) = {}
    <3>1. IsFiniteSet(Selected(w))
      BY <1>2, <1>6, IssueSets
    <3> QED BY <1>7, <3>1, FS_EmptySet
  <2>3. Smooth' => live \cap Region(project, Head(stack)) = {}
    BY <1>9, <1>10, <2>2
  <2> QED BY <1>1, <1>2, <1>4, <2>1, <2>3, PushNone
<1>8. CASE count # 0
  <2>1. stack' = <<c>> \o Tail(stack)
    BY <1>3, <1>8
  <2>2. do \in {"fetch", "facets"} /\ do \in Doings
    BY DEF Doings
  <2>3. c \in CallType /\ c.do = do /\ c.w = w /\ c.cell = NoCell /\ c.total = count
    <3> HIDE DEF w, d, count, do
    <3> QED BY <1>5, <1>6, <2>2, NoCellIs, FrameIs
  <2>4. InCell(w, NoCell) = Selected(w)
    BY <1>2, <1>5, SelectedAre
  <2> HIDE DEF c, w, count, d, do
  <2>5. c \in Calls
    BY <1>5, <2>2, <2>3 DEF Calls, SliceFits
  <2>6. Region(project, c) = Region(project, Head(stack))
    BY <1>2, <1>5, <2>3, SameRegion DEF w
  <2>7. serverKind # "ignores" => c.total = Cardinality(live \cap Region(project, c))
    BY <1>9, <2>3, <2>6 DEF count
  <2>8. Calm => Settled(project, root, c)
    <3> SUFFICES ASSUME Calm PROVE Settled(project, root, c)
      OBVIOUS
    <3>1. Cardinality(InCell(c.w, c.cell)) =< Cardinality(project.atFirst \cap Region(project, c))
      BY <1>2, <2>5, CountedIs DEF CalmWalk
    <3>2. c.total = Cardinality(InCell(c.w, c.cell))
      BY <2>3, <2>4 DEF count
    <3>3. c.total =< Cardinality(project.atFirst \cap Region(project, c))
      BY <3>1, <3>2
    <3> QED BY <1>2, <2>2, <2>3, <3>3 DEF Settled, w
  <2>9. Smooth' => Tallied(project, live, c)
    <3>1. Smooth' => Cardinality(live \cap Region(project, c)) =< c.total
      BY <1>6, <1>10, <2>3, <2>7
    <3> QED BY <3>1 DEF Tallied
  <2> QED BY <1>1, <1>2, <1>4, <2>1, <2>5, <2>6, <2>8, <2>9, PushOne
<1> QED BY <1>7, <1>8

\* The facets, in the order they are tried.
FacetNames == {"kind", "rule", "file"}

\* The next facet is one the cell does not filter by yet.
LEMMA FacetIs ==
    ASSUME NEW cell \in Cells, Finer(cell)
    PROVE  LET f == Facets[NextFacet(cell)] IN
           f \in FacetNames /\ f \notin DOMAIN cell /\ DOMAIN cell \cup {f} \in Filtered
<1> DEFINE D == DOMAIN cell
<1>1. D \in Filtered
  BY DEF Cells
<1>2. Len(Facets) = 3 /\ Facets[1] = "kind" /\ Facets[2] = "rule" /\ Facets[3] = "file"
  BY DEF Facets
<1>3. /\ Cardinality({}) = 0 /\ Cardinality({"kind"}) = 1
      /\ Cardinality({"kind", "rule"}) = 2 /\ Cardinality({"kind", "rule", "file"}) = 3
  <2>1. Cardinality({}) = 0 /\ IsFiniteSet({})
    BY FS_EmptySet
  <2>2. Cardinality({"kind"}) = 1 /\ IsFiniteSet({"kind"})
    BY FS_Singleton
  <2>3. {"kind", "rule"} = {"kind"} \cup {"rule"} /\ "rule" \notin {"kind"}
    OBVIOUS
  <2>4. Cardinality({"kind"} \cup {"rule"}) = Cardinality({"kind"}) + 1 /\ IsFiniteSet({"kind"} \cup {"rule"})
    BY <2>2, <2>3, FS_AddElement
  <2>5. {"kind", "rule", "file"} = {"kind", "rule"} \cup {"file"} /\ "file" \notin {"kind", "rule"}
    OBVIOUS
  <2>6. Cardinality({"kind", "rule"}) = 2 /\ IsFiniteSet({"kind", "rule"})
    BY <2>2, <2>3, <2>4
  <2>7. Cardinality({"kind", "rule"} \cup {"file"}) = Cardinality({"kind", "rule"}) + 1
    BY <2>5, <2>6, FS_AddElement
  <2>8. Cardinality({"kind", "rule", "file"}) = 3
    BY <2>5, <2>6, <2>7
  <2> QED BY <2>1, <2>2, <2>6, <2>8
<1>4. NextFacet(cell) = Cardinality(D) + 1
  BY DEF NextFacet
<1>5. Cardinality(D) + 1 =< 3
  BY <1>2, <1>4 DEF Finer
<1> HIDE DEF D
<1>6. CASE D = {}
  <2>1. NextFacet(cell) = 1
    BY <1>3, <1>4, <1>6
  <2>2. D \cup {"kind"} = {"kind"}
    BY <1>6
  <2> QED BY <1>2, <1>6, <2>1, <2>2 DEF Filtered, FacetNames, D
<1>7. CASE D = {"kind"}
  <2>1. NextFacet(cell) = 2
    BY <1>3, <1>4, <1>7
  <2>2. D \cup {"rule"} = {"kind", "rule"} /\ "rule" \notin D
    BY <1>7
  <2> QED BY <1>2, <2>1, <2>2 DEF Filtered, FacetNames, D
<1>8. CASE D = {"kind", "rule"}
  <2>1. NextFacet(cell) = 3
    BY <1>3, <1>4, <1>8
  <2>2. D \cup {"file"} = {"kind", "rule", "file"} /\ "file" \notin D
    BY <1>8
  <2> QED BY <1>2, <2>1, <2>2 DEF Filtered, FacetNames, D
<1>9. D # {"kind", "rule", "file"}
  BY <1>3, <1>5
<1> QED BY <1>1, <1>6, <1>7, <1>8, <1>9 DEF Filtered

\* A cell narrowed by a facet is about the issues with that value.
LEMMA NarrowedIs ==
    ASSUME NEW cell \in Cells, NEW f, f \notin DOMAIN cell, DOMAIN cell \cup {f} \in Filtered,
           NEW v \in FacetValues
    PROVE  /\ Narrowed(cell, f, v) \in Cells
           /\ \A p, c, d : c.cell = Narrowed(cell, f, v) /\ d.cell = cell /\ c.w = d.w =>
                 Region(p, c) = {i \in Region(p, d) : p.facet[f][i] = v}
<1> DEFINE n == Narrowed(cell, f, v)
           D == DOMAIN cell \cup {f}
<1>1. cell \in [DOMAIN cell -> FacetValues]
  BY DEF Cells
<1>2. n \in [D -> FacetValues] /\ DOMAIN n = D /\ n[f] = v /\ \A g \in DOMAIN cell : n[g] = cell[g]
  BY <1>1 DEF Narrowed
<1> HIDE DEF n
<1>3. n \in Cells
  BY <1>2 DEF Cells
<1>4. ASSUME NEW p, NEW c, NEW d, c.cell = n, d.cell = cell, c.w = d.w
      PROVE  Region(p, c) = {i \in Region(p, d) : p.facet[f][i] = v}
  BY <1>2, <1>4 DEF Region
<1> QED BY <1>3, <1>4 DEF n

\* Giving up on a call keeps its issues and its count.
LEMMA GiveUpOnKeeps ==
    ASSUME SlicingIInv, phase = "walk", stack # <<>>, Unmoved,
           Top \in Calls, Top.do = "facets", Top = Head(stack),
           stack' = GiveUpOn(Top) \o Tail(stack),
           collected' = collected, twice' = twice, lost' = lost, reasons' = reasons,
           atomics' = atomics, Calm => Settled(project, root, Top),
           Smooth => Tallied(project, live, Top)
    PROVE  SlicingIInv'
<1> DEFINE c == [Top EXCEPT !.do = "give up"]
<1>1. stack' = <<c>> \o Tail(stack)
  BY DEF GiveUpOn
<1>2. Top \in CallType /\ SliceFits(Top)
  BY DEF Calls
<1>3. c \in CallType /\ c.do = "give up" /\ c.w = Top.w /\ c.cell = Top.cell /\ c.total = Top.total
  BY <1>2 DEF CallType, Doings
<1> HIDE DEF c
<1>4. c \in Calls
  BY <1>2, <1>3 DEF Calls, SliceFits
<1>5. Region(project, c) = Region(project, Head(stack))
  BY <1>3, SameRegion
<1>6. Calm => Settled(project, root, c)
  BY <1>3, <1>5 DEF Settled
<1>7. Smooth' => Tallied(project, live, c)
  <2>1. Smooth' => Smooth
    BY DEF Smooth, Unmoved
  <2>2. Smooth' => Cardinality(live \cap Region(project, Top)) =< Top.total
    BY <2>1 DEF Tallied
  <2> QED BY <1>3, <1>5, <2>2 DEF Tallied
<1> QED BY <1>1, <1>4, <1>5, <1>6, <1>7, PushOne

\* The cells of a facet are about different issues, for their values differ.
LEMMA SplitByFacetKeeps == SlicingIInv /\ SplitByFacet => SlicingIInv'
<1> SUFFICES ASSUME SlicingIInv, SplitByFacet PROVE SlicingIInv'
  OBVIOUS
<1> DEFINE w == Top.w
           cell == Top.cell
           d == Top.depth
           f == Facets[NextFacet(cell)]
           parts == SetToSeq(Buckets(w, cell, f))
           Part(v) == LET count == CountOf(w, cell, f, v) IN
                      Frame(IF count <= ResultCeiling THEN "cell" ELSE "facets",
                            w, Narrowed(cell, f, v), count, d)
           calls == [n \in DOMAIN parts |-> Part(parts[n])]
<1>1. /\ Doing("facets")
      /\ collected' = collected /\ twice' = twice /\ lost' = lost /\ reasons' = reasons
      /\ project' = project /\ serverKind' = serverKind /\ live' = live
      /\ births' = births /\ closings' = closings /\ phase' = phase /\ root' = root
      /\ before' = before /\ atomics' = atomics /\ degraded' = degraded /\ fellBack' = fellBack
  BY DEF SplitByFacet, AbsorbsNothing, RecordsNothing, WalkSame, SlicerSame
<1>2. /\ troubles' = troubles \/ (troubles < MaxTroubles /\ troubles' = troubles + 1)
      /\ Push(GiveUpOn(Top)) \/ (Finer(cell) /\ Push(calls) /\ Accounts(w, cell, f, Top.total))
  BY DEF SplitByFacet, NoTrouble
<1>3. /\ phase = "walk" /\ stack # <<>> /\ stack \in Seq(Calls) /\ Top = Head(stack) /\ Top \in Calls
      /\ Top \in CallType /\ SliceFits(Top) /\ Top.do = "facets" /\ live \in SUBSET Issue
      /\ project \in SlicedProjects
      /\ Calm => Settled(project, root, Top) /\ CalmWalk /\ live \subseteq project.atFirst
      /\ Smooth => Calm /\ Tallied(project, live, Top)
  BY <1>1, DoingFacts
<1>4. Unmoved
  <2>1. troubles \in Nat /\ troubles =< MaxTroubles /\ MaxTroubles \in Nat
    BY SliceConstants DEF SlicingIInv, SliceTypes
  <2>2. troubles' \in Nat /\ troubles' =< MaxTroubles /\ (troubles' = 0 => troubles = 0)
    BY <1>2, <2>1
  <2> QED BY <1>1, <2>2 DEF Unmoved
<1>5. CASE Push(GiveUpOn(Top))
  <2>1. stack' = GiveUpOn(Top) \o Tail(stack)
    BY <1>5 DEF Push
  <2> QED BY <1>1, <1>3, <1>4, <2>1, GiveUpOnKeeps
<1>6. CASE Finer(cell) /\ Push(calls) /\ Accounts(w, cell, f, Top.total)
  <2>1. stack' = calls \o Tail(stack)
    BY <1>6 DEF Push
  <2>2. w \in Windows /\ w.lo < w.hi /\ w.hi = w.lo + 1 /\ Closed(w) /\ d \in 0 .. MaxDepth /\ cell \in Cells
    BY <1>3 DEF CallType, SliceFits
  <2>3. /\ InCell(w, cell) \in SUBSET live
        /\ serverKind # "ignores" => InCell(w, cell) = live \cap Region(project, Top)
    BY <1>3, SelectedAre
  <2> HIDE DEF w, cell, d
  <2>4. f \in FacetNames /\ f \notin DOMAIN cell /\ DOMAIN cell \cup {f} \in Filtered
    BY <1>6, <2>2, FacetIs
  <2> HIDE DEF f
  <2> DEFINE B == Buckets(w, cell, f)
  <2>5. IsFiniteSet(B) /\ \A v \in B : \E i \in InCell(w, cell) : v = project.facet[f][i]
    BY <1>3, <2>3, BucketsAre
  <2> HIDE DEF B
  <2>6. B \in SUBSET FacetValues
    BY <1>3, <2>3, <2>4, <2>5 DEF FacetValues, FacetNames
  <2>7. /\ parts \in Seq(B) /\ \A m, n \in DOMAIN parts : parts[m] = parts[n] => m = n
        /\ \A v \in B : \E n \in DOMAIN parts : parts[n] = v
    <3>1. parts = SetToSeq(B)
      BY DEF B
    <3> HIDE DEF parts
    <3> QED BY <2>5, <3>1, InSomeOrder
  <2> HIDE DEF parts
  <2>8. ASSUME NEW v \in B
        PROVE  /\ Part(v) \in Calls /\ Part(v).total = CountOf(w, cell, f, v)
               /\ Region(project, Part(v)) = {i \in Region(project, Top) : project.facet[f][i] = v}
               /\ Part(v).w = w /\ Part(v).do \in {"cell", "facets"}
    <3> DEFINE count == CountOf(w, cell, f, v)
               do == IF count <= ResultCeiling THEN "cell" ELSE "facets"
               n == Narrowed(cell, f, v)
               c == Frame(do, w, n, count, d)
    <3>1. Part(v) = c
      OBVIOUS
    <3>2. n \in Cells /\ v \in FacetValues
      BY <2>2, <2>4, <2>6, <2>8, NarrowedIs
    <3>3. count \in 0 .. Cardinality(Issue)
      <4>1. {i \in InCell(w, cell) : project.facet[f][i] = v} \in SUBSET Issue
        BY <1>3, <2>3
      <4> QED BY <4>1, IssueSets DEF CountOf
    <3>4. do \in {"cell", "facets"} /\ do \in Doings
      BY DEF Doings
    <3>5. c \in CallType /\ c.do = do /\ c.w = w /\ c.cell = n /\ c.total = count /\ c.depth = d
      <4> HIDE DEF n, count, do
      <4> QED BY <2>2, <3>2, <3>3, <3>4, FrameIs
    <3> HIDE DEF c, do, count, Part
    <3>6. c \in Calls
      BY <2>2, <3>4, <3>5 DEF Calls, SliceFits
    <3>7. Region(project, c) = {i \in Region(project, Top) : project.facet[f][i] = v}
      <4>1. c.cell = Narrowed(cell, f, v) /\ Top.cell = cell /\ c.w = Top.w
        BY <3>5 DEF w, cell
      <4>2. \A p, e, g : e.cell = Narrowed(cell, f, v) /\ g.cell = cell /\ e.w = g.w =>
                          Region(p, e) = {i \in Region(p, g) : p.facet[f][i] = v}
        BY <2>2, <2>4, <3>2, NarrowedIs
      <4> HIDE DEF n
      <4> QED BY <4>1, <4>2, Zenon
    <3> QED BY <3>1, <3>4, <3>5, <3>6, <3>7 DEF count
  <2> HIDE DEF Part
  <2>9. DOMAIN calls = DOMAIN parts /\ \A n \in DOMAIN parts : parts[n] \in B /\ calls[n] = Part(parts[n])
    BY <2>7
  <2>10. calls \in Seq(Calls)
    <3>1. Len(parts) \in Nat /\ DOMAIN parts = 1 .. Len(parts)
      BY <2>7
    <3>2. calls \in [1 .. Len(parts) -> Calls]
      BY <2>8, <2>9, <3>1
    <3> HIDE DEF calls
    <3> QED BY <3>1, <3>2
  <2> HIDE DEF calls
  <2>11. \A n \in DOMAIN calls : Region(project, calls[n]) \subseteq Region(project, Head(stack))
    <3>1. \A n \in DOMAIN calls : Region(project, calls[n]) \subseteq Region(project, Top)
      BY <2>8, <2>9
    <3> QED BY <1>3, <3>1
  <2>12. Disjoint(project, calls)
    <3>1. ASSUME NEW m \in DOMAIN calls, NEW n \in DOMAIN calls, m # n
          PROVE  Region(project, calls[m]) \cap Region(project, calls[n]) = {}
      <4>1. parts[m] # parts[n] /\ parts[m] \in B /\ parts[n] \in B
        BY <2>7, <2>9, <3>1
      <4>2. /\ Region(project, calls[m]) = {i \in Region(project, Top) : project.facet[f][i] = parts[m]}
            /\ Region(project, calls[n]) = {i \in Region(project, Top) : project.facet[f][i] = parts[n]}
        BY <2>8, <2>9, <4>1
      <4> QED BY <4>1, <4>2
    <3> QED BY <3>1 DEF Disjoint
  <2>13. ASSUME NEW n \in DOMAIN calls, serverKind # "ignores"
         PROVE  /\ calls[n].total = Cardinality(live \cap Region(project, calls[n]))
                /\ calls[n].total \in Nat /\ calls[n].w = w /\ calls[n].do \in {"cell", "facets"}
    <3> DEFINE c == calls[n]
               v == parts[n]
    <3>1. v \in B /\ c = Part(v)
      BY <2>9
    <3>2. /\ c.total = CountOf(w, cell, f, v) /\ c.w = w /\ c.do \in {"cell", "facets"}
          /\ Region(project, c) = {i \in Region(project, Top) : project.facet[f][i] = v}
          /\ c.total \in Nat
      <4>1. c \in Calls
        BY <2>8, <3>1
      <4>2. c.total \in Nat
        BY <4>1, SliceConstants DEF Calls, CallType
      <4> QED BY <2>8, <3>1, <4>2
    <3> HIDE DEF c, v
    <3>3. {i \in InCell(w, cell) : project.facet[f][i] = v} = live \cap Region(project, c)
      BY <2>3, <2>13, <3>2
    <3>4. c.total = Cardinality(live \cap Region(project, c))
      BY <3>2, <3>3 DEF CountOf
    <3> QED BY <3>2, <3>4 DEF c
  <2>14. Calm => AllSettled(project, root, calls)
    <3> SUFFICES ASSUME Calm, NEW n \in DOMAIN calls PROVE Settled(project, root, calls[n])
      BY DEF AllSettled
    <3> DEFINE c == calls[n]
               T == live \cap Region(project, c)
               S == project.atFirst \cap Region(project, c)
    <3>1. serverKind # "ignores" /\ live \subseteq project.atFirst
      BY <1>3 DEF CalmWalk
    <3>2. c.total = Cardinality(T) /\ c.w = w /\ c.do \in {"cell", "facets"}
      BY <2>13, <3>1
    <3>3. T \in SUBSET S /\ S \in SUBSET Issue
      BY <3>1 DEF Region
    <3> HIDE DEF T, S, c
    <3>4. Cardinality(T) =< Cardinality(S)
      BY <3>3, IssueParts
    <3>5. (c.w.openLo => c.w.lo = root.lo) /\ (c.w.openHi => c.w.hi = root.hi)
      BY <2>2, <3>2 DEF Closed
    <3>6. c.total =< Cardinality(project.atFirst \cap Region(project, c))
      BY <3>2, <3>4 DEF S
    <3>7. c.do # "window"
      BY <3>2
    <3>8. Settled(project, root, c)
      BY <3>5, <3>6, <3>7 DEF Settled
    <3> QED BY <3>8 DEF c
  <2>15. Smooth' => /\ live \cap Region(project, Head(stack)) \subseteq Pending(project, calls)
                    /\ AllTallied(project, live, calls)
    <3> SUFFICES ASSUME Smooth'
                 PROVE  /\ live \cap Region(project, Head(stack)) \subseteq Pending(project, calls)
                        /\ AllTallied(project, live, calls)
      OBVIOUS
    <3>1. Smooth /\ serverKind # "ignores"
      BY <1>4 DEF Smooth, Unmoved
    <3>2. AllTallied(project, live, calls)
      <4>1. ASSUME NEW n \in DOMAIN calls
            PROVE  Cardinality(live \cap Region(project, calls[n])) =< calls[n].total
        BY <2>13, <3>1
      <4> QED BY <4>1 DEF AllTallied, Tallied
    <3>3. InCell(w, cell) = live \cap Region(project, Top)
      BY <2>3, <3>1
    <3>4. \A i \in InCell(w, cell) : project.facet[f][i] \in B
      <4>1. CASE f = "kind"
        <5>1. \A i \in InCell(w, cell) : project.facet["kind"][i] \in Buckets(w, cell, "kind")
          BY <1>3, <2>3, KindsAreAll
        <5> QED BY <4>1, <5>1 DEF B
      <4>2. CASE Cardinality(Bucketed(w, cell, f)) >= Top.total
        <5> DEFINE S == InCell(w, cell)
                   T == Bucketed(w, cell, f)
        <5>1. T \in SUBSET S /\ \A i \in T : project.facet[f][i] \in B
          BY DEF Bucketed, B
        <5>2. S \in SUBSET Issue
          BY <1>3, <2>3
        <5>3. Cardinality(S) =< Top.total
          BY <1>3, <3>1, <3>3 DEF Tallied
        <5>4. Cardinality(T) >= Top.total
          BY <4>2
        <5>5. Top.total \in Nat
          <6>1. Top.total \in 0 .. Cardinality(Issue)
            BY <1>3 DEF CallType
          <6> QED BY <6>1, SliceConstants
        <5> HIDE DEF S, T
        <5>6. /\ Cardinality(T) =< Cardinality(S) /\ (Cardinality(T) = Cardinality(S) => T = S)
              /\ Cardinality(S) \in Nat /\ Cardinality(T) \in Nat
          BY <5>1, <5>2, IssueParts, IssueSets
        <5>7. T = S
          BY <5>3, <5>4, <5>5, <5>6
        <5> QED BY <5>1, <5>7 DEF S
      <4> QED BY <1>6, <4>1, <4>2 DEF Accounts
    <3>5. ASSUME NEW i \in live \cap Region(project, Top) PROVE i \in Pending(project, calls)
      <4>1. project.facet[f][i] \in B
        BY <3>3, <3>4, <3>5
      <4>2. PICK n \in DOMAIN parts : parts[n] = project.facet[f][i]
        BY <2>7, <4>1
      <4>3. n \in DOMAIN calls /\ calls[n] = Part(parts[n])
        BY <2>9
      <4>4. Region(project, calls[n]) = {j \in Region(project, Top) : project.facet[f][j] = parts[n]}
        BY <2>8, <2>9, <4>3
      <4>5. i \in Region(project, calls[n])
        BY <3>5, <4>2, <4>4
      <4> QED BY <4>3, <4>5 DEF Pending
    <3> QED BY <1>3, <3>2, <3>5
  <2> QED BY <1>1, <1>3, <1>4, <2>1, <2>10, <2>11, <2>12, <2>14, <2>15, PushKeeps
<1> QED BY <1>2, <1>5, <1>6

\* What a fetch falls short of.
LEMMA LossOf ==
    ASSUME NEW size \in Nat, NEW n \in Nat, NEW m \in Nat, n =< m
    PROVE  LET loss == Max({0, size - n}) IN
           loss \in Nat /\ (size =< m => loss =< m - n) /\ size - n =< loss
<1> DEFINE x == size - n
           loss == Max({0, x})
<1>1. x \in Int /\ 0 \in Int
  OBVIOUS
<1> HIDE DEF x
<1>2. loss = IF 0 =< x THEN x ELSE 0
  BY <1>1, TwoInts
<1> HIDE DEF loss
<1>3. loss \in Nat /\ (size =< m => loss =< m - n) /\ size - n =< loss
  BY <1>1, <1>2 DEF x
<1> QED BY <1>3 DEF loss, x

\* A loss measured on a larger count covers that of a smaller one.
LEMMA LossCovers ==
    ASSUME NEW size \in Nat, NEW n \in Nat, NEW loss \in Nat, NEW m \in Nat,
           m =< size, size - n =< loss
    PROVE  m - n =< loss
OBVIOUS

\* From one bound to the next.
LEMMA ByWayOf == ASSUME NEW a \in Nat, NEW b \in Nat, NEW c \in Nat, a =< b, b =< c PROVE a =< c
OBVIOUS

\* A cell that is given up is fetched as far as a fetch goes.
LEMMA RecordGiveUpKeeps ==
    ASSUME SlicingIInv, phase = "walk", stack # <<>>, Unmoved, Top \in Calls, Top = Head(stack),
           Top.do \in {"cell", "give up"}, NEW size \in Nat,
           RecordGiveUp(Top.w, InCell(Top.w, Top.cell), size),
           Calm /\ Undisturbed /\ CalmWalk =>
              size =< Cardinality(project.atFirst \cap Region(project, Head(stack))),
           Smooth /\ SmoothWalk => Cardinality(InCell(Top.w, Top.cell)) =< size
    PROVE  SlicingIInv'
<1> DEFINE found == InCell(Top.w, Top.cell)
           got == FirstOf(found)
           loss == Max({0, size - Cardinality(got)})
           more == {"atomic_window"}
           seconds == {Top.w}
<1>1. /\ collected' = collected \cup got /\ twice' = twice + Cardinality(got \cap collected)
      /\ lost' = lost + loss /\ reasons' = reasons \cup more /\ atomics' = atomics \cup seconds
      /\ stack' = Tail(stack)
  BY DEF RecordGiveUp, Absorb, PutOnRecord, Pop
<1>2. live \in SUBSET Issue
  BY DEF SlicingIInv, SliceTypes
<1>3. found \in SUBSET live /\ (serverKind # "ignores" => found = live \cap Region(project, Head(stack)))
  BY <1>2, SelectedAre
<1>4. SliceFits(Top)
  BY DEF Calls
<1>5. \A w \in seconds : ~w.openLo /\ ~w.openHi /\ w.hi = w.lo + 1
  BY <1>4 DEF SliceFits, Closed
<1>6. found \in SUBSET Issue /\ got \in SUBSET found
  <2>1. found \in SUBSET Issue
    BY <1>2, <1>3
  <2> HIDE DEF found
  <2> QED BY <2>1, FirstOfFits
<1> HIDE DEF found, got
<1>7. /\ Cardinality(got) =< Cardinality(found) /\ Cardinality(found) \in Nat
      /\ Cardinality(got) \in Nat
  BY <1>6, IssueParts, IssueSets
<1> DEFINE R == Region(project, Head(stack))
           F == project.atFirst \cap R
<1>8. loss \in Nat /\ size - Cardinality(got) =< loss
  BY <1>7, LossOf
<1>9. Calm /\ Undisturbed /\ CalmWalk => loss =< Cardinality(F) - Cardinality(got)
  <2> SUFFICES ASSUME Calm, Undisturbed, CalmWalk PROVE loss =< Cardinality(F) - Cardinality(got)
    OBVIOUS
  <2>1. phase = "walk" /\ live \subseteq project.atFirst /\ serverKind # "ignores"
    BY DEF Undisturbed, CalmWalk
  <2>2. found \in SUBSET F /\ F \in SUBSET Issue
    BY <1>3, <2>1 DEF Region
  <2>3. size =< Cardinality(F)
    OBVIOUS
  <2> HIDE DEF F
  <2>4. Cardinality(found) =< Cardinality(F) /\ Cardinality(F) \in Nat
    BY <2>2, IssueParts, IssueSets
  <2>5. Cardinality(got) =< Cardinality(F)
    BY <1>7, <2>4, ByWayOf
  <2>6. size =< Cardinality(F) => loss =< Cardinality(F) - Cardinality(got)
    BY <1>7, <2>4, <2>5, LossOf
  <2> QED BY <2>3, <2>6
<1>10. Smooth /\ SmoothWalk => Cardinality(found) - Cardinality(got) =< loss
  <2> SUFFICES ASSUME Smooth, SmoothWalk PROVE Cardinality(found) - Cardinality(got) =< loss
    OBVIOUS
  <2>1. Cardinality(found) =< size
    BY DEF found
  <2> HIDE DEF loss
  <2> QED BY <1>7, <1>8, <2>1, LossCovers
<1>11. more \in SUBSET {"page_limit_clamp", "atomic_window"} /\ (loss = 0 \/ more # {})
  OBVIOUS
<1> HIDE DEF loss, more, seconds
<1> QED BY <1>1, <1>3, <1>5, <1>6, <1>8, <1>9, <1>10, <1>11, FetchKeeps

\* A cell small enough is fetched.
LEMMA FetchCellKeeps == SlicingIInv /\ FetchCell => SlicingIInv'
<1> SUFFICES ASSUME SlicingIInv, FetchCell PROVE SlicingIInv'
  OBVIOUS
<1> DEFINE found == InCell(Top.w, Top.cell)
           count == Cardinality(found)
<1>1. /\ Doing("cell")
      /\ troubles' = troubles /\ project' = project /\ serverKind' = serverKind /\ live' = live
      /\ births' = births /\ closings' = closings /\ phase' = phase /\ root' = root
      /\ before' = before /\ degraded' = degraded /\ fellBack' = fellBack
  BY DEF FetchCell, NoTrouble, WalkSame, SlicerSame
<1>2. /\ phase = "walk" /\ stack # <<>> /\ stack \in Seq(Calls) /\ Top = Head(stack) /\ Top \in Calls
      /\ Top \in CallType /\ SliceFits(Top) /\ Top.do = "cell" /\ live \in SUBSET Issue
      /\ project \in SlicedProjects
      /\ Calm => Settled(project, root, Top) /\ CalmWalk /\ live \subseteq project.atFirst
  BY <1>1, DoingFacts
<1>3. \/ /\ count <= ResultCeiling /\ Absorb(found) /\ RecordsNothing /\ Pop /\ atomics' = atomics
      \/ /\ Push(<<[Top EXCEPT !.do = "facets", !.total = count]>>)
         /\ AbsorbsNothing /\ RecordsNothing /\ atomics' = atomics
      \/ RecordGiveUp(Top.w, found, count)
  BY DEF FetchCell
<1>4. Unmoved
  BY <1>1 DEF Unmoved, SlicingIInv, SliceTypes
<1>5. found \in SUBSET live /\ (serverKind # "ignores" => found = live \cap Region(project, Head(stack)))
  BY <1>2, SelectedAre
<1>6. found \in SUBSET Issue /\ count \in 0 .. Cardinality(Issue) /\ count \in Nat
  <2>1. found \in SUBSET Issue
    BY <1>2, <1>5
  <2> HIDE DEF found
  <2> QED BY <2>1, IssueSets
<1>10. Calm => count =< Cardinality(project.atFirst \cap Region(project, Head(stack)))
  <2>1. Calm => Cardinality(InCell(Top.w, Top.cell)) =< Cardinality(project.atFirst \cap Region(project, Top))
    BY <1>2, CountedIs DEF CalmWalk
  <2> QED BY <1>2, <2>1
<1>7. CASE Absorb(found) /\ RecordsNothing /\ Pop /\ atomics' = atomics
  <2> DEFINE none == {}
             zero == 0
  <2>1. /\ collected' = collected \cup found /\ twice' = twice + Cardinality(found \cap collected)
        /\ lost' = lost /\ reasons' = reasons /\ atomics' = atomics /\ stack' = Tail(stack)
    BY <1>7 DEF Absorb, RecordsNothing, Pop
  <2>2. lost \in Nat
    BY DEF SlicingIInv, SliceTypes
  <2>3. /\ lost' = lost + zero /\ reasons' = reasons \cup none /\ atomics' = atomics \cup none
        /\ zero \in Nat /\ none \in SUBSET {"page_limit_clamp", "atomic_window"} /\ zero = 0
        /\ \A w \in none : ~w.openLo /\ ~w.openHi /\ w.hi = w.lo + 1
        /\ found \in SUBSET found /\ Cardinality(found) - Cardinality(found) =< zero
    BY <1>6, <2>1, <2>2
  <2>4. Calm => zero =< Cardinality(project.atFirst \cap Region(project, Head(stack))) - Cardinality(found)
    <3> DEFINE F == project.atFirst \cap Region(project, Head(stack))
    <3>1. F \in SUBSET Issue
      BY DEF Region
    <3> HIDE DEF F
    <3>2. Cardinality(F) \in Nat
      BY <3>1, IssueSets
    <3>3. Calm => count =< Cardinality(F)
      BY <1>10 DEF F
    <3> HIDE DEF found
    <3>4. Calm => zero =< Cardinality(F) - Cardinality(found)
      BY <1>6, <3>2, <3>3
    <3> QED BY <3>4 DEF F
  <2> HIDE DEF found, none, zero
  <2> QED BY <1>2, <1>4, <1>5, <2>1, <2>3, <2>4, FetchKeeps
<1>8. CASE /\ Push(<<[Top EXCEPT !.do = "facets", !.total = count]>>)
           /\ AbsorbsNothing /\ RecordsNothing /\ atomics' = atomics
  <2> DEFINE c == [Top EXCEPT !.do = "facets", !.total = count]
  <2>1. /\ stack' = <<c>> \o Tail(stack) /\ collected' = collected /\ twice' = twice
        /\ lost' = lost /\ reasons' = reasons /\ atomics' = atomics
    BY <1>8 DEF Push, AbsorbsNothing, RecordsNothing
  <2>2. c \in CallType /\ c.do = "facets" /\ c.w = Top.w /\ c.cell = Top.cell /\ c.total = count
    <3> HIDE DEF count
    <3> QED BY <1>2, <1>6 DEF CallType, Doings
  <2> HIDE DEF c, count
  <2>3. c \in Calls
    BY <1>2, <2>2 DEF Calls, SliceFits
  <2>4. Region(project, c) = Region(project, Head(stack))
    BY <1>2, <2>2, SameRegion
  <2>5. Calm => Settled(project, root, c)
    <3>1. Calm => c.total =< Cardinality(project.atFirst \cap Region(project, c))
      BY <1>10, <2>2, <2>4
    <3> QED BY <1>2, <2>2, <3>1 DEF Settled
  <2>6. Smooth' => Tallied(project, live, c)
    <3>1. Smooth' => serverKind # "ignores"
      BY <1>1 DEF Smooth
    <3>2. Smooth' => Cardinality(live \cap Region(project, c)) = c.total
      BY <1>5, <2>2, <2>4, <3>1 DEF count
    <3>3. Smooth' => Cardinality(live \cap Region(project, c)) =< c.total
      BY <1>6, <2>2, <3>2
    <3> QED BY <3>3 DEF Tallied
  <2> QED BY <1>2, <1>4, <2>1, <2>3, <2>4, <2>5, <2>6, PushOne
<1>9. CASE RecordGiveUp(Top.w, found, count)
  <2>1. Cardinality(found) =< count
    BY <1>6
  <2> HIDE DEF count
  <2> QED BY <1>2, <1>4, <1>6, <1>9, <1>10, <2>1, RecordGiveUpKeeps
<1> QED BY <1>3, <1>7, <1>8, <1>9

\* A cell no facet narrows is fetched as far as a fetch goes.
LEMMA GiveUpKeeps == SlicingIInv /\ GiveUp => SlicingIInv'
<1> SUFFICES ASSUME SlicingIInv, GiveUp PROVE SlicingIInv'
  OBVIOUS
<1>1. /\ Doing("give up") /\ RecordGiveUp(Top.w, InCell(Top.w, Top.cell), Top.total)
      /\ troubles' = troubles /\ project' = project /\ serverKind' = serverKind /\ live' = live
      /\ births' = births /\ closings' = closings /\ phase' = phase /\ root' = root
      /\ before' = before /\ degraded' = degraded /\ fellBack' = fellBack
  BY DEF GiveUp, NoTrouble, WalkSame, SlicerSame
<1>2. /\ phase = "walk" /\ stack # <<>> /\ stack \in Seq(Calls) /\ Top = Head(stack) /\ Top \in Calls
      /\ Top \in CallType /\ SliceFits(Top) /\ Top.do = "give up" /\ live \in SUBSET Issue
      /\ Calm => Settled(project, root, Top)
      /\ Smooth => Calm /\ CalmWalk /\ Tallied(project, live, Top)
  BY <1>1, DoingFacts
<1>3. Unmoved
  BY <1>1 DEF Unmoved, SlicingIInv, SliceTypes
<1>4. Top.total \in Nat
  <2>1. Top.total \in 0 .. Cardinality(Issue)
    BY <1>2 DEF CallType
  <2> QED BY <2>1, SliceConstants
<1>5. serverKind # "ignores" => InCell(Top.w, Top.cell) = live \cap Region(project, Top)
  BY <1>2, SelectedAre
<1>6. Calm => Top.total =< Cardinality(project.atFirst \cap Region(project, Head(stack)))
  <2>1. Calm => Top.total =< Cardinality(project.atFirst \cap Region(project, Top))
    BY <1>2 DEF Settled
  <2> QED BY <1>2, <2>1
<1>7. Smooth => Cardinality(InCell(Top.w, Top.cell)) =< Top.total
  BY <1>2, <1>5 DEF Tallied, CalmWalk
<1> QED BY <1>1, <1>2, <1>3, <1>4, <1>6, <1>7, RecordGiveUpKeeps

\* The walk is over, and on a source that did not change the sums agree.
LEMMA WalkEndKeeps ==
    ASSUME SlicingIInv, project' = project, serverKind' = serverKind, live' = live,
           births' = births, closings' = closings, atomics' = atomics,
           phase' \in {"done", "failed"}, stack' = <<>>, before' \in 0 .. Cardinality(Issue),
           lost' \in Nat, reasons' \in SUBSET Reasons, collected' \in SUBSET Issue, twice' \in Nat,
           degraded' \in Degradations, fellBack' \in BOOLEAN,
           troubles' \in Nat, troubles' =< MaxTroubles,
           fellBack' = FALSE /\ serverKind # "ignores" => twice' = 0,
           Calm /\ closings = 0 => lost' = Cardinality(live) - Cardinality(collected'),
           Recorded'
    PROVE  SlicingIInv'
<1>1. SliceTypes'
  BY DEF SlicingIInv, SliceTypes
<1>2. stack' \in Seq(Calls) /\ DOMAIN stack' = {}
  OBVIOUS
<1>3. WalkTypes'
  BY <1>2 DEF SlicingIInv, WalkTypes, AtomicIsOneSecond
<1>4. Fresh' /\ CaughtInv'
  BY DEF Fresh, CaughtInv
<1>5. ApartInv'
  BY <1>2 DEF ApartInv, Disjoint, Pending
<1>6. CalmInv'
  <2> SUFFICES ASSUME Calm' PROVE Undisturbed'
    BY DEF CalmInv
  <2>1. Calm
    BY DEF Calm
  <2>2. live \subseteq project.atFirst /\ (closings = 0 => live = project.atFirst)
    BY <2>1 DEF SlicingIInv, CalmInv, Undisturbed
  <2> QED BY <2>1, <2>2 DEF Undisturbed
<1>7. SmoothInv'
  BY DEF SmoothInv
<1> QED BY <1>1, <1>3, <1>4, <1>5, <1>6, <1>7 DEF SlicingIInv

\* The losses add up at the end, to what is missing when the source is as it was.
LEMMA ConcludeIs ==
    ASSUME NEW reason \in Degradations, NEW done \in SUBSET Issue, live \in SUBSET Issue,
           before \in Nat, lost \in Nat, reasons \in SUBSET Reasons, Conclude(reason, done)
    PROVE  /\ phase' = "done" /\ stack' = <<>> /\ reasons' \in SUBSET Reasons /\ lost' \in Nat
           /\ before = Cardinality(live) /\ Cardinality(done) + lost =< before =>
                 lost' = Cardinality(live) - Cardinality(done)
           /\ lost = 0 \/ reasons # {} => lost' = 0 \/ reasons' # {}
           /\ reasons \subseteq reasons' /\ reasons' \subseteq reasons \cup {reason, "count_drift"}
           /\ reason # "no" /\ lost = 0 => reasons' # {}
           /\ /\ Cardinality(live) =< before /\ Cardinality(done) + lost =< before
              /\ reason = "no" => Cardinality(live) =< Cardinality(done) + lost
              => reasons' \subseteq reasons \cup {reason}
<1> DEFINE k == Cardinality(done)
           n == Cardinality(live)
           c == 0 - Churn
           x == before - k - lost
           short == IF reason = "no" THEN 0 ELSE Unaccounted(done)
           quiet == reason = "no" \/ (lost > 0 /\ short = 0)
           drift == UnexplainedDrift(done, lost + short)
           d == before - (k + (lost + short))
           a == IF 0 =< c THEN 0 ELSE c
           b == IF 0 =< c THEN c ELSE 0
<1>1. /\ reasons' = reasons \cup (IF quiet THEN {} ELSE {reason})
                            \cup (IF drift = 0 THEN {} ELSE {"count_drift"})
      /\ lost' = lost + short + Max({0, drift})
      /\ phase' = "done" /\ stack' = <<>>
  BY DEF Conclude
<1>2. k \in Nat /\ n \in Nat /\ before \in Nat /\ lost \in Nat
  BY IssueSets
<1>3. c = before - n /\ c \in Int /\ -Churn = c
  <2>1. Churn = n - before
    BY DEF Churn
  <2> HIDE DEF n
  <2>2. Churn \in Int
    BY <1>2, <2>1
  <2> QED BY <1>2, <2>1, <2>2
<1>4. short \in Nat /\ short = IF reason = "no" THEN 0 ELSE IF 0 =< x THEN x ELSE 0
  <2>1. Unaccounted(done) = Max({0, x})
    BY DEF Unaccounted
  <2>2. x \in Int /\ 0 \in Int
    <3> HIDE DEF k
    <3> QED BY <1>2
  <2> HIDE DEF x
  <2>3. Max({0, x}) = IF 0 =< x THEN x ELSE 0
    BY <2>2, TwoInts
  <2> QED BY <2>1, <2>2, <2>3
<1>5. Band = a .. b
  <2>1. Band = Min({0, c}) .. Max({0, c})
    BY <1>3 DEF Band
  <2> HIDE DEF c
  <2>2. 0 \in Int /\ c \in Int
    BY <1>3
  <2>3. Min({0, c}) = a /\ Max({0, c}) = b
    BY <2>2, TwoInts
  <2> QED BY <2>1, <2>3
<1>6. a \in Int /\ b \in Int /\ a =< b
  <2> HIDE DEF c
  <2> QED BY <1>3
<1>7. d \in Int
  <2> HIDE DEF k, short
  <2> QED BY <1>2, <1>4
<1>8. drift = IF d \in a .. b THEN 0 ELSE IF d > b THEN d - b ELSE d - a
  <2>1. Drift(done, lost + short) = d
    BY DEF Drift
  <2>2. Min(a .. b) = a /\ Max(a .. b) = b
    <3> HIDE DEF a, b
    <3> QED BY <1>6, IntervalEnds
  <2>3. drift = IF d \in Band THEN 0 ELSE IF d > Max(Band) THEN d - Max(Band) ELSE d - Min(Band)
    <3> HIDE DEF short
    <3> QED BY <2>1 DEF UnexplainedDrift
  <2> HIDE DEF drift, d, a, b
  <2> QED BY <1>5, <2>2, <2>3
<1>9. drift \in Int
  <2> HIDE DEF drift, d, a, b
  <2> QED BY <1>6, <1>7, <1>8
<1>10. Max({0, drift}) = IF 0 =< drift THEN drift ELSE 0
  <2> HIDE DEF drift
  <2>1. 0 \in Int
    OBVIOUS
  <2> QED BY <1>9, <2>1, TwoInts
<1>11. lost' \in Nat
  <2> HIDE DEF drift, short
  <2> QED BY <1>1, <1>2, <1>4, <1>9, <1>10
<1>12. reasons' \in SUBSET Reasons
  <2>1. reason = "no" \/ reason \in Reasons
    BY DEF Degradations, Reasons
  <2>2. "count_drift" \in Reasons
    BY DEF Reasons
  <2>3. quiet \/ reason \in Reasons
    BY <2>1
  <2> HIDE DEF quiet, drift
  <2> QED BY <1>1, <2>2, <2>3
<1>13. ASSUME before = n, k + lost =< before PROVE lost' = n - k
  <2>1. c = 0
    <3> HIDE DEF c, n
    <3> QED BY <1>2, <1>3, <1>13
  <2>2. a = 0 /\ b = 0
    <3> HIDE DEF c
    <3> QED BY <2>1
  <2>3. 0 =< x /\ x \in Int
    <3> HIDE DEF k
    <3> QED BY <1>2, <1>13
  <2>4. d = IF reason = "no" THEN x ELSE 0
    <3>1. short = IF reason = "no" THEN 0 ELSE x
      <4> HIDE DEF short, x
      <4> QED BY <1>4, <2>3
    <3> HIDE DEF short, k
    <3> QED BY <1>2, <3>1
  <2>5. drift = d /\ 0 =< d
    <3> HIDE DEF drift, d, a, b, x
    <3> QED BY <1>7, <1>8, <2>2, <2>3, <2>4
  <2>6. lost' = lost + short + d
    <3> HIDE DEF drift, d, short
    <3> QED BY <1>1, <1>10, <2>5
  <2> HIDE DEF short, k, n
  <2> QED BY <1>2, <1>4, <1>13, <2>6
<1>14. ASSUME lost = 0 \/ reasons # {} PROVE lost' = 0 \/ reasons' # {}
  <2>1. CASE drift # 0
    BY <1>1, <2>1
  <2>2. CASE drift = 0 /\ ~quiet
    BY <1>1, <2>2
  <2>3. CASE drift = 0 /\ quiet
    <3>1. short = 0
      <4> HIDE DEF short
      <4> QED BY <1>4, <2>3
    <3> HIDE DEF short, drift, quiet
    <3>2. lost' = lost /\ reasons \subseteq reasons'
      BY <1>1, <1>2, <1>10, <2>3, <3>1
    <3> QED BY <1>14, <3>2
  <2> QED BY <2>1, <2>2, <2>3
<1>15. reasons \subseteq reasons' /\ reasons' \subseteq reasons \cup {reason, "count_drift"}
  <2> HIDE DEF quiet, drift
  <2> QED BY <1>1
<1>16. reason # "no" /\ lost = 0 => reasons' # {}
  <2> HIDE DEF drift
  <2>1. reason # "no" /\ lost = 0 => ~quiet
    <3> HIDE DEF short
    <3> QED OBVIOUS
  <2> HIDE DEF quiet
  <2> QED BY <1>1, <2>1
<1>17. ASSUME n =< before, k + lost =< before, reason = "no" => n =< k + lost
       PROVE  reasons' \subseteq reasons \cup {reason}
  <2> HIDE DEF k, n
  <2>1. 0 =< c
    <3> HIDE DEF c
    <3> QED BY <1>2, <1>3, <1>17
  <2>2. a = 0 /\ b = c
    <3> HIDE DEF c
    <3> QED BY <2>1
  <2>3. 0 =< x /\ x \in Int
    BY <1>2, <1>17
  <2>4. short = IF reason = "no" THEN 0 ELSE x
    <3> HIDE DEF short, x
    <3> QED BY <1>4, <2>3
  <2>5. 0 =< d /\ d =< c
    <3>1. CASE reason = "no"
      <4>1. short = 0
        BY <2>4, <3>1
      <4> HIDE DEF short, c
      <4> QED BY <1>2, <1>3, <1>17, <3>1, <4>1
    <3>2. CASE reason # "no"
      <4>1. short = x
        BY <2>4, <3>2
      <4> HIDE DEF short, c
      <4>2. d = 0
        BY <1>2, <4>1
      <4> HIDE DEF d
      <4> QED BY <2>1, <4>2
    <3> QED BY <3>1, <3>2
  <2>6. d \in a .. b
    <3> HIDE DEF a, b, c, d
    <3> QED BY <1>3, <1>7, <2>2, <2>5
  <2>7. drift = 0
    <3> HIDE DEF a, b, c, d, drift
    <3> QED BY <1>8, <2>6
  <2> HIDE DEF quiet, drift
  <2> QED BY <1>1, <2>7
<1> HIDE DEF k, n
<1>18. /\ before = n /\ k + lost =< before => lost' = n - k
       /\ lost = 0 \/ reasons # {} => lost' = 0 \/ reasons' # {}
       /\ n =< before /\ k + lost =< before /\ (reason = "no" => n =< k + lost) =>
             reasons' \subseteq reasons \cup {reason}
  BY <1>13, <1>14, <1>17
<1> HIDE DEF c, x, short, quiet, drift, d, a, b
<1> QED BY <1>1, <1>11, <1>12, <1>15, <1>16, <1>18 DEF k, n

-----------------------------------------------------------------------------
\* The steps before the walk.
LEMMA EntryFetchKeeps == SlicingIInv /\ EntryFetch => SlicingIInv'
<1> SUFFICES ASSUME SlicingIInv, EntryFetch PROVE SlicingIInv'
  OBVIOUS
<1>1. /\ phase = "entry" /\ before' = Cardinality(live) /\ lost' = lost /\ reasons' = reasons
      /\ project' = project /\ serverKind' = serverKind /\ live' = live /\ births' = births
      /\ closings' = closings /\ stack' = stack /\ root' = root /\ atomics' = atomics
      /\ degraded' = degraded /\ fellBack' = fellBack /\ troubles' = troubles
      /\ \/ phase' = "done" /\ Absorb(live)
         \/ phase' = "range" /\ collected' = collected /\ twice' = twice
  BY DEF EntryFetch, RecordsNothing, SlicerSame, AbsorbsNothing
<1>2. /\ SliceTypes /\ WalkTypes /\ stack = <<>> /\ live \in SUBSET Issue
      /\ collected = {} /\ twice = 0 /\ lost = 0 /\ fellBack = FALSE /\ degraded = "no"
      /\ Calm => live = project.atFirst
      /\ Recorded
  BY <1>1 DEF SlicingIInv, SliceTypes, WalkTypes, Fresh, CalmInv, Undisturbed
<1>3. Cardinality(live) \in 0 .. Cardinality(Issue) /\ Cardinality(live) \in Nat
  BY <1>2, IssueSets
<1>4. CASE phase' = "done" /\ Absorb(live)
  <2>1. collected' = live /\ twice' = twice + Cardinality({})
    <3>1. live \cap collected = {} /\ collected \cup live = live
      BY <1>2
    <3> QED BY <1>4, <3>1 DEF Absorb
  <2>2. twice' = 0
    <3>1. Cardinality({}) = 0
      BY FS_EmptySet
    <3> QED BY <1>2, <2>1, <3>1
  <2>3. lost' = Cardinality(live) - Cardinality(collected')
    BY <1>1, <1>2, <1>3, <2>1
  <2>4. Recorded'
    BY <1>1, <1>2, <2>1 DEF Recorded, Smooth
  <2> QED BY <1>1, <1>2, <1>3, <1>4, <2>1, <2>2, <2>3, <2>4, WalkEndKeeps DEF SliceTypes
<1>5. CASE phase' = "range" /\ collected' = collected /\ twice' = twice
  <2>1. SliceTypes'
    BY <1>1, <1>2, <1>3, <1>5 DEF SliceTypes
  <2>2. WalkTypes'
    BY <1>1, <1>2, <1>5 DEF WalkTypes, AtomicIsOneSecond
  <2>3. Fresh'
    BY <1>1, <1>2, <1>5 DEF Fresh
  <2>4. CaughtInv'
    BY <1>1, <1>3, <1>5 DEF CaughtInv
  <2>5. ApartInv'
    BY <1>1, <1>5 DEF SlicingIInv, ApartInv
  <2>6. CalmInv' /\ SmoothInv' /\ Recorded'
    BY <1>1, <1>2, <1>5 DEF CalmInv, Calm, Undisturbed, SmoothInv, Recorded, Smooth
  <2> QED BY <2>1, <2>2, <2>3, <2>4, <2>5, <2>6 DEF SlicingIInv
<1> QED BY <1>1, <1>4, <1>5

\* The first and the last second of the range.
LEMMA ProbeRangeKeeps == SlicingIInv /\ ProbeRange => SlicingIInv'
<1> SUFFICES ASSUME SlicingIInv, ProbeRange PROVE SlicingIInv'
  OBVIOUS
<1>1. /\ phase = "range" /\ phase' = "check" /\ before' = before /\ lost' = lost
      /\ reasons' = reasons /\ collected' = collected /\ twice' = twice
      /\ project' = project /\ serverKind' = serverKind /\ live' = live /\ births' = births
      /\ closings' = closings /\ stack' = stack /\ atomics' = atomics
      /\ degraded' = degraded /\ fellBack' = fellBack
      /\ troubles' = troubles \/ (troubles < MaxTroubles /\ troubles' = troubles + 1)
      /\ root' = DefaultRange \/ (live # {} /\ Splittable(ProbedRange) /\ root' = ProbedRange)
  BY DEF ProbeRange, RecordsNothing, SlicerSame, AbsorbsNothing
<1>2. /\ SliceTypes /\ WalkTypes /\ live \in SUBSET Issue /\ project \in SlicedProjects
      /\ troubles \in Nat /\ troubles =< MaxTroubles /\ MaxTroubles \in Nat
      /\ Calm => Undisturbed
  BY <1>1, SliceConstants DEF SlicingIInv, SliceTypes, CalmInv
<1>3. troubles' \in Nat /\ troubles' =< MaxTroubles /\ (troubles' = 0 => troubles = 0)
  BY <1>1, <1>2
<1>4. /\ \A i \in Issue : Second(i) \in 0 .. Today
      /\ live # {} => /\ Oldest(live) \in 0 .. Today /\ Newest(live) \in 0 .. Today
                      /\ \A i \in live : Oldest(live) =< Second(i) /\ Second(i) =< Newest(live)
  BY <1>2, SecondsAre
<1>5. Today \in Nat
  BY SliceConstants
<1>6. root' \in Ranges /\ \A i \in live : root'.lo =< Second(i) /\ Second(i) < root'.hi
  <2>1. CASE root' = DefaultRange
    <3>1. root' = [lo |-> 0, hi |-> Today + 1, openLo |-> TRUE, openHi |-> TRUE]
      BY <2>1 DEF DefaultRange, RootWindow
    <3>2. root' \in Ranges
      BY <1>5, <3>1 DEF Ranges, Windows
    <3>3. root'.lo = 0 /\ root'.hi = Today + 1
      BY <3>1
    <3>4. \A i \in live : Second(i) \in 0 .. Today
      BY <1>2, <1>4
    <3> QED BY <1>5, <3>2, <3>3, <3>4
  <2>2. CASE live # {} /\ Splittable(ProbedRange) /\ root' = ProbedRange
    <3> DEFINE o == Oldest(live)
               m == Newest(live)
    <3>1. root' = [lo |-> o, hi |-> m + 1, openLo |-> TRUE, openHi |-> TRUE]
      BY <2>2 DEF ProbedRange, RootWindow
    <3>2. root'.hi - root'.lo > 1
      BY <2>2 DEF Splittable
    <3>3. o \in 0 .. Today /\ m \in 0 .. Today /\ \A i \in live : o =< Second(i) /\ Second(i) =< m
      BY <1>4, <2>2
    <3> HIDE DEF o, m
    <3>4. root'.lo = o /\ root'.hi = m + 1
      BY <3>1
    <3>5. o \in 0 .. Today + 1 /\ m + 1 \in 0 .. Today + 1 /\ o < m + 1
      BY <1>5, <3>2, <3>3, <3>4
    <3>6. root' \in Ranges
      BY <3>1, <3>5 DEF Ranges, Windows
    <3>7. \A i \in live : Second(i) \in 0 .. Today
      BY <1>2, <1>4
    <3> QED BY <1>5, <3>3, <3>4, <3>6, <3>7
  <2> QED BY <1>1, <2>1, <2>2
<1>7. SliceTypes'
  BY <1>1, <1>2, <1>3 DEF SliceTypes
<1>8. WalkTypes'
  BY <1>1, <1>2, <1>6 DEF WalkTypes, AtomicIsOneSecond
<1>9. Fresh' /\ CaughtInv' /\ ApartInv'
  BY <1>1 DEF SlicingIInv, Fresh, CaughtInv, ApartInv
<1>10. CalmInv'
  <2> SUFFICES ASSUME Calm' PROVE Undisturbed'
    BY DEF CalmInv
  <2>1. Undisturbed
    BY <1>1, <1>2 DEF Calm
  <2>2. Covers(project, root, live)'
    BY <1>1, <1>6 DEF Covers, Second
  <2> QED BY <1>1, <2>1, <2>2 DEF Undisturbed
<1>11. SmoothInv' /\ Recorded'
  BY <1>1, <1>3 DEF SlicingIInv, SmoothInv, Recorded, Smooth
<1> QED BY <1>7, <1>8, <1>9, <1>10, <1>11 DEF SlicingIInv

-----------------------------------------------------------------------------
\* The undated fetch in place of the walk.
LEMMA FallsBackKeeps ==
    ASSUME SlicingIInv, phase = "check", NEW reason \in {"dates_ignored", "dates_rejected"},
           Degrade(reason), Conclude(reason, collected \cup FirstOf(live)),
           SlicerSame, UNCHANGED <<root, before, atomics, troubles>>
    PROVE  SlicingIInv'
<1>1. /\ project' = project /\ serverKind' = serverKind /\ live' = live /\ births' = births
      /\ closings' = closings /\ before' = before /\ atomics' = atomics /\ troubles' = troubles
  BY DEF SlicerSame
<1>2. /\ SliceTypes /\ live \in SUBSET Issue /\ collected = {} /\ twice = 0 /\ lost = 0
      /\ fellBack = FALSE /\ degraded = "no" /\ before \in 0 .. Cardinality(Issue)
      /\ reasons \in SUBSET Reasons /\ Recorded
      /\ Calm => /\ live \subseteq project.atFirst /\ before = Cardinality(project.atFirst)
                 /\ closings = 0 => live = project.atFirst
      /\ project.atFirst \in SUBSET Issue
  BY SlicingAssumption DEF SlicingIInv, SliceTypes, Fresh, CalmInv, Undisturbed
<1> DEFINE got == FirstOf(live)
<1>3. got \in SUBSET live /\ got \in SUBSET Issue
  <2>1. got \in SUBSET live
    BY <1>2, FirstOfFits
  <2> QED BY <1>2, <2>1
<1>4. /\ degraded' = reason /\ fellBack' = TRUE /\ collected' = got
      /\ twice' = twice + Cardinality(got \cap collected)
  BY <1>2 DEF Degrade, Absorb
<1>5. Conclude(reason, got)
  <2>1. collected \cup FirstOf(live) = got
    BY <1>2
  <2> QED BY <2>1
<1> HIDE DEF got
<1>6. twice' = 0
  <2>1. got \cap collected = {} /\ Cardinality({}) = 0
    BY <1>2, FS_EmptySet
  <2>2. Cardinality(got \cap collected) = 0
    BY <2>1
  <2> QED BY <1>2, <1>4, <2>2
<1>7. reason \in Degradations /\ before \in Nat /\ lost \in Nat
  BY <1>2, SliceConstants DEF Degradations
<1>8. /\ phase' = "done" /\ stack' = <<>> /\ reasons' \in SUBSET Reasons /\ lost' \in Nat
      /\ before = Cardinality(live) /\ Cardinality(got) + lost =< before =>
            lost' = Cardinality(live) - Cardinality(got)
      /\ lost = 0 \/ reasons # {} => lost' = 0 \/ reasons' # {}
      /\ reasons \subseteq reasons' /\ reasons' \subseteq reasons \cup {reason, "count_drift"}
      /\ reason # "no" /\ lost = 0 => reasons' # {}
      /\ /\ Cardinality(live) =< before /\ Cardinality(got) + lost =< before
         /\ reason = "no" => Cardinality(live) =< Cardinality(got) + lost
         => reasons' \subseteq reasons \cup {reason}
  BY <1>2, <1>3, <1>5, <1>7, ConcludeIs
<1>9. Cardinality(got) =< Cardinality(live) /\ Cardinality(got) \in Nat /\ Cardinality(live) \in Nat
  BY <1>2, <1>3, IssueParts, IssueSets
<1>12. Calm => Cardinality(live) =< before /\ Cardinality(got) + lost =< before
  <2> SUFFICES ASSUME Calm PROVE Cardinality(live) =< before /\ Cardinality(got) + lost =< before
    OBVIOUS
  <2>1. Cardinality(live) =< before
    BY <1>2, IssueParts
  <2>2. Cardinality(got) =< before /\ lost = 0
    BY <1>2, <1>7, <1>9, <2>1
  <2> QED BY <1>7, <1>9, <2>1, <2>2
<1>10. Calm /\ closings = 0 => lost' = Cardinality(live) - Cardinality(collected')
  BY <1>2, <1>4, <1>8, <1>12
<1>11. troubles' \in Nat /\ troubles' =< MaxTroubles
  BY <1>1, <1>2 DEF SliceTypes
<1>13. Recorded'
  <2>1. lost' = 0 \/ reasons' # {}
    BY <1>2, <1>8
  <2>2. reasons' # {}
    BY <1>2, <1>8
  <2>3. births = 0 /\ serverKind = "honours" => "max_depth" \notin reasons' \cup {degraded'}
    BY <1>2, <1>4, <1>8 DEF Recorded
  <2>4. Smooth' => "count_drift" \notin reasons'
    <3> SUFFICES ASSUME Smooth' PROVE "count_drift" \notin reasons'
      OBVIOUS
    <3>1. Smooth /\ Calm
      BY <1>1 DEF Smooth, Calm
    <3>2. reasons' \subseteq reasons \cup {reason}
      BY <1>8, <1>12, <3>1
    <3>3. "count_drift" \notin reasons
      BY <1>2, <3>1 DEF Recorded
    <3> QED BY <3>2, <3>3
  <2> QED BY <1>1, <2>1, <2>2, <2>3, <2>4 DEF Recorded
<1> QED BY <1>1, <1>2, <1>3, <1>4, <1>6, <1>7, <1>8, <1>10, <1>11, <1>13, WalkEndKeeps

\* A server that ignores dates counts all in both halves, and is found out.
LEMMA CheckDatesKeeps == SlicingIInv /\ CheckDates => SlicingIInv'
<1> SUFFICES ASSUME SlicingIInv, CheckDates PROVE SlicingIInv'
  OBVIOUS
<1>1. phase = "check" /\ serverKind # "rejects" /\ SlicerSame
  BY DEF CheckDates
<1>2. CASE HalvesAreWhole
  <2>1. /\ Degrade("dates_ignored") /\ Conclude("dates_ignored", collected \cup FirstOf(live))
        /\ UNCHANGED <<root, before, atomics, troubles>>
    BY <1>2 DEF CheckDates
  <2> DEFINE reason == "dates_ignored"
  <2>2. /\ reason \in {"dates_ignored", "dates_rejected"} /\ Degrade(reason)
        /\ Conclude(reason, collected \cup FirstOf(live))
    BY <2>1
  <2> HIDE DEF reason
  <2> QED BY <1>1, <2>1, <2>2, FallsBackKeeps
<1>3. CASE ~HalvesAreWhole
  <2> DEFINE c == Frame("window", root, NoCell, 0, 0)
  <2>1. /\ phase' = "walk" /\ stack' = <<c>> /\ collected' = collected /\ twice' = twice
        /\ lost' = lost /\ reasons' = reasons /\ project' = project /\ serverKind' = serverKind
        /\ live' = live /\ births' = births /\ closings' = closings /\ root' = root
        /\ before' = before /\ atomics' = atomics /\ degraded' = degraded
        /\ fellBack' = fellBack /\ troubles' = troubles
    BY <1>1, <1>3 DEF CheckDates, AbsorbsNothing, RecordsNothing, SlicerSame
  <2>2. /\ SliceTypes /\ WalkTypes /\ live \in SUBSET Issue /\ root \in Ranges
        /\ collected = {} /\ twice = 0 /\ lost = 0 /\ fellBack = FALSE /\ degraded = "no"
        /\ before \in 0 .. Cardinality(Issue)
        /\ Calm => Undisturbed
    BY <1>1 DEF SlicingIInv, SliceTypes, WalkTypes, Fresh, CalmInv
  <2>3. root \in Windows /\ root.lo < root.hi
    BY <2>2 DEF Ranges
  <2>4. c \in CallType /\ c.do = "window" /\ c.w = root /\ c.cell = NoCell /\ c.depth = 0
    <3>1. "window" \in Doings /\ 0 \in 0 .. Cardinality(Issue) /\ 0 \in 0 .. MaxDepth
      BY SliceConstants DEF Doings
    <3> QED BY <2>3, <3>1, NoCellIs, FrameIs
  <2> HIDE DEF c
  <2>5. c \in Calls
    BY <2>3, <2>4 DEF Calls, SliceFits
  <2>6. stack' \in Seq(Calls) /\ DOMAIN stack' = {1} /\ stack'[1] = c /\ stack' # <<>>
    BY <2>1, <2>5
  <2>7. SliceTypes'
    BY <2>1, <2>2 DEF SliceTypes
  <2>8. WalkTypes'
    BY <1>1, <2>1, <2>2, <2>6 DEF WalkTypes, AtomicIsOneSecond
  <2>9. Fresh'
    BY <2>1 DEF Fresh
  <2>10. ApartInv'
    BY <2>1, <2>2, <2>6 DEF ApartInv, Disjoint
  <2>11. ~(serverKind = "ignores" /\ closings = 0)
    <3> SUFFICES ASSUME serverKind = "ignores", closings = 0 PROVE FALSE
      OBVIOUS
    <3>1. Selected(LeftHalf(root)) = live /\ Selected(RightHalf(root)) = live
      BY DEF Selected
    <3>2. before =< Cardinality(live)
      BY <1>1 DEF SlicingIInv, CaughtInv
    <3>3. Cardinality(live) \in Nat /\ before \in Nat
      BY <2>2, IssueSets, SliceConstants
    <3>4. Cardinality(live) >= before
      BY <3>2, <3>3
    <3> QED BY <1>3, <3>1, <3>4 DEF HalvesAreWhole
  <2>12. CaughtInv'
    BY <2>1, <2>11 DEF CaughtInv
  <2>13. CalmInv'
    <3> SUFFICES ASSUME Calm' PROVE Undisturbed'
      BY DEF CalmInv
    <3>1. Calm /\ Undisturbed
      BY <2>1, <2>2 DEF Calm
    <3>2. serverKind # "ignores"
      BY <2>11, <3>1 DEF Calm
    <3>3. Settled(project, root, c)
      <4>1. root.hi - root.lo - 1 =< Today
        BY <2>3, SliceConstants DEF Windows
      <4>2. 0 < MaxDepth /\ Span[0] = Today
        BY SpanIs, SliceConstants
      <4> QED BY <2>4, <4>1, <4>2 DEF Settled
    <3>4. AllSettled(project, root, stack')
      BY <2>6, <3>3 DEF AllSettled
    <3>5. lost' =< Cardinality(project.atFirst \ (collected \cup Pending(project, stack')))
      <4> DEFINE A == project.atFirst \ (collected \cup Pending(project, stack'))
      <4>1. A \in SUBSET Issue
        BY <2>2, SlicingAssumption DEF SliceTypes
      <4>2. Cardinality(A) \in Nat
        BY <4>1, IssueSets
      <4> HIDE DEF A
      <4>3. lost' =< Cardinality(A)
        BY <2>1, <2>2, <4>2
      <4> QED BY <4>3 DEF A
    <3>6. CalmWalk'
      <4>1. (collected \subseteq project.atFirst)' /\ (serverKind # "ignores" /\ fellBack = FALSE /\ degraded = "no")'
        BY <2>1, <2>2, <3>2
      <4>2. (lost =< Cardinality(project.atFirst \ (collected \cup Pending(project, stack))))'
        BY <2>1, <3>5
      <4>3. AllSettled(project, root, stack)'
        BY <2>1, <3>4
      <4> QED BY <4>1, <4>2, <4>3 DEF CalmWalk
    <3> QED BY <1>1, <2>1, <3>1, <3>6 DEF Undisturbed
  <2>14. SmoothInv'
    <3>1. live \ (collected \cup Pending(project, stack')) = {}
      <4>1. c.w.openLo /\ c.w.openHi /\ DOMAIN c.cell = {}
        BY <2>2, <2>4, NoCellIs DEF Ranges
      <4>2. Region(project, c) = Issue
        BY <4>1 DEF Region, In
      <4>3. Pending(project, stack') = Issue
        BY <2>6, <4>2 DEF Pending
      <4> QED BY <2>2, <4>3
    <3>2. Cardinality(live \ (collected \cup Pending(project, stack'))) = 0
      BY <3>1, FS_EmptySet
    <3>3. Cardinality(live \ (collected \cup Pending(project, stack'))) =< lost
      BY <2>2, <3>2
    <3>4. AllTallied(project, live, stack')
      BY <2>4, <2>6 DEF AllTallied, Tallied
    <3>5. SmoothWalk'
      BY <2>1, <3>3, <3>4 DEF SmoothWalk
    <3> QED BY <3>5 DEF SmoothInv
  <2>15. Recorded'
    BY <1>1, <2>1 DEF SlicingIInv, Recorded, Smooth
  <2> QED BY <2>7, <2>8, <2>9, <2>10, <2>12, <2>13, <2>14, <2>15 DEF SlicingIInv
<1> QED BY <1>2, <1>3

\* A server that rejects dates is not walked.
LEMMA DatesRefusedKeeps == SlicingIInv /\ DatesRefused => SlicingIInv'
<1> SUFFICES ASSUME SlicingIInv, DatesRefused PROVE SlicingIInv'
  OBVIOUS
<1>1. /\ InWalk /\ serverKind = "rejects" /\ Degrade("dates_rejected") /\ SlicerSame
      /\ UNCHANGED <<root, before, atomics, troubles>>
      /\ Conclude(IF degraded = "no" THEN "dates_rejected" ELSE degraded,
                  IF fellBack THEN collected ELSE collected \cup FirstOf(live))
  BY DEF DatesRefused
<1>2. phase = "check"
  BY <1>1 DEF InWalk, SlicingIInv, WalkTypes
<1>3. degraded = "no" /\ fellBack = FALSE
  BY <1>2 DEF SlicingIInv, Fresh
<1> DEFINE reason == "dates_rejected"
<1>4. /\ reason \in {"dates_ignored", "dates_rejected"} /\ Degrade(reason)
      /\ Conclude(reason, collected \cup FirstOf(live))
  BY <1>1, <1>3
<1> HIDE DEF reason
<1> QED BY <1>1, <1>2, <1>4, FallsBackKeeps

\* What is on record so far is missing.
LEMMA MissingSoFar ==
    ASSUME SlicingIInv, Calm, phase \in {"check", "walk"}
    PROVE  /\ Cardinality(live) =< before /\ Cardinality(collected) + lost =< before
           /\ closings = 0 => before = Cardinality(live)
<1> DEFINE F == project.atFirst
<1>1. /\ live \in SUBSET F /\ before = Cardinality(F) /\ F \in SUBSET Issue
      /\ lost \in Nat /\ collected \in SUBSET Issue /\ (closings = 0 => live = F)
  BY SlicingAssumption DEF SlicingIInv, SliceTypes, CalmInv, Undisturbed
<1>2. Cardinality(F) \in Nat /\ Cardinality(live) =< Cardinality(F)
  BY <1>1, IssueSets, IssueParts
<1>3. CASE phase = "check"
  <2>1. collected = {} /\ lost = 0 /\ Cardinality({}) = 0
    BY <1>3, FS_EmptySet DEF SlicingIInv, Fresh
  <2>2. Cardinality(collected) = 0
    BY <2>1
  <2> QED BY <1>1, <1>2, <2>1, <2>2
<1>4. CASE phase = "walk"
  <2> DEFINE P == Pending(project, stack)
             A == F \ (collected \cup P)
             B == F \ collected
  <2>1. collected \in SUBSET F /\ lost =< Cardinality(A)
    BY <1>4 DEF SlicingIInv, CalmInv, Undisturbed, CalmWalk
  <2> HIDE DEF F
  <2>2. A \in SUBSET B /\ B \in SUBSET Issue
    BY <1>1
  <2>3. Cardinality(B) = Cardinality(F) - Cardinality(collected)
    BY <1>1, <2>1, IssueParts
  <2> HIDE DEF A, B
  <2>4. Cardinality(A) =< Cardinality(B) /\ Cardinality(A) \in Nat /\ Cardinality(B) \in Nat
    BY <2>2, IssueParts, IssueSets
  <2>5. Cardinality(collected) \in Nat
    BY <1>1, IssueSets
  <2> QED BY <1>1, <1>2, <2>1, <2>3, <2>4, <2>5
<1> QED BY <1>1, <1>3, <1>4

\* And when no request failed, all that is missing is on record at the end.
LEMMA MissingAtTheEnd ==
    ASSUME SlicingIInv, Smooth, phase = "walk", stack = <<>>
    PROVE  /\ Cardinality(live) =< Cardinality(collected) + lost
           /\ live \subseteq collected \/ lost # 0
<1>1. live \in SUBSET Issue /\ collected \in SUBSET Issue /\ lost \in Nat
  BY DEF SlicingIInv, SliceTypes
<1> DEFINE A == live \ (collected \cup Pending(project, stack))
           B == live \ collected
           C == live \cap collected
<1>2. Cardinality(A) =< lost
  BY DEF SlicingIInv, SmoothInv, SmoothWalk
<1>3. Pending(project, stack) = {}
  BY DEF Pending
<1>4. A = B
  BY <1>3
<1>5. C \in SUBSET collected /\ C \in SUBSET live /\ live \ C = B /\ B \in SUBSET Issue /\ C \in SUBSET Issue
  BY <1>1
<1> HIDE DEF A, C, B
<1>6. Cardinality(B) = Cardinality(live) - Cardinality(C) /\ Cardinality(C) =< Cardinality(collected)
  BY <1>1, <1>5, IssueParts
<1>7. /\ Cardinality(B) \in Nat /\ Cardinality(live) \in Nat /\ Cardinality(C) \in Nat
      /\ Cardinality(collected) \in Nat /\ IsFiniteSet(B)
  BY <1>1, <1>5, IssueSets
<1>8. Cardinality(B) =< lost
  BY <1>2, <1>4
<1>9. Cardinality(live) =< Cardinality(collected) + lost
  BY <1>1, <1>6, <1>7, <1>8
<1>10. lost = 0 => B = {}
  BY <1>7, <1>8, FS_EmptySet
<1> QED BY <1>9, <1>10 DEF B

\* The two ends of a walk.
LEMMA FinishWalkKeeps == SlicingIInv /\ FinishWalk => SlicingIInv'
<1> SUFFICES ASSUME SlicingIInv, FinishWalk PROVE SlicingIInv'
  OBVIOUS
<1>1. /\ phase = "walk" /\ stack = <<>> /\ Conclude(degraded, collected)
      /\ collected' = collected /\ twice' = twice /\ degraded' = degraded /\ fellBack' = fellBack
      /\ project' = project /\ serverKind' = serverKind /\ live' = live /\ births' = births
      /\ closings' = closings /\ before' = before /\ atomics' = atomics /\ troubles' = troubles
  BY DEF FinishWalk, AbsorbsNothing, SlicerSame
<1>2. /\ SliceTypes /\ live \in SUBSET Issue /\ collected \in SUBSET Issue
      /\ before \in 0 .. Cardinality(Issue) /\ lost \in Nat /\ reasons \in SUBSET Reasons
      /\ degraded \in Degradations /\ fellBack \in BOOLEAN /\ twice \in Nat
      /\ troubles \in Nat /\ troubles =< MaxTroubles
  BY DEF SlicingIInv, SliceTypes
<1>3. before \in Nat
  BY <1>2, SliceConstants
<1>4. /\ phase' = "done" /\ stack' = <<>> /\ reasons' \in SUBSET Reasons /\ lost' \in Nat
      /\ before = Cardinality(live) /\ Cardinality(collected) + lost =< before =>
            lost' = Cardinality(live) - Cardinality(collected)
      /\ lost = 0 \/ reasons # {} => lost' = 0 \/ reasons' # {}
      /\ reasons \subseteq reasons' /\ reasons' \subseteq reasons \cup {degraded, "count_drift"}
      /\ /\ Cardinality(live) =< before /\ Cardinality(collected) + lost =< before
         /\ degraded = "no" => Cardinality(live) =< Cardinality(collected) + lost
         => reasons' \subseteq reasons \cup {degraded}
  BY <1>1, <1>2, <1>3, ConcludeIs
<1>5. Calm /\ closings = 0 => lost' = Cardinality(live) - Cardinality(collected')
  BY <1>1, <1>4, MissingSoFar
<1>6. fellBack' = FALSE /\ serverKind # "ignores" => twice' = 0
  BY <1>1 DEF SlicingIInv, ApartInv
<1>7. Recorded'
  <2>1. Recorded
    BY DEF SlicingIInv
  <2>2. lost' = 0 \/ reasons' # {}
    BY <1>4, <2>1 DEF Recorded
  <2>3. Smooth => live \subseteq collected \/ reasons' # {}
    BY <1>1, <1>4, <2>1, MissingAtTheEnd DEF Recorded
  <2>4. births = 0 /\ serverKind = "honours" => "max_depth" \notin reasons' \cup {degraded'}
    BY <1>1, <1>4, <2>1 DEF Recorded
  <2>5. Smooth => "count_drift" \notin reasons'
    <3> SUFFICES ASSUME Smooth PROVE "count_drift" \notin reasons'
      OBVIOUS
    <3>1. Calm
      BY DEF Smooth, Calm
    <3>2. degraded = "no"
      BY <1>1, <3>1 DEF SlicingIInv, CalmInv, Undisturbed, CalmWalk
    <3>3. Cardinality(live) =< before /\ Cardinality(collected) + lost =< before
      BY <1>1, <3>1, MissingSoFar
    <3>4. Cardinality(live) =< Cardinality(collected) + lost
      BY <1>1, MissingAtTheEnd
    <3>5. reasons' \subseteq reasons \cup {degraded}
      BY <1>4, <3>3, <3>4
    <3>6. "count_drift" \notin reasons
      BY <2>1 DEF Recorded
    <3> QED BY <3>2, <3>5, <3>6
  <2>6. (Smooth <=> Smooth') /\ (births' = 0 /\ troubles' = 0 /\ serverKind' # "ignores" => Smooth)
    BY <1>1 DEF Smooth
  <2> QED BY <1>1, <2>2, <2>3, <2>4, <2>5, <2>6 DEF Recorded
<1> QED BY <1>1, <1>2, <1>4, <1>5, <1>6, <1>7, WalkEndKeeps

\* A failed request ends the walk.
LEMMA WalkFailsKeeps == SlicingIInv /\ WalkFails => SlicingIInv'
<1> SUFFICES ASSUME SlicingIInv, WalkFails PROVE SlicingIInv'
  OBVIOUS
<1> DEFINE short == Unaccounted(collected)
           more == IF lost > 0 /\ short = 0 THEN {} ELSE {"incomplete_slice"}
<1>1. /\ phase \in {"check", "walk"} /\ troubles < MaxTroubles /\ troubles' = troubles + 1
      /\ phase' = "failed" /\ stack' = <<>>
      /\ collected' = collected /\ twice' = twice /\ degraded' = degraded /\ fellBack' = fellBack
      /\ project' = project /\ serverKind' = serverKind /\ live' = live /\ births' = births
      /\ closings' = closings /\ before' = before /\ atomics' = atomics
  BY DEF WalkFails, InWalk, AbsorbsNothing, SlicerSame
<1>2. /\ live \in SUBSET Issue /\ collected \in SUBSET Issue
      /\ before \in 0 .. Cardinality(Issue) /\ lost \in Nat /\ reasons \in SUBSET Reasons
      /\ degraded \in Degradations /\ fellBack \in BOOLEAN /\ twice \in Nat
      /\ troubles \in Nat
  BY DEF SlicingIInv, SliceTypes
<1>3. /\ before \in Nat /\ Cardinality(collected) \in Nat /\ Cardinality(live) \in Nat
      /\ MaxTroubles \in Nat
  BY <1>2, IssueSets, SliceConstants
<1> DEFINE k == Cardinality(collected)
           x == before - k - lost
<1>4. short \in Nat /\ short = IF 0 =< x THEN x ELSE 0
  <2>1. short = Max({0, x})
    BY DEF Unaccounted
  <2>2. x \in Int /\ 0 \in Int
    <3> HIDE DEF k
    <3>1. k \in Nat
      BY <1>3 DEF k
    <3> QED BY <1>2, <1>3, <3>1
  <2> HIDE DEF x, short
  <2>3. Max({0, x}) = IF 0 =< x THEN x ELSE 0
    BY <2>2, TwoInts
  <2> QED BY <2>1, <2>2, <2>3
<1>5. lost' = lost + short /\ reasons' = reasons \cup more
  <2>1. IF lost > 0 /\ short = 0 THEN RecordsNothing ELSE PutOnRecord("incomplete_slice", short)
    BY DEF WalkFails
  <2>2. CASE lost > 0 /\ short = 0
    <3>1. lost' = lost /\ reasons' = reasons
      BY <2>1, <2>2 DEF RecordsNothing
    <3> HIDE DEF short
    <3> QED BY <1>2, <2>2, <3>1
  <2>3. CASE ~(lost > 0 /\ short = 0)
    <3> HIDE DEF short
    <3> QED BY <2>1, <2>3 DEF PutOnRecord
  <2> QED BY <2>2, <2>3
<1>6. reasons' \in SUBSET Reasons
  <2>1. more \in SUBSET Reasons
    BY DEF Reasons
  <2> HIDE DEF more
  <2> QED BY <1>2, <1>5, <2>1
<1>7. lost' \in Nat
  <2> HIDE DEF short
  <2> QED BY <1>2, <1>4, <1>5
<1>8. Calm /\ closings = 0 => lost' = Cardinality(live) - Cardinality(collected')
  <2> SUFFICES ASSUME Calm, closings = 0 PROVE lost' = Cardinality(live) - Cardinality(collected')
    OBVIOUS
  <2>1. before = Cardinality(live) /\ k + lost =< before
    BY <1>1, MissingSoFar
  <2>2. k \in Nat
    BY <1>3
  <2>3. lost' = before - k
    <3> HIDE DEF short, k
    <3> QED BY <1>2, <1>3, <1>4, <1>5, <2>1, <2>2
  <2> QED BY <1>1, <2>1, <2>3
<1>11. Recorded'
  <2>1. Recorded /\ troubles' # 0
    BY <1>1, <1>2 DEF SlicingIInv
  <2>2. lost' = 0 \/ reasons' # {}
    <3>1. CASE lost > 0 /\ short = 0
      <4> HIDE DEF short, more
      <4>1. reasons # {}
        BY <2>1, <3>1 DEF Recorded
      <4> QED BY <1>5, <4>1
    <3>2. CASE ~(lost > 0 /\ short = 0)
      <4>1. more # {}
        BY <3>2
      <4> HIDE DEF short, more
      <4> QED BY <1>5, <4>1
    <3> QED BY <3>1, <3>2
  <2>3. "max_depth" \notin more
    <3> HIDE DEF short
    <3> QED OBVIOUS
  <2> HIDE DEF short, more
  <2> QED BY <1>1, <1>5, <2>1, <2>2, <2>3 DEF Recorded, Smooth
<1>9. fellBack' = FALSE /\ serverKind # "ignores" => twice' = 0
  BY <1>1 DEF SlicingIInv, ApartInv
<1>10. troubles' \in Nat /\ troubles' =< MaxTroubles
  BY <1>1, <1>2, <1>3
<1> QED BY <1>1, <1>2, <1>6, <1>7, <1>8, <1>9, <1>10, <1>11, WalkEndKeeps

-----------------------------------------------------------------------------
\* The source moves.
LEMMA BornKeeps == ASSUME NEW i \in Issue PROVE SlicingIInv /\ Born(i) => SlicingIInv'
<1> SUFFICES ASSUME SlicingIInv, Born(i) PROVE SlicingIInv'
  OBVIOUS
<1>1. /\ live' = live \cup {i} /\ births' = births + 1 /\ births + closings < MaxMoves
      /\ project' = project /\ serverKind' = serverKind /\ phase' = phase /\ stack' = stack
      /\ root' = root /\ before' = before /\ collected' = collected /\ twice' = twice
      /\ lost' = lost /\ reasons' = reasons /\ atomics' = atomics /\ degraded' = degraded
      /\ fellBack' = fellBack /\ closings' = closings /\ troubles' = troubles
  BY DEF Born
<1>2. /\ live \in SUBSET Issue /\ births \in Nat /\ closings \in Nat /\ MaxMoves \in Nat
      /\ before \in 0 .. Cardinality(Issue)
  BY SliceConstants DEF SlicingIInv, SliceTypes
<1>3. live' \in SUBSET Issue /\ births' \in Nat /\ births' + closings =< MaxMoves /\ births' # 0
  BY <1>1, <1>2
<1>4. SliceTypes'
  BY <1>1, <1>3 DEF SlicingIInv, SliceTypes
<1>5. WalkTypes'
  BY <1>1 DEF SlicingIInv, WalkTypes, AtomicIsOneSecond
<1>6. Fresh' /\ ApartInv'
  BY <1>1 DEF SlicingIInv, Fresh, ApartInv
<1>7. CaughtInv'
  <2> SUFFICES ASSUME serverKind = "ignores", closings = 0
               PROVE  phase # "walk" /\ (phase \in {"range", "check"} => before =< Cardinality(live'))
    BY <1>1 DEF CaughtInv
  <2>1. phase # "walk" /\ (phase \in {"range", "check"} => before =< Cardinality(live))
    BY DEF SlicingIInv, CaughtInv
  <2>2. Cardinality(live) =< Cardinality(live')
    <3>1. live \in SUBSET live'
      BY <1>1
    <3> QED BY <1>3, <3>1, IssueParts
  <2>3. Cardinality(live) \in Nat /\ Cardinality(live') \in Nat /\ before \in Nat
    BY <1>2, <1>3, IssueSets, SliceConstants
  <2> QED BY <2>1, <2>2, <2>3
<1>8. CalmInv' /\ SmoothInv' /\ Recorded'
  BY <1>1, <1>3 DEF SlicingIInv, CalmInv, Calm, SmoothInv, Smooth, Recorded
<1> QED BY <1>4, <1>5, <1>6, <1>7, <1>8 DEF SlicingIInv

\* An issue closed leaves what was counted before it behind.
LEMMA CloseKeeps == ASSUME NEW i \in Issue PROVE SlicingIInv /\ Close(i) => SlicingIInv'
<1> SUFFICES ASSUME SlicingIInv, Close(i) PROVE SlicingIInv'
  OBVIOUS
<1>1. /\ phase \notin {"entry", "done", "failed"}
      /\ live' = live \ {i} /\ closings' = closings + 1 /\ births + closings < MaxMoves
      /\ project' = project /\ serverKind' = serverKind /\ phase' = phase /\ stack' = stack
      /\ root' = root /\ before' = before /\ collected' = collected /\ twice' = twice
      /\ lost' = lost /\ reasons' = reasons /\ atomics' = atomics /\ degraded' = degraded
      /\ fellBack' = fellBack /\ births' = births /\ troubles' = troubles
  BY DEF Close, WalkOver
<1>2. live \in SUBSET Issue /\ births \in Nat /\ closings \in Nat /\ MaxMoves \in Nat
  BY SliceConstants DEF SlicingIInv, SliceTypes
<1>3. live' \in SUBSET Issue /\ closings' \in Nat /\ births + closings' =< MaxMoves /\ closings' # 0
  BY <1>1, <1>2
<1>4. SliceTypes'
  BY <1>1, <1>3 DEF SlicingIInv, SliceTypes
<1>5. WalkTypes'
  BY <1>1 DEF SlicingIInv, WalkTypes, AtomicIsOneSecond
<1>6. Fresh' /\ ApartInv'
  BY <1>1 DEF SlicingIInv, Fresh, ApartInv
<1>7. CaughtInv'
  BY <1>3 DEF CaughtInv
<1>8. CalmInv'
  <2> SUFFICES ASSUME Calm' PROVE Undisturbed'
    BY DEF CalmInv
  <2>1. Calm
    BY <1>1, <1>3 DEF Calm
  <2>2. Undisturbed
    BY <2>1 DEF SlicingIInv, CalmInv
  <2>3. Covers(project, root, live) => Covers(project, root, live')
    BY <1>1 DEF Covers
  <2>4. CalmWalk => CalmWalk'
    BY <1>1 DEF CalmWalk
  <2> QED BY <1>1, <1>3, <2>2, <2>3, <2>4 DEF Undisturbed
<1>9. SmoothInv'
  <2> SUFFICES ASSUME Smooth', phase = "walk" PROVE SmoothWalk'
    BY <1>1 DEF SmoothInv
  <2>1. SmoothWalk /\ lost \in Nat /\ stack \in Seq(Calls)
    BY <1>1 DEF SlicingIInv, SmoothInv, Smooth, SliceTypes, WalkTypes
  <2> DEFINE A == live \ (collected \cup Pending(project, stack))
             B == live' \ (collected \cup Pending(project, stack))
  <2>2. B \in SUBSET A /\ A \in SUBSET Issue
    BY <1>1, <1>2
  <2>3. Cardinality(A) =< lost
    BY <2>1 DEF SmoothWalk
  <2> HIDE DEF A, B
  <2>4. Cardinality(B) =< Cardinality(A) /\ Cardinality(A) \in Nat /\ Cardinality(B) \in Nat
    BY <2>2, IssueParts, IssueSets
  <2>5. Cardinality(B) =< lost
    BY <2>1, <2>3, <2>4
  <2>6. ASSUME NEW n \in DOMAIN stack PROVE Tallied(project, live', stack[n])
    <3> DEFINE R == Region(project, stack[n])
    <3>1. Tallied(project, live, stack[n])
      BY <2>1 DEF SmoothWalk, AllTallied
    <3>2. live' \cap R \in SUBSET (live \cap R) /\ live \cap R \in SUBSET Issue
      BY <1>1, <1>2
    <3>3. stack[n].total \in Nat
      <4>1. stack[n] \in Calls
        BY <2>1
      <4>2. stack[n].total \in 0 .. Cardinality(Issue)
        BY <4>1 DEF Calls, CallType
      <4> QED BY <4>2, SliceConstants
    <3> HIDE DEF R
    <3>4. live' \cap R \in SUBSET Issue
      BY <3>2
    <3>5. /\ Cardinality(live' \cap R) =< Cardinality(live \cap R)
          /\ Cardinality(live' \cap R) \in Nat /\ Cardinality(live \cap R) \in Nat
      BY <3>2, <3>4, IssueParts, IssueSets
    <3>6. Cardinality(live \cap R) =< stack[n].total => Cardinality(live' \cap R) =< stack[n].total
      BY <3>3, <3>5
    <3> QED BY <3>1, <3>6 DEF Tallied, R
  <2>7. AllTallied(project, live', stack)
    BY <2>6 DEF AllTallied
  <2> QED BY <1>1, <2>5, <2>7 DEF SmoothWalk, B
<1>10. Recorded'
  BY <1>1 DEF SlicingIInv, Recorded, Smooth
<1> QED BY <1>4, <1>5, <1>6, <1>7, <1>8, <1>9, <1>10 DEF SlicingIInv

\* Every step of the walk and of the server keeps the invariant.
LEMMA SlicingSteps == SlicingIInv /\ [SlicingNext]_lvars => SlicingIInv'
<1> SUFFICES ASSUME SlicingIInv, [SlicingNext]_lvars PROVE SlicingIInv'
  OBVIOUS
<1>1. CASE EntryFetch
  BY <1>1, EntryFetchKeeps
<1>2. CASE ProbeRange
  BY <1>2, ProbeRangeKeeps
<1>3. CASE CheckDates
  BY <1>3, CheckDatesKeeps
<1>4. CASE Backstop
  BY <1>4, BackstopKeeps
<1>5. CASE CountWindow
  BY <1>5, CountWindowKeeps
<1>6. CASE FetchWindow
  BY <1>6, FetchWindowKeeps
<1>7. CASE WidenOrClose
  BY <1>7, WidenOrCloseKeeps
<1>8. CASE CountSecond
  BY <1>8, CountSecondKeeps
<1>9. CASE SplitByFacet
  BY <1>9, SplitByFacetKeeps
<1>10. CASE FetchCell
  BY <1>10, FetchCellKeeps
<1>11. CASE GiveUp
  BY <1>11, GiveUpKeeps
<1>12. CASE FinishWalk
  BY <1>12, FinishWalkKeeps
<1>13. CASE DatesRefused
  BY <1>13, DatesRefusedKeeps
<1>14. CASE WalkFails
  BY <1>14, WalkFailsKeeps
<1>15. CASE \E i \in Issue : Born(i) \/ Close(i)
  BY <1>15, BornKeeps, CloseKeeps
<1>16. CASE UNCHANGED lvars
  BY <1>16, SlicingStays
<1> QED BY <1>1, <1>2, <1>3, <1>4, <1>5, <1>6, <1>7, <1>8, <1>9, <1>10, <1>11, <1>12, <1>13,
           <1>14, <1>15, <1>16 DEF SlicingNext

\* What the invariant says of the properties the run checks.
LEMMA SlicingShows == SlicingIInv => WalkIsExact /\ (births = 0 => RecordsAreHonest)
<1> SUFFICES ASSUME SlicingIInv PROVE WalkIsExact /\ (births = 0 => RecordsAreHonest)
  OBVIOUS
<1>1. SlicingTypeOK
  <2>1. stack \in Seq(Calls) /\ phase \in {"entry", "range", "check", "walk", "done", "failed"}
    BY DEF SlicingIInv, WalkTypes
  <2>2. ASSUME NEW n \in DOMAIN stack
        PROVE  /\ stack[n].do \in {"window", "fetch", "atomic", "close", "facets", "cell", "give up"}
               /\ stack[n].w.lo \in 0..Today + 1 /\ stack[n].w.hi \in 0..Today + 1
               /\ stack[n].w.lo <= stack[n].w.hi
               /\ stack[n].total \in 0..Cardinality(Issue) /\ stack[n].depth \in 0..MaxDepth
    <3>1. stack[n] \in CallType /\ stack[n].w.lo < stack[n].w.hi
      <4>1. stack[n] \in Calls
        BY <2>1
      <4> QED BY <4>1 DEF Calls, SliceFits
    <3>2. /\ stack[n].do \in Doings /\ stack[n].w \in Windows
          /\ stack[n].total \in 0..Cardinality(Issue) /\ stack[n].depth \in 0..MaxDepth
      BY <3>1 DEF CallType
    <3>3. stack[n].w.lo \in 0..Today + 1 /\ stack[n].w.hi \in 0..Today + 1
      BY <3>2 DEF Windows
    <3>4. stack[n].w.lo <= stack[n].w.hi
      BY <3>1, <3>3, SliceConstants
    <3> QED BY <3>2, <3>3, <3>4 DEF Doings
  <2> QED BY <2>1, <2>2 DEF SlicingTypeOK, SlicingIInv, SliceTypes, Reasons
<1>2. LossIsExact
  <2>1. WalkOver /\ Still => Calm /\ closings = 0
    BY DEF Still, Calm
  <2> QED BY <2>1 DEF LossIsExact, WalkOver, SlicingIInv, CalmInv, Undisturbed
<1>3. NothingTwiceInWindows
  BY DEF NothingTwiceInWindows, SlicingIInv, ApartInv, SliceTypes
<1>4. AtomicIsOneSecond /\ IgnoredDatesAreCaught
  BY DEF SlicingIInv, WalkTypes, CaughtInv, IgnoredDatesAreCaught
<1>5. MissingIsOnRecord
  BY DEF SlicingIInv, Recorded, MissingIsOnRecord, WalkOver
<1>6. births = 0 => BusyIsNoDrift /\ DepthIsOnlyABackstop
  BY DEF SlicingIInv, Recorded, Smooth, BusyIsNoDrift, DepthIsOnlyABackstop
<1> QED BY <1>1, <1>2, <1>3, <1>4, <1>5, <1>6 DEF WalkIsExact, RecordsAreHonest

(***************************************************************************)
(* Whatever the issues, their dates and facets, the ceiling and the server, *)
(* whatever fails and whatever is created or closed meanwhile:             *)
(* - no issue is fetched twice by the windows (absorb, slice.go:318-323), and *)
(*   a loss filed as unavoidable is of one second (fetchAtomicWindow);     *)
(* - on a source that did not change, the losses on record are as many as  *)
(*   the issues that were not fetched, however the walk ends;              *)
(* - what is missing at the end has left a record, if no issue was created *)
(*   and no request failed;                                                *)
(* - a server that ignores dates is found out before its counts are trusted, *)
(*   if no issue was closed before the check (datesRespected).             *)
(***************************************************************************)
THEOREM WalkStaysExact == SlicingSpec => []WalkIsExact
<1>1. SlicingSpec => []SlicingIInv
  BY SlicingStarts, SlicingSteps, PTL DEF SlicingSpec
<1> QED BY <1>1, SlicingShows, PTL

(***************************************************************************)
(* As long as no issue is created during the walk, whatever is closed: no  *)
(* drift goes on record that was only churn (UnexplainedDrift), and the depth *)
(* backstop never drops a window (maxSliceDepth, slice.go:33-38).          *)
(***************************************************************************)
THEOREM ShrinkingSourceIsHonest == SlicingSpec => [](births = 0 => RecordsAreHonest)
<1>1. SlicingSpec => []SlicingIInv
  BY SlicingStarts, SlicingSteps, PTL DEF SlicingSpec
<1> QED BY <1>1, SlicingShows, PTL
===============================================================================
