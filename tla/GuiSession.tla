----------------------------- MODULE GuiSession -----------------------------
(***************************************************************************)
(* The wizard behind a browser page (go/internal/gui, go/cmd/gui.go and    *)
(* templates/wizard.html): the Hub writes to one WebSocket connection, the *)
(* WebPrompter blocks the wizard on a prompt until the page answers or the *)
(* wizard is cancelled, and the page starts, answers and cancels it.  The  *)
(* connection breaks and comes back, and the page may be reloaded.         *)
(*                                                                         *)
(* Hub.Send is one step: a connection replaced between its two locks loses *)
(* the message just as one that breaks right after it.                     *)
(***************************************************************************)
EXTENDS Integers, Sequences, FiniteSets, SequencesExt

CONSTANTS MaxConns, MaxRuns, MaxPrompts, MaxReloads   \* bounds

ASSUME GuiAssumption == {MaxConns, MaxRuns, MaxPrompts, MaxReloads} \subseteq Nat

Conns   == 1 .. MaxConns
Runs    == 1 .. MaxRuns
Prompts == 1 .. MaxPrompts
None    == 0

VARIABLES
  hub,         \* Hub.conn
  link,        \* what became of each connection: "unused", "open", "broken"
  reader,      \* its ServeWS: "none", "upgraded", "reading", "left"
  toPage, toServer,   \* messages under way on each connection
  page,        \* the page: its connection, status, whether it shows Cancel, the prompt it shows
  reloads,
  wizActive, wizRuns, \* gui.go: a wizard is active, wizards started so far
  wizard,      \* where RunWithSeed and runWizardAsync are, for each run
  cancelledRuns,   \* runs whose context is done
  prompted,    \* the prompt a run waits for
  pending,     \* registered prompts, each of a run (WebPrompter.pending)
  reply,       \* the answer a prompt got
  prompts,     \* prompts sent so far
  heard,       \* history: the last prompt went out on the page's connection, which holds since
  told         \* history: the run the page was last told of

linkVars == <<hub, link, reader>>
pageVars == <<page, reloads, told>>
wizVars  == <<wizActive, wizRuns, wizard, cancelledRuns>>
askVars  == <<prompted, pending, reply, prompts>>
gvars == <<linkVars, toPage, toServer, pageVars, wizVars, askVars, heard>>

NewPage == [conn |-> None, status |-> "idle", cancel |-> FALSE, shown |-> None]
Message(type, about) == [type |-> type, about |-> about]

GuiInit ==
  /\ hub = None
  /\ link = [c \in Conns |-> "unused"] /\ reader = [c \in Conns |-> "none"]
  /\ toPage = [c \in Conns |-> <<>>] /\ toServer = [c \in Conns |-> <<>>]
  /\ page = NewPage /\ reloads = 0 /\ told = None
  /\ wizActive = FALSE /\ wizRuns = 0 /\ wizard = [r \in Runs |-> "none"] /\ cancelledRuns = {}
  /\ prompted = [r \in Runs |-> None] /\ pending = [i \in Prompts |-> None]
  /\ reply = [i \in Prompts |-> None] /\ prompts = 0
  /\ heard = FALSE

-----------------------------------------------------------------------------
(* Connections. *)

\* connect() of the page, and the upgrade of the request.
Connect(c) ==
  /\ page.conn = None /\ link[c] = "unused" /\ \A d \in 1 .. c - 1 : link[d] # "unused"
  /\ link' = [link EXCEPT ![c] = "open"] /\ reader' = [reader EXCEPT ![c] = "upgraded"]
  /\ page' = [page EXCEPT !.conn = c]
  /\ UNCHANGED <<hub, toPage, toServer, reloads, told, wizVars, askVars, heard>>

\* ServeWS closes the connection it replaces.
Register(c) ==
  /\ reader[c] = "upgraded"
  /\ reader' = [reader EXCEPT ![c] = "reading"]
  /\ hub' = c
  /\ link' = IF hub = None THEN link ELSE [link EXCEPT ![hub] = "broken"]
  /\ page' = IF hub # None /\ page.conn = hub THEN [page EXCEPT !.conn = None] ELSE page
  /\ toPage' = [d \in Conns |-> IF d = hub THEN <<>> ELSE toPage[d]]
  /\ heard' = (heard /\ page'.conn # None)
  /\ UNCHANGED <<toServer, reloads, told, wizVars, askVars>>

\* Variant: the connection is forgotten whichever it is.
ForgetsAny(c) == None

\* ServeWS's deferred cleanup: a connection that was replaced leaves its successor.
Cleaned(c) == IF hub = c THEN None ELSE hub

\* The read loop of a broken connection ends.
Leave(c) ==
  /\ reader[c] = "reading" /\ link[c] = "broken"
  /\ reader' = [reader EXCEPT ![c] = "left"]
  /\ hub' = Cleaned(c)
  /\ toServer' = [toServer EXCEPT ![c] = <<>>]
  /\ UNCHANGED <<link, toPage, pageVars, wizVars, askVars, heard>>

\* The network fails: what was under way to the page is lost, and so may be what
\* the Hub has not read yet.
Break ==
  /\ page.conn # None
  /\ link' = [link EXCEPT ![page.conn] = "broken"]
  /\ page' = [page EXCEPT !.conn = None]
  /\ toPage' = [toPage EXCEPT ![page.conn] = <<>>]
  /\ heard' = FALSE
  /\ UNCHANGED <<hub, reader, toServer, reloads, told, wizVars, askVars>>

\* The user reloads the page: it knows nothing of a wizard that runs.
Reload ==
  /\ reloads < MaxReloads
  /\ reloads' = reloads + 1
  /\ link' = IF page.conn = None THEN link ELSE [link EXCEPT ![page.conn] = "broken"]
  /\ page' = NewPage
  /\ toPage' = [c \in Conns |-> IF c = page.conn THEN <<>> ELSE toPage[c]]
  /\ heard' = FALSE
  /\ UNCHANGED <<hub, reader, toServer, told, wizVars, askVars>>

\* Hub.Send: without a connection the message is dropped.
Sent(m) ==
  IF hub # None /\ link[hub] = "open" THEN [toPage EXCEPT ![hub] = Append(@, m)] ELSE toPage

-----------------------------------------------------------------------------
(* The page. *)

\* send() drops the message of a page that is not connected.
PageSends(m) ==
  toServer' = IF page.conn = None THEN toServer
              ELSE [toServer EXCEPT ![page.conn] = Append(@, m)]

\* showControls: Cancel is there while a wizard runs, Start while none does.
ShowControls(running) == running

Receive ==
  /\ page.conn # None /\ toPage[page.conn] # <<>>
  /\ toPage' = [toPage EXCEPT ![page.conn] = Tail(@)]
  /\ LET m == Head(toPage[page.conn]) IN
     /\ page' =
          CASE m.type = "started" ->
                 [page EXCEPT !.status = "running", !.cancel = ShowControls(TRUE)]
            [] m.type = "finished" ->
                 [page EXCEPT !.status = "finished", !.cancel = ShowControls(FALSE), !.shown = None]
            [] m.type = "prompt" -> [page EXCEPT !.shown = m.about]
            [] OTHER -> page
     /\ told' = IF m.type = "started" THEN m.about ELSE told
  /\ UNCHANGED <<linkVars, toServer, reloads, wizVars, askVars, heard>>

\* Start, once: the page takes itself to be running before it knows.
ClickStart ==
  /\ ~page.cancel /\ page.status # "running"
  /\ wizRuns + Cardinality({c \in Conns : Contains(toServer[c], Message("start", None))}) < MaxRuns
  /\ page' = [page EXCEPT !.status = "running"]
  /\ PageSends(Message("start", None))
  /\ UNCHANGED <<linkVars, toPage, reloads, told, wizVars, askVars, heard>>

ClickCancel ==
  /\ page.cancel /\ \A c \in Conns : ~Contains(toServer[c], Message("cancel", None))
  /\ PageSends(Message("cancel", None))
  /\ UNCHANGED <<linkVars, toPage, pageVars, wizVars, askVars, heard>>

\* respond() and goBack(): the prompt goes away, sent or not.
Respond ==
  /\ page.shown # None
  /\ PageSends(Message("answer", page.shown))
  /\ page' = [page EXCEPT !.shown = None]
  /\ heard' = (heard /\ page.conn # None)
  /\ UNCHANGED <<linkVars, toPage, reloads, told, wizVars, askVars>>

-----------------------------------------------------------------------------
(* The Hub dispatches what a connection reads. *)

\* Variant: whoever asks gets a wizard.
AlwaysFree == TRUE

\* OnStartWizard's guard.
MayStart == ~wizActive

StartWizard ==
  IF MayStart
  THEN /\ wizActive' = TRUE /\ wizRuns' = wizRuns + 1
       /\ wizard' = [wizard EXCEPT ![wizRuns'] = "working"]
       /\ toPage' = Sent(Message("started", wizRuns'))
       /\ UNCHANGED <<cancelledRuns, askVars>>
  ELSE toPage' = Sent(Message("warning", None)) /\ UNCHANGED <<wizVars, askVars>>

\* wizCancel is the last wizard's.
CancelWizard ==
  /\ cancelledRuns' = cancelledRuns \union ({wizRuns} \ {None})
  /\ UNCHANGED <<toPage, wizActive, wizRuns, wizard, askVars>>

\* HandleResponse of the current prompter, which is the last wizard's.
PendingFor(i) == {j \in {i} : pending[j] = wizRuns}

HandleResponse(i) ==
  /\ reply' = [j \in Prompts |-> IF j \in PendingFor(i) THEN i ELSE reply[j]]
  /\ pending' = [j \in Prompts |-> IF j \in PendingFor(i) THEN None ELSE pending[j]]
  /\ UNCHANGED <<toPage, wizVars, prompted, prompts>>

Dispatch(c) ==
  /\ reader[c] = "reading" /\ toServer[c] # <<>>
  /\ toServer' = [toServer EXCEPT ![c] = Tail(@)]
  /\ LET m == Head(toServer[c]) IN
     \/ /\ m.type = "start" /\ StartWizard
        /\ MayStart => wizRuns < MaxRuns   \* the bound
     \/ m.type = "cancel" /\ CancelWizard
     \/ m.type = "answer" /\ HandleResponse(m.about)
  /\ UNCHANGED <<linkVars, pageVars, heard>>

-----------------------------------------------------------------------------
(* A wizard. *)

\* WebPrompter.prompt registers a prompt and sends it.
Ask(r) ==
  /\ wizard[r] = "working" /\ prompts < MaxPrompts
  /\ prompts' = prompts + 1
  /\ wizard' = [wizard EXCEPT ![r] = "waiting"]
  /\ prompted' = [prompted EXCEPT ![r] = prompts']
  /\ pending' = [pending EXCEPT ![prompts'] = r]
  /\ toPage' = Sent(Message("prompt", prompts'))
  /\ heard' = (page.conn # None /\ reader[page.conn] = "reading" 
               /\ \A s \in Runs : wizard[s] # "returned")
  /\ UNCHANGED <<linkVars, toServer, pageVars, wizActive, wizRuns, cancelledRuns, reply>>

\* Variant: a prompt waits for its answer only.
WaitsForAnswer(r) == reply[prompted[r]] # None

\* prompt's select: the answer, or the context is done.
Selected(r) == reply[prompted[r]] # None \/ r \in cancelledRuns

GoOn(r) ==
  /\ wizard[r] = "waiting" /\ Selected(r)
  /\ wizard' = [wizard EXCEPT ![r] = "working"]
  /\ pending' = [pending EXCEPT ![prompted[r]] = None]
  /\ UNCHANGED <<linkVars, toPage, toServer, pageVars, wizActive, wizRuns, cancelledRuns,
                 prompted, reply, prompts, heard>>

\* RunWithSeed returns, and the wizard is no longer active.
Return(r) ==
  /\ wizard[r] = "working"
  /\ wizard' = [wizard EXCEPT ![r] = "returned"] /\ wizActive' = FALSE
  /\ UNCHANGED <<linkVars, toPage, toServer, pageVars, wizRuns, cancelledRuns, askVars, heard>>

\* The page is told afterwards, outside the lock.
SayFinished(r) ==
  /\ wizard[r] = "returned"
  /\ wizard' = [wizard EXCEPT ![r] = "ended"]
  /\ toPage' = Sent(Message("finished", r))
  /\ UNCHANGED <<linkVars, toServer, pageVars, wizActive, wizRuns, cancelledRuns, askVars, heard>>

WizardStep(r) == Ask(r) \/ GoOn(r) \/ Return(r) \/ SayFinished(r)

GuiNext ==
  \/ \E c \in Conns : Connect(c) \/ Register(c) \/ Leave(c) \/ Dispatch(c)
  \/ Break \/ Reload \/ Receive \/ ClickStart \/ ClickCancel \/ Respond
  \/ \E r \in Runs : WizardStep(r)

\* The wizard's goroutine is scheduled, and a wizard does not work for ever.
GuiSpec == GuiInit /\ [][GuiNext]_gvars /\ \A r \in Runs : WF_gvars(WizardStep(r))

-----------------------------------------------------------------------------
(* Properties. *)

GuiTypeOK ==
  /\ hub \in Conns \union {None}
  /\ link \in [Conns -> {"unused", "open", "broken"}]
  /\ reader \in [Conns -> {"none", "upgraded", "reading", "left"}]
  /\ page \in [conn : Conns \union {None}, status : {"idle", "running", "finished"},
               cancel : BOOLEAN, shown : Prompts \union {None}]
  /\ wizActive \in BOOLEAN /\ wizRuns \in 0 .. MaxRuns /\ cancelledRuns \subseteq Runs
  /\ wizard \in [Runs -> {"none", "working", "waiting", "returned", "ended"}]
  /\ pending \in [Prompts -> Runs \union {None}] /\ prompted \in [Runs -> Prompts \union {None}]
  /\ reply \in [Prompts -> Prompts \union {None}]
  /\ hub # None => reader[hub] = "reading"

Under == {r \in Runs : wizard[r] \in {"working", "waiting"}}

\* However often a page is reloaded, reconnected and started from, one wizard at
\* most is under way, and it is the one that Cancel and answers reach.
OneWizard == Under \subseteq {wizRuns} /\ (wizActive <=> Under # {})

\* An answer is taken for the prompt it was given to: what a page that missed the
\* end of one wizard still shows never answers a prompt of the next.
AnswersFit == \A i \in Prompts : reply[i] \in {None, i}

\* While the connection a prompt went out on holds, the prompt is on its way, on
\* the page or answered: the late cleanup of a connection that was replaced does
\* not take the new one away.
PromptIsNotLost ==
  \A r \in Runs : wizard[r] = "waiting" /\ heard =>
    LET i == prompted[r] IN
      \/ page.shown = i \/ reply[i] = i
      \/ page.conn # None /\ Contains(toPage[page.conn], Message("prompt", i))
      \/ \E c \in Conns : Contains(toServer[c], Message("answer", i))

\* On a page that was never reloaded, a wizard it was told of can be cancelled for
\* as long as it is under way, also while a prompt of it was lost.
AlwaysAWayOut == reloads = 0 /\ told \in Under => page.cancel

\* Whatever becomes of connections, the page and the wizard stay in step: answers
\* reach the prompt they were given to, prompts reach the page that is connected,
\* and the user is never left without a way to answer or to cancel.
PageInv == GuiTypeOK /\ AnswersFit /\ PromptIsNotLost /\ AlwaysAWayOut

\* A cancelled wizard ends, also when its prompt was lost and nobody can answer it.
CancelEnds == \A r \in Runs : r \in cancelledRuns ~> wizard[r] = "ended"
=============================================================================
