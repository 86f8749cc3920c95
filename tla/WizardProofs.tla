------------------------------ MODULE WizardProofs ------------------------------
(***************************************************************************)
(* Proofs about the wizard, for any number of connections, reloads, runs,  *)
(* prompts, sessions, rows and kills.                                      *)
(*                                                                         *)
(* GuiSession: the Hub, the prompter and the page stay in step.  The       *)
(* inductive invariant says where every message can be: only the page's    *)
(* connection carries messages to the page; a prompt that was heard is on  *)
(* its way, shown, on its way back or answered; a start, the wizard it     *)
(* makes and the end of that wizard follow each other.                     *)
(*                                                                         *)
(* WizardPhases: every phase finds what the phases before it made of the   *)
(* extract the state names, and the organizations file ends with the       *)
(* user's last words.                                                      *)
(***************************************************************************)
EXTENDS GuiSession, WizardPhases, TLAPS

\* The wizard's side of the type invariant, with the two properties.
GuiInv ==
  /\ wizRuns \in 0 .. MaxRuns
  /\ wizActive \in BOOLEAN
  /\ wizard \in [Runs -> {"none", "working", "waiting", "returned", "ended"}]
  /\ reply \in [Prompts -> Prompts \union {None}]
  /\ OneWizard
  /\ AnswersFit

-----------------------------------------------------------------------------
(* One lemma per family of steps *)

LEMMA InitHolds == ASSUME GuiInit PROVE GuiInv
<1>1. MaxRuns \in Nat /\ MaxPrompts \in Nat
      BY GuiAssumption
<1>2. Under = {}
      BY DEF GuiInit, Under
<1>3. /\ wizRuns = 0 /\ wizActive = FALSE /\ 0 \in 0 .. MaxRuns
      /\ wizard = [r \in Runs |-> "none"] /\ reply = [i \in Prompts |-> None]
      BY <1>1 DEF GuiInit
<1>4. OneWizard
      BY <1>2, <1>3 DEF OneWizard
<1>5. AnswersFit
      BY <1>3 DEF AnswersFit
<1>6. wizard \in [Runs -> {"none", "working", "waiting", "returned", "ended"}]
      BY <1>3
<1>. QED BY <1>3, <1>4, <1>5, <1>6 DEF GuiInv

\* Steps that leave the wizard and the answers alone.
LEMMA Elsewhere == ASSUME GuiInv, UNCHANGED <<wizRuns, wizActive, wizard, reply>> PROVE GuiInv'
BY DEF GuiInv, OneWizard, AnswersFit, Under

\* OnStartWizard: nobody is under way when a wizard starts.
LEMMA StartKeeps ==
    ASSUME GuiInv, StartWizard, MayStart => wizRuns < MaxRuns PROVE GuiInv'
<1>1. CASE MayStart
  <2>0. MaxRuns \in Nat
        BY GuiAssumption
  <2>1. /\ wizRuns' = wizRuns + 1 /\ wizActive' = TRUE /\ wizRuns < MaxRuns
        /\ wizard' = [wizard EXCEPT ![wizRuns'] = "working"] /\ reply' = reply
        BY <1>1 DEF StartWizard, askVars
  <2>2. Under = {}
        BY <1>1 DEF GuiInv, OneWizard, MayStart
  <2>3. wizRuns' \in Runs /\ wizRuns' \in 0 .. MaxRuns
        BY <2>0, <2>1 DEF GuiInv, Runs
  <2>4. /\ wizard' \in [Runs -> {"none", "working", "waiting", "returned", "ended"}]
        /\ \A r \in Runs : wizard'[r] = IF r = wizRuns' THEN "working" ELSE wizard[r]
        BY <2>1, <2>3 DEF GuiInv
  <2>5. Under' = {wizRuns'}
        BY <2>2, <2>3, <2>4 DEF Under
  <2>. QED BY <2>1, <2>3, <2>4, <2>5 DEF GuiInv, OneWizard, AnswersFit
<1>2. CASE ~MayStart
      BY <1>2, Elsewhere DEF StartWizard, wizVars, askVars
<1>. QED BY <1>1, <1>2

\* WebPrompter.HandleResponse: the prompt is looked up by its own number.
LEMMA ResponseKeeps == ASSUME GuiInv, NEW i, HandleResponse(i) PROVE GuiInv'
<1>1. /\ reply' = [j \in Prompts |-> IF j \in PendingFor(i) THEN i ELSE reply[j]]
      /\ UNCHANGED <<wizRuns, wizActive, wizard>>
      BY DEF HandleResponse, wizVars
<1>2. \A j \in Prompts : j \in PendingFor(i) => j = i
      BY DEF PendingFor
<1>3. \A j \in Prompts : reply'[j] \in {None, j}
      BY <1>1, <1>2 DEF GuiInv, AnswersFit
<1>4. reply' \in [Prompts -> Prompts \union {None}]
      BY <1>1, <1>2 DEF GuiInv
<1>. QED BY <1>1, <1>3, <1>4 DEF GuiInv, OneWizard, Under, AnswersFit

LEMMA DispatchKeeps == ASSUME GuiInv, NEW c \in Conns, Dispatch(c) PROVE GuiInv'
<1> DEFINE m == Head(toServer[c])
<1>1. CASE m.type = "start"
      BY <1>1, StartKeeps DEF Dispatch
<1>2. CASE m.type = "answer"
      BY <1>2, ResponseKeeps DEF Dispatch
<1>3. CASE m.type = "cancel"
      BY <1>3, Elsewhere DEF Dispatch, CancelWizard, askVars
<1>. QED BY <1>1, <1>2, <1>3 DEF Dispatch

\* The wizard's goroutine: only Return ends what is under way.
LEMMA WizardKeeps == ASSUME GuiInv, NEW r \in Runs, WizardStep(r) PROVE GuiInv'
<1>1. \A w : wizard' = [wizard EXCEPT ![r] = w] =>
        \A q \in Runs : wizard'[q] = IF q = r THEN w ELSE wizard[q]
      BY DEF GuiInv
<1>2. CASE Ask(r) \/ GoOn(r)
  <2>1. /\ wizard[r] \in {"working", "waiting"}
        /\ \E w \in {"working", "waiting"} : wizard' = [wizard EXCEPT ![r] = w]
        /\ UNCHANGED <<wizRuns, wizActive, reply>>
    <3>1. CASE Ask(r)
          BY <3>1 DEF Ask
    <3>2. CASE GoOn(r)
          BY <3>2 DEF GoOn
    <3>. QED BY <1>2, <3>1, <3>2
  <2>2. wizard' \in [Runs -> {"none", "working", "waiting", "returned", "ended"}]
        BY <2>1 DEF GuiInv
  <2>3. Under' = Under
        BY <1>1, <2>1 DEF Under
  <2>. QED BY <2>1, <2>2, <2>3 DEF GuiInv, OneWizard, AnswersFit
<1>3. CASE Return(r)
  <2>1. /\ wizard[r] = "working" /\ wizard' = [wizard EXCEPT ![r] = "returned"]
        /\ wizActive' = FALSE /\ UNCHANGED <<wizRuns, reply>>
        BY <1>3 DEF Return, askVars
  <2>2. r \in Under /\ Under \subseteq {wizRuns}
        BY <2>1 DEF GuiInv, OneWizard, Under
  <2>3. \A q \in Runs : wizard'[q] = IF q = r THEN "returned" ELSE wizard[q]
        BY <1>1, <2>1
  <2>4. Under' = {}
    <3>1. \A q \in Runs \ {r} : wizard[q] \notin {"working", "waiting"}
          BY <2>2 DEF Under
    <3>. QED BY <2>3, <3>1 DEF Under
  <2>5. wizard' \in [Runs -> {"none", "working", "waiting", "returned", "ended"}]
        BY <2>1 DEF GuiInv
  <2>. QED BY <2>1, <2>4, <2>5 DEF GuiInv, OneWizard, AnswersFit
<1>4. CASE SayFinished(r)
  <2>1. /\ wizard[r] = "returned" /\ wizard' = [wizard EXCEPT ![r] = "ended"]
        /\ UNCHANGED <<wizRuns, wizActive, reply>>
        BY <1>4 DEF SayFinished, askVars
  <2>2. Under' = Under
        BY <1>1, <2>1 DEF Under
  <2>3. wizard' \in [Runs -> {"none", "working", "waiting", "returned", "ended"}]
        BY <2>1 DEF GuiInv
  <2>. QED BY <2>1, <2>2, <2>3 DEF GuiInv, OneWizard, AnswersFit
<1>. QED BY <1>2, <1>3, <1>4 DEF WizardStep

LEMMA NextKeeps == ASSUME GuiInv, [GuiNext]_gvars PROVE GuiInv'
<1>1. ASSUME NEW c \in Conns, Connect(c) \/ Register(c) PROVE GuiInv'
      BY <1>1, Elsewhere DEF Connect, Register, wizVars, askVars
<1>2. ASSUME NEW c \in Conns, Leave(c) PROVE GuiInv'
      BY <1>2, Elsewhere DEF Leave, wizVars, askVars
<1>3. ASSUME NEW c \in Conns, Dispatch(c) PROVE GuiInv'
      BY <1>3, DispatchKeeps
<1>4. CASE Break \/ Reload
      BY <1>4, Elsewhere DEF Break, Reload, wizVars, askVars
<1>5. CASE Receive
      BY <1>5, Elsewhere DEF Receive, wizVars, askVars
<1>6. CASE ClickStart \/ ClickCancel \/ Respond
      BY <1>6, Elsewhere DEF ClickStart, ClickCancel, Respond, wizVars, askVars
<1>7. ASSUME NEW r \in Runs, WizardStep(r) PROVE GuiInv'
      BY <1>7, WizardKeeps
<1>8. CASE UNCHANGED gvars
      BY <1>8, Elsewhere DEF gvars, wizVars, askVars
<1>. QED BY <1>1, <1>2, <1>3, <1>4, <1>5, <1>6, <1>7, <1>8 DEF GuiNext

LEMMA AlwaysGuiInv == GuiSpec => []GuiInv
<1>. QED BY InitHolds, NextKeeps, PTL DEF GuiSpec

-----------------------------------------------------------------------------
\* One wizard at most is under way, and wizActive tells whether (runWizardAsync
\* and OnStartWizard of go/cmd/gui.go), however starts, ends and cancels fall.
THEOREM OneWizardAtMost == GuiSpec => []OneWizard
<1>1. GuiInv => OneWizard
      BY DEF GuiInv
<1>. QED BY <1>1, AlwaysGuiInv, PTL

\* The answer a prompt gets was given to it (WebPrompter.HandleResponse).
THEOREM AnswersReachTheirPrompt == GuiSpec => []AnswersFit
<1>1. GuiInv => AnswersFit
      BY DEF GuiInv
<1>. QED BY <1>1, AlwaysGuiInv, PTL

-----------------------------------------------------------------------------
(* The page's side: what is on the wire, and which connection is whose. *)

\* What goes over a connection.
ToPage ==
  {Message("started", r) : r \in Runs} \union {Message("finished", r) : r \in Runs}
    \union {Message("prompt", i) : i \in Prompts} \union {Message("warning", None)}
ToServer ==
  {Message("answer", i) : i \in Prompts} \union {Message("start", None), Message("cancel", None)}

PageTypes ==
  /\ GuiTypeOK
  /\ toPage \in [Conns -> Seq(ToPage)] /\ toServer \in [Conns -> Seq(ToServer)]
  /\ prompts \in 0 .. MaxPrompts /\ told \in Runs \union {None}
  /\ reloads \in Nat /\ heard \in BOOLEAN

\* The page's connection is the open one; once its reader runs, it is the Hub's.
\* No other carries messages to the page.
Wired ==
  /\ page.conn # None => link[page.conn] = "open" /\ reader[page.conn] \in {"upgraded", "reading"}
  /\ page.conn # None /\ reader[page.conn] = "reading" => hub = page.conn
  /\ \A c \in Conns : link[c] = "open" => page.conn = c
  /\ \A c \in Conns : c # page.conn => toPage[c] = <<>>
  /\ \A c \in Conns : reader[c] = "none" <=> link[c] = "unused"

\* A wizard that waits, waits for the last prompt, which is registered as its own.
Asked ==
  /\ \A r \in Runs : wizard[r] = "waiting" =>
       /\ prompted[r] = prompts /\ prompts # 0
       /\ pending[prompts] = r \/ reply[prompts] = prompts
  /\ \A r \in Runs : r > wizRuns => wizard[r] = "none"

-----------------------------------------------------------------------------
LEMMA GuiBounds == MaxConns \in Nat /\ MaxRuns \in Nat /\ MaxPrompts \in Nat /\ MaxReloads \in Nat
BY GuiAssumption

LEMMA AppendIs ==
  ASSUME NEW S, NEW s \in Seq(S), NEW m \in S
  PROVE  /\ Append(s, m) \in Seq(S) /\ Len(Append(s, m)) = Len(s) + 1 /\ Len(s) \in Nat
         /\ \A k \in 1 .. Len(s) : Append(s, m)[k] = s[k]
         /\ Append(s, m)[Len(s) + 1] = m
OBVIOUS

LEMMA TailIs ==
  ASSUME NEW S, NEW s \in Seq(S), s # <<>>
  PROVE  /\ Tail(s) \in Seq(S) /\ Len(s) \in Nat /\ Len(s) > 0 /\ Len(Tail(s)) = Len(s) - 1
         /\ \A k \in 1 .. Len(Tail(s)) : Tail(s)[k] = s[k + 1]
         /\ Head(s) = s[1] /\ Head(s) \in S
OBVIOUS

LEMMA SentIs ==
  ASSUME PageTypes, NEW m \in ToPage
  PROVE  /\ Sent(m) \in [Conns -> Seq(ToPage)]
         /\ \A c \in Conns : c # hub => Sent(m)[c] = toPage[c]
         /\ hub # None /\ link[hub] = "open" => Sent(m)[hub] = Append(toPage[hub], m)
         /\ ~ (hub # None /\ link[hub] = "open") => Sent(m) = toPage
<1>1. toPage \in [Conns -> Seq(ToPage)] /\ hub \in Conns \union {None}
      BY DEF PageTypes, GuiTypeOK
<1>2. CASE hub # None /\ link[hub] = "open"
  <2>1. Append(toPage[hub], m) \in Seq(ToPage)
        BY <1>1, <1>2, AppendIs
  <2>. QED BY <1>1, <1>2, <2>1 DEF Sent
<1>3. CASE ~ (hub # None /\ link[hub] = "open")
      BY <1>1, <1>3 DEF Sent
<1>. QED BY <1>2, <1>3

LEMMA PageSendsIs ==
  ASSUME PageTypes, NEW m \in ToServer, PageSends(m)
  PROVE  /\ toServer' \in [Conns -> Seq(ToServer)]
         /\ \A c \in Conns : c # page.conn => toServer'[c] = toServer[c]
         /\ page.conn # None => toServer'[page.conn] = Append(toServer[page.conn], m)
         /\ page.conn = None => toServer' = toServer
<1>1. toServer \in [Conns -> Seq(ToServer)] /\ page.conn \in Conns \union {None}
      BY DEF PageTypes, GuiTypeOK
<1>2. CASE page.conn # None
  <2>1. Append(toServer[page.conn], m) \in Seq(ToServer)
        BY <1>1, <1>2, AppendIs
  <2>. QED BY <1>1, <1>2, <2>1 DEF PageSends
<1>3. CASE page.conn = None
      BY <1>1, <1>3 DEF PageSends
<1>. QED BY <1>2, <1>3

LEMMA TypesInit == ASSUME GuiInit PROVE PageTypes /\ Wired /\ Asked
<1>. USE GuiBounds
<1>1. /\ hub = None /\ link = [c \in Conns |-> "unused"] /\ reader = [c \in Conns |-> "none"]
      /\ toPage = [c \in Conns |-> <<>>] /\ toServer = [c \in Conns |-> <<>>]
      /\ page = NewPage /\ reloads = 0 /\ told = None
      /\ wizActive = FALSE /\ wizRuns = 0 /\ wizard = [r \in Runs |-> "none"] /\ cancelledRuns = {}
      /\ prompted = [r \in Runs |-> None] /\ pending = [i \in Prompts |-> None]
      /\ reply = [i \in Prompts |-> None] /\ prompts = 0
      BY DEF GuiInit
<1>2. heard \in BOOLEAN /\ wizActive \in BOOLEAN
      BY DEF GuiInit
<1>3. page \in [conn : Conns \union {None}, status : {"idle", "running", "finished"},
                cancel : BOOLEAN, shown : Prompts \union {None}]
      BY <1>1 DEF NewPage
<1>4. GuiTypeOK
      BY <1>1, <1>2, <1>3 DEF GuiTypeOK
<1>5. toPage \in [Conns -> Seq(ToPage)] /\ toServer \in [Conns -> Seq(ToServer)]
      BY <1>1
<1>6. Wired
      BY <1>1 DEF Wired, NewPage, None
<1>7. Asked
      BY <1>1 DEF Asked
<1>. QED BY <1>1, <1>2, <1>4, <1>5, <1>6, <1>7 DEF PageTypes

\* The connections' steps.
LEMMA ConnectKeeps ==
    ASSUME PageTypes, Wired, NEW c \in Conns, Connect(c) PROVE PageTypes' /\ Wired'
<1>1. /\ page.conn = None /\ link[c] = "unused"
      /\ link' = [link EXCEPT ![c] = "open"] /\ reader' = [reader EXCEPT ![c] = "upgraded"]
      /\ page' = [page EXCEPT !.conn = c]
      /\ UNCHANGED <<hub, toPage, toServer, reloads, told, wizActive, wizRuns, wizard,
                     cancelledRuns, prompted, pending, reply, prompts, heard>>
      BY DEF Connect, wizVars, askVars
<1>2. c # None /\ None \notin Conns
      BY GuiBounds DEF Conns, None
<1>3. reader[c] = "none" /\ hub # c
      BY <1>1, <1>2 DEF PageTypes, GuiTypeOK, Wired
<1>4. /\ page'.conn = c /\ page' \in [conn : Conns \union {None}, status : {"idle", "running", "finished"},
                cancel : BOOLEAN, shown : Prompts \union {None}]
      BY <1>1 DEF PageTypes, GuiTypeOK
<1>5. /\ link' \in [Conns -> {"unused", "open", "broken"}]
      /\ reader' \in [Conns -> {"none", "upgraded", "reading", "left"}]
      /\ \A d \in Conns : /\ link'[d] = IF d = c THEN "open" ELSE link[d]
                          /\ reader'[d] = IF d = c THEN "upgraded" ELSE reader[d]
      BY <1>1 DEF PageTypes, GuiTypeOK
<1>6. GuiTypeOK'
      BY <1>1, <1>3, <1>4, <1>5 DEF PageTypes, GuiTypeOK
<1>7. PageTypes'
      BY <1>1, <1>6 DEF PageTypes
<1>8. Wired'
      BY <1>1, <1>2, <1>3, <1>4, <1>5 DEF PageTypes, GuiTypeOK, Wired
<1>. QED BY <1>7, <1>8

LEMMA RegisterKeeps ==
    ASSUME PageTypes, Wired, NEW c \in Conns, Register(c) PROVE PageTypes' /\ Wired'
<1>1. /\ reader[c] = "upgraded" /\ reader' = [reader EXCEPT ![c] = "reading"] /\ hub' = c
      /\ link' = IF hub = None THEN link ELSE [link EXCEPT ![hub] = "broken"]
      /\ page' = IF hub # None /\ page.conn = hub THEN [page EXCEPT !.conn = None] ELSE page
      /\ toPage' = [d \in Conns |-> IF d = hub THEN <<>> ELSE toPage[d]]
      /\ UNCHANGED <<toServer, reloads, told, wizActive, wizRuns, wizard, cancelledRuns,
                     prompted, pending, reply, prompts>>
      BY DEF Register, wizVars, askVars
<1>2. None \notin Conns
      BY GuiBounds DEF Conns, None
<1>3. hub \in Conns \union {None} /\ (hub # None => reader[hub] = "reading") /\ hub # c
      BY <1>1, <1>2 DEF PageTypes, GuiTypeOK
<1>4. /\ link' \in [Conns -> {"unused", "open", "broken"}]
      /\ reader' \in [Conns -> {"none", "upgraded", "reading", "left"}]
      /\ \A d \in Conns : /\ link'[d] = IF d = hub THEN "broken" ELSE link[d]
                          /\ reader'[d] = IF d = c THEN "reading" ELSE reader[d]
      BY <1>1, <1>2, <1>3 DEF PageTypes, GuiTypeOK
<1>5. /\ page' \in [conn : Conns \union {None}, status : {"idle", "running", "finished"},
                cancel : BOOLEAN, shown : Prompts \union {None}]
      /\ page'.conn = IF page.conn = hub THEN None ELSE page.conn
      BY <1>1 DEF PageTypes, GuiTypeOK
<1>6. GuiTypeOK'
      BY <1>1, <1>4, <1>5 DEF PageTypes, GuiTypeOK
<1>7. PageTypes'
  <2>1. toPage' \in [Conns -> Seq(ToPage)]
        BY <1>1 DEF PageTypes
  <2>2. heard' \in BOOLEAN
        BY DEF Register, PageTypes
  <2>. QED BY <1>1, <1>6, <2>1, <2>2 DEF PageTypes
<1>8. Wired'
  <2>1. page.conn # None /\ reader[page.conn] = "reading" => hub = page.conn
        BY DEF Wired
  <2>2. page'.conn # None => page'.conn = page.conn /\ page.conn # hub
        BY <1>5
  <2>3. page'.conn # None => link'[page'.conn] = "open" /\ reader'[page'.conn] \in {"upgraded", "reading"}
        BY <1>4, <2>2 DEF Wired, PageTypes, GuiTypeOK
  <2>4. page'.conn # None /\ reader'[page'.conn] = "reading" => page'.conn = c
        BY <1>4, <2>1, <2>2 DEF PageTypes, GuiTypeOK
  <2>5. \A d \in Conns : link'[d] = "open" => page'.conn = d
        BY <1>4, <1>5 DEF Wired
  <2>6. \A d \in Conns : d # page'.conn => toPage'[d] = <<>>
        BY <1>1, <1>5 DEF Wired
  <2>7. \A d \in Conns : reader'[d] = "none" <=> link'[d] = "unused"
        BY <1>1, <1>3, <1>4 DEF Wired
  <2>. QED BY <1>1, <2>3, <2>4, <2>5, <2>6, <2>7 DEF Wired
<1>. QED BY <1>7, <1>8

LEMMA LeaveKeeps ==
    ASSUME PageTypes, Wired, NEW c \in Conns, Leave(c) PROVE PageTypes' /\ Wired'
<1>1. /\ reader[c] = "reading" /\ link[c] = "broken" /\ hub' = (IF hub = c THEN None ELSE hub)
      /\ reader' = [reader EXCEPT ![c] = "left"] /\ toServer' = [toServer EXCEPT ![c] = <<>>]
      /\ UNCHANGED <<link, toPage, page, reloads, told, wizActive, wizRuns, wizard, cancelledRuns,
                     prompted, pending, reply, prompts, heard>>
      BY DEF Leave, Cleaned, pageVars, wizVars, askVars
<1>2. /\ reader' \in [Conns -> {"none", "upgraded", "reading", "left"}]
      /\ \A d \in Conns : reader'[d] = IF d = c THEN "left" ELSE reader[d]
      /\ toServer' \in [Conns -> Seq(ToServer)]
      BY <1>1 DEF PageTypes, GuiTypeOK
<1>3. GuiTypeOK'
      BY <1>1, <1>2 DEF PageTypes, GuiTypeOK
<1>4. PageTypes'
      BY <1>1, <1>2, <1>3 DEF PageTypes
<1>5. page.conn # c
      BY <1>1 DEF Wired, PageTypes, GuiTypeOK, None, Conns
<1>6. page.conn \in Conns \union {None}
      BY DEF PageTypes, GuiTypeOK
<1>7. Wired'
      BY <1>1, <1>2, <1>5, <1>6 DEF Wired
<1>. QED BY <1>4, <1>7

\* The network fails, or the page is loaded again.
LEMMA LossKeeps ==
    ASSUME PageTypes, Wired, Break \/ Reload PROVE PageTypes' /\ Wired'
<1>0. None \notin Conns /\ page.conn \in Conns \union {None}
      BY GuiBounds DEF Conns, None, PageTypes, GuiTypeOK
<1>1. /\ page'.conn = None /\ heard' = FALSE
      /\ page' \in [conn : Conns \union {None}, status : {"idle", "running", "finished"},
                cancel : BOOLEAN, shown : Prompts \union {None}]
      /\ link' \in [Conns -> {"unused", "open", "broken"}]
      /\ \A d \in Conns : link'[d] = IF d = page.conn THEN "broken" ELSE link[d]
      /\ toPage' \in [Conns -> Seq(ToPage)]
      /\ \A d \in Conns : toPage'[d] = IF d = page.conn THEN <<>> ELSE toPage[d]
      /\ reloads' \in Nat
      /\ UNCHANGED <<hub, reader, toServer, told, wizActive, wizRuns, wizard, cancelledRuns,
                     prompted, pending, reply, prompts>>
  <2>1. CASE Break
    <3>1. /\ page.conn # None /\ link' = [link EXCEPT ![page.conn] = "broken"]
          /\ page' = [page EXCEPT !.conn = None] /\ toPage' = [toPage EXCEPT ![page.conn] = <<>>]
          /\ heard' = FALSE
          /\ UNCHANGED <<hub, reader, toServer, reloads, told, wizActive, wizRuns, wizard,
                         cancelledRuns, prompted, pending, reply, prompts>>
          BY <2>1 DEF Break, wizVars, askVars
    <3>2. /\ page'.conn = None
          /\ page' \in [conn : Conns \union {None}, status : {"idle", "running", "finished"},
                         cancel : BOOLEAN, shown : Prompts \union {None}]
          BY <3>1 DEF PageTypes, GuiTypeOK
    <3>3. /\ link' \in [Conns -> {"unused", "open", "broken"}]
          /\ \A d \in Conns : link'[d] = IF d = page.conn THEN "broken" ELSE link[d]
          BY <1>0, <3>1 DEF PageTypes, GuiTypeOK
    <3>4. /\ toPage' \in [Conns -> Seq(ToPage)]
          /\ \A d \in Conns : toPage'[d] = IF d = page.conn THEN <<>> ELSE toPage[d]
          BY <1>0, <3>1 DEF PageTypes
    <3>. QED BY <3>1, <3>2, <3>3, <3>4 DEF PageTypes
  <2>2. CASE Reload
    <3>1. /\ link' = IF page.conn = None THEN link ELSE [link EXCEPT ![page.conn] = "broken"]
          /\ page' = NewPage /\ toPage' = [c \in Conns |-> IF c = page.conn THEN <<>> ELSE toPage[c]]
          /\ heard' = FALSE /\ reloads' = reloads + 1
          /\ UNCHANGED <<hub, reader, toServer, told, wizActive, wizRuns, wizard,
                         cancelledRuns, prompted, pending, reply, prompts>>
          BY <2>2 DEF Reload, wizVars, askVars
    <3>2. page' \in [conn : Conns \union {None}, status : {"idle", "running", "finished"},
                cancel : BOOLEAN, shown : Prompts \union {None}]
          BY <3>1 DEF NewPage
    <3>. QED BY <1>0, <3>1, <3>2 DEF PageTypes, GuiTypeOK, NewPage
  <2>. QED BY <2>1, <2>2
<1>2. GuiTypeOK'
      BY <1>1 DEF PageTypes, GuiTypeOK
<1>3. PageTypes'
  <2>1. heard' \in BOOLEAN
        BY <1>1
  <2>. QED BY <1>1, <1>2, <2>1 DEF PageTypes
<1>4. Wired'
  <2>1. \A d \in Conns : link'[d] # "open"
        BY <1>1 DEF Wired
  <2>2. \A d \in Conns : toPage'[d] = <<>>
        BY <1>1 DEF Wired
  <2>3. \A d \in Conns : reader'[d] = "none" <=> link'[d] = "unused"
        BY <1>0, <1>1 DEF Wired
  <2>. QED BY <1>1, <2>1, <2>2, <2>3 DEF Wired
<1>. QED BY <1>3, <1>4

\* What the page does: it stays where it is connected.
LEMMA PageActs ==
    ASSUME PageTypes, Wired, Receive \/ ClickStart \/ ClickCancel \/ Respond
    PROVE  PageTypes' /\ Wired'
<1>1. ASSUME page'.conn = page.conn,
             page' \in [conn : Conns \union {None}, status : {"idle", "running", "finished"},
                        cancel : BOOLEAN, shown : Prompts \union {None}],
             toPage' \in [Conns -> Seq(ToPage)], toServer' \in [Conns -> Seq(ToServer)],
             \A c \in Conns : c # page.conn => toPage'[c] = toPage[c],
             told' \in Runs \union {None}, heard' \in BOOLEAN,
             UNCHANGED <<hub, link, reader, reloads, wizActive, wizRuns, wizard, cancelledRuns,
                         prompted, pending, reply, prompts>>
      PROVE  PageTypes' /\ Wired'
  <2>1. GuiTypeOK'
        BY <1>1 DEF PageTypes, GuiTypeOK
  <2>2. Wired'
        BY <1>1 DEF Wired
  <2>. QED BY <1>1, <2>1, <2>2 DEF PageTypes
<1>2. /\ page \in [conn : Conns \union {None}, status : {"idle", "running", "finished"},
                   cancel : BOOLEAN, shown : Prompts \union {None}]
      /\ toPage \in [Conns -> Seq(ToPage)] /\ toServer \in [Conns -> Seq(ToServer)]
      /\ told \in Runs \union {None} /\ heard \in BOOLEAN
      BY DEF PageTypes, GuiTypeOK
<1>3. CASE Receive
  <2> DEFINE m == Head(toPage[page.conn])
  <2>1. page.conn \in Conns /\ toPage[page.conn] # <<>>
        BY <1>2, <1>3 DEF Receive
  <2>2. m \in ToPage /\ Tail(toPage[page.conn]) \in Seq(ToPage)
        BY <1>2, <2>1, TailIs
  <2>3. /\ m.type = "started" => m.about \in Runs
        /\ m.type = "prompt" => m.about \in Prompts
        BY <2>2 DEF ToPage, Message
  <2> HIDE DEF m
  <2>4. /\ toPage' = [toPage EXCEPT ![page.conn] = Tail(@)]
        /\ page' = CASE m.type = "started" -> [page EXCEPT !.status = "running", !.cancel = ShowControls(TRUE)]
                     [] m.type = "finished" ->
                          [page EXCEPT !.status = "finished", !.cancel = ShowControls(FALSE), !.shown = None]
                     [] m.type = "prompt" -> [page EXCEPT !.shown = m.about]
                     [] OTHER -> page
        /\ told' = IF m.type = "started" THEN m.about ELSE told
        /\ UNCHANGED <<hub, link, reader, toServer, reloads, wizActive, wizRuns, wizard,
                       cancelledRuns, prompted, pending, reply, prompts, heard>>
        BY <1>3 DEF Receive, linkVars, wizVars, askVars, m
  <2>5. /\ page'.conn = page.conn
        /\ page' \in [conn : Conns \union {None}, status : {"idle", "running", "finished"},
                      cancel : BOOLEAN, shown : Prompts \union {None}]
    <3>1. CASE m.type = "started"
          BY <1>2, <2>4, <3>1 DEF ShowControls
    <3>2. CASE m.type = "finished"
          BY <1>2, <2>4, <3>2 DEF ShowControls
    <3>3. CASE m.type = "prompt"
          BY <1>2, <2>3, <2>4, <3>3
    <3>4. CASE m.type \notin {"started", "finished", "prompt"}
          BY <1>2, <2>4, <3>4
    <3>. QED BY <3>1, <3>2, <3>3, <3>4
  <2>6. /\ toPage' \in [Conns -> Seq(ToPage)] /\ told' \in Runs \union {None}
        /\ \A c \in Conns : c # page.conn => toPage'[c] = toPage[c]
        BY <1>2, <2>1, <2>2, <2>3, <2>4
  <2>. QED BY <1>1, <1>2, <2>4, <2>5, <2>6
<1>4. CASE ClickStart
  <2>1. /\ page' = [page EXCEPT !.status = "running"] /\ PageSends(Message("start", None))
        /\ UNCHANGED <<hub, link, reader, toPage, reloads, told, wizActive, wizRuns, wizard,
                       cancelledRuns, prompted, pending, reply, prompts, heard>>
        BY <1>4 DEF ClickStart, linkVars, wizVars, askVars
  <2>2. toServer' \in [Conns -> Seq(ToServer)]
        BY <2>1, PageSendsIs DEF ToServer
  <2>. QED BY <1>1, <1>2, <2>1, <2>2
<1>5. CASE ClickCancel
  <2>1. /\ PageSends(Message("cancel", None))
        /\ UNCHANGED <<hub, link, reader, toPage, page, reloads, told, wizActive, wizRuns, wizard,
                       cancelledRuns, prompted, pending, reply, prompts, heard>>
        BY <1>5 DEF ClickCancel, linkVars, pageVars, wizVars, askVars
  <2>2. toServer' \in [Conns -> Seq(ToServer)]
        BY <2>1, PageSendsIs DEF ToServer
  <2>. QED BY <1>1, <1>2, <2>1, <2>2
<1>6. CASE Respond
  <2>1. /\ page' = [page EXCEPT !.shown = None] /\ PageSends(Message("answer", page.shown))
        /\ page.shown # None /\ heard' = (heard /\ page.conn # None)
        /\ UNCHANGED <<hub, link, reader, toPage, reloads, told, wizActive, wizRuns, wizard,
                       cancelledRuns, prompted, pending, reply, prompts>>
        BY <1>6 DEF Respond, linkVars, wizVars, askVars
  <2>2. Message("answer", page.shown) \in ToServer
        BY <1>2, <2>1 DEF ToServer
  <2>3. toServer' \in [Conns -> Seq(ToServer)]
        BY <2>1, <2>2, PageSendsIs
  <2>4. heard' \in BOOLEAN
        BY <2>1
  <2>. QED BY <1>1, <1>2, <2>1, <2>3, <2>4
<1>. QED BY <1>3, <1>4, <1>5, <1>6

\* What the Hub and the wizard do leaves the connections and the page alone.
LEMMA SendingKeeps ==
    ASSUME PageTypes, Wired, NEW m \in ToPage, toPage' \in {toPage, Sent(m)},
           UNCHANGED <<hub, link, reader, page>>
    PROVE  toPage' \in [Conns -> Seq(ToPage)] /\ Wired'
<1>1. toPage' \in [Conns -> Seq(ToPage)]
      BY SentIs DEF PageTypes
<1>2. hub \in Conns \union {None} /\ None \notin Conns
      BY GuiBounds DEF PageTypes, GuiTypeOK, Conns, None
<1>3. \A c \in Conns : c # page.conn => toPage'[c] = toPage[c]
  <2> SUFFICES ASSUME NEW c \in Conns, c # page.conn PROVE toPage'[c] = toPage[c]
      OBVIOUS
  <2>1. CASE c # hub
        BY <2>1, SentIs
  <2>2. CASE c = hub
    <3>1. link[hub] # "open"
          BY <2>2 DEF Wired
    <3>. QED BY <3>1, SentIs
  <2>. QED BY <2>1, <2>2
<1>. QED BY <1>1, <1>3 DEF Wired

LEMMA DispatchTyped ==
    ASSUME PageTypes, Wired, Asked, GuiInv, NEW c \in Conns, Dispatch(c)
    PROVE  PageTypes' /\ Wired' /\ Asked'
<1> DEFINE m == Head(toServer[c])
<1>1. /\ toServer[c] # <<>> /\ toServer' = [toServer EXCEPT ![c] = Tail(@)]
      /\ UNCHANGED <<hub, link, reader, page, reloads, told, heard>>
      /\ \/ m.type = "start" /\ StartWizard /\ (MayStart => wizRuns < MaxRuns)
         \/ m.type = "cancel" /\ CancelWizard
         \/ m.type = "answer" /\ HandleResponse(m.about)
      BY DEF Dispatch, linkVars, pageVars
<1>2. m \in ToServer /\ toServer' \in [Conns -> Seq(ToServer)]
      BY <1>1, TailIs DEF PageTypes
<1> HIDE DEF m
<1>3. CASE m.type = "start" /\ StartWizard /\ MayStart
  <2>1. /\ wizActive' = TRUE /\ wizRuns' = wizRuns + 1 /\ wizRuns < MaxRuns
        /\ wizard' = [wizard EXCEPT ![wizRuns'] = "working"]
        /\ toPage' = Sent(Message("started", wizRuns'))
        /\ UNCHANGED <<cancelledRuns, prompted, pending, reply, prompts>>
        BY <1>1, <1>3 DEF StartWizard, askVars
  <2>2. wizRuns' \in Runs /\ wizRuns' \in 0 .. MaxRuns /\ wizRuns \in Int
        BY <2>1, GuiBounds DEF PageTypes, GuiTypeOK, Runs
  <2>3. Message("started", wizRuns') \in ToPage
        BY <2>2 DEF ToPage
  <2>4. toPage' \in [Conns -> Seq(ToPage)] /\ Wired'
        BY <1>1, <2>1, <2>3, SendingKeeps
  <2>5. wizActive' \in BOOLEAN
        BY <2>1
  <2>6. /\ wizard' \in [Runs -> {"none", "working", "waiting", "returned", "ended"}]
        /\ \A r \in Runs : wizard'[r] = IF r = wizRuns' THEN "working" ELSE wizard[r]
        BY <2>1, <2>2 DEF PageTypes, GuiTypeOK
  <2>7. GuiTypeOK'
        BY <1>1, <2>1, <2>2, <2>5, <2>6 DEF PageTypes, GuiTypeOK
  <2>8. PageTypes'
        BY <1>1, <1>2, <2>1, <2>4, <2>7 DEF PageTypes
  <2>9. \A r \in Runs : r > wizRuns' => r > wizRuns /\ r # wizRuns'
        BY <2>1, <2>2, GuiBounds DEF Runs
  <2>10. Asked'
        BY <2>1, <2>6, <2>9 DEF Asked
  <2>. QED BY <2>4, <2>8, <2>10
<1>4. CASE StartWizard /\ ~MayStart
  <2>1. /\ toPage' = Sent(Message("warning", None))
        /\ UNCHANGED <<wizActive, wizRuns, wizard, cancelledRuns, prompted, pending, reply, prompts>>
        BY <1>4 DEF StartWizard, wizVars, askVars
  <2>2. toPage' \in [Conns -> Seq(ToPage)] /\ Wired'
        BY <1>1, <2>1, SendingKeeps DEF ToPage
  <2>3. GuiTypeOK'
        BY <1>1, <2>1 DEF PageTypes, GuiTypeOK
  <2>. QED BY <1>1, <1>2, <2>1, <2>2, <2>3 DEF PageTypes, Asked
<1>5. CASE CancelWizard
  <2>1. /\ cancelledRuns' = cancelledRuns \union ({wizRuns} \ {None})
        /\ UNCHANGED <<toPage, wizActive, wizRuns, wizard, prompted, pending, reply, prompts>>
        BY <1>5 DEF CancelWizard, askVars
  <2>2. cancelledRuns' \subseteq Runs
        BY <2>1, GuiBounds DEF PageTypes, GuiTypeOK, Runs, None
  <2>3. GuiTypeOK'
        BY <1>1, <2>1, <2>2 DEF PageTypes, GuiTypeOK
  <2>4. Wired'
        BY <1>1, <2>1 DEF Wired
  <2>. QED BY <1>1, <1>2, <2>1, <2>3, <2>4 DEF PageTypes, Asked
<1>6. CASE HandleResponse(m.about) /\ m.type = "answer"
  <2>1. /\ reply' = [j \in Prompts |-> IF j \in PendingFor(m.about) THEN m.about ELSE reply[j]]
        /\ pending' = [j \in Prompts |-> IF j \in PendingFor(m.about) THEN None ELSE pending[j]]
        /\ UNCHANGED <<toPage, wizActive, wizRuns, wizard, cancelledRuns, prompted, prompts>>
        BY <1>6 DEF HandleResponse, wizVars
  <2>2. m.about \in Prompts
        BY <1>2, <1>6 DEF ToServer, Message
  <2>3. \A j \in Prompts : j \in PendingFor(m.about) => j = m.about
        BY DEF PendingFor
  <2>4. /\ reply' \in [Prompts -> Prompts \union {None}]
        /\ pending' \in [Prompts -> Runs \union {None}]
        BY <2>1, <2>2 DEF PageTypes, GuiTypeOK
  <2>5. GuiTypeOK'
        BY <1>1, <2>1, <2>4 DEF PageTypes, GuiTypeOK
  <2>6. Wired'
        BY <1>1, <2>1 DEF Wired
  <2>7. \A j \in Prompts : (pending'[j] = pending[j] /\ reply'[j] = reply[j]) \/ reply'[j] = j
        BY <2>1, <2>3
  <2>8. prompts # 0 => prompts \in Prompts
        BY GuiBounds DEF PageTypes, Prompts
  <2>9. Asked'
        BY <2>1, <2>7, <2>8 DEF Asked
  <2>. QED BY <1>1, <1>2, <2>1, <2>5, <2>6, <2>9 DEF PageTypes
<1>. QED BY <1>1, <1>3, <1>4, <1>5, <1>6

LEMMA WizardTyped ==
    ASSUME PageTypes, Wired, Asked, GuiInv, NEW r \in Runs, WizardStep(r)
    PROVE  PageTypes' /\ Wired' /\ Asked'
<1>0. /\ wizard \in [Runs -> {"none", "working", "waiting", "returned", "ended"}]
      /\ pending \in [Prompts -> Runs \union {None}] /\ prompted \in [Runs -> Prompts \union {None}]
      /\ prompts \in 0 .. MaxPrompts
      BY DEF PageTypes, GuiTypeOK
<1>1. \A w \in {"working", "waiting", "returned", "ended"} : wizard' = [wizard EXCEPT ![r] = w] =>
        /\ wizard' \in [Runs -> {"none", "working", "waiting", "returned", "ended"}]
        /\ \A q \in Runs : wizard'[q] = IF q = r THEN w ELSE wizard[q]
      BY <1>0
<1>2. \A q \in Runs : q # r /\ wizard[r] \in {"working", "waiting"} => wizard[q] # "waiting"
      BY DEF GuiInv, OneWizard, Under
<1>3. CASE Ask(r)
  <2>1. /\ wizard[r] = "working" /\ prompts < MaxPrompts /\ prompts' = prompts + 1
        /\ wizard' = [wizard EXCEPT ![r] = "waiting"]
        /\ prompted' = [prompted EXCEPT ![r] = prompts'] /\ pending' = [pending EXCEPT ![prompts'] = r]
        /\ toPage' = Sent(Message("prompt", prompts'))
        /\ UNCHANGED <<hub, link, reader, toServer, page, reloads, told, wizActive, wizRuns,
                       cancelledRuns, reply>>
        BY <1>3 DEF Ask, linkVars, pageVars
  <2>2. heard' \in BOOLEAN
        BY <1>3 DEF Ask
  <2>3. prompts' \in Prompts /\ prompts' \in 0 .. MaxPrompts /\ prompts' # 0
        BY <1>0, <2>1, GuiBounds DEF Prompts
  <2>4. Message("prompt", prompts') \in ToPage
        BY <2>3 DEF ToPage
  <2>5. toPage' \in [Conns -> Seq(ToPage)] /\ Wired'
        BY <2>1, <2>4, SendingKeeps
  <2>6. /\ pending' \in [Prompts -> Runs \union {None}] /\ prompted' \in [Runs -> Prompts \union {None}]
        /\ prompted'[r] = prompts' /\ pending'[prompts'] = r
        BY <1>0, <2>1, <2>3
  <2>7. /\ wizard' \in [Runs -> {"none", "working", "waiting", "returned", "ended"}]
        /\ \A q \in Runs : wizard'[q] = IF q = r THEN "waiting" ELSE wizard[q]
        BY <1>1, <2>1
  <2>8. GuiTypeOK'
        BY <2>1, <2>6, <2>7 DEF PageTypes, GuiTypeOK
  <2>9. Asked'
        BY <1>2, <2>1, <2>3, <2>6, <2>7 DEF Asked
  <2>. QED BY <2>1, <2>2, <2>3, <2>5, <2>8, <2>9 DEF PageTypes
<1>4. CASE GoOn(r)
  <2>1. /\ wizard[r] = "waiting" /\ wizard' = [wizard EXCEPT ![r] = "working"]
        /\ pending' = [pending EXCEPT ![prompted[r]] = None]
        /\ UNCHANGED <<hub, link, reader, toPage, toServer, page, reloads, told, wizActive, wizRuns,
                       cancelledRuns, prompted, reply, prompts, heard>>
        BY <1>4 DEF GoOn, linkVars, pageVars
  <2>2. pending' \in [Prompts -> Runs \union {None}]
        BY <1>0, <2>1
  <2>3. /\ wizard' \in [Runs -> {"none", "working", "waiting", "returned", "ended"}]
        /\ \A q \in Runs : wizard'[q] = IF q = r THEN "working" ELSE wizard[q]
        BY <1>1, <2>1
  <2>4. GuiTypeOK'
        BY <2>1, <2>2, <2>3 DEF PageTypes, GuiTypeOK
  <2>5. \A q \in Runs : wizard'[q] # "waiting"
        BY <1>2, <2>1, <2>3
  <2>6. Asked' /\ Wired'
        BY <2>1, <2>3, <2>5 DEF Asked, Wired
  <2>. QED BY <2>1, <2>4, <2>6 DEF PageTypes
<1>5. CASE Return(r)
  <2>1. /\ wizard[r] = "working" /\ wizard' = [wizard EXCEPT ![r] = "returned"] /\ wizActive' = FALSE
        /\ UNCHANGED <<hub, link, reader, toPage, toServer, page, reloads, told, wizRuns,
                       cancelledRuns, prompted, pending, reply, prompts, heard>>
        BY <1>5 DEF Return, linkVars, pageVars, askVars
  <2>2. wizActive' \in BOOLEAN
        BY <2>1
  <2>3. /\ wizard' \in [Runs -> {"none", "working", "waiting", "returned", "ended"}]
        /\ \A q \in Runs : wizard'[q] = IF q = r THEN "returned" ELSE wizard[q]
        BY <1>1, <2>1
  <2>4. GuiTypeOK'
        BY <2>1, <2>2, <2>3 DEF PageTypes, GuiTypeOK
  <2>5. Asked' /\ Wired'
        BY <2>1, <2>3 DEF Asked, Wired
  <2>. QED BY <2>1, <2>4, <2>5 DEF PageTypes
<1>6. CASE SayFinished(r)
  <2>1. /\ wizard[r] = "returned" /\ wizard' = [wizard EXCEPT ![r] = "ended"]
        /\ toPage' = Sent(Message("finished", r))
        /\ UNCHANGED <<hub, link, reader, toServer, page, reloads, told, wizActive, wizRuns,
                       cancelledRuns, prompted, pending, reply, prompts, heard>>
        BY <1>6 DEF SayFinished, linkVars, pageVars, askVars
  <2>2. toPage' \in [Conns -> Seq(ToPage)] /\ Wired'
        BY <2>1, SendingKeeps DEF ToPage
  <2>3. /\ wizard' \in [Runs -> {"none", "working", "waiting", "returned", "ended"}]
        /\ \A q \in Runs : wizard'[q] = IF q = r THEN "ended" ELSE wizard[q]
        BY <1>1, <2>1
  <2>4. GuiTypeOK'
        BY <2>1, <2>3 DEF PageTypes, GuiTypeOK
  <2>5. Asked'
        BY <2>1, <2>3 DEF Asked
  <2>. QED BY <2>1, <2>2, <2>4, <2>5 DEF PageTypes
<1>. QED BY <1>3, <1>4, <1>5, <1>6 DEF WizardStep

PageBase == GuiInv /\ PageTypes /\ Wired /\ Asked

LEMMA AskedStays ==
    ASSUME Asked, UNCHANGED <<wizRuns, wizard, prompted, pending, reply, prompts>> PROVE Asked'
BY DEF Asked

LEMMA BaseNext == ASSUME PageBase, [GuiNext]_gvars PROVE PageBase'
<1>0. GuiInv'
      BY NextKeeps DEF PageBase
<1>1. ASSUME NEW c \in Conns, Connect(c) PROVE PageBase'
      BY <1>0, <1>1, ConnectKeeps, AskedStays DEF PageBase, Connect, wizVars, askVars
<1>2. ASSUME NEW c \in Conns, Register(c) PROVE PageBase'
      BY <1>0, <1>2, RegisterKeeps, AskedStays DEF PageBase, Register, wizVars, askVars
<1>3. ASSUME NEW c \in Conns, Leave(c) PROVE PageBase'
      BY <1>0, <1>3, LeaveKeeps, AskedStays DEF PageBase, Leave, wizVars, askVars
<1>4. ASSUME NEW c \in Conns, Dispatch(c) PROVE PageBase'
      BY <1>0, <1>4, DispatchTyped DEF PageBase
<1>5. CASE Break \/ Reload
      BY <1>0, <1>5, LossKeeps, AskedStays DEF PageBase, Break, Reload, wizVars, askVars
<1>6. CASE Receive \/ ClickStart \/ ClickCancel \/ Respond
      BY <1>0, <1>6, PageActs, AskedStays
         DEF PageBase, Receive, ClickStart, ClickCancel, Respond, wizVars, askVars
<1>7. ASSUME NEW r \in Runs, WizardStep(r) PROVE PageBase'
      BY <1>0, <1>7, WizardTyped DEF PageBase
<1>8. CASE UNCHANGED gvars
  <2>1. UNCHANGED <<hub, link, reader, toPage, toServer, page, reloads, told, wizActive, wizRuns,
                    wizard, cancelledRuns, prompted, pending, reply, prompts, heard>>
        BY <1>8 DEF gvars, linkVars, pageVars, wizVars, askVars
  <2>2. GuiTypeOK'
        BY <2>1 DEF PageBase, PageTypes, GuiTypeOK
  <2>3. Wired' /\ Asked'
        BY <2>1 DEF PageBase, Wired, Asked
  <2>. QED BY <1>0, <2>1, <2>2, <2>3 DEF PageBase, PageTypes
<1>. QED BY <1>1, <1>2, <1>3, <1>4, <1>5, <1>6, <1>7, <1>8 DEF GuiNext

-----------------------------------------------------------------------------
(* A prompt is not lost while the connection it went out on holds. *)

\* From place k on, no message changes what prompt the page shows.
Quiet(q, k) == \A j \in k .. Len(q) : q[j].type \notin {"prompt", "finished"}

OnItsWay(i) ==
  \E k \in 1 .. Len(toPage[page.conn]) :
    toPage[page.conn][k] = Message("prompt", i) /\ Quiet(toPage[page.conn], k + 1)
Shown(i) == page.shown = i /\ Quiet(toPage[page.conn], 1)
GoesBack(i) == \E k \in 1 .. Len(toServer[page.conn]) : toServer[page.conn][k] = Message("answer", i)

Kept(i) == OnItsWay(i) \/ Shown(i) \/ GoesBack(i) \/ reply[i] = i

HeardInv ==
  heard =>
    /\ page.conn # None /\ reader[page.conn] = "reading"
    /\ \A r \in Runs : wizard[r] = "waiting" =>
         Kept(prompts) /\ \A s \in Runs : wizard[s] # "returned"

LEMMA QuietAppend ==
  ASSUME NEW s \in Seq(ToPage), NEW m \in ToPage, NEW k \in Nat, k > 0,
         m.type \notin {"prompt", "finished"}, Quiet(s, k)
  PROVE  Quiet(Append(s, m), k)
<1>1. SUFFICES ASSUME NEW j \in k .. Len(Append(s, m))
               PROVE  Append(s, m)[j].type \notin {"prompt", "finished"}
      BY DEF Quiet
<1>2. CASE j = Len(s) + 1
      BY <1>2, AppendIs
<1>3. CASE j # Len(s) + 1
  <2>1. j \in k .. Len(s) /\ j \in 1 .. Len(s)
        BY <1>3, AppendIs
  <2>. QED BY <2>1, AppendIs DEF Quiet
<1>. QED BY <1>2, <1>3

LEMMA QuietTail ==
  ASSUME NEW s \in Seq(ToPage), s # <<>>, NEW k \in Nat, k > 0, Quiet(s, k + 1)
  PROVE  Quiet(Tail(s), k)
<1>1. SUFFICES ASSUME NEW j \in k .. Len(Tail(s))
               PROVE  Tail(s)[j].type \notin {"prompt", "finished"}
      BY DEF Quiet
<1>2. j \in 1 .. Len(Tail(s)) /\ j + 1 \in k + 1 .. Len(s)
      BY TailIs
<1>3. Tail(s)[j] = s[j + 1]
      BY <1>2, TailIs
<1>. QED BY <1>2, <1>3 DEF Quiet

\* A message that is no prompt and no end overtakes nothing.
LEMMA KeptBySending ==
    ASSUME PageTypes, Wired, NEW i, NEW m \in ToPage, m.type \notin {"prompt", "finished"},
           page.conn \in Conns,
           toPage' = Sent(m), UNCHANGED page, OnItsWay(i) \/ Shown(i)
    PROVE  OnItsWay(i)' \/ Shown(i)'
<1> DEFINE q == toPage[page.conn]
<1>1. q \in Seq(ToPage) /\ Len(q) \in Nat
      BY DEF PageTypes
<1>2. CASE toPage'[page.conn] = q
      BY <1>2 DEF OnItsWay, Shown
<1>3. CASE toPage'[page.conn] = Append(q, m)
  <2>1. ASSUME NEW k \in 1 .. Len(q), q[k] = Message("prompt", i), Quiet(q, k + 1)
        PROVE  OnItsWay(i)'
    <3>1. Quiet(Append(q, m), k + 1) /\ Append(q, m)[k] = q[k] /\ k \in 1 .. Len(Append(q, m))
          BY <1>1, <2>1, QuietAppend, AppendIs
    <3>. QED BY <1>3, <2>1, <3>1 DEF OnItsWay
  <2>2. ASSUME Shown(i) PROVE Shown(i)'
    <3>1. Quiet(Append(q, m), 1)
          BY <1>1, <2>2, QuietAppend DEF Shown
    <3>. QED BY <1>3, <2>2, <3>1 DEF Shown
  <2>. QED BY <2>1, <2>2 DEF OnItsWay
<1>4. toPage'[page.conn] \in {q, Append(q, m)}
      BY SentIs DEF PageTypes, GuiTypeOK
<1>. QED BY <1>2, <1>3, <1>4

\* What the page sends comes after what it sent before.
LEMMA KeptByPage ==
    ASSUME PageTypes, NEW i, NEW m \in ToServer, PageSends(m), page.conn \in Conns,
           UNCHANGED <<toPage, reply>>, page'.conn = page.conn
    PROVE  /\ page'.shown = page.shown => (Kept(i) => Kept(i)')
           /\ GoesBack(i) => GoesBack(i)'
           /\ m = Message("answer", i) => GoesBack(i)'
<1> DEFINE q == toServer[page.conn]
<1>1. q \in Seq(ToServer) /\ Len(q) \in Nat /\ page.conn # None
      BY GuiBounds DEF PageTypes, Conns, None
<1>2. toServer'[page.conn] = Append(q, m)
      BY <1>1, PageSendsIs
<1>3. GoesBack(i) => GoesBack(i)'
  <2>1. ASSUME NEW k \in 1 .. Len(q), q[k] = Message("answer", i) PROVE GoesBack(i)'
    <3>1. Append(q, m)[k] = q[k] /\ k \in 1 .. Len(Append(q, m))
          BY <1>1, AppendIs
    <3>. QED BY <1>2, <2>1, <3>1 DEF GoesBack
  <2>. QED BY <2>1 DEF GoesBack
<1>4. m = Message("answer", i) => GoesBack(i)'
  <2>1. Append(q, m)[Len(q) + 1] = m /\ Len(q) + 1 \in 1 .. Len(Append(q, m))
        BY <1>1, AppendIs
  <2>. QED BY <1>2, <2>1 DEF GoesBack
<1>5. page'.shown = page.shown => (OnItsWay(i) => OnItsWay(i)') /\ (Shown(i) => Shown(i)')
      BY DEF OnItsWay, Shown
<1>. QED BY <1>3, <1>4, <1>5 DEF Kept

LEMMA HeardStays ==
    ASSUME HeardInv, UNCHANGED <<page, reader, toPage, toServer, reply, prompts, wizard, heard>>
    PROVE  HeardInv'
BY DEF HeardInv, Kept, OnItsWay, Shown, GoesBack

\* What the Hub reads from a connection is its first message.
LEMMA GoesBackOrRead ==
    ASSUME PageTypes, NEW i, NEW c \in Conns, toServer[c] # <<>>, page.conn \in Conns,
           toServer' = [toServer EXCEPT ![c] = Tail(@)], UNCHANGED page, GoesBack(i)
    PROVE  GoesBack(i)' \/ Head(toServer[c]) = Message("answer", i)
<1> DEFINE q == toServer[page.conn]
<1>1. q \in Seq(ToServer) /\ Len(q) \in Nat
      BY DEF PageTypes
<1>2. PICK k \in 1 .. Len(q) : q[k] = Message("answer", i)
      BY DEF GoesBack
<1>3. CASE c # page.conn
  <2>1. toServer'[page.conn] = q
        BY <1>3 DEF PageTypes
  <2>. QED BY <1>2, <2>1 DEF GoesBack
<1>4. CASE c = page.conn /\ k = 1
      BY <1>1, <1>2, <1>4, TailIs
<1>5. CASE c = page.conn /\ k # 1
  <2>1. toServer'[page.conn] = Tail(q)
        BY <1>5 DEF PageTypes
  <2>2. k - 1 \in 1 .. Len(Tail(q)) /\ k = (k - 1) + 1
        BY <1>1, <1>5, TailIs
  <2>3. Tail(q)[k - 1] = q[k]
        BY <1>1, <1>5, <2>2, TailIs
  <2>. QED BY <1>2, <2>1, <2>2, <2>3 DEF GoesBack
<1>. QED BY <1>3, <1>4, <1>5

\* What the page takes is the first message: the prompt, or one that leaves it shown.
LEMMA HeardReceive == ASSUME PageBase, HeardInv, Receive PROVE HeardInv'
<1> DEFINE q == toPage[page.conn]
           m == Head(q)
<1>1. /\ page.conn # None /\ q # <<>> /\ toPage' = [toPage EXCEPT ![page.conn] = Tail(@)]
      /\ UNCHANGED <<reader, toServer, wizard, reply, prompts, heard>>
      BY DEF Receive, linkVars, wizVars, askVars
<1>2. page' = CASE m.type = "started" -> [page EXCEPT !.status = "running", !.cancel = ShowControls(TRUE)]
                [] m.type = "finished" ->
                     [page EXCEPT !.status = "finished", !.cancel = ShowControls(FALSE), !.shown = None]
                [] m.type = "prompt" -> [page EXCEPT !.shown = m.about]
                [] OTHER -> page
      BY DEF Receive
<1>3. page.conn \in Conns /\ q \in Seq(ToPage) /\ toPage'[page.conn] = Tail(q)
      BY <1>1 DEF PageBase, PageTypes, GuiTypeOK
<1>4. page \in [conn : Conns \union {None}, status : {"idle", "running", "finished"},
                cancel : BOOLEAN, shown : Prompts \union {None}]
      BY DEF PageBase, PageTypes, GuiTypeOK
<1>5. m = q[1] /\ Len(q) \in Nat /\ Len(q) > 0 /\ Len(Tail(q)) = Len(q) - 1
      BY <1>1, <1>3, TailIs
<1> HIDE DEF m
<1>6. page'.conn = page.conn
      BY <1>2, <1>4
<1>7. m.type = "prompt" => page'.shown = m.about
      BY <1>2, <1>4
<1>8. m.type \notin {"prompt", "finished"} => page'.shown = page.shown
      BY <1>2, <1>4
<1>9. ASSUME NEW i \in Prompts, Kept(i) PROVE Kept(i)'
  <2>1. ASSUME NEW k \in 1 .. Len(q), q[k] = Message("prompt", i), Quiet(q, k + 1)
        PROVE  Kept(i)'
    <3>1. CASE k = 1
      <4>1. Quiet(Tail(q), 1)
            BY <1>1, <1>3, <2>1, <3>1, QuietTail
      <4>2. page'.shown = i
            BY <1>5, <1>7, <2>1, <3>1 DEF Message
      <4>. QED BY <1>3, <1>6, <4>1, <4>2 DEF Kept, Shown
    <3>2. CASE k # 1
      <4>1. Quiet(Tail(q), (k - 1) + 1) /\ k - 1 \in 1 .. Len(Tail(q))
        <5>1. k \in Nat /\ k > 0 /\ k = (k - 1) + 1 /\ k - 1 \in 1 .. Len(Tail(q))
              BY <1>5, <3>2
        <5>2. Quiet(Tail(q), k)
              BY <1>1, <1>3, <2>1, <5>1, QuietTail
        <5>. QED BY <5>1, <5>2
      <4>2. Tail(q)[k - 1] = q[k]
        <5>1. k = (k - 1) + 1
              BY <1>5
        <5>. QED BY <1>1, <1>3, <4>1, <5>1, TailIs
      <4>. QED BY <1>3, <1>6, <2>1, <4>1, <4>2 DEF Kept, OnItsWay
    <3>. QED BY <3>1, <3>2
  <2>2. ASSUME Shown(i) PROVE Kept(i)'
    <3>1. Quiet(q, 1 + 1) /\ q[1].type \notin {"prompt", "finished"}
          BY <1>5, <2>2 DEF Shown, Quiet
    <3>2. Quiet(Tail(q), 1)
          BY <1>1, <1>3, <3>1, QuietTail
    <3>3. page'.shown = i
          BY <1>5, <1>8, <2>2, <3>1 DEF Shown
    <3>. QED BY <1>3, <1>6, <3>2, <3>3 DEF Kept, Shown
  <2>3. GoesBack(i) => GoesBack(i)'
        BY <1>1, <1>6 DEF GoesBack
  <2>. QED BY <1>1, <1>9, <2>1, <2>2, <2>3 DEF Kept, OnItsWay
<1>10. \A r \in Runs : wizard[r] = "waiting" => prompts \in Prompts
      BY GuiBounds DEF PageBase, Asked, PageTypes, Prompts
<1>. QED BY <1>1, <1>6, <1>9, <1>10 DEF HeardInv

\* What the page sends.
LEMMA HeardPageActs ==
    ASSUME PageBase, HeardInv, ClickStart \/ ClickCancel \/ Respond PROVE HeardInv'
<1>1. page \in [conn : Conns \union {None}, status : {"idle", "running", "finished"},
                cancel : BOOLEAN, shown : Prompts \union {None}]
      BY DEF PageBase, PageTypes, GuiTypeOK
<1>2. /\ page'.conn = page.conn /\ (heard' => heard)
      /\ UNCHANGED <<reader, toPage, wizard, reply, prompts>>
  <2>1. CASE ClickStart
        BY <1>1, <2>1 DEF ClickStart, linkVars, wizVars, askVars
  <2>2. CASE ClickCancel
        BY <1>1, <2>2 DEF ClickCancel, linkVars, pageVars, wizVars, askVars
  <2>3. CASE Respond
        BY <1>1, <2>3 DEF Respond, linkVars, wizVars, askVars
  <2>. QED BY <2>1, <2>2, <2>3
<1>3. ASSUME heard, NEW i, Kept(i) PROVE Kept(i)'
  <2>0. page.conn \in Conns /\ PageTypes
        BY <1>1, <1>3 DEF HeardInv, PageBase
  <2>1. CASE ClickStart \/ ClickCancel
    <3>1. PICK m \in ToServer : PageSends(m)
          BY <2>1 DEF ClickStart, ClickCancel, ToServer
    <3>2. page'.shown = page.shown
          BY <1>1, <2>1 DEF ClickStart, ClickCancel, pageVars
    <3>. QED BY <1>2, <1>3, <2>0, <3>1, <3>2, KeptByPage
  <2>2. CASE Respond
    <3> DEFINE m == Message("answer", page.shown)
    <3>1. page.shown \in Prompts /\ PageSends(m)
          BY <1>1, <2>2 DEF Respond
    <3>2. m \in ToServer
          BY <3>1 DEF ToServer
    <3>3. GoesBack(i) => GoesBack(i)'
          BY <1>2, <2>0, <3>1, <3>2, KeptByPage
    <3>4. Shown(i) => GoesBack(i)'
          BY <1>2, <2>0, <3>1, <3>2, KeptByPage DEF Shown
    <3>5. OnItsWay(i) => OnItsWay(i)'
          BY <1>2 DEF OnItsWay
    <3>. QED BY <1>2, <1>3, <3>3, <3>4, <3>5 DEF Kept
  <2>. QED BY <2>1, <2>2
<1>. QED BY <1>2, <1>3 DEF HeardInv

LEMMA HeardDispatch ==
    ASSUME PageBase, HeardInv, NEW c \in Conns, Dispatch(c) PROVE HeardInv'
<1> DEFINE m == Head(toServer[c])
<1>1. /\ toServer[c] # <<>> /\ toServer' = [toServer EXCEPT ![c] = Tail(@)]
      /\ UNCHANGED <<link, reader, page, heard>>
      /\ \/ m.type = "start" /\ StartWizard /\ (MayStart => wizRuns < MaxRuns)
         \/ m.type = "cancel" /\ CancelWizard
         \/ m.type = "answer" /\ HandleResponse(m.about)
      BY DEF Dispatch, linkVars, pageVars
<1>2. PageTypes /\ Wired /\ Asked /\ GuiInv
      BY DEF PageBase
<1>3. m \in ToServer
      BY <1>1, <1>2, TailIs DEF PageTypes
<1> HIDE DEF m
<1>4. SUFFICES ASSUME heard PROVE HeardInv'
      BY <1>1 DEF HeardInv
<1>5. page.conn \in Conns /\ page.conn # None /\ reader[page.conn] = "reading"
      BY <1>2, <1>4 DEF HeardInv, PageTypes, GuiTypeOK
<1>6. CASE m.type = "start" /\ StartWizard /\ MayStart
  <2>1. /\ wizard' = [wizard EXCEPT ![wizRuns'] = "working"]
        BY <1>6 DEF StartWizard
  <2>2. \A r \in Runs : wizard[r] # "waiting"
        BY <1>2, <1>6 DEF GuiInv, OneWizard, Under, MayStart
  <2>3. \A r \in Runs : wizard'[r] # "waiting"
        BY <1>2, <2>1, <2>2 DEF GuiInv
  <2>. QED BY <1>1, <1>5, <2>3 DEF HeardInv
<1>7. ASSUME UNCHANGED <<wizard, prompts>>, \A r \in Runs : wizard[r] = "waiting" /\ Kept(prompts) => Kept(prompts)'
      PROVE  HeardInv'
      BY <1>1, <1>4, <1>5, <1>7 DEF HeardInv
<1>8. \A i : GoesBack(i) => GoesBack(i)' \/ m = Message("answer", i)
      BY <1>1, <1>2, <1>5, GoesBackOrRead DEF m
<1>9. CASE m.type = "start" /\ StartWizard /\ ~MayStart
  <2>1. toPage' = Sent(Message("warning", None)) /\ UNCHANGED <<wizard, reply, prompts>>
        BY <1>9 DEF StartWizard, wizVars, askVars
  <2>2. Message("warning", None) \in ToPage /\ Message("warning", None).type \notin {"prompt", "finished"}
        BY DEF ToPage, Message
  <2>3. \A i : OnItsWay(i) \/ Shown(i) => OnItsWay(i)' \/ Shown(i)'
        BY <1>1, <1>2, <1>5, <2>1, <2>2, KeptBySending
  <2>4. \A i : m # Message("answer", i)
        BY <1>9 DEF Message
  <2>5. Kept(prompts) => Kept(prompts)'
        BY <1>8, <2>1, <2>3, <2>4 DEF Kept
  <2>. QED BY <1>7, <2>1, <2>5
<1>10. ASSUME UNCHANGED toPage, NEW i PROVE (OnItsWay(i) => OnItsWay(i)') /\ (Shown(i) => Shown(i)')
      BY <1>1, <1>10 DEF OnItsWay, Shown
<1>11. CASE m.type = "cancel" /\ CancelWizard
  <2>1. UNCHANGED <<toPage, wizard, reply, prompts>>
        BY <1>11 DEF CancelWizard, askVars
  <2>2. \A i : m # Message("answer", i)
        BY <1>11 DEF Message
  <2>3. Kept(prompts) => Kept(prompts)'
        BY <1>8, <1>10, <2>1, <2>2 DEF Kept
  <2>. QED BY <1>7, <2>1, <2>3
<1>12. CASE m.type = "answer" /\ HandleResponse(m.about)
  <2>1. /\ UNCHANGED <<toPage, wizard, prompts>>
        /\ reply' = [j \in Prompts |-> IF j \in PendingFor(m.about) THEN m.about ELSE reply[j]]
        BY <1>12 DEF HandleResponse, wizVars
  <2>2. ASSUME NEW r \in Runs, wizard[r] = "waiting", Kept(prompts) PROVE Kept(prompts)'
    <3>1. prompts \in Prompts /\ (pending[prompts] = r \/ reply[prompts] = prompts)
          BY <1>2, <2>2, GuiBounds DEF Asked, PageTypes, Prompts
    <3>2. r = wizRuns
          BY <1>2, <2>2 DEF GuiInv, OneWizard, Under
    <3>3. reply[prompts] = prompts => reply'[prompts] = prompts
          BY <2>1, <3>1 DEF PendingFor
    <3>4. m = Message("answer", prompts) => reply'[prompts] = prompts
      <4>1. SUFFICES ASSUME m = Message("answer", prompts), pending[prompts] = r
                     PROVE  reply'[prompts] = prompts
            BY <3>1, <3>3
      <4>2. m.about = prompts /\ prompts \in PendingFor(prompts)
            BY <3>2, <4>1 DEF Message, PendingFor
      <4>. QED BY <2>1, <3>1, <4>2
    <3>. QED BY <1>8, <1>10, <2>1, <2>2, <3>3, <3>4 DEF Kept
  <2>. QED BY <1>7, <2>1, <2>2
<1>. QED BY <1>1, <1>6, <1>9, <1>11, <1>12

LEMMA HeardWizard ==
    ASSUME PageBase, HeardInv, NEW r \in Runs, WizardStep(r) PROVE HeardInv'
<1>1. /\ wizard \in [Runs -> {"none", "working", "waiting", "returned", "ended"}]
      /\ PageTypes /\ Wired /\ Asked
      BY DEF PageBase, PageTypes, GuiTypeOK
<1>2. \A q \in Runs : q # r /\ wizard[r] \in {"working", "waiting"} => wizard[q] # "waiting"
      BY DEF PageBase, GuiInv, OneWizard, Under
<1>3. CASE Ask(r)
  <2> DEFINE q == toPage[page.conn]
             m == Message("prompt", prompts + 1)
  <2>1. /\ prompts' = prompts + 1 /\ prompts < MaxPrompts /\ prompts \in Nat
        /\ wizard' = [wizard EXCEPT ![r] = "waiting"] /\ toPage' = Sent(m)
        /\ heard' = (page.conn # None /\ reader[page.conn] = "reading"
                      /\ \A s \in Runs : wizard[s] # "returned")
        /\ UNCHANGED <<reader, page>>
        BY <1>1, <1>3, GuiBounds DEF Ask, linkVars, pageVars, PageTypes
  <2>2. SUFFICES ASSUME heard' PROVE HeardInv'
        BY DEF HeardInv
  <2>3. page.conn \in Conns /\ page.conn # None /\ reader[page.conn] = "reading"
        BY <1>1, <2>1, <2>2 DEF PageTypes, GuiTypeOK
  <2>4. hub = page.conn /\ link[hub] = "open"
        BY <1>1, <2>3 DEF Wired
  <2>5. m \in ToPage
        BY <2>1, GuiBounds DEF ToPage, Prompts
  <2>6. toPage'[page.conn] = Append(q, m)
        BY <1>1, <2>1, <2>3, <2>4, <2>5, SentIs
  <2>7. q \in Seq(ToPage)
        BY <1>1, <2>3 DEF PageTypes
  <2>8. Append(q, m)[Len(q) + 1] = m /\ Len(q) + 1 \in 1 .. Len(Append(q, m)) /\ Quiet(Append(q, m), (Len(q) + 1) + 1)
        BY <2>5, <2>7, AppendIs DEF Quiet
  <2>9. OnItsWay(prompts)'
        BY <2>1, <2>6, <2>8 DEF OnItsWay
  <2>10. \A s \in Runs : wizard'[s] # "returned"
        BY <1>1, <2>1, <2>2
  <2>. QED BY <2>1, <2>3, <2>9, <2>10 DEF HeardInv, Kept
<1>4. ASSUME UNCHANGED <<page, reader, heard>>, heard => \A s \in Runs : wizard'[s] # "waiting" PROVE HeardInv'
      BY <1>4 DEF HeardInv
<1>5. CASE GoOn(r)
  <2>1. wizard[r] = "waiting" /\ wizard' = [wizard EXCEPT ![r] = "working"] /\ UNCHANGED <<page, reader, heard>>
        BY <1>5 DEF GoOn, linkVars, pageVars
  <2>. QED BY <1>1, <1>2, <1>4, <2>1
<1>6. CASE Return(r)
  <2>1. wizard[r] = "working" /\ wizard' = [wizard EXCEPT ![r] = "returned"] /\ UNCHANGED <<page, reader, heard>>
        BY <1>6 DEF Return, linkVars, pageVars
  <2>. QED BY <1>1, <1>2, <1>4, <2>1
<1>7. CASE SayFinished(r)
  <2>1. wizard[r] = "returned" /\ wizard' = [wizard EXCEPT ![r] = "ended"] /\ UNCHANGED <<page, reader, heard>>
        BY <1>7 DEF SayFinished, linkVars, pageVars
  <2>2. heard => \A s \in Runs : wizard[s] # "waiting"
        BY <2>1 DEF HeardInv
  <2>. QED BY <1>1, <1>4, <2>1, <2>2
<1>. QED BY <1>3, <1>5, <1>6, <1>7 DEF WizardStep

LEMMA HeardNext == ASSUME PageBase, HeardInv, [GuiNext]_gvars PROVE HeardInv'
<1>0. page \in [conn : Conns \union {None}, status : {"idle", "running", "finished"},
                cancel : BOOLEAN, shown : Prompts \union {None}]
      BY DEF PageBase, PageTypes, GuiTypeOK
<1>1. ASSUME NEW c \in Conns, Connect(c) PROVE HeardInv'
      BY <1>1 DEF Connect, HeardInv
<1>2. ASSUME NEW c \in Conns, Register(c) PROVE HeardInv'
  <2>1. /\ page' = IF hub # None /\ page.conn = hub THEN [page EXCEPT !.conn = None] ELSE page
        /\ heard' = (heard /\ page'.conn # None)
        BY <1>2 DEF Register
  <2>2. heard => page.conn # None /\ hub = page.conn
        BY DEF HeardInv, PageBase, Wired
  <2>3. heard' = FALSE
        BY <1>0, <2>1, <2>2
  <2>. QED BY <2>3 DEF HeardInv
<1>3. ASSUME NEW c \in Conns, Leave(c) PROVE HeardInv'
  <2>1. /\ link[c] = "broken" /\ reader' = [reader EXCEPT ![c] = "left"]
        /\ toServer' = [toServer EXCEPT ![c] = <<>>]
        /\ UNCHANGED <<toPage, page, wizard, reply, prompts, heard>>
        BY <1>3 DEF Leave, pageVars, wizVars, askVars
  <2>2. page.conn # None => page.conn # c
        BY <2>1 DEF PageBase, Wired
  <2>3. page.conn \in Conns /\ page.conn # c =>
          reader'[page.conn] = reader[page.conn] /\ toServer'[page.conn] = toServer[page.conn]
        BY <2>1 DEF PageBase, PageTypes, GuiTypeOK
  <2>. QED BY <1>0, <2>1, <2>2, <2>3 DEF HeardInv, Kept, OnItsWay, Shown, GoesBack
<1>4. ASSUME NEW c \in Conns, Dispatch(c) PROVE HeardInv'
      BY <1>4, HeardDispatch
<1>5. CASE Break \/ Reload
      BY <1>5 DEF Break, Reload, HeardInv
<1>6. CASE Receive
      BY <1>6, HeardReceive
<1>7. CASE ClickStart \/ ClickCancel \/ Respond
      BY <1>7, HeardPageActs
<1>8. ASSUME NEW r \in Runs, WizardStep(r) PROVE HeardInv'
      BY <1>8, HeardWizard
<1>9. CASE UNCHANGED gvars
      BY <1>9, HeardStays DEF gvars, linkVars, pageVars, wizVars, askVars
<1>. QED BY <1>1, <1>2, <1>3, <1>4, <1>5, <1>6, <1>7, <1>8, <1>9 DEF GuiNext

-----------------------------------------------------------------------------
(* A page that was never reloaded shows Cancel while a wizard it was told of  *)
(* is under way: a start, the wizard it makes and the end of that one follow  *)
(* each other, and the page takes itself to be running all the while.         *)

\* What the page may be told of.
Tellable(n) == {m \in ToPage : m.type = "started" => m.about \in 0 .. n}
Told == told \in 0 .. wizRuns /\ toPage \in [Conns -> Seq(Tellable(wizRuns))]

Live == {r \in Runs : wizard[r] \in {"working", "waiting", "returned"}}
Starts(c, k) == k \in 1 .. Len(toServer[c]) /\ toServer[c][k].type = "start"
Finishes(c, k) == k \in 1 .. Len(toPage[c]) /\ toPage[c][k].type = "finished"
AStart == \E c \in Conns : \E k \in Nat : Starts(c, k)
AnEnd == \E c \in Conns : \E k \in Nat : Finishes(c, k)

OneCycle ==
  /\ AStart \/ AnEnd \/ Live # {} => page.status = "running"
  /\ AStart => ~AnEnd /\ Live = {}
  /\ AnEnd => Live = {}
  /\ \A r, s \in Live : r = s
  /\ \A c, d \in Conns : \A j, k \in Nat : Starts(c, j) /\ Starts(d, k) => c = d /\ j = k
  /\ \A c, d \in Conns : \A j, k \in Nat : Finishes(c, j) /\ Finishes(d, k) => c = d /\ j = k

CycleInv == reloads = 0 => OneCycle /\ (told \in Under => page.cancel)

LEMMA SentIn ==
  ASSUME PageTypes, NEW S, toPage \in [Conns -> Seq(S)], NEW m \in S
  PROVE  Sent(m) \in [Conns -> Seq(S)]
<1>1. hub \in Conns \union {None}
      BY DEF PageTypes, GuiTypeOK
<1>2. CASE hub # None /\ link[hub] = "open"
  <2>1. Append(toPage[hub], m) \in Seq(S)
        BY <1>1, <1>2, AppendIs
  <2>. QED BY <1>1, <1>2, <2>1 DEF Sent
<1>3. CASE ~ (hub # None /\ link[hub] = "open")
      BY <1>3 DEF Sent
<1>. QED BY <1>2, <1>3

LEMMA TellsMore ==
  ASSUME NEW n \in Nat, NEW k \in Nat, n <= k, NEW f \in [Conns -> Seq(Tellable(n))]
  PROVE  f \in [Conns -> Seq(Tellable(k))]
<1>1. Tellable(n) \subseteq Tellable(k)
      BY DEF Tellable
<1>2. \A s \in Seq(Tellable(n)) : s \in Seq(Tellable(k))
      BY <1>1
<1>. QED BY <1>2

LEMMA ToldNext == ASSUME PageBase, Told, [GuiNext]_gvars PROVE Told'
<1>0. /\ PageTypes /\ wizRuns \in Nat /\ toPage \in [Conns -> Seq(Tellable(wizRuns))]
      /\ told \in 0 .. wizRuns
      BY GuiBounds DEF PageBase, PageTypes, GuiTypeOK, Told
<1>1. ASSUME UNCHANGED <<told, wizRuns>>, toPage' \in [Conns -> Seq(Tellable(wizRuns))] PROVE Told'
      BY <1>0, <1>1 DEF Told, Tellable, ToPage
<1>2. ASSUME UNCHANGED <<told, wizRuns>>,
             \A c \in Conns : toPage'[c] \in {toPage[c], <<>>}, toPage' \in [Conns -> Seq(ToPage)]
      PROVE  Told'
  <2>1. \A c \in Conns : toPage'[c] \in Seq(Tellable(wizRuns))
        BY <1>0, <1>2
  <2>. QED BY <1>1, <1>2, <2>1
<1>3. ASSUME UNCHANGED <<told, wizRuns, toPage>> PROVE Told'
      BY <1>0, <1>1, <1>3
<1>4. ASSUME NEW c \in Conns, Connect(c) \/ Leave(c) PROVE Told'
      BY <1>3, <1>4 DEF Connect, Leave, pageVars, wizVars
<1>5. ASSUME NEW c \in Conns, Register(c) PROVE Told'
      BY <1>0, <1>2, <1>5 DEF Register, wizVars, PageTypes
<1>6. CASE Break \/ Reload
  <2>1. UNCHANGED <<told, wizRuns>> /\ \A c \in Conns : toPage'[c] \in {toPage[c], <<>>}
        BY <1>0, <1>6 DEF Break, Reload, wizVars, PageTypes
  <2>2. toPage' \in [Conns -> Seq(ToPage)]
        BY BaseNext DEF PageBase, PageTypes
  <2>. QED BY <1>2, <2>1, <2>2
<1>7. CASE ClickStart \/ ClickCancel \/ Respond
      BY <1>3, <1>7 DEF ClickStart, ClickCancel, Respond, pageVars, wizVars
<1>8. CASE Receive
  <2> DEFINE m == Head(toPage[page.conn])
  <2>1. page.conn \in Conns /\ toPage[page.conn] # <<>>
        BY <1>0, <1>8 DEF Receive, PageTypes, GuiTypeOK
  <2>2. m \in Tellable(wizRuns) /\ Tail(toPage[page.conn]) \in Seq(Tellable(wizRuns))
        BY <1>0, <2>1, TailIs
  <2> HIDE DEF m
  <2>3. /\ toPage' = [toPage EXCEPT ![page.conn] = Tail(@)] /\ UNCHANGED wizRuns
        /\ told' = IF m.type = "started" THEN m.about ELSE told
        BY <1>8 DEF Receive, wizVars, m
  <2>4. told' \in 0 .. wizRuns
        BY <1>0, <2>2, <2>3 DEF Tellable
  <2>5. toPage' \in [Conns -> Seq(Tellable(wizRuns))]
        BY <1>0, <2>2, <2>3
  <2>. QED BY <2>3, <2>4, <2>5 DEF Told, Tellable, ToPage
<1>9. ASSUME NEW c \in Conns, Dispatch(c) PROVE Told'
  <2>1. CASE StartWizard /\ MayStart /\ wizRuns < MaxRuns
    <3>1. /\ wizRuns' = wizRuns + 1 /\ toPage' = Sent(Message("started", wizRuns + 1)) /\ told' = told
          BY <1>9, <2>1 DEF StartWizard, Dispatch, pageVars
    <3>. wizRuns + 1 \in Runs
          BY <1>0, <2>1, GuiBounds DEF Runs
    <3>2. toPage \in [Conns -> Seq(Tellable(wizRuns + 1))]
          BY <1>0, TellsMore
    <3>3. Message("started", wizRuns + 1) \in Tellable(wizRuns + 1)
          BY <1>0, <3>1 DEF Tellable, ToPage, Message
    <3>4. toPage' \in [Conns -> Seq(Tellable(wizRuns + 1))]
          BY <1>0, <3>1, <3>2, <3>3, SentIn
    <3>. QED BY <1>0, <3>1, <3>4 DEF Told, Tellable, ToPage
  <2>2. CASE StartWizard /\ ~MayStart
    <3>1. toPage' = Sent(Message("warning", None)) /\ UNCHANGED <<told, wizRuns>>
          BY <1>9, <2>2 DEF StartWizard, Dispatch, pageVars, wizVars
    <3>2. Message("warning", None) \in Tellable(wizRuns)
          BY DEF Tellable, ToPage, Message
    <3>. QED BY <1>0, <1>1, <3>1, <3>2, SentIn
  <2>3. CASE CancelWizard \/ HandleResponse(Head(toServer[c]).about)
        BY <1>3, <1>9, <2>3 DEF Dispatch, CancelWizard, HandleResponse, pageVars, wizVars
  <2>. QED BY <1>9, <2>1, <2>2, <2>3 DEF Dispatch
<1>10. ASSUME NEW r \in Runs, WizardStep(r) PROVE Told'
  <2>1. CASE GoOn(r) \/ Return(r)
        BY <1>3, <2>1 DEF GoOn, Return, pageVars
  <2>2. CASE SayFinished(r)
    <3>1. toPage' = Sent(Message("finished", r)) /\ UNCHANGED <<told, wizRuns>>
          BY <2>2 DEF SayFinished, pageVars
    <3>2. Message("finished", r) \in Tellable(wizRuns)
          BY DEF Tellable, ToPage, Message
    <3>. QED BY <1>0, <1>1, <3>1, <3>2, SentIn
  <2>3. CASE Ask(r)
    <3>1. toPage' = Sent(Message("prompt", prompts + 1)) /\ UNCHANGED <<told, wizRuns>>
          /\ prompts < MaxPrompts /\ prompts \in 0 .. MaxPrompts
          BY <1>0, <2>3 DEF Ask, pageVars, PageTypes
    <3>2. prompts + 1 \in Prompts
          BY <3>1, GuiBounds DEF Prompts
    <3>3. Message("prompt", prompts + 1) \in Tellable(wizRuns)
          BY <3>2 DEF Tellable, ToPage, Message
    <3>. QED BY <1>0, <1>1, <3>1, <3>3, SentIn
  <2>. QED BY <1>10, <2>1, <2>2, <2>3 DEF WizardStep
<1>11. CASE UNCHANGED gvars
      BY <1>3, <1>11 DEF gvars, pageVars, wizVars
<1>. QED BY <1>4, <1>5, <1>6, <1>7, <1>8, <1>9, <1>10, <1>11 DEF GuiNext

\* Messages that are lost, or read, make no new ones.
LEMMA CycleShifts ==
  ASSUME OneCycle, UNCHANGED wizard, page'.status \in {page.status, "running"},
         NEW a \in [Conns -> {0, 1}], NEW b \in [Conns -> {0, 1}],
         \A d \in Conns : \A k \in Nat : Starts(d, k)' => Starts(d, k + a[d]),
         \A d \in Conns : \A k \in Nat : Finishes(d, k)' => Finishes(d, k + b[d])
  PROVE  OneCycle'
<1>0. Live' = Live
      BY DEF Live
<1>1. AStart' => AStart
  <2>1. SUFFICES ASSUME NEW d \in Conns, NEW k \in Nat, Starts(d, k)' PROVE AStart
        BY DEF AStart
  <2>2. k + a[d] \in Nat
        OBVIOUS
  <2>. QED BY <2>1, <2>2 DEF AStart
<1>2. AnEnd' => AnEnd
  <2>1. SUFFICES ASSUME NEW d \in Conns, NEW k \in Nat, Finishes(d, k)' PROVE AnEnd
        BY DEF AnEnd
  <2>2. k + b[d] \in Nat
        OBVIOUS
  <2>. QED BY <2>1, <2>2 DEF AnEnd
<1>3. ASSUME NEW c \in Conns, NEW d \in Conns, NEW j \in Nat, NEW k \in Nat
      PROVE  /\ Starts(c, j)' /\ Starts(d, k)' => c = d /\ j = k
             /\ Finishes(c, j)' /\ Finishes(d, k)' => c = d /\ j = k
  <2>1. j + a[c] \in Nat /\ k + a[d] \in Nat /\ j + b[c] \in Nat /\ k + b[d] \in Nat
        OBVIOUS
  <2>2. Starts(c, j)' /\ Starts(d, k)' => c = d /\ j + a[c] = k + a[d]
        BY <2>1 DEF OneCycle
  <2>3. Finishes(c, j)' /\ Finishes(d, k)' => c = d /\ j + b[c] = k + b[d]
        BY <2>1 DEF OneCycle
  <2>. QED BY <2>2, <2>3
<1>. QED BY <1>0, <1>1, <1>2, <1>3 DEF OneCycle

LEMMA StartsRead ==
  ASSUME PageTypes, NEW c \in Conns, toServer[c] # <<>>, toServer' = [toServer EXCEPT ![c] = Tail(@)]
  PROVE  /\ \A d \in Conns : \A k \in Nat :
              Starts(d, k)' => Starts(d, k + [e \in Conns |-> IF e = c THEN 1 ELSE 0][d])
         /\ Head(toServer[c]).type = "start" => Starts(c, 1)
<1>1. toServer[c] \in Seq(ToServer) /\ toServer'[c] = Tail(toServer[c])
      /\ \A d \in Conns : d # c => toServer'[d] = toServer[d]
      BY DEF PageTypes
<1>2. ASSUME NEW k \in Nat, Starts(c, k)' PROVE Starts(c, k + 1)
  <2>1. k \in 1 .. Len(Tail(toServer[c])) /\ Tail(toServer[c])[k].type = "start"
        BY <1>1, <1>2 DEF Starts
  <2>2. k + 1 \in 1 .. Len(toServer[c]) /\ Tail(toServer[c])[k] = toServer[c][k + 1]
        BY <1>1, <2>1, TailIs
  <2>. QED BY <2>1, <2>2 DEF Starts
<1>3. ASSUME NEW d \in Conns, d # c, NEW k \in Nat, Starts(d, k)' PROVE Starts(d, k + 0)
      BY <1>1, <1>3 DEF Starts
<1>4. Head(toServer[c]).type = "start" => Starts(c, 1)
      BY <1>1, TailIs DEF Starts
<1>. QED BY <1>2, <1>3, <1>4

LEMMA FinishesRead ==
  ASSUME PageTypes, NEW c \in Conns, toPage[c] # <<>>, toPage' = [toPage EXCEPT ![c] = Tail(@)]
  PROVE  /\ \A d \in Conns : \A k \in Nat :
              Finishes(d, k)' => Finishes(d, k + [e \in Conns |-> IF e = c THEN 1 ELSE 0][d])
         /\ Head(toPage[c]).type = "finished" => Finishes(c, 1)
<1>1. toPage[c] \in Seq(ToPage) /\ toPage'[c] = Tail(toPage[c])
      /\ \A d \in Conns : d # c => toPage'[d] = toPage[d]
      BY DEF PageTypes
<1>2. ASSUME NEW k \in Nat, Finishes(c, k)' PROVE Finishes(c, k + 1)
  <2>1. k \in 1 .. Len(Tail(toPage[c])) /\ Tail(toPage[c])[k].type = "finished"
        BY <1>1, <1>2 DEF Finishes
  <2>2. k + 1 \in 1 .. Len(toPage[c]) /\ Tail(toPage[c])[k] = toPage[c][k + 1]
        BY <1>1, <2>1, TailIs
  <2>. QED BY <2>1, <2>2 DEF Finishes
<1>3. ASSUME NEW d \in Conns, d # c, NEW k \in Nat, Finishes(d, k)' PROVE Finishes(d, k + 0)
      BY <1>1, <1>3 DEF Finishes
<1>4. Head(toPage[c]).type = "finished" => Finishes(c, 1)
      BY <1>1, TailIs DEF Finishes
<1>. QED BY <1>2, <1>3, <1>4

\* The page's message is the last on its connection.
LEMMA StartsSent ==
  ASSUME PageTypes, NEW m \in ToServer, PageSends(m), NEW d \in Conns, NEW k \in Nat, Starts(d, k)'
  PROVE  Starts(d, k) \/ (m.type = "start" /\ d = page.conn /\ k = Len(toServer[d]) + 1)
<1>1. toServer[d] \in Seq(ToServer) /\ Len(toServer[d]) \in Nat
      BY DEF PageTypes
<1>2. CASE toServer'[d] = toServer[d]
      BY <1>2 DEF Starts
<1>3. CASE d = page.conn /\ toServer'[d] = Append(toServer[d], m)
  <2>1. k \in 1 .. Len(toServer[d]) + 1 /\ Append(toServer[d], m)[k].type = "start"
        BY <1>1, <1>3, AppendIs DEF Starts
  <2>2. CASE k = Len(toServer[d]) + 1
        BY <1>1, <1>3, <2>1, <2>2, AppendIs
  <2>3. CASE k \in 1 .. Len(toServer[d])
        BY <1>1, <2>1, <2>3, AppendIs DEF Starts
  <2>. QED BY <1>1, <2>1, <2>2, <2>3
<1>. QED BY <1>2, <1>3, PageSendsIs

LEMMA FinishesSent ==
  ASSUME PageTypes, NEW m \in ToPage, toPage' = Sent(m), NEW d \in Conns, NEW k \in Nat, Finishes(d, k)'
  PROVE  Finishes(d, k) \/ (m.type = "finished" /\ d = hub /\ k = Len(toPage[d]) + 1)
<1>1. toPage[d] \in Seq(ToPage) /\ Len(toPage[d]) \in Nat
      BY DEF PageTypes
<1>2. CASE toPage'[d] = toPage[d]
      BY <1>2 DEF Finishes
<1>3. CASE d = hub /\ toPage'[d] = Append(toPage[d], m)
  <2>1. k \in 1 .. Len(toPage[d]) + 1 /\ Append(toPage[d], m)[k].type = "finished"
        BY <1>1, <1>3, AppendIs DEF Finishes
  <2>2. CASE k = Len(toPage[d]) + 1
        BY <1>1, <1>3, <2>1, <2>2, AppendIs
  <2>3. CASE k \in 1 .. Len(toPage[d])
        BY <1>1, <2>1, <2>3, AppendIs DEF Finishes
  <2>. QED BY <1>1, <2>1, <2>2, <2>3
<1>. QED BY <1>2, <1>3, SentIs

LEMMA CycleStays ==
  ASSUME OneCycle, UNCHANGED wizard, page'.status \in {page.status, "running"},
         \A d \in Conns : \A k \in Nat : Starts(d, k)' => Starts(d, k),
         \A d \in Conns : \A k \in Nat : Finishes(d, k)' => Finishes(d, k)
  PROVE  OneCycle'
<1> DEFINE z == [e \in Conns |-> 0]
<1>1. z \in [Conns -> {0, 1}]
      OBVIOUS
<1>2. \A d \in Conns : \A k \in Nat : k + z[d] = k
      OBVIOUS
<1>3. /\ \A d \in Conns : \A k \in Nat : Starts(d, k)' => Starts(d, k + z[d])
      /\ \A d \in Conns : \A k \in Nat : Finishes(d, k)' => Finishes(d, k + z[d])
      BY <1>2
<1> HIDE DEF z
<1>. QED BY <1>1, <1>3, CycleShifts

LEMMA CycleReceive ==
    ASSUME PageBase, OneCycle, told \in Under => page.cancel, Receive
    PROVE  OneCycle' /\ (told' \in Under' => page'.cancel)
<1> DEFINE q == toPage[page.conn]
           m == Head(q)
           z == [e \in Conns |-> 0]
           b == [e \in Conns |-> IF e = page.conn THEN 1 ELSE 0]
<1>1. /\ page.conn # None /\ q # <<>> /\ toPage' = [toPage EXCEPT ![page.conn] = Tail(@)]
      /\ UNCHANGED <<toServer, wizard>>
      /\ told' = IF m.type = "started" THEN m.about ELSE told
      BY DEF Receive, linkVars, wizVars
<1>2. page' = CASE m.type = "started" -> [page EXCEPT !.status = "running", !.cancel = TRUE]
                [] m.type = "finished" ->
                     [page EXCEPT !.status = "finished", !.cancel = FALSE, !.shown = None]
                [] m.type = "prompt" -> [page EXCEPT !.shown = m.about]
                [] OTHER -> page
      BY DEF Receive, ShowControls
<1>3. /\ page \in [conn : Conns \union {None}, status : {"idle", "running", "finished"},
                   cancel : BOOLEAN, shown : Prompts \union {None}]
      /\ page.conn \in Conns /\ PageTypes
      BY <1>1 DEF PageBase, PageTypes, GuiTypeOK
<1>4. /\ b \in [Conns -> {0, 1}] /\ z \in [Conns -> {0, 1}]
      /\ \A d \in Conns : \A k \in Nat : Finishes(d, k)' => Finishes(d, k + b[d])
      /\ m.type = "finished" => Finishes(page.conn, 1)
      BY <1>1, <1>3, FinishesRead
<1>5. \A d \in Conns : \A k \in Nat : Starts(d, k)' => Starts(d, k + z[d])
      BY <1>1 DEF Starts
<1>6. b[page.conn] = 1
      BY <1>3
<1>7. Under' = Under
      BY <1>1 DEF Under
<1> HIDE DEF m, z, b
<1>8. CASE m.type # "finished"
  <2>1. page'.status \in {page.status, "running"}
        BY <1>2, <1>3, <1>8
  <2>2. OneCycle'
        BY <1>1, <1>4, <1>5, <2>1, CycleShifts
  <2>3. told' \in Under => page'.cancel
        BY <1>1, <1>2, <1>3, <1>8
  <2>. QED BY <1>7, <2>2, <2>3
<1>9. CASE m.type = "finished"
  <2>1. Finishes(page.conn, 1) /\ AnEnd
        BY <1>3, <1>4, <1>9 DEF AnEnd
  <2>2. Live = {} /\ ~AStart
        BY <2>1 DEF OneCycle
  <2>3. ~AnEnd'
    <3>1. SUFFICES ASSUME NEW d \in Conns, NEW k \in Nat, Finishes(d, k)' PROVE FALSE
          BY DEF AnEnd
    <3>2. Finishes(d, k + b[d]) /\ k + b[d] \in Nat
          BY <1>4, <3>1
    <3>3. d = page.conn /\ k + b[d] = 1
          BY <1>3, <2>1, <3>2 DEF OneCycle
    <3>4. k = 0
          BY <1>6, <3>3
    <3>. QED BY <3>1, <3>4 DEF Finishes
  <2>4. ~AStart'
        BY <1>1, <2>2 DEF AStart, Starts
  <2>5. Live' = {} /\ Under' = {}
        BY <1>1, <2>2 DEF Live, Under
  <2>6. OneCycle'
        BY <2>3, <2>4, <2>5 DEF OneCycle, AStart, AnEnd
  <2>. QED BY <2>5, <2>6
<1>. QED BY <1>8, <1>9

LEMMA CycleStart == ASSUME PageBase, OneCycle, ClickStart PROVE OneCycle'
<1> DEFINE m == Message("start", None)
<1>1. /\ page.status # "running" /\ page' = [page EXCEPT !.status = "running"] /\ PageSends(m)
      /\ UNCHANGED <<toPage, wizard>>
      BY DEF ClickStart, wizVars
<1>2. m \in ToServer /\ PageTypes
      BY DEF ToServer, PageBase
<1>3. page'.status = "running"
      BY <1>1, <1>2 DEF PageTypes, GuiTypeOK
<1>4. ~AStart /\ ~AnEnd /\ Live = {}
      BY <1>1 DEF OneCycle
<1>5. Live' = {} /\ ~AnEnd'
      BY <1>1, <1>4 DEF Live, AnEnd, Finishes
<1>6. ASSUME NEW d \in Conns, NEW k \in Nat, Starts(d, k)'
      PROVE  d = page.conn /\ k = Len(toServer[page.conn]) + 1
      BY <1>1, <1>2, <1>4, <1>6, StartsSent DEF AStart
<1>. QED BY <1>3, <1>5, <1>6 DEF OneCycle, AnEnd

LEMMA CycleDispatch ==
    ASSUME PageBase, Told, OneCycle, told \in Under => page.cancel, NEW c \in Conns, Dispatch(c)
    PROVE  OneCycle' /\ (told' \in Under' => page'.cancel)
<1> DEFINE m == Head(toServer[c])
           z == [e \in Conns |-> 0]
           a == [e \in Conns |-> IF e = c THEN 1 ELSE 0]
<1>1. /\ toServer[c] # <<>> /\ toServer' = [toServer EXCEPT ![c] = Tail(@)]
      /\ UNCHANGED <<hub, link, page, told>>
      /\ \/ m.type = "start" /\ StartWizard /\ (MayStart => wizRuns < MaxRuns)
         \/ m.type = "cancel" /\ CancelWizard
         \/ m.type = "answer" /\ HandleResponse(m.about)
      BY DEF Dispatch, linkVars, pageVars
<1>2. /\ PageTypes /\ GuiInv /\ wizRuns \in Nat /\ MaxRuns \in Nat
      /\ wizard \in [Runs -> {"none", "working", "waiting", "returned", "ended"}]
      BY GuiBounds DEF PageBase, PageTypes, GuiTypeOK
<1>3. /\ a \in [Conns -> {0, 1}] /\ z \in [Conns -> {0, 1}]
      /\ \A d \in Conns : \A k \in Nat : Starts(d, k)' => Starts(d, k + a[d])
      /\ m.type = "start" => Starts(c, 1)
      BY <1>1, <1>2, StartsRead
<1>4. a[c] = 1 /\ \A d \in Conns : \A k \in Nat : k + z[d] = k
      OBVIOUS
<1> HIDE DEF m, a, z
<1>5. ASSUME UNCHANGED wizard, \A d \in Conns : \A k \in Nat : Finishes(d, k)' => Finishes(d, k)
      PROVE  OneCycle' /\ (told' \in Under' => page'.cancel)
  <2>1. \A d \in Conns : \A k \in Nat : Finishes(d, k)' => Finishes(d, k + z[d])
        BY <1>4, <1>5
  <2>2. OneCycle'
        BY <1>1, <1>3, <1>5, <2>1, CycleShifts
  <2>3. Under' = Under
        BY <1>5 DEF Under
  <2>. QED BY <1>1, <2>2, <2>3
<1>6. CASE m.type = "cancel" /\ CancelWizard
  <2>1. UNCHANGED <<wizard, toPage>>
        BY <1>6 DEF CancelWizard
  <2>. QED BY <1>5, <2>1 DEF Finishes
<1>7. CASE m.type = "answer" /\ HandleResponse(m.about)
  <2>1. UNCHANGED <<wizard, toPage>>
        BY <1>7 DEF HandleResponse, wizVars
  <2>. QED BY <1>5, <2>1 DEF Finishes
<1>8. CASE m.type = "start" /\ StartWizard /\ ~MayStart
  <2>1. UNCHANGED wizard /\ toPage' = Sent(Message("warning", None))
        BY <1>8 DEF StartWizard, wizVars
  <2>2. Message("warning", None) \in ToPage /\ Message("warning", None).type # "finished"
        BY DEF ToPage, Message
  <2>3. \A d \in Conns : \A k \in Nat : Finishes(d, k)' => Finishes(d, k)
        BY <1>2, <2>1, <2>2, FinishesSent
  <2>. QED BY <1>5, <2>1, <2>3
<1>9. CASE m.type = "start" /\ StartWizard /\ MayStart /\ wizRuns < MaxRuns
  <2>1. /\ wizard' = [wizard EXCEPT ![wizRuns + 1] = "working"]
        /\ toPage' = Sent(Message("started", wizRuns + 1)) /\ wizRuns + 1 \in Runs
        BY <1>2, <1>9 DEF StartWizard, Runs
  <2>2. Starts(c, 1) /\ AStart
        BY <1>3, <1>9 DEF AStart
  <2>3. ~AnEnd /\ Live = {} /\ page.status = "running"
        BY <2>2 DEF OneCycle
  <2>4. ~AStart'
    <3>1. SUFFICES ASSUME NEW d \in Conns, NEW k \in Nat, Starts(d, k)' PROVE FALSE
          BY DEF AStart
    <3>2. Starts(d, k + a[d]) /\ k + a[d] \in Nat
          BY <1>3, <3>1
    <3>3. d = c /\ k + a[d] = 1
          BY <2>2, <3>2 DEF OneCycle
    <3>4. k = 0
          BY <1>4, <3>3
    <3>. QED BY <3>1, <3>4 DEF Starts
  <2>5. Message("started", wizRuns + 1) \in ToPage /\ Message("started", wizRuns + 1).type # "finished"
        BY <2>1 DEF ToPage, Message
  <2>6. ~AnEnd'
    <3>1. \A d \in Conns : \A k \in Nat : Finishes(d, k)' => Finishes(d, k)
          BY <1>2, <2>1, <2>5, FinishesSent
    <3>. QED BY <2>3, <3>1 DEF AnEnd
  <2>7. Live' = {wizRuns + 1} /\ Under' \subseteq {wizRuns + 1}
    <3>1. \A r \in Runs : wizard'[r] = IF r = wizRuns + 1 THEN "working" ELSE wizard[r]
          BY <1>2, <2>1
    <3>2. \A r \in Runs : wizard[r] \notin {"working", "waiting", "returned"}
          BY <2>3 DEF Live
    <3>3. Live' = {wizRuns + 1}
          BY <2>1, <3>1, <3>2 DEF Live
    <3>4. Under' \subseteq {wizRuns + 1}
          BY <3>1, <3>2 DEF Under
    <3>. QED BY <3>3, <3>4
  <2>8. told' # wizRuns + 1
        BY <1>1, <1>2 DEF Told
  <2>9. OneCycle'
        BY <1>1, <2>3, <2>4, <2>6, <2>7 DEF OneCycle, AStart, AnEnd
  <2>. QED BY <2>7, <2>8, <2>9
<1>. QED BY <1>1, <1>6, <1>7, <1>8, <1>9

LEMMA CycleWizard ==
    ASSUME PageBase, OneCycle, told \in Under => page.cancel, NEW r \in Runs, WizardStep(r)
    PROVE  OneCycle' /\ (told' \in Under' => page'.cancel)
<1>0. /\ wizard \in [Runs -> {"none", "working", "waiting", "returned", "ended"}] /\ PageTypes
      /\ prompts \in 0 .. MaxPrompts
      BY DEF PageBase, PageTypes, GuiTypeOK
<1>1. ASSUME NEW w \in {"working", "waiting", "returned", "ended"}, wizard' = [wizard EXCEPT ![r] = w]
      PROVE  \A q \in Runs : wizard'[q] = IF q = r THEN w ELSE wizard[q]
      BY <1>0, <1>1
<1>2. UNCHANGED <<toServer, page, told, hub, link>>
      BY DEF WizardStep, Ask, GoOn, Return, SayFinished, pageVars, linkVars
<1>3. AStart' = AStart
      BY <1>2 DEF AStart, Starts
<1>4. CASE Ask(r) \/ GoOn(r) \/ Return(r)
  <2>1. /\ wizard[r] \in {"working", "waiting"}
        /\ \E w \in {"working", "waiting", "returned"} : wizard' = [wizard EXCEPT ![r] = w]
    <3>1. CASE Ask(r)
          BY <3>1 DEF Ask
    <3>2. CASE GoOn(r)
          BY <3>2 DEF GoOn
    <3>3. CASE Return(r)
          BY <3>3 DEF Return
    <3>. QED BY <1>4, <3>1, <3>2, <3>3
  <2>2. PICK w \in {"working", "waiting", "returned"} : wizard' = [wizard EXCEPT ![r] = w]
        BY <2>1
  <2>3. \A q \in Runs : wizard'[q] = IF q = r THEN w ELSE wizard[q]
        BY <1>1, <2>2
  <2>4. Live' = Live /\ Under' \subseteq Under
        BY <2>1, <2>3 DEF Live, Under
  <2>5. \A d \in Conns : \A k \in Nat : Finishes(d, k)' => Finishes(d, k)
    <3>1. CASE GoOn(r) \/ Return(r)
          BY <3>1 DEF GoOn, Return, Finishes
    <3>2. CASE Ask(r)
      <4>1. toPage' = Sent(Message("prompt", prompts + 1)) /\ prompts + 1 \in Prompts
            BY <1>0, <3>2, GuiBounds DEF Ask, Prompts
      <4>2. Message("prompt", prompts + 1) \in ToPage /\ Message("prompt", prompts + 1).type # "finished"
            BY <4>1 DEF ToPage, Message
      <4>. QED BY <1>0, <4>1, <4>2, FinishesSent
    <3>. QED BY <1>4, <3>1, <3>2
  <2>6. AnEnd' => AnEnd
        BY <2>5 DEF AnEnd
  <2>7. OneCycle'
    <3>1. \A c, d \in Conns : \A j, k \in Nat : Finishes(c, j)' /\ Finishes(d, k)' => c = d /\ j = k
          BY <2>5 DEF OneCycle
    <3>2. \A c, d \in Conns : \A j, k \in Nat : Starts(c, j)' /\ Starts(d, k)' => c = d /\ j = k
          BY <1>2 DEF OneCycle, Starts
    <3>. QED BY <1>2, <1>3, <2>4, <2>6, <3>1, <3>2 DEF OneCycle
  <2>. QED BY <1>2, <2>4, <2>7
<1>5. CASE SayFinished(r)
  <2>1. /\ wizard[r] = "returned" /\ wizard' = [wizard EXCEPT ![r] = "ended"]
        /\ toPage' = Sent(Message("finished", r))
        BY <1>5 DEF SayFinished
  <2>2. r \in Live
        BY <2>1 DEF Live
  <2>3. page.status = "running" /\ ~AStart /\ ~AnEnd /\ Live = {r}
        BY <2>2 DEF OneCycle
  <2>4. \A q \in Runs : wizard'[q] = IF q = r THEN "ended" ELSE wizard[q]
        BY <1>1, <2>1
  <2>5. Live' = {} /\ Under' = {}
    <3>1. \A q \in Runs \ {r} : wizard[q] \notin {"working", "waiting", "returned"}
          BY <2>3 DEF Live
    <3>. QED BY <2>4, <3>1 DEF Live, Under
  <2>6. Message("finished", r) \in ToPage
        BY DEF ToPage
  <2>7. \A d \in Conns : \A k \in Nat : Finishes(d, k)' => d = hub /\ k = Len(toPage[hub]) + 1
        BY <1>0, <2>1, <2>3, <2>6, FinishesSent DEF AnEnd
  <2>8. OneCycle'
        BY <1>2, <1>3, <2>3, <2>5, <2>7 DEF OneCycle, AStart
  <2>. QED BY <2>5, <2>8
<1>. QED BY <1>4, <1>5 DEF WizardStep

LEMMA CycleNext == ASSUME PageBase, Told, CycleInv, [GuiNext]_gvars PROVE CycleInv'
<1>0. /\ page \in [conn : Conns \union {None}, status : {"idle", "running", "finished"},
                   cancel : BOOLEAN, shown : Prompts \union {None}]
      /\ PageTypes /\ reloads \in Nat
      BY DEF PageBase, PageTypes, GuiTypeOK
<1>1. ASSUME UNCHANGED <<wizard, told, reloads>>,
             page'.status = page.status, page'.cancel = page.cancel,
             \A d \in Conns : \A k \in Nat : Starts(d, k)' => Starts(d, k),
             \A d \in Conns : \A k \in Nat : Finishes(d, k)' => Finishes(d, k)
      PROVE  CycleInv'
  <2>1. OneCycle => OneCycle'
        BY <1>1, CycleStays
  <2>2. Under' = Under
        BY <1>1 DEF Under
  <2>. QED BY <1>1, <2>1, <2>2 DEF CycleInv
<1>2. ASSUME NEW c \in Conns, Connect(c) PROVE CycleInv'
      BY <1>0, <1>1, <1>2 DEF Connect, wizVars, Starts, Finishes
<1>3. ASSUME NEW c \in Conns, Register(c) PROVE CycleInv'
  <2>1. /\ page' = IF hub # None /\ page.conn = hub THEN [page EXCEPT !.conn = None] ELSE page
        /\ toPage' = [d \in Conns |-> IF d = hub THEN <<>> ELSE toPage[d]]
        /\ UNCHANGED <<toServer, reloads, told, wizard>>
        BY <1>3 DEF Register, wizVars
  <2>2. page'.status = page.status /\ page'.cancel = page.cancel
        BY <1>0, <2>1
  <2>3. \A d \in Conns : \A k \in Nat : Finishes(d, k)' => Finishes(d, k)
        BY <2>1 DEF Finishes
  <2>. QED BY <1>1, <2>1, <2>2, <2>3 DEF Starts
<1>4. ASSUME NEW c \in Conns, Leave(c) PROVE CycleInv'
  <2>1. toServer' = [toServer EXCEPT ![c] = <<>>] /\ UNCHANGED <<toPage, page, reloads, told, wizard>>
        BY <1>4 DEF Leave, pageVars, wizVars
  <2>2. \A d \in Conns : toServer'[d] \in {toServer[d], <<>>}
        BY <1>0, <2>1 DEF PageTypes
  <2>3. \A d \in Conns : \A k \in Nat : Starts(d, k)' => Starts(d, k)
        BY <2>2 DEF Starts
  <2>. QED BY <1>1, <2>1, <2>3 DEF Finishes
<1>5. CASE Break
  <2>1. /\ page' = [page EXCEPT !.conn = None] /\ toPage' = [toPage EXCEPT ![page.conn] = <<>>]
        /\ UNCHANGED <<toServer, reloads, told, wizard>>
        BY <1>5 DEF Break, wizVars
  <2>2. page'.status = page.status /\ page'.cancel = page.cancel
        BY <1>0, <2>1
  <2>3. \A d \in Conns : toPage'[d] \in {toPage[d], <<>>}
        BY <1>0, <2>1 DEF PageTypes
  <2>4. \A d \in Conns : \A k \in Nat : Finishes(d, k)' => Finishes(d, k)
        BY <2>3 DEF Finishes
  <2>. QED BY <1>1, <2>1, <2>2, <2>4 DEF Starts
<1>6. CASE Reload
      BY <1>0, <1>6 DEF Reload, CycleInv
<1>7. CASE Receive
  <2>1. reloads' = reloads
        BY <1>7 DEF Receive
  <2>. QED BY <1>7, <2>1, CycleReceive DEF CycleInv
<1>8. CASE ClickStart
  <2>1. UNCHANGED <<reloads, told, wizard>> /\ page' = [page EXCEPT !.status = "running"]
        BY <1>8 DEF ClickStart, wizVars
  <2>2. page'.cancel = page.cancel /\ Under' = Under
        BY <1>0, <2>1 DEF Under
  <2>. QED BY <1>8, <2>1, <2>2, CycleStart DEF CycleInv
<1>9. ASSUME NEW m \in ToServer, PageSends(m), m.type # "start",
             UNCHANGED <<toPage, reloads, told, wizard>>,
             page'.status = page.status, page'.cancel = page.cancel
      PROVE  CycleInv'
  <2>1. \A d \in Conns : \A k \in Nat : Starts(d, k)' => Starts(d, k)
        BY <1>0, <1>9, StartsSent
  <2>. QED BY <1>1, <1>9, <2>1 DEF Finishes
<1>10. CASE ClickCancel
  <2>1. Message("cancel", None) \in ToServer /\ Message("cancel", None).type # "start"
        BY DEF ToServer, Message
  <2>. QED BY <1>9, <1>10, <2>1 DEF ClickCancel, pageVars, wizVars
<1>11. CASE Respond
  <2> DEFINE m == Message("answer", page.shown)
  <2>1. /\ page.shown # None /\ PageSends(m) /\ page' = [page EXCEPT !.shown = None]
        /\ UNCHANGED <<toPage, reloads, told, wizard>>
        BY <1>11 DEF Respond, wizVars
  <2>2. m \in ToServer /\ m.type # "start"
        BY <1>0, <2>1 DEF ToServer, Message
  <2>3. page'.status = page.status /\ page'.cancel = page.cancel
        BY <1>0, <2>1
  <2> HIDE DEF m
  <2>. QED BY <1>9, <2>1, <2>2, <2>3
<1>12. ASSUME NEW c \in Conns, Dispatch(c) PROVE CycleInv'
  <2>1. reloads' = reloads
        BY <1>12 DEF Dispatch, pageVars
  <2>. QED BY <1>12, <2>1, CycleDispatch DEF CycleInv
<1>13. ASSUME NEW r \in Runs, WizardStep(r) PROVE CycleInv'
  <2>1. reloads' = reloads
        BY <1>13 DEF WizardStep, Ask, GoOn, Return, SayFinished, pageVars
  <2>. QED BY <1>13, <2>1, CycleWizard DEF CycleInv
<1>14. CASE UNCHANGED gvars
      BY <1>1, <1>14 DEF gvars, pageVars, wizVars, Starts, Finishes
<1>. QED BY <1>2, <1>3, <1>4, <1>5, <1>6, <1>7, <1>8, <1>10, <1>11, <1>12, <1>13, <1>14 DEF GuiNext

-----------------------------------------------------------------------------
LEMMA PageInit == ASSUME GuiInit PROVE PageBase /\ HeardInv /\ Told /\ CycleInv
<1>1. PageBase
      BY InitHolds, TypesInit DEF PageBase
<1>2. /\ toPage = [c \in Conns |-> <<>>] /\ toServer = [c \in Conns |-> <<>>] /\ told = None
      /\ wizRuns = 0 /\ wizard = [r \in Runs |-> "none"] /\ heard = FALSE /\ page = NewPage
      BY DEF GuiInit
<1>3. Told
      BY <1>2, GuiBounds DEF Told, None
<1>4. ~AStart /\ ~AnEnd
      BY <1>2 DEF AStart, AnEnd, Starts, Finishes
<1>5. Live = {} /\ Under = {}
      BY <1>2 DEF Live, Under
<1>6. OneCycle
      BY <1>4, <1>5 DEF OneCycle, AStart, AnEnd
<1>. QED BY <1>1, <1>2, <1>3, <1>5, <1>6 DEF HeardInv, CycleInv

LEMMA AlwaysInStep == GuiSpec => [](PageBase /\ HeardInv /\ Told /\ CycleInv)
<1>1. PageBase /\ HeardInv /\ Told /\ CycleInv /\ [GuiNext]_gvars
        => (PageBase /\ HeardInv /\ Told /\ CycleInv)'
      BY BaseNext, HeardNext, ToldNext, CycleNext
<1>. QED BY <1>1, PageInit, PTL DEF GuiSpec

\* The Hub, the prompter and the page stay in step, however connections break,
\* are replaced and cleaned up (ServeWS), the page is reloaded, and prompts and
\* ends are said outside the locks: answers reach the prompt they were given to,
\* a prompt whose connection holds is not lost, and a page that was never
\* reloaded can cancel a wizard it was told of for as long as that one runs.
THEOREM PageStaysInStep == GuiSpec => []PageInv
<1>1. ASSUME PageBase, HeardInv PROVE PromptIsNotLost
  <2>1. SUFFICES ASSUME NEW r \in Runs, wizard[r] = "waiting", heard
                 PROVE  LET i == prompted[r] IN
                          \/ page.shown = i \/ reply[i] = i
                          \/ page.conn # None /\ Contains(toPage[page.conn], Message("prompt", i))
                          \/ \E c \in Conns : Contains(toServer[c], Message("answer", i))
        BY DEF PromptIsNotLost
  <2>2. prompted[r] = prompts /\ page.conn # None /\ Kept(prompts)
        BY <1>1, <2>1 DEF PageBase, Asked, HeardInv
  <2>3. page.conn \in Conns
        BY <1>1, <2>2 DEF PageBase, PageTypes, GuiTypeOK
  <2>4. OnItsWay(prompts) => Contains(toPage[page.conn], Message("prompt", prompts))
        BY DEF OnItsWay, Contains
  <2>5. GoesBack(prompts) => Contains(toServer[page.conn], Message("answer", prompts))
        BY DEF GoesBack, Contains
  <2>. QED BY <2>2, <2>3, <2>4, <2>5 DEF Kept, Shown
<1>2. CycleInv => AlwaysAWayOut
      BY DEF CycleInv, AlwaysAWayOut
<1>3. PageBase => GuiTypeOK /\ AnswersFit
      BY DEF PageBase, PageTypes, GuiInv
<1>4. PageBase /\ HeardInv /\ Told /\ CycleInv => PageInv
      BY <1>1, <1>2, <1>3 DEF PageInv
<1>. QED BY <1>4, AlwaysInStep, PTL

-----------------------------------------------------------------------------
(* The wizard's phases: what is read when a phase runs was made, step by    *)
(* step, from the extract the state names.                                  *)

\* Where the wizard is tells the phase it is in.
InPlace ==
  /\ wizardAt \in WizardPhaseNames => current = wizardAt
  /\ wizardAt \in {"extracting", "retry extract?"} => current = "extract"
  /\ wizardAt \in {"orgs written", "structured"} => current = "structure"
  /\ wizardAt \in {"migrating", "retry migrate?"} => current = "migrate"
  /\ wizardAt \in {"phase", "restart?"} => current \in WizardPhaseNames
  /\ wizardAt = "orgs written" => structured.id < MaxStructures
  /\ wizardAt = "resume?" => wizardState = savedState /\ savedState.phase # "init"
  /\ wizardAt = "new migration?" => wizardState.phase = "complete"

\* What the phases before the k-th leave for extract e.
Ready(k, e) ==
  /\ k > 1 => newest = [id |-> e, whole |-> TRUE]
  /\ k > 2 => structured.of = e
  /\ k > 4 => mappings = structured.id

\* The phase at hand, and the one that is saved unless an earlier one runs again,
\* find their inputs.
Sound ==
  /\ wizardAt \in AtWork \union {"restart?"} =>
       /\ Ready(PhaseIndex(current), wizardState.extract)
       /\ \/ wizardState.phase = current
          \/ current = "extract" /\ wizardState.phase \in {"init", "complete"}
  /\ wizardAt = "structured" => structured.of = wizardState.extract
  /\ ~GoingBack /\ savedState.phase # "complete" =>
       Ready(PhaseIndex(savedState.phase), savedState.extract)

\* A row differs from the user's last word only while it is to be asked for again.
WordsKept ==
  wizardAt = "org_mapping" =>
    \A o \in OrgRows : \/ orgs[o] = said[o]
                       \/ o >= question /\ said[o] = "none" /\ orgs[o] = ""

PhasesInv == WizardTypeOK /\ InPlace /\ (~killedBack => Sound) /\ WordsKept

-----------------------------------------------------------------------------

LEMMA PhaseNames ==
  WizardPhaseNames = {"extract", "structure", "org_mapping", "mappings", "validate", "migrate"}
<1>1. DOMAIN PhaseSequence = 1 .. 6
      BY DEF PhaseSequence
<1>2. 1 .. 6 = {1, 2, 3, 4, 5, 6}
      OBVIOUS
<1>. QED BY <1>1, <1>2 DEF WizardPhaseNames, PhaseSequence

LEMMA PhaseOrder ==
  /\ PhaseIndex("init") = 0 /\ PhaseIndex("extract") = 1 /\ PhaseIndex("structure") = 2
  /\ PhaseIndex("org_mapping") = 3 /\ PhaseIndex("mappings") = 4 /\ PhaseIndex("validate") = 5
  /\ PhaseIndex("migrate") = 6 /\ PhaseIndex("complete") = 7
<1>1. /\ DOMAIN PhaseSequence = 1 .. 6 /\ Len(PhaseSequence) = 6
      /\ PhaseSequence[1] = "extract" /\ PhaseSequence[2] = "structure"
      /\ PhaseSequence[3] = "org_mapping" /\ PhaseSequence[4] = "mappings"
      /\ PhaseSequence[5] = "validate" /\ PhaseSequence[6] = "migrate"
      BY DEF PhaseSequence
<1>2. ASSUME NEW p, NEW k \in 1 .. 6, p \notin {"init", "complete"},
          PhaseSequence[k] = p PROVE PhaseIndex(p) = k
  <2>1. PhaseIndex(p) = CHOOSE j \in DOMAIN PhaseSequence : PhaseSequence[j] = p
        BY <1>2 DEF PhaseIndex
  <2>2. \A j \in DOMAIN PhaseSequence : PhaseSequence[j] = p => j = k
        BY <1>1, <1>2, SMT
  <2>. QED BY <1>1, <1>2, <2>1, <2>2
<1>3. PhaseIndex("init") = 0 /\ PhaseIndex("complete") = 7
      BY <1>1 DEF PhaseIndex
<1>. QED BY <1>1, <1>2, <1>3, SMT

LEMMA PhaseAfter ==
  /\ NextPhase("extract") = "structure" /\ NextPhase("structure") = "org_mapping"
  /\ NextPhase("org_mapping") = "mappings" /\ NextPhase("mappings") = "validate"
  /\ NextPhase("validate") = "migrate" /\ NextPhase("migrate") = "complete"
<1>1. /\ PhaseSequence[2] = "structure" /\ PhaseSequence[3] = "org_mapping"
      /\ PhaseSequence[4] = "mappings" /\ PhaseSequence[5] = "validate"
      /\ PhaseSequence[6] = "migrate"
      BY DEF PhaseSequence
<1>. QED BY <1>1, PhaseOrder DEF NextPhase

States == [phase : WizardPhaseNames \union {"init", "complete"}, extract : 0 .. MaxWizardExtracts]

\* A phase that is done: what is saved is what is in memory.
LEMMA Advanced ==
    ASSUME NEW s \in States, current \in WizardPhaseNames, AdvancePhase(s)
    PROVE  /\ wizardState' \in States /\ savedState' = wizardState'
           /\ wizardState'.phase = current' /\ wizardState'.extract = s.extract
           /\ PhaseIndex(current') = PhaseIndex(current) + 1
           /\ \/ current' = "complete" /\ wizardAt' = "off"
              \/ current' \in WizardPhaseNames /\ wizardAt' = "phase"
<1>1. /\ NextPhase(current) \in (WizardPhaseNames \union {"complete"}) \ {"init"}
      /\ PhaseIndex(NextPhase(current)) = PhaseIndex(current) + 1
      BY PhaseNames, PhaseOrder, PhaseAfter
<1>2. /\ wizardState' = [s EXCEPT !.phase = NextPhase(current)] /\ savedState' = wizardState'
      /\ current' = NextPhase(current)
      /\ wizardAt' = IF NextPhase(current) = "complete" THEN "off" ELSE "phase"
      BY DEF AdvancePhase, States
<1>3. wizardState' = [phase |-> NextPhase(current), extract |-> s.extract]
      BY <1>2 DEF States
<1>. QED BY <1>1, <1>2, <1>3 DEF States

LEMMA Bounds ==
  /\ MaxWizardExtracts \in Nat /\ MaxStructures \in Nat /\ NumOrgs \in Nat /\ NumOrgs > 0
  /\ 1 \in 1 .. NumOrgs + 1 /\ 0 \in 0 .. MaxWizardExtracts /\ 0 \in 0 .. MaxStructures
<1>1. MaxWizardExtracts \in Nat /\ MaxStructures \in Nat /\ NumOrgs \in Nat /\ NumOrgs > 0
      BY WizardAssumption
<1>2. 1 \in 1 .. NumOrgs + 1 /\ 0 \in 0 .. MaxWizardExtracts /\ 0 \in 0 .. MaxStructures
      BY <1>1
<1>. QED BY <1>1, <1>2

LEMMA IndexTyped ==
  \A p \in WizardPhaseNames \union {"init", "complete"} : PhaseIndex(p) \in 0 .. 7
BY PhaseNames, PhaseOrder

LEMMA NoRowsTyped ==
  Unmapped \in [OrgRows -> OrgCells] /\ Unmapped \in [OrgRows -> OrgCells \union {"none"}]
BY DEF Unmapped, OrgCells

LEMMA NewTyped == NewState \in States
BY Bounds DEF NewState, States

LEMMA PhasesInit == ASSUME WizardInit PROVE PhasesInv
<1>1. WizardTypeOK
  <2>1. newest \in [id : 0 .. MaxWizardExtracts, whole : BOOLEAN]
        BY Bounds DEF WizardInit
  <2>2. structured \in [id : 0 .. MaxStructures,
            of : 0 .. MaxWizardExtracts] /\ mappings \in 0 .. MaxStructures
        BY Bounds DEF WizardInit
  <2>3. wizardAt = "off" /\ current = "init" /\ question \in 1 .. NumOrgs + 1
        BY Bounds DEF WizardInit
  <2>4. savedState \in States /\ wizardState \in States
        BY NewTyped DEF WizardInit
  <2>5. /\ orgsFile \in [OrgRows -> OrgCells] /\ orgs \in [OrgRows -> OrgCells]
        /\ said \in [OrgRows -> OrgCells \union {"none"}]
        BY NoRowsTyped DEF WizardInit
  <2>6. killedBack \in BOOLEAN
        BY DEF WizardInit
  <2>. QED BY <2>1, <2>2, <2>3, <2>4, <2>5, <2>6 DEF WizardTypeOK, States
<1>2. InPlace /\ WordsKept
      BY PhaseNames DEF WizardInit, InPlace, WordsKept
<1>3. Sound
      BY PhaseNames, PhaseOrder DEF WizardInit, Sound, AtWork, NewState, Ready, GoingBack
<1>. QED BY <1>1, <1>2, <1>3 DEF PhasesInv

LEMMA OpenWizardKeeps == ASSUME PhasesInv, OpenWizard PROVE PhasesInv'
<1>0. WizardTypeOK
      BY DEF PhasesInv
<1>1. WizardTypeOK'
      BY <1>0, PhaseNames, Bounds, NewTyped, NoRowsTyped, ZenonT(40)
        DEF PhasesInv, InPlace, WizardTypeOK,
         States, AtWork, OrgCells, OpenWizard, wizardDisk, mappingVars
<1>2. InPlace'
      BY <1>0, PhaseNames, Bounds DEF PhasesInv, WizardTypeOK, InPlace, AtWork, OpenWizard,
         wizardDisk, mappingVars
<1>3. ASSUME ~killedBack' PROVE Sound'
  <2>1. ~GoingBack /\ Sound
        BY <1>3, PhaseNames DEF PhasesInv, GoingBack, AtWork, OpenWizard, wizardDisk, mappingVars
  <2>2. CASE savedState.phase = "init"
    <3>1. /\ savedState' = savedState /\ wizardState' = savedState /\ current' = "extract"
          /\ wizardAt' = "phase"
          BY <2>2 DEF OpenWizard, wizardDisk, mappingVars
    <3>. QED BY <2>2, <3>1, PhaseOrder DEF Sound, Ready
  <2>3. CASE savedState.phase # "init"
    <3>1. wizardAt' = "resume?" /\ UNCHANGED wizardDisk
          BY <2>3 DEF OpenWizard, wizardDisk, mappingVars
    <3>. QED BY <2>1, <3>1, PhaseNames DEF Sound, Ready, wizardDisk, AtWork
  <2>. QED BY <2>2, <2>3
<1>4. WordsKept'
      BY <1>0, PhaseNames, Bounds DEF PhasesInv, WizardTypeOK, WordsKept, OrgRows, OrgCells,
         OpenWizard, wizardDisk, mappingVars
<1>. QED BY <1>1, <1>2, <1>3, <1>4 DEF PhasesInv

LEMMA ResumeSessionKeeps == ASSUME PhasesInv, ResumeSession PROVE PhasesInv'
<1>0. WizardTypeOK
      BY DEF PhasesInv
<1>1. WizardTypeOK'
      BY <1>0, PhaseNames, Bounds DEF PhasesInv, InPlace, WizardTypeOK, States, AtWork, OrgCells,
         ResumeSession, wizardDisk, mappingVars, wizardCounts
<1>2. InPlace'
      BY <1>0, PhaseNames, Bounds DEF PhasesInv, WizardTypeOK, InPlace, AtWork, ResumeSession,
         wizardDisk, mappingVars, wizardCounts
<1>3. ASSUME ~killedBack' PROVE Sound'
      BY <1>0, <1>3, Bounds, PhaseNames, PhaseOrder DEF PhasesInv, WizardTypeOK, InPlace, Sound,
         Ready, GoingBack, AtWork, ResumeSession, wizardDisk, mappingVars, wizardCounts
<1>4. WordsKept'
      BY <1>0, PhaseNames, Bounds DEF PhasesInv, WizardTypeOK, WordsKept, OrgRows, OrgCells,
         ResumeSession, wizardDisk, mappingVars, wizardCounts
<1>. QED BY <1>1, <1>2, <1>3, <1>4 DEF PhasesInv

LEMMA StartNewSessionKeeps == ASSUME PhasesInv, StartNewSession PROVE PhasesInv'
<1>0. WizardTypeOK
      BY DEF PhasesInv
<1>1. WizardTypeOK'
      BY <1>0, PhaseNames, Bounds, NewTyped DEF PhasesInv, InPlace, WizardTypeOK, States, AtWork,
         OrgCells, StartNewSession, mappingVars, wizardCounts
<1>2. InPlace'
      BY <1>0, PhaseNames, Bounds DEF PhasesInv, WizardTypeOK, InPlace, AtWork, NewState,
         StartNewSession, mappingVars, wizardCounts
<1>3. ASSUME ~killedBack' PROVE Sound'
      BY <1>0, <1>3, Bounds, PhaseNames, PhaseOrder DEF PhasesInv, WizardTypeOK, InPlace, Sound,
         Ready, GoingBack, AtWork, NewState, StartNewSession, mappingVars, wizardCounts
<1>4. WordsKept'
      BY <1>0, PhaseNames, Bounds DEF PhasesInv, WizardTypeOK, WordsKept, OrgRows, OrgCells,
         StartNewSession, mappingVars, wizardCounts
<1>. QED BY <1>1, <1>2, <1>3, <1>4 DEF PhasesInv

LEMMA StartNewMigrationKeeps == ASSUME PhasesInv, StartNewMigration PROVE PhasesInv'
<1>0. WizardTypeOK
      BY DEF PhasesInv
<1>1. WizardTypeOK'
      BY <1>0, PhaseNames, Bounds, NewTyped, NoRowsTyped, ZenonT(40)
        DEF PhasesInv, InPlace, WizardTypeOK,
         States, AtWork, OrgCells, StartNewMigration, mappingVars, wizardCounts
<1>2. InPlace'
      BY <1>0, PhaseNames, Bounds DEF PhasesInv, WizardTypeOK, InPlace, AtWork, NewState,
         StartNewMigration, mappingVars, wizardCounts
<1>3. ASSUME ~killedBack' PROVE Sound'
  <2>1. /\ savedState'.phase = "init" /\ current' = "extract" /\ wizardAt' = "phase"
        /\ wizardState'.phase = "complete"
        BY DEF PhasesInv, InPlace, NewState, StartNewMigration, mappingVars, wizardCounts
  <2>. QED BY <2>1, PhaseOrder DEF Sound, Ready
<1>4. WordsKept'
      BY <1>0, PhaseNames, Bounds DEF PhasesInv, WizardTypeOK, WordsKept, OrgRows, OrgCells,
         StartNewMigration, mappingVars, wizardCounts
<1>. QED BY <1>1, <1>2, <1>3, <1>4 DEF PhasesInv

LEMMA DeclineKeeps == ASSUME PhasesInv, Decline PROVE PhasesInv'
<1>0. WizardTypeOK
      BY DEF PhasesInv
<1>1. WizardTypeOK'
      BY <1>0, PhaseNames, Bounds DEF PhasesInv, InPlace, WizardTypeOK, States, AtWork, OrgCells,
         Decline, wizardDisk, mappingVars, wizardCounts
<1>2. InPlace'
      BY <1>0, PhaseNames, Bounds DEF PhasesInv, WizardTypeOK, InPlace, AtWork, Decline,
         wizardDisk, mappingVars, wizardCounts
<1>3. ASSUME ~killedBack' PROVE Sound'
      BY <1>0, <1>3, Bounds, PhaseNames, PhaseOrder DEF PhasesInv, WizardTypeOK, InPlace, Sound,
         Ready, GoingBack, AtWork, Decline, wizardDisk, mappingVars, wizardCounts
<1>4. WordsKept'
      BY <1>0, PhaseNames, Bounds DEF PhasesInv, WizardTypeOK, WordsKept, OrgRows, OrgCells,
         Decline, wizardDisk, mappingVars, wizardCounts
<1>. QED BY <1>1, <1>2, <1>3, <1>4 DEF PhasesInv

LEMMA EnterPhaseKeeps == ASSUME PhasesInv, EnterPhase PROVE PhasesInv'
<1>0. WizardTypeOK
      BY DEF PhasesInv
<1>1. WizardTypeOK'
  <2>1. savedState' \in States /\ wizardState' \in States
        BY <1>0, NewTyped DEF WizardTypeOK, States, PhaseFails, EnterPhase, mappingVars,
           wizardCounts
  <2>2. /\ newest' \in [id : 0 .. MaxWizardExtracts, whole : BOOLEAN]
        /\ structured' \in [id : 0 .. MaxStructures, of : 0 .. MaxWizardExtracts]
        /\ mappings' \in 0 .. MaxStructures
        BY <1>0, Bounds DEF WizardTypeOK, PhasesInv, InPlace, EnterPhase, mappingVars, wizardCounts
  <2>3. /\ orgsFile' \in [OrgRows -> OrgCells] /\ orgs' \in [OrgRows -> OrgCells]
        /\ said' \in [OrgRows -> OrgCells \union {"none"}]
        BY <1>0, NoRowsTyped, ZenonT(40)
        DEF WizardTypeOK, OrgCells, EnterPhase, mappingVars, wizardCounts
  <2>4. /\ wizardAt' \in AtWork \union {"off", "resume?", "new migration?", "restart?"}
        /\ current' \in WizardPhaseNames \union {"init", "complete"}
        /\ (wizardAt' = "phase" => current' \in WizardPhaseNames)
        BY <1>0, PhaseNames DEF PhasesInv, WizardTypeOK, InPlace, PhaseFails, AtWork, States,
           EnterPhase, mappingVars, wizardCounts
  <2>5. question' \in 1 .. NumOrgs + 1
        BY <1>0, Bounds DEF WizardTypeOK, EnterPhase, mappingVars, wizardCounts
  <2>6. killedBack' \in BOOLEAN
        BY <1>0 DEF WizardTypeOK, EnterPhase, mappingVars, wizardCounts
  <2>. QED BY <2>1, <2>2, <2>3, <2>4, <2>5, <2>6 DEF WizardTypeOK, States
<1>2. InPlace'
      BY <1>0, PhaseNames, Bounds DEF PhasesInv, WizardTypeOK, InPlace, AtWork, PhaseFails,
         EnterPhase, mappingVars, wizardCounts
<1>3. ASSUME ~killedBack' PROVE Sound'
      BY <1>0, <1>3, Bounds, PhaseNames, PhaseOrder DEF PhasesInv, WizardTypeOK, InPlace, Sound,
         Ready, GoingBack, AtWork, PhaseFails, EnterPhase, mappingVars, wizardCounts
<1>4. WordsKept'
      BY <1>0, PhaseNames, Bounds DEF PhasesInv, WizardTypeOK, WordsKept, OrgRows, OrgCells,
         PhaseFails, EnterPhase, mappingVars, wizardCounts
<1>. QED BY <1>1, <1>2, <1>3, <1>4 DEF PhasesInv

LEMMA InterruptWizardKeeps == ASSUME PhasesInv, InterruptWizard PROVE PhasesInv'
<1>0. WizardTypeOK
      BY DEF PhasesInv
<1>1. WizardTypeOK'
      BY <1>0, PhaseNames, Bounds, NewTyped, NoRowsTyped DEF PhasesInv, InPlace, WizardTypeOK,
         States, AtWork, OrgCells, InterruptWizard, mappingVars, wizardCounts
<1>2. InPlace'
      BY <1>0, PhaseNames, Bounds DEF PhasesInv, WizardTypeOK, InPlace, AtWork, InterruptWizard,
         mappingVars, wizardCounts
<1>3. ASSUME ~killedBack' PROVE Sound'
      BY <1>0, <1>3, Bounds, PhaseNames, PhaseOrder DEF PhasesInv, WizardTypeOK, InPlace, Sound,
         Ready, GoingBack, AtWork, InterruptWizard, mappingVars, wizardCounts
<1>4. WordsKept'
      BY <1>0, PhaseNames, Bounds DEF PhasesInv, WizardTypeOK, WordsKept, OrgRows, OrgCells,
         InterruptWizard, mappingVars, wizardCounts
<1>. QED BY <1>1, <1>2, <1>3, <1>4 DEF PhasesInv

LEMMA FailPhaseKeeps == ASSUME PhasesInv, FailPhase PROVE PhasesInv'
<1>0. WizardTypeOK
      BY DEF PhasesInv
<1>1. WizardTypeOK'
      BY <1>0, PhaseNames, Bounds, NoRowsTyped, ZenonT(40)
        DEF PhasesInv, InPlace, WizardTypeOK, States,
         AtWork, OrgCells, PhaseFails, ForgetRows, FailPhase, wizardCounts
<1>2. InPlace'
      BY <1>0, PhaseNames, Bounds DEF PhasesInv, WizardTypeOK, InPlace, AtWork, PhaseFails,
         ForgetRows, FailPhase, wizardCounts
<1>3. ASSUME ~killedBack' PROVE Sound'
  <2>1. /\ wizardAt' = "restart?" /\ savedState' = wizardState
        /\ UNCHANGED <<newest, structured, mappings, wizardState, current>>
        BY DEF PhaseFails, FailPhase, wizardCounts
  <2>2. wizardAt \in AtWork
        BY PhaseNames DEF AtWork, FailPhase
  <2>3. /\ Ready(PhaseIndex(current), wizardState.extract)
        /\ \/ wizardState.phase = current
           \/ current = "extract" /\ wizardState.phase \in {"init", "complete"}
        BY <1>3, <2>2 DEF PhasesInv, Sound, FailPhase, wizardCounts
  <2>4. wizardState.phase # "complete" => Ready(PhaseIndex(wizardState.phase), wizardState.extract)
        BY <2>3, PhaseOrder DEF Ready
  <2>. QED BY <2>1, <2>3, <2>4 DEF Sound, Ready
<1>4. WordsKept'
      BY <1>0, PhaseNames, Bounds DEF PhasesInv, WizardTypeOK, WordsKept, OrgRows, OrgCells,
         PhaseFails, ForgetRows, Unmapped, FailPhase, wizardCounts
<1>. QED BY <1>1, <1>2, <1>3, <1>4 DEF PhasesInv

LEMMA BeginExtractKeeps == ASSUME PhasesInv, BeginExtract PROVE PhasesInv'
<1>0. WizardTypeOK
      BY DEF PhasesInv
<1>1. WizardTypeOK'
  <2>1. savedState' \in States /\ wizardState' \in States
        BY <1>0 DEF WizardTypeOK, States, BeginExtract, mappingVars, wizardCounts
  <2>2. /\ newest' \in [id : 0 .. MaxWizardExtracts, whole : BOOLEAN]
        /\ structured' \in [id : 0 .. MaxStructures, of : 0 .. MaxWizardExtracts]
        /\ mappings' \in 0 .. MaxStructures
        <3>1. newest \in [id : 0 .. MaxWizardExtracts,
                  whole : BOOLEAN] /\ newest.id < MaxWizardExtracts
              /\ newest' = [id |-> newest.id + 1, whole |-> FALSE] /\ UNCHANGED <<structured,
                        mappings>>
              BY <1>0 DEF WizardTypeOK, BeginExtract, mappingVars, wizardCounts
        <3>2. newest.id \in 0 .. MaxWizardExtracts
              BY <3>1
        <3>3. newest.id + 1 \in 0 .. MaxWizardExtracts
              BY <3>1, <3>2, Bounds
        <3>4. newest' \in [id : 0 .. MaxWizardExtracts, whole : BOOLEAN]
              BY <3>1, <3>3
        <3>. QED BY <1>0, <3>1, <3>4 DEF WizardTypeOK
  <2>3. /\ orgsFile' \in [OrgRows -> OrgCells] /\ orgs' \in [OrgRows -> OrgCells]
        /\ said' \in [OrgRows -> OrgCells \union {"none"}]
        BY <1>0 DEF WizardTypeOK, OrgCells, BeginExtract, mappingVars, wizardCounts
  <2>4. /\ wizardAt' \in AtWork \union {"off", "resume?", "new migration?", "restart?"}
        /\ current' \in WizardPhaseNames \union {"init", "complete"}
        /\ (wizardAt' = "phase" => current' \in WizardPhaseNames)
        BY <1>0, PhaseNames DEF PhasesInv, WizardTypeOK, InPlace, AtWork, States, BeginExtract,
           mappingVars, wizardCounts
  <2>5. question' \in 1 .. NumOrgs + 1
        BY <1>0, Bounds DEF WizardTypeOK, BeginExtract, mappingVars, wizardCounts
  <2>6. killedBack' \in BOOLEAN
        BY <1>0 DEF WizardTypeOK, BeginExtract, mappingVars, wizardCounts
  <2>. QED BY <2>1, <2>2, <2>3, <2>4, <2>5, <2>6 DEF WizardTypeOK, States
<1>2. InPlace'
      BY <1>0, PhaseNames, Bounds DEF PhasesInv, WizardTypeOK, InPlace, AtWork, BeginExtract,
         mappingVars, wizardCounts
<1>3. ASSUME ~killedBack' PROVE Sound'
  <2>1. current = "extract" /\ wizardAt \in AtWork /\ wizardAt' = "extracting" /\ Sound
        /\ UNCHANGED <<savedState, wizardState, current>>
        BY <1>3, PhaseNames DEF PhasesInv, InPlace, AtWork, BeginExtract, mappingVars, wizardCounts
  <2>2. savedState.phase \in WizardPhaseNames \union {"init", "complete"}
        BY <1>0 DEF WizardTypeOK
  <2>3. ~GoingBack' => ~ (PhaseIndex(savedState.phase) > 1)
        BY <2>1, <2>2, IndexTyped, PhaseOrder DEF GoingBack, AtWork
  <2>4. PhaseIndex(savedState.phase) \in 0 .. 7
        BY <2>2, IndexTyped
  <2>. QED BY <2>1, <2>3, <2>4, PhaseOrder DEF Sound, Ready
<1>4. WordsKept'
      BY <1>0, PhaseNames, Bounds DEF PhasesInv, WizardTypeOK, WordsKept, OrgRows, OrgCells,
         BeginExtract, mappingVars, wizardCounts
<1>. QED BY <1>1, <1>2, <1>3, <1>4 DEF PhasesInv

LEMMA ExportOrganizationsKeeps == ASSUME PhasesInv, ExportOrganizations PROVE PhasesInv'
<1>0. WizardTypeOK
      BY DEF PhasesInv
<1>1. WizardTypeOK'
      BY <1>0, PhaseNames, Bounds, NoRowsTyped DEF PhasesInv, InPlace, WizardTypeOK, States,
         AtWork, OrgCells, ExportOrganizations, mappingVars, wizardCounts
<1>2. InPlace'
      BY <1>0, PhaseNames, Bounds DEF PhasesInv, WizardTypeOK, InPlace, AtWork,
         ExportOrganizations, mappingVars, wizardCounts
<1>3. ASSUME ~killedBack' PROVE Sound'
      BY <1>0, <1>3, Bounds, PhaseNames, PhaseOrder DEF PhasesInv, WizardTypeOK, InPlace, Sound,
         Ready, GoingBack, AtWork, ExportOrganizations, mappingVars, wizardCounts
<1>4. WordsKept'
      BY <1>0, PhaseNames, Bounds DEF PhasesInv, WizardTypeOK, WordsKept, OrgRows, OrgCells,
         Unmapped, ExportOrganizations, mappingVars, wizardCounts
<1>. QED BY <1>1, <1>2, <1>3, <1>4 DEF PhasesInv

LEMMA ExportProjectsKeeps == ASSUME PhasesInv, ExportProjects PROVE PhasesInv'
<1>0. WizardTypeOK
      BY DEF PhasesInv
<1>1. WizardTypeOK'
  <2>1. savedState' \in States /\ wizardState' \in States
        BY <1>0 DEF WizardTypeOK, States, ExportProjects, mappingVars, wizardCounts
  <2>2. /\ newest' \in [id : 0 .. MaxWizardExtracts, whole : BOOLEAN]
        /\ structured' \in [id : 0 .. MaxStructures, of : 0 .. MaxWizardExtracts]
        /\ mappings' \in 0 .. MaxStructures
        <3>1. /\ structured' = [id |-> structured.id + 1, of |-> newest.id]
              /\ structured.id < MaxStructures /\ UNCHANGED <<newest, mappings>>
              BY DEF PhasesInv, InPlace, ExportProjects, mappingVars, wizardCounts
        <3>2. structured.id \in 0 .. MaxStructures /\ newest.id \in 0 .. MaxWizardExtracts
              BY <1>0 DEF WizardTypeOK
        <3>3. structured.id + 1 \in 0 .. MaxStructures
              BY <3>1, <3>2, Bounds
        <3>4. structured' \in [id : 0 .. MaxStructures, of : 0 .. MaxWizardExtracts]
              BY <3>1, <3>2, <3>3
        <3>. QED BY <1>0, <3>1, <3>4 DEF WizardTypeOK
  <2>3. /\ orgsFile' \in [OrgRows -> OrgCells] /\ orgs' \in [OrgRows -> OrgCells]
        /\ said' \in [OrgRows -> OrgCells \union {"none"}]
        BY <1>0 DEF WizardTypeOK, OrgCells, ExportProjects, mappingVars, wizardCounts
  <2>4. /\ wizardAt' \in AtWork \union {"off", "resume?", "new migration?", "restart?"}
        /\ current' \in WizardPhaseNames \union {"init", "complete"}
        /\ (wizardAt' = "phase" => current' \in WizardPhaseNames)
        BY <1>0, PhaseNames DEF PhasesInv, WizardTypeOK, InPlace, AtWork, States, ExportProjects,
           mappingVars, wizardCounts
  <2>5. question' \in 1 .. NumOrgs + 1
        BY <1>0, Bounds DEF WizardTypeOK, ExportProjects, mappingVars, wizardCounts
  <2>6. killedBack' \in BOOLEAN
        BY <1>0 DEF WizardTypeOK, ExportProjects, mappingVars, wizardCounts
  <2>. QED BY <2>1, <2>2, <2>3, <2>4, <2>5, <2>6 DEF WizardTypeOK, States
<1>2. InPlace'
      BY <1>0, PhaseNames, Bounds DEF PhasesInv, WizardTypeOK, InPlace, AtWork, ExportProjects,
         mappingVars, wizardCounts
<1>3. ASSUME ~killedBack' PROVE Sound'
  <2>1. current = "structure" /\ wizardAt \in AtWork /\ wizardAt' = "structured" /\ Sound
        /\ UNCHANGED <<savedState, newest, wizardState, current, mappings>>
        /\ structured'.of = newest.id
        BY <1>3, PhaseNames DEF PhasesInv, InPlace, AtWork, ExportProjects, mappingVars,
           wizardCounts
  <2>2. savedState.phase \in WizardPhaseNames \union {"init", "complete"}
        BY <1>0 DEF WizardTypeOK
  <2>3. PhaseIndex(savedState.phase) \in 0 .. 7
        BY <2>2, IndexTyped
  <2>4. ~GoingBack' => ~ (PhaseIndex(savedState.phase) > 2) /\ ~GoingBack
        BY <2>1, <2>3, PhaseOrder DEF GoingBack, AtWork
  <2>5. Ready(2, wizardState.extract) /\ wizardState.phase = "structure"
        BY <2>1, PhaseOrder DEF Sound
  <2>6. newest.id = wizardState.extract
        BY <2>5 DEF Ready
  <2>7. ~GoingBack' /\ savedState.phase # "complete" =>
          Ready(PhaseIndex(savedState.phase), savedState.extract)'
        BY <2>1, <2>3, <2>4 DEF Sound, Ready
  <2>8. Ready(PhaseIndex(current), wizardState.extract)'
        BY <2>1, <2>5, PhaseOrder DEF Ready
  <2>. QED BY <2>1, <2>5, <2>6, <2>7, <2>8 DEF Sound
<1>4. WordsKept'
      BY <1>0, PhaseNames, Bounds DEF PhasesInv, WizardTypeOK, WordsKept, OrgRows, OrgCells,
         ExportProjects, mappingVars, wizardCounts
<1>. QED BY <1>1, <1>2, <1>3, <1>4 DEF PhasesInv

LEMMA KeepRowKeeps == ASSUME PhasesInv, KeepRow PROVE PhasesInv'
<1>0. WizardTypeOK
      BY DEF PhasesInv
<1>1. WizardTypeOK'
  <2>1. savedState' \in States /\ wizardState' \in States
        BY <1>0 DEF WizardTypeOK, States, KeepRow, wizardDisk, wizardCounts
  <2>2. /\ newest' \in [id : 0 .. MaxWizardExtracts, whole : BOOLEAN]
        /\ structured' \in [id : 0 .. MaxStructures, of : 0 .. MaxWizardExtracts]
        /\ mappings' \in 0 .. MaxStructures
        BY <1>0, Bounds DEF WizardTypeOK, PhasesInv, InPlace, KeepRow, wizardDisk, wizardCounts
  <2>3. /\ orgsFile' \in [OrgRows -> OrgCells] /\ orgs' \in [OrgRows -> OrgCells]
        /\ said' \in [OrgRows -> OrgCells \union {"none"}]
        BY <1>0 DEF WizardTypeOK, OrgCells, KeepRow, wizardDisk, wizardCounts
  <2>4. /\ wizardAt' \in AtWork \union {"off", "resume?", "new migration?", "restart?"}
        /\ current' \in WizardPhaseNames \union {"init", "complete"}
        /\ (wizardAt' = "phase" => current' \in WizardPhaseNames)
        BY <1>0, PhaseNames DEF PhasesInv, WizardTypeOK, InPlace, AtWork, States, KeepRow,
           wizardDisk, wizardCounts
  <2>5. question' \in 1 .. NumOrgs + 1
        BY <1>0, Bounds DEF WizardTypeOK, KeepRow, wizardDisk, wizardCounts
  <2>6. killedBack' \in BOOLEAN
        BY <1>0 DEF WizardTypeOK, KeepRow, wizardDisk, wizardCounts
  <2>. QED BY <2>1, <2>2, <2>3, <2>4, <2>5, <2>6 DEF WizardTypeOK, States
<1>2. InPlace'
      BY <1>0, PhaseNames, Bounds DEF PhasesInv, WizardTypeOK, InPlace, AtWork, KeepRow,
         wizardDisk, wizardCounts
<1>3. ASSUME ~killedBack' PROVE Sound'
      BY <1>0, <1>3, Bounds, PhaseNames, PhaseOrder DEF PhasesInv, WizardTypeOK, InPlace, Sound,
         Ready, GoingBack, AtWork, KeepRow, wizardDisk, wizardCounts
<1>4. WordsKept'
  <2>1. /\ wizardAt = "org_mapping" /\ orgs[question] # "" /\ question' = question + 1
        /\ UNCHANGED <<orgs, said, wizardAt>>
        BY DEF Mapped, KeepRow, wizardDisk, wizardCounts
  <2>2. question \in 1 .. NumOrgs + 1 /\ orgs \in [OrgRows -> OrgCells]
        /\ said \in [OrgRows -> OrgCells \union {"none"}]
        BY <1>0 DEF WizardTypeOK
  <2>5. question \in Int /\ \A o \in OrgRows : o \in Int
        BY <2>2, Bounds DEF OrgRows
  <2>3. ASSUME NEW o \in OrgRows PROVE orgs[o] = said[o] \/ (o >= question + 1 /\ said[o] = "none" /\ orgs[o] = "")
    <3>1. orgs[o] = said[o] \/ (o >= question /\ said[o] = "none" /\ orgs[o] = "")
          BY <2>1 DEF PhasesInv, WordsKept
    <3>2. o # question \/ orgs[o] # ""
          BY <2>1
    <3>3. o >= question /\ o # question => o >= question + 1
          BY <2>5
    <3>. QED BY <3>1, <3>2, <3>3
  <2>. QED BY <2>1, <2>3 DEF WordsKept
<1>. QED BY <1>1, <1>2, <1>3, <1>4 DEF PhasesInv

LEMMA GoBackKeeps == ASSUME PhasesInv, GoBack PROVE PhasesInv'
<1>0. WizardTypeOK
      BY DEF PhasesInv
<1>1. WizardTypeOK'
  <2>1. savedState' \in States /\ wizardState' \in States
        BY <1>0 DEF WizardTypeOK, States, GoBack, wizardDisk
  <2>2. /\ newest' \in [id : 0 .. MaxWizardExtracts, whole : BOOLEAN]
        /\ structured' \in [id : 0 .. MaxStructures, of : 0 .. MaxWizardExtracts]
        /\ mappings' \in 0 .. MaxStructures
        BY <1>0, Bounds DEF WizardTypeOK, PhasesInv, InPlace, GoBack, wizardDisk
  <2>3. /\ orgsFile' \in [OrgRows -> OrgCells] /\ orgs' \in [OrgRows -> OrgCells]
        /\ said' \in [OrgRows -> OrgCells \union {"none"}]
        BY <1>0 DEF WizardTypeOK, BackRows, OrgCells, GoBack, wizardDisk
  <2>4. /\ wizardAt' \in AtWork \union {"off", "resume?", "new migration?", "restart?"}
        /\ current' \in WizardPhaseNames \union {"init", "complete"}
        /\ (wizardAt' = "phase" => current' \in WizardPhaseNames)
        BY <1>0, PhaseNames DEF PhasesInv, WizardTypeOK, InPlace, AtWork, States, GoBack, wizardDisk
  <2>5. question' \in 1 .. NumOrgs + 1
        BY <1>0, Bounds DEF WizardTypeOK, GoBack, wizardDisk
  <2>6. killedBack' \in BOOLEAN
        BY <1>0 DEF WizardTypeOK, GoBack, wizardDisk
  <2>. QED BY <2>1, <2>2, <2>3, <2>4, <2>5, <2>6 DEF WizardTypeOK, States
<1>2. InPlace'
      BY <1>0, PhaseNames, Bounds DEF PhasesInv, WizardTypeOK, InPlace, AtWork, GoBack, wizardDisk
<1>3. ASSUME ~killedBack' PROVE Sound'
      BY <1>0, <1>3, Bounds, PhaseNames, PhaseOrder DEF PhasesInv, WizardTypeOK, InPlace, Sound,
         Ready, GoingBack, AtWork, GoBack, wizardDisk
<1>4. WordsKept'
  <2>1. /\ wizardAt = "org_mapping" /\ question' = question - 1 /\ wizardAt' = wizardAt
        /\ orgs' = [orgs EXCEPT ![question - 1] = ""]
        /\ said' = [said EXCEPT ![question - 1] = "none"]
        BY DEF BackRows, GoBack, wizardDisk
  <2>2. question \in 1 .. NumOrgs + 1 /\ orgs \in [OrgRows -> OrgCells]
        /\ said \in [OrgRows -> OrgCells \union {"none"}]
        BY <1>0 DEF WizardTypeOK
  <2>5. question \in Int /\ \A o \in OrgRows : o \in Int
        BY <2>2, Bounds DEF OrgRows
  <2>3. ASSUME NEW o \in OrgRows
        PROVE  orgs'[o] = said'[o] \/ (o >= question - 1 /\ said'[o] = "none" /\ orgs'[o] = "")
    <3>1. orgs[o] = said[o] \/ (o >= question /\ said[o] = "none" /\ orgs[o] = "")
          BY <2>1 DEF PhasesInv, WordsKept
    <3>2. CASE o = question - 1
      <4>1. orgs'[o] = "" /\ said'[o] = "none"
            BY <2>1, <2>2, <3>2
      <4>2. o >= question - 1
            BY <2>5, <3>2
      <4>. QED BY <4>1, <4>2
    <3>3. CASE o # question - 1
      <4>1. orgs'[o] = orgs[o] /\ said'[o] = said[o]
            BY <2>1, <2>2, <3>3
      <4>2. o >= question => o >= question - 1
            BY <2>5
      <4>. QED BY <3>1, <4>1, <4>2
    <3>. QED BY <3>2, <3>3
  <2>. QED BY <2>1, <2>3 DEF WordsKept
<1>. QED BY <1>1, <1>2, <1>3, <1>4 DEF PhasesInv

LEMMA BeginMigrateKeeps == ASSUME PhasesInv, BeginMigrate PROVE PhasesInv'
<1>0. WizardTypeOK
      BY DEF PhasesInv
<1>1. WizardTypeOK'
      BY <1>0, PhaseNames, Bounds DEF PhasesInv, InPlace, WizardTypeOK, States, AtWork, OrgCells,
         BeginMigrate, wizardDisk, mappingVars, wizardCounts
<1>2. InPlace'
      BY <1>0, PhaseNames, Bounds DEF PhasesInv, WizardTypeOK, InPlace, AtWork, BeginMigrate,
         wizardDisk, mappingVars, wizardCounts
<1>3. ASSUME ~killedBack' PROVE Sound'
      BY <1>0, <1>3, Bounds, PhaseNames, PhaseOrder DEF PhasesInv, WizardTypeOK, InPlace, Sound,
         Ready, GoingBack, AtWork, BeginMigrate, wizardDisk, mappingVars, wizardCounts
<1>4. WordsKept'
      BY <1>0, PhaseNames, Bounds DEF PhasesInv, WizardTypeOK, WordsKept, OrgRows, OrgCells,
         BeginMigrate, wizardDisk, mappingVars, wizardCounts
<1>. QED BY <1>1, <1>2, <1>3, <1>4 DEF PhasesInv

LEMMA LeaveWizardKeeps == ASSUME PhasesInv, LeaveWizard PROVE PhasesInv'
<1>0. WizardTypeOK
      BY DEF PhasesInv
<1>1. WizardTypeOK'
      BY <1>0, PhaseNames, Bounds DEF PhasesInv, InPlace, WizardTypeOK, States, AtWork, OrgCells,
         LeaveWizard, wizardDisk, mappingVars, wizardCounts
<1>2. InPlace'
      BY <1>0, PhaseNames, Bounds DEF PhasesInv, WizardTypeOK, InPlace, AtWork, LeaveWizard,
         wizardDisk, mappingVars, wizardCounts
<1>3. ASSUME ~killedBack' PROVE Sound'
      BY <1>0, <1>3, Bounds, PhaseNames, PhaseOrder DEF PhasesInv, WizardTypeOK, InPlace, Sound,
         Ready, GoingBack, AtWork, LeaveWizard, wizardDisk, mappingVars, wizardCounts
<1>4. WordsKept'
      BY <1>0, PhaseNames, Bounds DEF PhasesInv, WizardTypeOK, WordsKept, OrgRows, OrgCells,
         LeaveWizard, wizardDisk, mappingVars, wizardCounts
<1>. QED BY <1>1, <1>2, <1>3, <1>4 DEF PhasesInv

LEMMA KillWizardKeeps == ASSUME PhasesInv, KillWizard PROVE PhasesInv'
<1>0. WizardTypeOK
      BY DEF PhasesInv
<1>1. WizardTypeOK'
      BY <1>0, PhaseNames, Bounds, NoRowsTyped DEF PhasesInv, InPlace, WizardTypeOK, States,
         AtWork, OrgCells, ForgetRows, KillWizard, wizardDisk
<1>2. InPlace'
      BY <1>0, PhaseNames, Bounds DEF PhasesInv, WizardTypeOK, InPlace, AtWork, ForgetRows,
         KillWizard, wizardDisk
<1>3. ASSUME ~killedBack' PROVE Sound'
      BY <1>0, <1>3, Bounds, PhaseNames, PhaseOrder DEF PhasesInv, WizardTypeOK, InPlace, Sound,
         Ready, GoingBack, AtWork, KillWizard, wizardDisk
<1>4. WordsKept'
      BY <1>0, PhaseNames, Bounds DEF PhasesInv, WizardTypeOK, WordsKept, OrgRows, OrgCells,
         ForgetRows, Unmapped, KillWizard, wizardDisk
<1>. QED BY <1>1, <1>2, <1>3, <1>4 DEF PhasesInv

\* A phase that is done leaves what the phases after it need.
LEMMA AdvanceKeeps ==
    ASSUME PhasesInv, NEW s \in States, current \in WizardPhaseNames, AdvancePhase(s),
           newest' \in [id : 0 .. MaxWizardExtracts, whole : BOOLEAN],
           structured' \in [id : 0 .. MaxStructures, of : 0 .. MaxWizardExtracts],
           mappings' \in 0 .. MaxStructures,
           orgsFile' \in [OrgRows -> OrgCells], orgs' \in [OrgRows -> OrgCells],
           said' \in [OrgRows -> OrgCells \union {"none"}],
           question' \in 1 .. NumOrgs + 1, killedBack' = killedBack,
           ~killedBack => newest' = [id |-> s.extract, whole |-> TRUE],
           ~killedBack /\ PhaseIndex(current) >= 2 => structured'.of = s.extract,
           ~killedBack /\ PhaseIndex(current) >= 4 => mappings' = structured'.id
    PROVE  PhasesInv'
<1>1. /\ wizardState' \in States /\ savedState' = wizardState'
      /\ wizardState'.phase = current' /\ wizardState'.extract = s.extract
      /\ PhaseIndex(current') = PhaseIndex(current) + 1
      /\ \/ current' = "complete" /\ wizardAt' = "off"
         \/ current' \in WizardPhaseNames /\ wizardAt' = "phase"
      BY Advanced
<1>2. PhaseIndex(current) \in 0 .. 7
      BY IndexTyped
<1>3. WizardTypeOK'
  <2>1. killedBack' \in BOOLEAN
        BY DEF PhasesInv, WizardTypeOK
  <2>. QED BY <1>1, <2>1 DEF WizardTypeOK, States, AtWork
<1>4. InPlace' /\ WordsKept'
      BY <1>1, PhaseNames DEF InPlace, WordsKept
<1>5. ASSUME ~killedBack PROVE Sound'
  <2>1. Ready(PhaseIndex(current), wizardState.extract)'
        BY <1>1, <1>2, <1>5 DEF Ready
  <2>2. wizardAt' # "structured"
        BY <1>1
  <2>. QED BY <1>1, <2>1, <2>2 DEF Sound
<1>. QED BY <1>3, <1>4, <1>5 DEF PhasesInv

\* What holds where a phase is under way.
LEMMA WhereAtWork ==
    ASSUME PhasesInv
    PROVE  /\ wizardState \in States
           /\ newest \in [id : 0 .. MaxWizardExtracts, whole : BOOLEAN]
           /\ structured \in [id : 0 .. MaxStructures, of : 0 .. MaxWizardExtracts]
           /\ mappings \in 0 .. MaxStructures
           /\ orgsFile \in [OrgRows -> OrgCells] /\ orgs \in [OrgRows -> OrgCells]
           /\ said \in [OrgRows -> OrgCells \union {"none"}]
           /\ question \in 1 .. NumOrgs + 1
           /\ wizardAt \in AtWork /\ ~killedBack => Ready(PhaseIndex(current), wizardState.extract)
<1>1. WizardTypeOK /\ (~killedBack => Sound)
      BY DEF PhasesInv
<1>2. wizardAt \in AtWork /\ ~killedBack => Ready(PhaseIndex(current), wizardState.extract)
      BY <1>1 DEF Sound
<1>. QED BY <1>1, <1>2 DEF WizardTypeOK, States

LEMMA EndExtractKeeps == ASSUME PhasesInv, EndExtract PROVE PhasesInv'
<1>0. /\ current = "extract" /\ wizardAt = "extracting"
      /\ UNCHANGED <<structured, orgsFile, mappings, orgs, question, said, killedBack>>
      BY PhaseNames DEF PhasesInv, InPlace, EndExtract, mappingVars
<1>1. CASE /\ newest' = [newest EXCEPT !.whole = TRUE]
           /\ AdvancePhase([wizardState EXCEPT !.extract = newest.id])
  <2> DEFINE s == [wizardState EXCEPT !.extract = newest.id]
  <2>1. newest.id \in 0 .. MaxWizardExtracts
        BY WhereAtWork
  <2>2. s \in States /\ s.extract = newest.id
        BY <2>1, WhereAtWork DEF States
  <2>3. newest' = [id |-> newest.id, whole |-> TRUE]
        BY <1>1, WhereAtWork
  <2>4. newest' \in [id : 0 .. MaxWizardExtracts, whole : BOOLEAN]
        BY <2>1, <2>3
  <2>5. PhaseIndex(current) = 1 /\ current \in WizardPhaseNames
        BY <1>0, PhaseOrder, PhaseNames
  <2>6. AdvancePhase(s)
        BY <1>1
  <2> HIDE DEF s
  <2>. QED BY <1>0, <2>2, <2>3, <2>4, <2>5, <2>6, WhereAtWork, AdvanceKeeps
<1>2. CASE wizardAt' = "retry extract?" /\ UNCHANGED <<newest, wizardState, savedState, current>>
  <2>1. WizardTypeOK'
        BY <1>0, <1>2 DEF PhasesInv, WizardTypeOK, AtWork
  <2>2. InPlace' /\ WordsKept'
        BY <1>0, <1>2, PhaseNames DEF InPlace, WordsKept
  <2>3. ~killedBack' => Sound'
        BY <1>0, <1>2, PhaseOrder DEF PhasesInv, Sound, Ready, GoingBack, AtWork
  <2>. QED BY <2>1, <2>2, <2>3 DEF PhasesInv
<1>. QED BY <1>1, <1>2 DEF EndExtract

LEMMA EndStructureKeeps == ASSUME PhasesInv, EndStructure PROVE PhasesInv'
<1>1. /\ current = "structure" /\ current \in WizardPhaseNames /\ wizardAt \in AtWork
      /\ wizardAt = "structured" /\ AdvancePhase(wizardState)
      /\ UNCHANGED <<newest, structured, orgsFile, mappings, orgs, question, said, killedBack>>
      BY PhaseNames DEF PhasesInv, InPlace, EndStructure, AtWork, mappingVars
<1>2. PhaseIndex(current) = 2
      BY <1>1, PhaseOrder
<1>3. ~killedBack => structured.of = wizardState.extract
      BY <1>1 DEF PhasesInv, Sound
<1>4. ~killedBack => newest = [id |-> wizardState.extract, whole |-> TRUE]
      BY <1>1, <1>2, WhereAtWork DEF Ready
<1>. QED BY <1>1, <1>2, <1>3, <1>4, WhereAtWork, AdvanceKeeps

LEMMA ExportOrgsKeeps == ASSUME PhasesInv, ExportOrgs PROVE PhasesInv'
<1>1. /\ current = "org_mapping" /\ current \in WizardPhaseNames /\ wizardAt \in AtWork
      /\ AdvancePhase(wizardState) /\ orgsFile' = orgs
      /\ orgs' = Unmapped /\ said' = Unmapped /\ question' = 1
      /\ UNCHANGED <<newest, structured, mappings, killedBack>>
      BY PhaseNames DEF PhasesInv, InPlace, ExportOrgs, ForgetRows, AtWork
<1>2. PhaseIndex(current) = 3
      BY <1>1, PhaseOrder
<1>3. ~killedBack => /\ newest = [id |-> wizardState.extract, whole |-> TRUE]
                     /\ structured.of = wizardState.extract
      BY <1>1, <1>2, WhereAtWork DEF Ready
<1>4. /\ orgs' \in [OrgRows -> OrgCells] /\ said' \in [OrgRows -> OrgCells \union {"none"}]
      /\ question' \in 1 .. NumOrgs + 1
      BY <1>1, NoRowsTyped, Bounds
<1>. QED BY <1>1, <1>2, <1>3, <1>4, WhereAtWork, AdvanceKeeps

LEMMA RunMappingsKeeps == ASSUME PhasesInv, RunMappings PROVE PhasesInv'
<1>1. /\ current = "mappings" /\ current \in WizardPhaseNames /\ wizardAt \in AtWork
      /\ AdvancePhase(wizardState) /\ mappings' = structured.id
      /\ UNCHANGED <<newest, structured, orgsFile, orgs, question, said, killedBack>>
      BY PhaseNames DEF PhasesInv, InPlace, RunMappings, mappingVars, AtWork
<1>2. PhaseIndex(current) = 4
      BY <1>1, PhaseOrder
<1>3. ~killedBack => /\ newest = [id |-> wizardState.extract, whole |-> TRUE]
                     /\ structured.of = wizardState.extract
      BY <1>1, <1>2, WhereAtWork DEF Ready
<1>4. mappings' \in 0 .. MaxStructures
      BY <1>1, WhereAtWork
<1>. QED BY <1>1, <1>2, <1>3, <1>4, WhereAtWork, AdvanceKeeps

LEMMA ValidateKeeps == ASSUME PhasesInv, ValidatePhase PROVE PhasesInv'
<1>1. /\ current = "validate" /\ current \in WizardPhaseNames /\ wizardAt \in AtWork
      /\ AdvancePhase(wizardState)
      /\ UNCHANGED <<newest, structured, orgsFile, mappings, orgs, question, said, killedBack>>
      BY PhaseNames DEF PhasesInv, InPlace, ValidatePhase, mappingVars, AtWork
<1>2. PhaseIndex(current) = 5
      BY <1>1, PhaseOrder
<1>3. ~killedBack => /\ newest = [id |-> wizardState.extract, whole |-> TRUE]
                     /\ structured.of = wizardState.extract /\ mappings = structured.id
      BY <1>1, <1>2, WhereAtWork DEF Ready
<1>. QED BY <1>1, <1>2, <1>3, WhereAtWork, AdvanceKeeps

LEMMA EndMigrateKeeps == ASSUME PhasesInv, EndMigrate PROVE PhasesInv'
<1>1. /\ current = "migrate" /\ current \in WizardPhaseNames /\ wizardAt \in AtWork
      /\ wizardAt = "migrating"
      /\ UNCHANGED <<newest, structured, orgsFile, mappings, orgs, question, said, killedBack>>
      BY PhaseNames DEF PhasesInv, InPlace, EndMigrate, mappingVars, AtWork
<1>2. PhaseIndex(current) = 6
      BY <1>1, PhaseOrder
<1>3. ~killedBack => /\ newest = [id |-> wizardState.extract, whole |-> TRUE]
                     /\ structured.of = wizardState.extract /\ mappings = structured.id
      BY <1>1, <1>2, WhereAtWork DEF Ready
<1>4. CASE AdvancePhase(wizardState)
      BY <1>1, <1>2, <1>3, <1>4, WhereAtWork, AdvanceKeeps
<1>5. CASE wizardAt' = "retry migrate?" /\ UNCHANGED <<savedState, wizardState, current>>
  <2>1. WizardTypeOK'
        BY <1>1, <1>5 DEF PhasesInv, WizardTypeOK, AtWork
  <2>2. InPlace' /\ WordsKept'
        BY <1>1, <1>5, PhaseNames DEF InPlace, WordsKept
  <2>3. ~killedBack' => Sound'
        BY <1>1, <1>5, PhaseOrder DEF PhasesInv, Sound, Ready, GoingBack, AtWork
  <2>. QED BY <2>1, <2>2, <2>3 DEF PhasesInv
<1>. QED BY <1>4, <1>5 DEF EndMigrate

LEMMA AnswerRowKeeps == ASSUME PhasesInv, NEW cell \in OrgCells, AnswerRow(cell) PROVE PhasesInv'
<1>1. /\ wizardAt = "org_mapping" /\ question <= NumOrgs /\ question' = question + 1
      /\ orgs' = [orgs EXCEPT ![question] = cell] /\ said' = [said EXCEPT ![question] = cell]
      /\ UNCHANGED <<savedState, newest, structured, orgsFile, mappings, wizardAt, wizardState,
                     current, killedBack>>
      BY DEF AnswerRow, wizardDisk
<1>2. question \in 1 .. NumOrgs + 1
      BY WhereAtWork
<1>3. question' \in 1 .. NumOrgs + 1 /\ question \in Int
      BY <1>1, <1>2, Bounds
<1>4. /\ orgs' \in [OrgRows -> OrgCells] /\ said' \in [OrgRows -> OrgCells \union {"none"}]
      BY <1>1, WhereAtWork
<1>5. WizardTypeOK'
      BY <1>1, <1>3, <1>4 DEF PhasesInv, WizardTypeOK
<1>6. InPlace' /\ (~killedBack' => Sound')
      BY <1>1 DEF PhasesInv, InPlace, Sound, Ready, GoingBack
<1>7. ASSUME NEW o \in OrgRows
      PROVE  orgs'[o] = said'[o] \/ (o >= question + 1 /\ said'[o] = "none" /\ orgs'[o] = "")
  <2>1. CASE o = question
        BY <1>1, <2>1, WhereAtWork
  <2>2. CASE o # question
    <3>1. orgs'[o] = orgs[o] /\ said'[o] = said[o]
          BY <1>1, <2>2, WhereAtWork
    <3>2. orgs[o] = said[o] \/ (o >= question /\ said[o] = "none" /\ orgs[o] = "")
          BY <1>1 DEF PhasesInv, WordsKept
    <3>3. o >= question => o >= question + 1
          BY <1>3, <2>2, Bounds DEF OrgRows
    <3>. QED BY <3>1, <3>2, <3>3
  <2>. QED BY <2>1, <2>2
<1>. QED BY <1>1, <1>5, <1>6, <1>7 DEF PhasesInv, WordsKept

\* Going back to an earlier phase, which finds all it needs.
LEMMA RestartKeeps ==
    ASSUME PhasesInv, NEW p \in WizardPhaseNames, RestartFrom(p) PROVE PhasesInv'
<1>1. /\ wizardAt = "restart?" /\ wizardAt' = "phase" /\ current' = p
      /\ PhaseIndex(p) <= PhaseIndex(current) /\ current \in WizardPhaseNames
      /\ wizardState' = [phase |-> p, extract |-> IF p = "extract" THEN 0 ELSE wizardState.extract]
      /\ UNCHANGED <<savedState, newest, structured, orgsFile, mappings, orgs, question, said,
                killedBack>>
      BY DEF PhasesInv, InPlace, RestartFrom, wizardDisk, mappingVars
<1>2. wizardState' \in States
      BY <1>1, WhereAtWork, Bounds DEF States
<1>3. WizardTypeOK'
      BY <1>1, <1>2 DEF PhasesInv, WizardTypeOK, States, AtWork
<1>4. InPlace' /\ WordsKept'
      BY <1>1, PhaseNames DEF InPlace, WordsKept
<1>5. ASSUME ~killedBack PROVE Sound'
  <2>1. Sound /\ ~GoingBack
        BY <1>1, <1>5, PhaseNames DEF PhasesInv, GoingBack, AtWork
  <2>2. Ready(PhaseIndex(current), wizardState.extract)
        BY <1>1, <2>1 DEF Sound
  <2>3. PhaseIndex(p) \in Int /\ PhaseIndex(current) \in Int
        BY <1>1, IndexTyped
  <2>4. CASE p = "extract"
        BY <1>1, <2>1, <2>4, PhaseOrder DEF Sound, Ready
  <2>5. CASE p # "extract"
    <3>1. wizardState'.extract = wizardState.extract
          BY <1>1, <2>5
    <3>2. Ready(PhaseIndex(p), wizardState.extract)
          BY <1>1, <2>2, <2>3 DEF Ready
    <3>. QED BY <1>1, <2>1, <3>1, <3>2 DEF Sound, Ready
  <2>. QED BY <2>4, <2>5
<1>. QED BY <1>1, <1>3, <1>4, <1>5 DEF PhasesInv

LEMMA PhasesNext == ASSUME PhasesInv, [WizardNext]_wvars PROVE PhasesInv'
<1>1. CASE OpenWizard \/ ResumeSession \/ StartNewSession \/ StartNewMigration \/ Decline
      BY <1>1, OpenWizardKeeps, ResumeSessionKeeps, StartNewSessionKeeps, StartNewMigrationKeeps,
         DeclineKeeps
<1>2. CASE EnterPhase \/ InterruptWizard \/ FailPhase
      BY <1>2, EnterPhaseKeeps, InterruptWizardKeeps, FailPhaseKeeps
<1>3. CASE BeginExtract \/ EndExtract
      BY <1>3, BeginExtractKeeps, EndExtractKeeps
<1>4. CASE ExportOrganizations \/ ExportProjects \/ EndStructure
      BY <1>4, ExportOrganizationsKeeps, ExportProjectsKeeps, EndStructureKeeps
<1>5. CASE KeepRow \/ (\E cell \in OrgCells : AnswerRow(cell)) \/ GoBack \/ ExportOrgs
      BY <1>5, KeepRowKeeps, AnswerRowKeeps, GoBackKeeps, ExportOrgsKeeps
<1>6. CASE RunMappings \/ ValidatePhase \/ BeginMigrate \/ EndMigrate
      BY <1>6, RunMappingsKeeps, ValidateKeeps, BeginMigrateKeeps, EndMigrateKeeps
<1>7. CASE (\E p \in WizardPhaseNames : RestartFrom(p)) \/ LeaveWizard \/ KillWizard
      BY <1>7, RestartKeeps, LeaveWizardKeeps, KillWizardKeeps
<1>8. CASE UNCHANGED wvars
  <2>1. UNCHANGED <<savedState, newest, structured, orgsFile, mappings, wizardAt, wizardState,
                    current, orgs, question, said, killedBack>>
        BY <1>8 DEF wvars, wizardDisk, mappingVars
  <2>2. WizardTypeOK'
        BY <2>1 DEF PhasesInv, WizardTypeOK
  <2>3. InPlace' /\ WordsKept'
        BY <2>1 DEF PhasesInv, InPlace, WordsKept
  <2>4. ~killedBack' => Sound'
        BY <2>1 DEF PhasesInv, Sound, Ready, GoingBack
  <2>. QED BY <2>2, <2>3, <2>4 DEF PhasesInv
<1>. QED BY <1>1, <1>2, <1>3, <1>4, <1>5, <1>6, <1>7, <1>8 DEF WizardNext

LEMMA AlwaysPhases == WizardSpec => []PhasesInv
<1>. QED BY PhasesInit, PhasesNext, PTL DEF WizardSpec

\* Migrate runs on a complete extract, its structure and the mappings of that
\* structure, and what a session is taken up from finds its inputs (runPhaseLoop,
\* offerPhaseRestart, handleResume), for any number of sessions, failures, steps
\* back and kills.
THEOREM WizardKeepsInStep == WizardSpec => []WizardInv
<1>1. ASSUME PhasesInv PROVE WizardInv
  <2>1. MigratesWhatWasExtracted
    <3>1. ASSUME wizardAt = "migrating", ~killedBack PROVE InputsOf(wizardState)
      <4>1. current = "migrate" /\ wizardAt \in AtWork
            BY <1>1, <3>1 DEF PhasesInv, InPlace, AtWork
      <4>2. wizardState.phase = "migrate" /\ Ready(PhaseIndex("migrate"), wizardState.extract)
            BY <1>1, <3>1, <4>1 DEF PhasesInv, Sound
      <4>. QED BY <4>2, PhaseOrder DEF InputsOf, Ready
    <3>. QED BY <3>1 DEF MigratesWhatWasExtracted
  <2>2. ResumeIsSafe
    <3>1. ASSUME savedState.phase # "complete", wizardAt = "off", ~killedBack
          PROVE  InputsOf(savedState)
      <4>1. ~GoingBack
            BY <3>1, PhaseNames DEF GoingBack, AtWork
      <4>2. Ready(PhaseIndex(savedState.phase), savedState.extract)
            BY <1>1, <3>1, <4>1 DEF PhasesInv, Sound
      <4>. QED BY <4>2, PhaseOrder DEF InputsOf, Ready
    <3>. QED BY <3>1 DEF ResumeIsSafe
  <2>. QED BY <1>1, <2>1, <2>2 DEF PhasesInv, WizardInv
<1>. QED BY <1>1, AlwaysPhases, PTL

\* Every row of organizations.csv is what the user said of it last (ErrBack and
\* the export in mapAllOrganizations).
THEOREM LastWordsAreExported == WizardSpec => LastWordIsExported
<1>1. ASSUME PhasesInv, [WizardNext]_wvars
      PROVE  [orgsFile' # orgsFile /\ wizardAt = "org_mapping" => orgsFile' = said]_wvars
  <2>1. ASSUME orgsFile' # orgsFile, wizardAt = "org_mapping" PROVE orgsFile' = said
    <3>1. ExportOrgs
          BY <1>1, <2>1 DEF WizardNext, wvars, wizardDisk, OpenWizard, ResumeSession,
             StartNewSession, StartNewMigration, Decline, EnterPhase, InterruptWizard, FailPhase,
             BeginExtract, EndExtract, ExportOrganizations, ExportProjects, EndStructure, KeepRow,
             AnswerRow, GoBack, RunMappings, ValidatePhase, BeginMigrate, EndMigrate, RestartFrom,
             LeaveWizard, KillWizard
    <3>2. orgsFile' = orgs /\ question > NumOrgs
          BY <3>1 DEF ExportOrgs
    <3>3. /\ orgs \in [OrgRows -> OrgCells] /\ said \in [OrgRows -> OrgCells \union {"none"}]
          /\ question \in 1 .. NumOrgs + 1
          BY <1>1, WhereAtWork
    <3>4. ASSUME NEW o \in OrgRows PROVE orgs[o] = said[o]
      <4>1. ~ (o >= question)
            BY <3>2, <3>3, Bounds DEF OrgRows
      <4>. QED BY <1>1, <2>1, <4>1 DEF PhasesInv, WordsKept
    <3>. QED BY <3>2, <3>3, <3>4
  <2>. QED BY <2>1
<1>. QED BY <1>1, AlwaysPhases, PTL DEF WizardSpec, LastWordIsExported
=============================================================================
