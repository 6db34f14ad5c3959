---------------------------- MODULE BriefPortal ----------------------------
(***************************************************************************)
(* The executive brief portal (src/tools/executive_audio_brief.py): one    *)
(* browser page with its timers and clicks, and the threaded HTTP server   *)
(* behind it.  The server gathers every answer from the todos database;    *)
(* what it keeps between requests is the path of the latest audio brief,   *)
(* which the thread started by main() also writes.                         *)
(*                                                                         *)
(* The page shows the rows of one project card, its open counter and the   *)
(* half-typed text of its form.  A refresh replaces the card in place; a   *)
(* load replaces the whole page and forgets every answer still under way;  *)
(* a load that fails leaves an error page, on which nothing runs until the *)
(* user reloads it.  An alert of the page stops its script, timers and all,*)
(* until the user dismisses it.                                            *)
(***************************************************************************)
EXTENDS Naturals, FiniteSets

CONSTANTS Todos,        \* the rows of one project
          Tree,         \* Tree[t]: t and its descendants
          Requests,     \* requests the page can have under way at once
          MaxEvents     \* what the user, other programs and errors do, in all

ASSUME PortalAssumption ==
    /\ Todos # {} /\ IsFiniteSet(Todos)
    /\ Tree \in [Todos -> SUBSET Todos]
    /\ MaxEvents \in Nat

VARIABLES open,      \* rows open in the database
          page,      \* [rows, count] as displayed
          typed,     \* there is a draft in the form
          playing,   \* the audio element of the page is playing
          shown,     \* what is in front of the user: page, alert (over it) or error
          click,     \* the done or cancel button pressed last
          request,   \* requests under way
          audio,     \* portal_state["audio_path"]: none, main()'s or a later one
          starting,  \* what the thread of main() still has to do
          events     \* how many of the MaxEvents have happened

portalVars == <<open, page, typed, playing, shown, click, request, audio, starting, events>>

NoRequest == [at |-> "none", kind |-> "quiet", rows |-> {}, typed |-> FALSE, audio |-> "none"]
NoClick == [at |-> "none", todo |-> CHOOSE t \in Todos : TRUE,
              kind |-> "done", gone |-> {}, attached |-> TRUE]

Event == events < MaxEvents /\ events' = events + 1
Free(r) == request[r].at = "none"
Loading == \E r \in Requests : request[r].kind = "load" /\ ~Free(r)
Live == shown = "page" /\ ~Loading   \* the page's script runs, and it is to stay
InPlace(r) == request[r].kind \in {"quiet", "manual"}   \* /api/refresh

PortalInit ==
    /\ open \in SUBSET Todos
    /\ page = [rows |-> open, count |-> Cardinality(open)]
    /\ typed = FALSE /\ playing = FALSE /\ shown = "page"
    /\ click = NoClick
    /\ request = [r \in Requests |-> NoRequest]
    /\ \/ starting = "building" /\ audio = "none"
       \/ starting = "done" /\ audio \in {"none", "startup"}
    /\ events = 0

-----------------------------------------------------------------------------
(* The page.                                                               *)

\* _refreshStatusInPlace captures the form, then asks the server.  A manual
\* refresh (refreshStatus) alerts when it fails, the others are quiet.
AskRefresh(r, kind) ==
    /\ Live /\ Free(r)
    /\ request' = [request EXCEPT ![r] =
                     [NoRequest EXCEPT !.at = "asked", !.kind = kind, !.typed = typed]]

\* The 60 s interval: not while the audio plays.
Tick(r) ==
    /\ ~playing
    /\ AskRefresh(r, "quiet")
    /\ UNCHANGED <<open, page, typed, playing, shown, click, audio, starting, events>>

PressRefresh(r) ==
    /\ AskRefresh(r, "manual")
    /\ UNCHANGED <<open, page, typed, playing, shown, click, audio, starting, events>>

PressGenerate(r) ==
    /\ Live /\ Free(r) /\ Event
    /\ request' = [request EXCEPT ![r] = [NoRequest EXCEPT !.at = "asked", !.kind = "brief"]]
    /\ UNCHANGED <<open, page, typed, playing, shown, click, audio, starting>>

Type ==
    /\ Live /\ ~typed /\ Event
    /\ typed' = TRUE
    /\ UNCHANGED <<open, page, playing, shown, click, request, audio, starting>>

Play ==
    /\ Live /\ ~playing /\ Event
    /\ playing' = TRUE
    /\ UNCHANGED <<open, page, typed, shown, click, request, audio, starting>>

EndOfAudio ==
    /\ playing /\ playing' = FALSE
    /\ UNCHANGED <<open, page, typed, shown, click, request, audio, starting, events>>

\* The user's answers to an alert and to an error page; the bound on events
\* counts the reloads of a page that runs.
Dismiss ==
    /\ shown = "alert" /\ shown' = "page"
    /\ UNCHANGED <<open, page, typed, playing, click, request, audio, starting, events>>

Reload(r) ==
    /\ ~Loading /\ Free(r)
    /\ \/ shown = "error" /\ UNCHANGED events
       \/ shown = "page" /\ Event
    /\ request' = [request EXCEPT ![r] = [NoRequest EXCEPT !.at = "asked", !.kind = "load"]]
    /\ UNCHANGED <<open, page, typed, playing, shown, click, audio, starting>>

\* markDone and cancelTodo disable the pressed button until the answer.
Press(t, kind) ==
    /\ click.at = "none" /\ Live /\ t \in page.rows /\ Event
    /\ click' = [NoClick EXCEPT !.at = "asked", !.todo = t, !.kind = kind]
    /\ UNCHANGED <<open, page, typed, playing, shown, request, audio, starting>>

\* _restoreEditableState puts back the text captured before the request.
Restored(r) == request[r].typed

\* The card of the pressed button is replaced before its answer comes.
Detached == IF click.at \in {"asked", "closed"} THEN [click EXCEPT !.attached = FALSE] ELSE click

\* Mutant: the refresh replaces the rows of the card and not its counter.
Refreshed_KeepsCount(r) ==
    /\ shown = "page" /\ request[r].at = "answered" /\ InPlace(r)
    /\ page' = [page EXCEPT !.rows = request[r].rows]
    /\ typed' = Restored(r)
    /\ click' = Detached
    /\ request' = [request EXCEPT ![r] = NoRequest]
    /\ UNCHANGED <<open, playing, shown, audio, starting, events>>

\* The in-place refresh: new card, the captured text put back into the form.
Refreshed(r) ==
    /\ shown = "page" /\ request[r].at = "answered" /\ InPlace(r)
    /\ page' = [rows |-> request[r].rows, count |-> Cardinality(request[r].rows)]
    /\ typed' = Restored(r)
    /\ click' = Detached
    /\ request' = [request EXCEPT ![r] = NoRequest]
    /\ UNCHANGED <<open, playing, shown, audio, starting, events>>

\* generateBrief reloads the page; addTodo reloads it too.
Generated(r) ==
    /\ shown = "page" /\ request[r].at = "answered" /\ request[r].kind = "brief"
    /\ request' = [request EXCEPT ![r] =
                     [NoRequest EXCEPT !.at = "asked", !.kind = "load"]]
    /\ UNCHANGED <<open, page, typed, playing, shown, click, audio, starting, events>>

\* A new document: the form is empty and the old page's requests are forgotten.
Loaded(r) ==
    /\ shown # "alert" /\ request[r].at = "answered" /\ request[r].kind = "load"
    /\ page' = [rows |-> request[r].rows, count |-> Cardinality(request[r].rows)]
    /\ typed' = FALSE /\ playing' = FALSE /\ shown' = "page" /\ click' = NoClick
    /\ request' = [q \in Requests |-> NoRequest]
    /\ UNCHANGED <<open, audio, starting, events>>

\* _removeAffectedTodoRows takes the affected rows off the card and off its
\* counter.  cancelTodo then takes one more off the counter of the card the
\* button was on, which a refresh may have replaced meanwhile.
\* Mutant: the counter is not kept from going below zero.
Minus_Unclamped(n, k) == n - k
Minus(n, k) == IF n > k THEN n - k ELSE 0
Removed ==
    LET rows == page.rows \cap click.gone
        less == Minus(page.count, Cardinality(rows))
    IN  [rows  |-> page.rows \ rows,
         count |-> IF click.kind = "cancel" /\ click.attached THEN Minus(less, 1) ELSE less]

ClickAnswered ==
    /\ shown = "page" /\ click.at = "closed"
    /\ page' = Removed
    /\ click' = [NoClick EXCEPT !.at = "timer"]
    /\ UNCHANGED <<open, typed, playing, shown, request, audio, starting, events>>

\* 409: markDone refreshes at once, cancelTodo hides the button and leaves it.
ClickRefused ==
    /\ shown = "page" /\ click.at = "refused"
    /\ click' = IF click.kind = "done" THEN [NoClick EXCEPT !.at = "sync"] ELSE NoClick
    /\ UNCHANGED <<open, page, typed, playing, shown, request, audio, starting, events>>

\* The server fails, or its answer is lost after the rows were closed: the
\* button is hidden or enabled again, and nothing else happens.
ClickFailed ==
    /\ shown = "page" /\ click.at \in {"asked", "closed"} /\ Event
    /\ click' = NoClick
    /\ UNCHANGED <<open, page, typed, playing, shown, request, audio, starting>>

\* refreshStatus 350 ms after a closing, a quiet refresh after a 409.
ClickTimer(r) ==
    /\ \/ click.at = "timer" /\ AskRefresh(r, "manual")
       \/ click.at = "sync" /\ AskRefresh(r, "quiet")
    /\ click' = NoClick
    /\ UNCHANGED <<open, page, typed, playing, shown, audio, starting, events>>

-----------------------------------------------------------------------------
(* The server.                                                             *)

Ancestors(t) == {a \in Todos \ {t} : t \in Tree[a]}
Child(c, a) == a \in Ancestors(c) /\ \A b \in Ancestors(c) : b \notin Tree[a] \ {a}

\* What close_todo_tree can close with t: the open rows of its tree, then going
\* up each open ancestor with no open child left.  The walk passes rows closed
\* before, or stops where one of them ended neither completed nor cancelled.
Closings(t) ==
    {(Tree[t] \cap open) \cup above :
        above \in {A \in SUBSET (Ancestors(t) \cap open) :
                     \A a \in A : \A y \in open \ (Tree[t] \cup A) :
                        ~Child(y, a) /\ ~(y \in Ancestors(t) /\ a \in Ancestors(y))}}

\* _handle_todo_done and _handle_todo_cancel close the tree and answer with the
\* rows affected, or with 409 when the row is closed; a cancel is also refused
\* with 409 while what it would close is not ready.
AnswerClick ==
    /\ click.at = "asked"
    /\ \/ \E gone \in Closings(click.todo) :
             /\ click.todo \in open
             /\ open' = open \ gone
             /\ click' = [click EXCEPT !.at = "closed", !.gone = gone]
       \/ /\ click.todo \notin open \/ click.kind = "cancel"
          /\ click' = [click EXCEPT !.at = "refused"] /\ UNCHANGED open
    /\ UNCHANGED <<page, typed, playing, shown, request, audio, starting, events>>

\* gather_all_statuses
Gather(r) ==
    /\ request[r].at = "asked"
    /\ request' = [request EXCEPT ![r].at = "gathered", ![r].rows = open]
    /\ UNCHANGED <<open, page, typed, playing, shown, click, audio, starting, events>>

\* _handle_refresh reads the audio path after build_brief, ...
KeepAudio(r) ==
    /\ request[r].at = "gathered" /\ InPlace(r)
    /\ request' = [request EXCEPT ![r].at = "rendering", ![r].audio = audio]
    /\ UNCHANGED <<open, page, typed, playing, shown, click, audio, starting, events>>

\* ... renders the page, and only then updates portal_state with all of it.
UpdateState(r) ==
    /\ request[r].at = "rendering"
    /\ audio' = request[r].audio
    /\ request' = [request EXCEPT ![r].at = "answered", ![r].audio = "none"]
    /\ UNCHANGED <<open, page, typed, playing, shown, click, starting, events>>

\* _handle_generate: a synthesis that fails leaves the brief without audio.
Synthesize(r) ==
    /\ request[r].at = "gathered" /\ request[r].kind = "brief"
    /\ \/ audio' = "later" /\ UNCHANGED events
       \/ audio' = "none" /\ Event
    /\ request' = [request EXCEPT ![r].at = "answered"]
    /\ UNCHANGED <<open, page, typed, playing, shown, click, starting>>

ServePortal(r) ==
    /\ request[r].at = "gathered" /\ request[r].kind = "load"
    /\ request' = [request EXCEPT ![r].at = "answered"]
    /\ UNCHANGED <<open, page, typed, playing, shown, click, audio, starting, events>>

\* An exception anywhere in the handler, or a lost answer: the interval only
\* logs it, a manual refresh and a brief alert the user, and a load that fails
\* leaves an error page, for _serve_portal catches nothing.
Fail(r) ==
    /\ ~Free(r) /\ shown # "alert" /\ Event
    /\ \/ /\ request[r].kind # "load"
          /\ shown' = IF request[r].kind = "quiet" THEN shown ELSE "alert"
          /\ request' = [request EXCEPT ![r] = NoRequest]
          /\ UNCHANGED <<page, typed, playing, click>>
       \/ /\ request[r].kind = "load"
          /\ shown' = "error" /\ page' = [rows |-> {}, count |-> 0]
          /\ typed' = FALSE /\ playing' = FALSE /\ click' = NoClick
          /\ request' = [q \in Requests |-> NoRequest]
    /\ UNCHANGED <<open, audio, starting>>

\* The thread of main() replaces the whole of portal_state when its brief is
\* built, or leaves it when the build fails.
StartupBrief ==
    /\ starting = "building" /\ starting' = "done"
    /\ audio' \in {"startup", "none", audio}
    /\ UNCHANGED <<open, page, typed, playing, shown, click, request, events>>

\* An agent, the CLI or Alexa closes a tree or adds a row; its parent may be
\* closed already.
DatabaseChange ==
    /\ Event
    /\ \E t \in Todos :
          \/ t \in open /\ \E gone \in Closings(t) : open' = open \ gone
          \/ t \notin open /\ open' = open \cup {t}
    /\ UNCHANGED <<page, typed, playing, shown, click, request, audio, starting>>

\* addTodo: the row, which has no parent, is in the database before the page
\* reloads itself.  An addTodo that fails does neither.
AddTodo(r) ==
    /\ Live /\ Free(r) /\ typed
    /\ Event
    /\ \E t \in Todos \ open : Ancestors(t) = {} /\ open' = open \cup {t}
    /\ request' = [request EXCEPT ![r] = [NoRequest EXCEPT !.at = "asked", !.kind = "load"]]
    /\ UNCHANGED <<page, typed, playing, shown, click, audio, starting>>

-----------------------------------------------------------------------------
ServerStep(r) == Gather(r) \/ KeepAudio(r) \/ UpdateState(r) \/ Synthesize(r) \/ ServePortal(r)
Delivery(r) == Refreshed(r) \/ Generated(r) \/ Loaded(r)

PortalNext ==
    \/ Type \/ Play \/ EndOfAudio \/ Dismiss \/ DatabaseChange \/ StartupBrief
    \/ AnswerClick \/ ClickAnswered \/ ClickRefused \/ ClickFailed
    \/ \E t \in Todos, kind \in {"done", "cancel"} : Press(t, kind)
    \/ \E r \in Requests : \/ Tick(r) \/ PressRefresh(r) \/ PressGenerate(r) \/ AddTodo(r) \/ Reload(r)
                           \/ ServerStep(r) \/ Delivery(r) \/ Fail(r) \/ ClickTimer(r)

\* The interval timer of a running page keeps firing, threads run, the loopback
\* delivers, and a brief comes to its end; nothing makes the user or another
\* program act, and nobody but the user takes an alert or an error page away.
PortalFairness ==
    /\ WF_portalVars(\E r \in Requests : Tick(r))
    /\ WF_portalVars(EndOfAudio)
    /\ \A r \in Requests : WF_portalVars(ServerStep(r) \/ Delivery(r))
    /\ WF_portalVars(AnswerClick \/ ClickAnswered)

-----------------------------------------------------------------------------
(* Properties.                                                             *)

\* The card counts no more rows than the project has, and every answer under
\* way belongs to the page that asked for it.
TypeOK ==
    /\ open \subseteq Todos /\ page.rows \subseteq Todos
    /\ page.count \in 0..Cardinality(Todos)
    /\ typed \in BOOLEAN /\ playing \in BOOLEAN /\ events \in 0..MaxEvents
    /\ shown \in {"page", "alert", "error"}
    /\ click \in [at : {"none", "asked", "closed", "refused", "timer", "sync"}, todo : Todos,
                  kind : {"done", "cancel"}, gone : SUBSET Todos, attached : BOOLEAN]
    /\ request \in [Requests ->
                      [at : {"none", "asked", "gathered", "rendering", "answered"},
                       kind : {"quiet", "manual", "brief", "load"}, rows : SUBSET Todos,
                       typed : BOOLEAN, audio : {"none", "startup", "later"}]]
    /\ audio \in {"none", "startup", "later"} /\ starting \in {"building", "done"}

\* Whatever overtakes what, fails, is hidden after a 409 or is counted twice
\* by a cancel, the card ends up showing the database, rows and counter: the
\* interval refresh repairs it as long as the audio stops playing.  It takes a
\* page whose script runs: the user dismisses an alert and reloads an error
\* page, and for this reader has nothing else to do.
PageCatchesUp ==
    <>[](shown = "page") => <>[](page.rows = open /\ page.count = Cardinality(open))

PortalSpec == PortalInit /\ [][PortalNext]_portalVars /\ PortalFairness
=============================================================================
