---------------------------- MODULE PortalProofs ----------------------------
(***************************************************************************)
(* The portal and what it shows, for every value of the constants: the     *)
(* page and its counter, the cards of its projects and Lily's portrait.    *)
(***************************************************************************)
EXTENDS BriefPortal, ProjectCard, LilyPortrait, FiniteSetTheorems, WellFoundedInduction, TLAPS

-----------------------------------------------------------------------------
(* The portrait.                                                           *)

\* What an image can be made from, with NoImage.
Prompts == Nat \cup {Rotation}

Handlers == [at : {"idle", "drop", "unlink", "drop_svg", "unlink_svg", "look", "prompted",
                   "generating", "made", "renamed", "have_png", "have_svg", "replied", "failed"},
             kind : {"page", "regen"}, prompt : Prompts, shows : Prompts, seen : Nat, alone : BOOLEAN]

\* What a request that nobody overlapped can rely on, h its handler, p and s the
\* two files: what it found is still there, what it removed stays removed, and
\* what it shows was made from a prompt it can have meant.
Undisturbed(h, p, s) ==
    h.alone =>
        /\ h.at # "failed"
        /\ h.at = "unlink" => p # NoImage
        /\ h.at = "unlink_svg" => s
        /\ h.at \in {"drop_svg", "unlink_svg", "look", "prompted", "generating", "made"} =>
              (h.kind = "regen" => p = NoImage)
        /\ h.at \in {"prompted", "generating", "made"} =>
              h.prompt # NoImage /\ (h.prompt >= h.seen \/ h.prompt = Rotation)
        /\ h.at \in {"renamed", "have_png"} =>
              p # NoImage /\ (h.kind = "regen" =>
                                p = h.prompt /\ (p >= h.seen \/ p = Rotation))
        /\ h.at # "replied" => h.shows = NoImage
        /\ (h.at = "replied" /\ h.kind = "regen" /\ h.shows # NoImage) =>
              h.shows = h.prompt /\ (h.shows >= h.seen \/ h.shows = Rotation)

LilyInv ==
    /\ prompt \in Nat \ {0} /\ png \in Prompts /\ svg \in BOOLEAN
    /\ handler \in [Threads -> Handlers]
    /\ \A t \in Threads : handler[t].seen <= prompt /\ Undisturbed(handler[t], png, svg)
    /\ \A t, u \in Threads : (t # u /\ handler[t].alone /\ Busy(t)) => ~Busy(u)

\* Nothing has been asked for yet.
LEMMA LilyStart == LilyInit => LilyInv
BY DEF LilyInit, LilyInv, Handlers, Prompts, Rotation, Idle, NoImage, Undisturbed, Busy

\* A handler's step that leaves it undisturbed, if it was, disturbs nobody who
\* can still count on being alone.
LEMMA HandlerMoves ==
  ASSUME LilyInv, NEW t \in Threads, Busy(t), NEW h \in Handlers,
         handler' = [handler EXCEPT ![t] = h],
         h.alone = handler[t].alone, h.seen = handler[t].seen,
         Undisturbed(h, png', svg'),
         prompt' = prompt, png' \in Prompts, svg' \in BOOLEAN
  PROVE  LilyInv'
<1>1. handler' \in [Threads -> Handlers] /\ handler'[t] = h
  BY DEF LilyInv
<1>2. ASSUME NEW u \in Threads, u # t
      PROVE  /\ handler'[u] = handler[u]
             /\ ~handler[u].alone \/ ~Busy(u)
  BY <1>2 DEF LilyInv
<1>3. ASSUME NEW u \in Threads, u # t
      PROVE  handler'[u].seen <= prompt' /\ Undisturbed(handler'[u], png', svg')
  <2>1. handler[u] \in Handlers /\ Undisturbed(handler[u], png, svg) /\ handler[u].seen <= prompt
    BY DEF LilyInv
  <2>2. ~handler[u].alone \/ handler[u].at \in {"idle", "replied", "failed"}
    BY <1>2, <1>3 DEF Busy
  <2> QED
    BY <1>2, <1>3, <2>1, <2>2 DEF Undisturbed
<1>4. \A u \in Threads : handler'[u].seen <= prompt' /\ Undisturbed(handler'[u], png', svg')
  BY <1>1, <1>3 DEF LilyInv
<1>5. ASSUME NEW u \in Threads, NEW v \in Threads, u # v, handler'[u].alone, Busy(u)'
      PROVE  ~Busy(v)'
  <2>1. handler[u].alone /\ Busy(u)
    <3>1. CASE u = t
      BY <1>1, <1>5, <3>1
    <3>2. CASE u # t
      BY <1>2, <1>5, <3>2 DEF Busy
    <3> QED
      BY <3>1, <3>2
  <2>2. ~Busy(v) /\ v # t
    BY <1>5, <2>1 DEF LilyInv
  <2> QED
    BY <1>2, <2>2 DEF Busy
<1>6. \A u, v \in Threads : (u # v /\ handler'[u].alone /\ Busy(u)') => ~Busy(v)'
  BY <1>5
<1> QED
  BY <1>1, <1>4, <1>6 DEF LilyInv

\* One step of one request.
LEMMA HandlerKeeps ==
  ASSUME LilyInv, NEW t \in Threads, HandlerStep(t)
  PROVE  LilyInv'
<1> DEFINE h == handler[t]
           After(place) == [h EXCEPT !.at = place]
<1>1. /\ h \in Handlers /\ Undisturbed(h, png, svg) /\ h.seen <= prompt
      /\ prompt \in Nat /\ prompt # 0 /\ png \in Prompts /\ svg \in BOOLEAN
      /\ DOMAIN handler = Threads
  BY DEF LilyInv
<1>2. \A place : Proceed(t, place) => handler' = [handler EXCEPT ![t] = After(place)]
  BY <1>1 DEF Proceed
<1>3. \A place \in {"drop_svg", "unlink", "look", "unlink_svg", "have_png", "have_svg", "generating",
                    "made", "renamed", "replied", "failed"} :
         After(place) \in Handlers /\ After(place).at = place
         /\ After(place).alone = h.alone /\ After(place).seen = h.seen /\ After(place).kind = h.kind
         /\ After(place).prompt = h.prompt /\ After(place).shows = h.shows
  BY <1>1 DEF Handlers
<1> HIDE DEF After
<1>4. CASE DropPng(t) /\ UNCHANGED <<prompt, svg>>
  <2>1. PICK place \in {"drop_svg", "unlink", "failed"} :
           /\ handler' = [handler EXCEPT ![t] = After(place)]
           /\ \/ h.at = "drop" /\ png = NoImage /\ place = "drop_svg" /\ png' = png
              \/ h.at = "drop" /\ png # NoImage /\ place = "unlink" /\ png' = png
              \/ h.at = "unlink" /\ png # NoImage /\ place = "drop_svg" /\ png' = NoImage
              \/ h.at = "unlink" /\ png = NoImage /\ place = "failed" /\ png' = png
    BY <1>2, <1>4 DEF DropPng, At
  <2>2. Busy(t)
    BY <2>1 DEF Busy
  <2>3. Undisturbed(After(place), png', svg')
    BY <1>1, <1>3, <1>4, <2>1 DEF Undisturbed, Handlers, Prompts, Rotation, NoImage
  <2>4. prompt' = prompt /\ png' \in Prompts /\ svg' \in BOOLEAN
    BY <1>1, <1>4, <2>1 DEF Prompts, NoImage
  <2>5. /\ After(place) \in Handlers
        /\ After(place).alone = handler[t].alone /\ After(place).seen = handler[t].seen
    BY <1>3, <2>1
  <2> QED
    BY <2>1, <2>2, <2>3, <2>4, <2>5, HandlerMoves
<1>5. CASE DropSvg(t) /\ UNCHANGED <<prompt, png>>
  <2>1. PICK place \in {"look", "unlink_svg", "failed"} :
           /\ handler' = [handler EXCEPT ![t] = After(place)]
           /\ \/ h.at = "drop_svg" /\ ~svg /\ place = "look" /\ svg' = svg
              \/ h.at = "drop_svg" /\ svg /\ place = "unlink_svg" /\ svg' = svg
              \/ h.at = "unlink_svg" /\ svg /\ place = "look" /\ svg' = FALSE
              \/ h.at = "unlink_svg" /\ ~svg /\ place = "failed" /\ svg' = svg
    BY <1>2, <1>5 DEF DropSvg, At
  <2>2. Busy(t)
    BY <2>1 DEF Busy
  <2>3. Undisturbed(After(place), png', svg')
    BY <1>1, <1>3, <1>5, <2>1 DEF Undisturbed, Handlers, Prompts, Rotation, NoImage
  <2>4. prompt' = prompt /\ png' \in Prompts /\ svg' \in BOOLEAN
    BY <1>1, <1>5, <2>1
  <2>5. /\ After(place) \in Handlers
        /\ After(place).alone = handler[t].alone /\ After(place).seen = handler[t].seen
    BY <1>3, <2>1
  <2> QED
    BY <2>1, <2>2, <2>3, <2>4, <2>5, HandlerMoves
<1>6. CASE Look(t)
  <2>1. h.at = "look" /\ Busy(t) /\ UNCHANGED <<prompt, png, svg>>
    BY <1>6 DEF Look, At, Busy
  <2>2. CASE png # NoImage /\ Proceed(t, "have_png")
    <3>1. Undisturbed(After("have_png"), png', svg')
      BY <1>1, <1>3, <2>1, <2>2 DEF Undisturbed, Handlers, Prompts, Rotation, NoImage
    <3>2. /\ After("have_png") \in Handlers /\ After("have_png").alone = handler[t].alone
          /\ After("have_png").seen = handler[t].seen
      BY <1>3
    <3>3. handler' = [handler EXCEPT ![t] = After("have_png")]
      BY <1>2, <2>2
    <3>4. prompt' = prompt /\ png' \in Prompts /\ svg' \in BOOLEAN
      BY <1>1, <2>1
    <3> QED
      BY <2>1, <3>1, <3>2, <3>3, <3>4, HandlerMoves
  <2>3. ASSUME NEW p \in {prompt, Rotation}, png = NoImage,
               handler' = [handler EXCEPT ![t].at = "prompted", ![t].prompt = p]
        PROVE  LilyInv'
    <3> DEFINE g == [h EXCEPT !.at = "prompted", !.prompt = p]
    <3>1. handler' = [handler EXCEPT ![t] = g]
      BY <1>1, <2>3
    <3>2. g \in Handlers /\ g.alone = h.alone /\ g.seen = h.seen /\ g.at = "prompted"
          /\ g.prompt = p /\ g.shows = h.shows /\ g.kind = h.kind
      BY <1>1 DEF Handlers, Prompts
    <3> HIDE DEF g
    <3>3. Undisturbed(g, png', svg')
      BY <1>1, <2>1, <2>3, <3>2 DEF Undisturbed, Handlers, Rotation, NoImage
    <3>4. prompt' = prompt /\ png' \in Prompts /\ svg' \in BOOLEAN
      BY <1>1, <2>1
    <3> QED
      BY <2>1, <3>1, <3>2, <3>3, <3>4, HandlerMoves
  <2> QED
    BY <1>6, <2>2, <2>3 DEF Look
<1>7. CASE WriteFallback(t) \/ Generate(t) \/ Rename(t) \/ Settle(t)
  <2>1. PICK place \in {"generating", "made", "have_svg", "renamed", "have_png"} :
           /\ handler' = [handler EXCEPT ![t] = After(place)]
           /\ \/ h.at = "prompted" /\ place = "generating" /\ png' = png /\ svg' = TRUE
              \/ h.at = "generating" /\ place \in {"made", "have_svg"} /\ png' = png /\ svg' = svg
              \/ h.at = "made" /\ place = "renamed" /\ png' \in {h.prompt, png} /\ svg' = svg
                 /\ (png = NoImage => png' = h.prompt)
              \/ h.at = "renamed" /\ png # NoImage /\ place = "have_png" /\ png' = png /\ svg' = FALSE
              \/ h.at = "renamed" /\ place = "have_svg" /\ png' = png /\ svg' = svg
           /\ prompt' = prompt
    BY <1>2, <1>7 DEF WriteFallback, Generate, Rename, Settle, At
  <2>2. Busy(t)
    BY <2>1 DEF Busy
  <2>3. Undisturbed(After(place), png', svg')
    BY <1>1, <1>3, <2>1 DEF Undisturbed, Handlers, Prompts, Rotation, NoImage
  <2>4. png' \in Prompts /\ svg' \in BOOLEAN
    BY <1>1, <2>1 DEF Handlers
  <2>5. /\ After(place) \in Handlers
        /\ After(place).alone = handler[t].alone /\ After(place).seen = handler[t].seen
    BY <1>3, <2>1
  <2> QED
    BY <2>1, <2>2, <2>3, <2>4, <2>5, HandlerMoves
<1>8. CASE Reply(t)
  <2>1. Busy(t) /\ UNCHANGED <<prompt, png, svg>>
    BY <1>8 DEF Reply, At, Busy
  <2>2. CASE At(t, "have_svg") /\ Proceed(t, "replied")
    <3>1. Undisturbed(After("replied"), png', svg')
      BY <1>1, <1>3, <2>1, <2>2 DEF Undisturbed, Handlers, Prompts, Rotation, NoImage, At
    <3>2. /\ After("replied") \in Handlers /\ After("replied").alone = handler[t].alone
          /\ After("replied").seen = handler[t].seen
      BY <1>3
    <3>3. handler' = [handler EXCEPT ![t] = After("replied")]
      BY <1>2, <2>2
    <3>4. prompt' = prompt /\ png' \in Prompts /\ svg' \in BOOLEAN
      BY <1>1, <2>1
    <3> QED
      BY <2>1, <3>1, <3>2, <3>3, <3>4, HandlerMoves
  <2>3. CASE /\ At(t, "have_png")
             /\ handler' = [handler EXCEPT ![t].shows = png,
                   ![t].at = IF png = NoImage /\ handler[t].kind = "page"
                             THEN "failed" ELSE "replied"]
    <3> DEFINE place == IF png = NoImage /\ h.kind = "page" THEN "failed" ELSE "replied"
               g == [h EXCEPT !.shows = png, !.at = place]
    <3>1. handler' = [handler EXCEPT ![t] = g]
      BY <1>1, <2>3
    <3>2. /\ g \in Handlers /\ g.alone = h.alone /\ g.seen = h.seen /\ g.at = place
          /\ g.prompt = h.prompt /\ g.shows = png /\ g.kind = h.kind
      BY <1>1 DEF Handlers
    <3> HIDE DEF g
    <3>3. Undisturbed(g, png', svg')
      BY <1>1, <2>1, <2>3, <3>2 DEF Undisturbed, Handlers, Prompts, Rotation, NoImage, At
    <3>4. prompt' = prompt /\ png' \in Prompts /\ svg' \in BOOLEAN
      BY <1>1, <2>1
    <3> QED
      BY <2>1, <3>1, <3>2, <3>3, <3>4, HandlerMoves
  <2> QED
    BY <1>8, <2>2, <2>3 DEF Reply
<1> QED
  BY <1>4, <1>5, <1>6, <1>7, <1>8 DEF HandlerStep

\* One more request, which takes the solitude of all that are under way.
LEMMA RequestBegins ==
  ASSUME LilyInv, NEW t \in Threads, NEW kind \in {"page", "regen"}, Begin(t, kind)
  PROVE  LilyInv'
<1> DEFINE lonely == \A u \in Threads : ~Busy(u)
           g == [Idle EXCEPT !.at = IF kind = "regen" THEN "drop" ELSE "look",
                             !.kind = kind, !.seen = prompt, !.alone = lonely]
           Crowded(u) == [handler[u] EXCEPT !.alone = @ /\ ~Busy(u)]
<1>1. /\ ~Busy(t) /\ UNCHANGED <<prompt, png, svg>>
      /\ handler' = [u \in Threads |-> IF u = t THEN g ELSE Crowded(u)]
  BY DEF Begin
<1>2. /\ g \in Handlers /\ g.alone = lonely /\ g.seen = prompt /\ g.shows = NoImage
      /\ g.kind = kind /\ g.at = IF kind = "regen" THEN "drop" ELSE "look"
  <2>1. lonely \in BOOLEAN
    OBVIOUS
  <2> HIDE DEF lonely
  <2> QED
    BY <2>1 DEF Handlers, Prompts, Idle, NoImage, LilyInv
<1>3. ASSUME NEW u \in Threads
      PROVE  /\ Crowded(u) \in Handlers /\ Crowded(u).at = handler[u].at
             /\ Crowded(u).alone = (handler[u].alone /\ ~Busy(u))
             /\ Crowded(u).seen = handler[u].seen /\ Crowded(u).kind = handler[u].kind
             /\ Crowded(u).shows = handler[u].shows /\ Crowded(u).prompt = handler[u].prompt
  <2>1. handler[u] \in Handlers
    BY DEF LilyInv
  <2>2. (handler[u].alone /\ ~Busy(u)) \in BOOLEAN
    OBVIOUS
  <2>3. Crowded(u) = [handler[u] EXCEPT !.alone = handler[u].alone /\ ~Busy(u)]
    OBVIOUS
  <2> DEFINE still == handler[u].alone /\ ~Busy(u)
  <2> HIDE DEF still
  <2>4. still \in BOOLEAN /\ Crowded(u) = [handler[u] EXCEPT !.alone = still]
    BY <2>2, <2>3 DEF still
  <2> HIDE DEF Crowded
  <2> QED
    BY <2>1, <2>4 DEF Handlers, still
<1> HIDE DEF g, Crowded, lonely
<1>4. handler' \in [Threads -> Handlers]
  BY <1>1, <1>2, <1>3
<1>5. ASSUME NEW u \in Threads
      PROVE  handler'[u].seen <= prompt' /\ Undisturbed(handler'[u], png', svg')
  <2>1. CASE u = t
    BY <1>1, <1>2, <2>1 DEF Undisturbed, LilyInv
  <2>2. CASE u # t
    <3>1. Undisturbed(handler[u], png, svg) /\ handler[u].seen <= prompt /\ handler[u] \in Handlers
      BY DEF LilyInv
    <3>2. handler'[u] = Crowded(u)
      BY <1>1, <2>2
    <3>3. handler'[u].seen <= prompt'
      BY <1>1, <1>3, <3>1, <3>2
    <3>4. CASE handler[u].alone /\ ~Busy(u)
      <4>1. handler[u].at \in {"idle", "replied", "failed"}
        BY <3>4 DEF Busy
      <4>2. Undisturbed(Crowded(u), png, svg)
        <5>1. Undisturbed(handler[u], png, svg) /\ handler[u].alone
          BY <3>1, <3>4
        <5> QED
          BY <1>3, <4>1, <5>1 DEF Undisturbed
      <4> QED
        BY <1>1, <3>2, <3>3, <4>2
    <3>5. CASE ~(handler[u].alone /\ ~Busy(u))
      <4>1. ~Crowded(u).alone
        BY <1>3, <3>5
      <4> QED
        BY <3>2, <3>3, <4>1 DEF Undisturbed
    <3> QED
      BY <3>4, <3>5
  <2> QED
    BY <2>1, <2>2
<1>6. ASSUME NEW u \in Threads, NEW v \in Threads, u # v, handler'[u].alone, Busy(u)'
      PROVE  ~Busy(v)'
  <2>1. u = t /\ lonely
    BY <1>1, <1>2, <1>3, <1>6 DEF Busy
  <2> QED
    BY <1>1, <1>3, <1>6, <2>1 DEF Busy, lonely
<1> QED
  BY <1>1, <1>4, <1>5, <1>6 DEF LilyInv

\* Every step.
LEMMA LilyStep == LilyInv /\ [LilyNext]_lilyVars => LilyInv'
<1> SUFFICES ASSUME LilyInv, [LilyNext]_lilyVars PROVE LilyInv'
  OBVIOUS
<1>1. CASE SavePrompt
  <2>1. prompt' = prompt + 1 /\ prompt' \in Nat \ {0} /\ UNCHANGED <<png, svg, handler>>
    BY <1>1 DEF SavePrompt, LilyInv
  <2>2. \A t \in Threads : handler[t].seen <= prompt'
    BY <2>1 DEF LilyInv, Handlers
  <2> QED
    BY <2>1, <2>2 DEF LilyInv, Busy
<1>2. CASE \E t \in Threads : HandlerStep(t)
  BY <1>2, HandlerKeeps
<1>3. CASE \E t \in Threads : \E kind \in {"page", "regen"} : Begin(t, kind)
  BY <1>3, RequestBegins
<1>4. CASE UNCHANGED lilyVars
  BY <1>4 DEF lilyVars, LilyInv, Busy
<1> QED
  BY <1>1, <1>2, <1>3, <1>4 DEF LilyNext

\* A page or a regen that no other request overlapped succeeds, and a regen
\* shows the image it made, of a prompt as new as the one saved before it or,
\* when it could not read the prompt, of the rotation (lily_portrait.py,
\* _handle_lily_regen): for any number of threads and saves, whether rename()
\* overwrites or fails.
THEOREM AloneShowsTheNewPrompt == LilySpec => []UndisturbedRequest
<1>1. LilyInv => UndisturbedRequest
  BY DEF LilyInv, UndisturbedRequest, Undisturbed, At
<1> QED
  BY <1>1, LilyStart, LilyStep, PTL DEF LilySpec

-----------------------------------------------------------------------------
(* The page.                                                               *)

Clicks == [at : {"none", "asked", "closed", "refused", "timer", "sync"}, todo : Todos,
           kind : {"done", "cancel"}, gone : SUBSET Todos, attached : BOOLEAN]
Answers == [at : {"none", "asked", "gathered", "rendering", "answered"},
            kind : {"quiet", "manual", "brief", "load"}, rows : SUBSET Todos,
            typed : BOOLEAN, audio : {"none", "startup", "later"}]

\* What the counter of a card can be.
Counts == 0..Cardinality(Todos)

\* TypeOK in the words of these definitions, page a record of two fields.
PageInv ==
    /\ open \in SUBSET Todos
    /\ page = [rows |-> page.rows, count |-> page.count]
    /\ page.rows \in SUBSET Todos /\ page.count \in Counts
    /\ typed \in BOOLEAN /\ playing \in BOOLEAN /\ events \in 0..MaxEvents
    /\ shown \in {"page", "alert", "error"}
    /\ click \in Clicks /\ request \in [Requests -> Answers]
    /\ audio \in {"none", "startup", "later"} /\ starting \in {"building", "done"}

\* A card has no more rows than its project.
LEMMA CardCounts ==
  ASSUME NEW rows \in SUBSET Todos
  PROVE  IsFiniteSet(rows) /\ Cardinality(rows) \in Counts
<1>1. IsFiniteSet(Todos)
  BY PortalAssumption
<1>2. IsFiniteSet(rows) /\ Cardinality(rows) <= Cardinality(Todos)
  BY <1>1, FS_Subset
<1>3. Cardinality(rows) \in Nat /\ Cardinality(Todos) \in Nat
  BY <1>1, <1>2, FS_CardinalityType
<1> QED
  BY <1>2, <1>3 DEF Counts

\* The counter is kept from going below zero, and only goes down.
LEMMA MinusCounts ==
  ASSUME NEW n \in Counts, NEW k \in Nat
  PROVE  Minus(n, k) \in Counts
<1>1. Cardinality(Todos) \in Nat
  BY PortalAssumption, FS_CardinalityType
<1> QED
  BY <1>1 DEF Minus, Counts

\* The buttons and requests that begin nothing are well formed.
LEMMA Blank == NoClick \in Clicks /\ NoRequest \in Answers
<1>1. (CHOOSE t \in Todos : TRUE) \in Todos
  BY PortalAssumption
<1> QED
  BY <1>1 DEF NoClick, NoRequest, Clicks, Answers

\* The page that is served first.
LEMMA PageStart == PortalInit => PageInv
<1> SUFFICES ASSUME PortalInit PROVE PageInv
  OBVIOUS
<1>1. open \in SUBSET Todos /\ page = [rows |-> open, count |-> Cardinality(open)]
  BY DEF PortalInit
<1>2. /\ page = [rows |-> page.rows, count |-> page.count]
      /\ page.rows \in SUBSET Todos /\ page.count \in Counts
  BY <1>1, CardCounts
<1>3. 0 \in 0..MaxEvents
  BY PortalAssumption
<1>4. request \in [Requests -> Answers] /\ click \in Clicks
  BY Blank DEF PortalInit
<1>5. /\ typed \in BOOLEAN /\ playing \in BOOLEAN /\ events \in 0..MaxEvents
      /\ shown \in {"page", "alert", "error"}
      /\ audio \in {"none", "startup", "later"} /\ starting \in {"building", "done"}
  BY <1>3 DEF PortalInit
<1> QED
  BY <1>1, <1>2, <1>4, <1>5 DEF PageInv

\* One event more is within the bound.
LEMMA EventCounted == ASSUME PageInv, Event PROVE events' \in 0..MaxEvents
BY PortalAssumption DEF PageInv, Event

\* A request that asks is a request.
LEMMA Asks ==
  ASSUME PageInv, NEW r \in Requests, NEW kind \in {"quiet", "manual"}, AskRefresh(r, kind)
  PROVE  request' \in [Requests -> Answers]
<1>1. [NoRequest EXCEPT !.at = "asked", !.kind = kind, !.typed = typed] \in Answers
  BY Blank DEF PageInv, Answers
<1> QED
  BY <1>1 DEF AskRefresh, PageInv

\* What the page does by itself: timers, the user's clicks and typing.
LEMMA PageActs ==
  ASSUME PageInv,
         \/ Type \/ Play \/ EndOfAudio \/ Dismiss \/ ClickRefused \/ ClickFailed
         \/ \E t \in Todos, kind \in {"done", "cancel"} : Press(t, kind)
         \/ \E r \in Requests : Tick(r) \/ PressRefresh(r) \/ PressGenerate(r) \/ Reload(r)
                             \/ ClickTimer(r)
  PROVE  PageInv'
<1>1. CASE Type
  BY <1>1, EventCounted DEF Type, PageInv
<1>2. CASE Play
  BY <1>2, EventCounted DEF Play, PageInv
<1>3. CASE EndOfAudio
  BY <1>3 DEF EndOfAudio, PageInv
<1>4. CASE ClickRefused
  <2>1. click' \in Clicks
    BY <1>4, Blank DEF ClickRefused, Clicks
  <2> QED
    BY <1>4, <2>1 DEF ClickRefused, PageInv
<1>5. CASE ClickFailed
  BY <1>5, EventCounted, Blank DEF ClickFailed, PageInv
<1>6. ASSUME NEW t \in Todos, NEW kind \in {"done", "cancel"}, Press(t, kind) PROVE PageInv'
  <2>1. [NoClick EXCEPT !.at = "asked", !.todo = t, !.kind = kind] \in Clicks
    BY Blank DEF Clicks
  <2> QED
    BY <1>6, <2>1, EventCounted DEF Press, PageInv
<1>7. ASSUME NEW r \in Requests, Tick(r) \/ PressRefresh(r) PROVE PageInv'
  <2>1. request' \in [Requests -> Answers]
    BY <1>7, Asks DEF Tick, PressRefresh
  <2> QED
    BY <1>7, <2>1 DEF Tick, PressRefresh, PageInv
<1>8. ASSUME NEW r \in Requests, PressGenerate(r) PROVE PageInv'
  <2>1. [NoRequest EXCEPT !.at = "asked", !.kind = "brief"] \in Answers
    BY Blank DEF Answers
  <2>2. request' \in [Requests -> Answers]
    BY <1>8, <2>1 DEF PressGenerate, PageInv
  <2> QED
    BY <1>8, <2>2, EventCounted DEF PressGenerate, PageInv
<1>9. ASSUME NEW r \in Requests, ClickTimer(r) PROVE PageInv'
  <2>1. request' \in [Requests -> Answers] /\ click' \in Clicks
    BY <1>9, Asks, Blank DEF ClickTimer
  <2> QED
    BY <1>9, <2>1 DEF ClickTimer, PageInv
<1>10. CASE Dismiss
  BY <1>10 DEF Dismiss, PageInv
<1>11. ASSUME NEW r \in Requests, Reload(r) PROVE PageInv'
  <2>1. [NoRequest EXCEPT !.at = "asked", !.kind = "load"] \in Answers
    BY Blank DEF Answers
  <2>2. request' \in [Requests -> Answers]
    BY <1>11, <2>1 DEF Reload, PageInv
  <2>3. events' \in 0..MaxEvents
    BY <1>11, EventCounted DEF Reload, PageInv
  <2> QED
    BY <1>11, <2>2, <2>3 DEF Reload, PageInv
<1> QED
  BY <1>1, <1>2, <1>3, <1>4, <1>5, <1>6, <1>7, <1>8, <1>9, <1>10, <1>11

\* An answer reaches the page, or is forgotten with it.
LEMMA PageAnswers ==
  ASSUME PageInv, NEW r \in Requests, Delivery(r)
  PROVE  PageInv'
<1>1. request[r] \in Answers /\ request[r].rows \in SUBSET Todos /\ request[r].typed \in BOOLEAN
  BY DEF PageInv, Answers
<1> DEFINE fresh == [rows |-> request[r].rows, count |-> Cardinality(request[r].rows)]
<1>2. /\ fresh = [rows |-> fresh.rows, count |-> fresh.count]
      /\ fresh.rows \in SUBSET Todos /\ fresh.count \in Counts
  BY <1>1, CardCounts
<1> HIDE DEF fresh
<1>3. CASE Refreshed(r)
  <2>1. page' = fresh /\ typed' \in BOOLEAN /\ request' \in [Requests -> Answers]
    BY <1>1, <1>3, Blank DEF Refreshed, Restored, PageInv, fresh
  <2>2. click' \in Clicks
    BY <1>3 DEF Refreshed, Detached, PageInv, Clicks
  <2> QED
    BY <1>2, <1>3, <2>1, <2>2 DEF Refreshed, PageInv
<1>4. CASE Generated(r)
  <2>1. [NoRequest EXCEPT !.at = "asked", !.kind = "load"] \in Answers
    BY Blank DEF Answers
  <2>2. request' \in [Requests -> Answers]
    BY <1>4, <2>1 DEF Generated, PageInv
  <2> QED
    BY <1>4, <2>2 DEF Generated, PageInv
<1>5. CASE Loaded(r)
  <2>1. page' = fresh /\ typed' \in BOOLEAN /\ playing' \in BOOLEAN
    BY <1>5 DEF Loaded, fresh
  <2>2. request' \in [Requests -> Answers] /\ click' \in Clicks
    BY <1>5, Blank DEF Loaded
  <2> QED
    BY <1>2, <1>5, <2>1, <2>2 DEF Loaded, PageInv
<1> QED
  BY <1>3, <1>4, <1>5 DEF Delivery

\* The rows a click has closed are taken off the page and off its counter.
LEMMA RowsRemoved == ASSUME PageInv, ClickAnswered PROVE PageInv'
<1> DEFINE rows == page.rows \cap click.gone
           less == Minus(page.count, Cardinality(rows))
<1>1. rows \in SUBSET Todos /\ Cardinality(rows) \in Nat
  <2>1. rows \in SUBSET Todos
    BY DEF PageInv
  <2>2. IsFiniteSet(rows)
    BY <2>1, CardCounts
  <2> QED
    BY <2>1, <2>2, FS_CardinalityType
<1>2. less \in Counts
  <2> HIDE DEF rows
  <2> QED
    BY <1>1, MinusCounts DEF PageInv
<1>3. Minus(less, 1) \in Counts
  <2> HIDE DEF less
  <2> QED
    BY <1>2, MinusCounts
<1>4. page' = [rows |-> page.rows \ rows,
               count |-> IF click.kind = "cancel" /\ click.attached THEN Minus(less, 1) ELSE less]
  BY DEF ClickAnswered, Removed
<1> HIDE DEF less
<1>5. /\ page' = [rows |-> page'.rows, count |-> page'.count]
      /\ page'.rows \in SUBSET Todos /\ page'.count \in Counts
  BY <1>2, <1>3, <1>4 DEF PageInv
<1>6. click' \in Clicks
  BY Blank DEF ClickAnswered, Clicks
<1> QED
  BY <1>5, <1>6 DEF ClickAnswered, PageInv

\* The handlers of the server, the thread of main() and other programs.
LEMMA ServerActs ==
  ASSUME PageInv,
         \/ AnswerClick \/ DatabaseChange \/ StartupBrief
         \/ \E r \in Requests : ServerStep(r) \/ Fail(r) \/ AddTodo(r)
  PROVE  PageInv'
<1>1. CASE AnswerClick
  <2>1. \A gone \in Closings(click.todo) : gone \in SUBSET Todos
    BY DEF Closings, PageInv
  <2>2. open' \in SUBSET Todos /\ click' \in Clicks
    <3>1. open \in SUBSET Todos /\ click \in Clicks
      BY DEF PageInv
    <3>2. ASSUME NEW gone \in Closings(click.todo), open' = open \ gone,
                 click' = [click EXCEPT !.at = "closed", !.gone = gone]
          PROVE  open' \in SUBSET Todos /\ click' \in Clicks
      <4>1. gone \in SUBSET Todos
        BY <2>1
      <4>2. [click EXCEPT !.at = "closed", !.gone = gone] \in Clicks
        BY <3>1, <4>1 DEF Clicks
      <4> QED
        BY <3>1, <3>2, <4>2
    <3>3. ASSUME open' = open, click' = [click EXCEPT !.at = "refused"]
          PROVE  open' \in SUBSET Todos /\ click' \in Clicks
      BY <3>1, <3>3 DEF Clicks
    <3> QED
      BY <1>1, <3>2, <3>3 DEF AnswerClick
  <2> QED
    BY <1>1, <2>2 DEF AnswerClick, PageInv
<1>2. CASE DatabaseChange
  <2>1. open' \in SUBSET Todos
    BY <1>2 DEF DatabaseChange, PageInv
  <2> QED
    BY <1>2, <2>1, EventCounted DEF DatabaseChange, PageInv
<1>3. CASE StartupBrief
  BY <1>3 DEF StartupBrief, PageInv
<1>4. ASSUME NEW r \in Requests, ServerStep(r) PROVE PageInv'
  <2>1. request[r] \in Answers /\ request[r].audio \in {"none", "startup", "later"}
    BY DEF PageInv, Answers
  <2>2. CASE Gather(r)
    <3>1. [request[r] EXCEPT !.at = "gathered", !.rows = open] \in Answers
      BY <2>1 DEF PageInv, Answers
    <3>2. request' = [request EXCEPT ![r] = [request[r] EXCEPT !.at = "gathered", !.rows = open]]
      BY <2>2 DEF Gather, PageInv
    <3>3. request' \in [Requests -> Answers]
      BY <3>1, <3>2 DEF PageInv
    <3> QED
      BY <2>2, <3>3 DEF Gather, PageInv
  <2>3. CASE KeepAudio(r)
    <3>1. [request[r] EXCEPT !.at = "rendering", !.audio = audio] \in Answers
      BY <2>1 DEF PageInv, Answers
    <3>2. request' = [request EXCEPT ![r] = [request[r] EXCEPT !.at = "rendering", !.audio = audio]]
      BY <2>3 DEF KeepAudio, PageInv
    <3>3. request' \in [Requests -> Answers]
      BY <3>1, <3>2 DEF PageInv
    <3> QED
      BY <2>3, <3>3 DEF KeepAudio, PageInv
  <2>4. CASE UpdateState(r)
    <3>1. [request[r] EXCEPT !.at = "answered", !.audio = "none"] \in Answers
      BY <2>1 DEF Answers
    <3>2. request' = [request EXCEPT ![r] = [request[r] EXCEPT !.at = "answered", !.audio = "none"]]
      BY <2>4 DEF UpdateState, PageInv
    <3>3. request' \in [Requests -> Answers]
      BY <3>1, <3>2 DEF PageInv
    <3> QED
      BY <2>1, <2>4, <3>3 DEF UpdateState, PageInv
  <2>5. CASE Synthesize(r) \/ ServePortal(r)
    <3>1. [request[r] EXCEPT !.at = "answered"] \in Answers
      BY <2>1 DEF Answers
    <3>2. request' = [request EXCEPT ![r] = [request[r] EXCEPT !.at = "answered"]]
      BY <2>5 DEF Synthesize, ServePortal, PageInv
    <3>3. request' \in [Requests -> Answers]
      BY <3>1, <3>2 DEF PageInv
    <3>4. events' \in 0..MaxEvents
      BY <2>5, EventCounted DEF Synthesize, ServePortal, PageInv
    <3> QED
      BY <2>5, <3>3, <3>4 DEF Synthesize, ServePortal, PageInv
  <2> QED
    BY <1>4, <2>2, <2>3, <2>4, <2>5 DEF ServerStep
<1>5. ASSUME NEW r \in Requests, Fail(r) PROVE PageInv'
  <2>1. request' \in [Requests -> Answers] /\ shown' \in {"page", "alert", "error"}
    BY <1>5, Blank DEF Fail, PageInv
  <2>2. page' = page \/ page' = [rows |-> {}, count |-> 0]
    BY <1>5 DEF Fail
  <2>3. /\ page' = [rows |-> page'.rows, count |-> page'.count]
        /\ page'.rows \in SUBSET Todos /\ page'.count \in Counts
    <3>1. 0 \in Counts
      BY CardCounts, FS_EmptySet
    <3> QED
      BY <2>2, <3>1 DEF PageInv
  <2> QED
    BY <1>5, <2>1, <2>3, EventCounted, Blank DEF Fail, PageInv
<1>6. ASSUME NEW r \in Requests, AddTodo(r) PROVE PageInv'
  <2>1. [NoRequest EXCEPT !.at = "asked", !.kind = "load"] \in Answers
    BY Blank DEF Answers
  <2>2. request' \in [Requests -> Answers] /\ open' \in SUBSET Todos
    BY <1>6, <2>1 DEF AddTodo, PageInv
  <2> QED
    BY <1>6, <2>2, EventCounted DEF AddTodo, PageInv
<1> QED
  BY <1>1, <1>2, <1>3, <1>4, <1>5, <1>6

\* Every step.
LEMMA PageStep == PageInv /\ [PortalNext]_portalVars => PageInv'
<1> SUFFICES ASSUME PageInv, [PortalNext]_portalVars PROVE PageInv'
  OBVIOUS
<1>1. CASE UNCHANGED portalVars
  BY <1>1 DEF portalVars, PageInv
<1> QED
  BY <1>1, PageActs, PageAnswers, RowsRemoved, ServerActs DEF PortalNext

\* The counter of a card is a number of rows its project can have, whatever
\* order refreshes, removals and the second subtraction of cancelTodo come in
\* (_refreshStatusInPlace, _removeAffectedTodoRows, _updateProgressBar), and
\* the state of page and server is well formed.
THEOREM CounterInRange == PortalSpec => []TypeOK
<1>1. PageInv => TypeOK
  BY DEF PageInv, TypeOK, Clicks, Answers, Counts
<1> QED
  BY <1>1, PageStart, PageStep, PTL DEF PortalSpec

-----------------------------------------------------------------------------
(* The cards.                                                              *)

States == {"absent", "open", "done"}
Lines == [state : States, project : Projects, parent : 0..MaxId - 1]
Cards == [at : {"open", "all", "done", "built"}, open : SUBSET Ids, allOpen : SUBSET Ids,
          allDone : SUBSET Ids, seen : SUBSET Ids]

\* Rows are numbered upwards, a child after its parent: ids that are not used
\* yet are the last ones, so the parent of a row that is there is there.
Forest ==
    /\ line \in [Ids -> Lines]
    /\ \A x \in Ids : line[x].parent < x
    /\ \A x \in Ids : line[x].state = "absent" => \A y \in x..MaxId : line[y].state = "absent"

\* What the three reads found is related to what the table says now: a row that
\* was open may be done, one that was done is done, and the parent of a row on
\* the card was looked up if it is still open.
CardInv ==
    /\ Forest
    /\ card \in Cards
    /\ State("open") \subseteq card.seen
    /\ card.open \subseteq card.seen /\ card.allOpen \subseteq card.seen
    /\ \A x \in card.open \cup card.allOpen : line[x].state # "absent"
    /\ card.allDone \subseteq State("done")
    /\ card.at \in {"done", "built"} =>
          \A x \in card.open \cup card.allOpen :
             line[x].parent \in State("open") => line[x].parent \in card.allOpen

\* The parent of a row that is there is there.
LEMMA ParentsThere ==
  ASSUME Forest, NEW x \in Ids, line[x].state # "absent", line[x].parent # 0
  PROVE  line[x].parent \in Ids /\ line[line[x].parent].state # "absent"
<1>1. line[x] \in Lines /\ line[x].parent \in 0..MaxId - 1 /\ line[x].parent < x
  BY DEF Forest, Lines
<1>2. line[x].parent \in Ids /\ x \in line[x].parent..MaxId
  BY <1>1, CardAssumption DEF Ids
<1> QED
  BY <1>2 DEF Forest

\* Before the first read.
LEMMA CardStart == CardInit => CardInv
<1> SUFFICES ASSUME CardInit PROVE CardInv
  OBVIOUS
<1>1. Forest
  BY DEF CardInit, Forest, Lines, States
<1>2. card \in Cards
  BY DEF CardInit, Cards, State
<1> QED
  BY <1>1, <1>2 DEF CardInit, CardInv

\* Between the reads rows appear and are closed, and keep their parents.
LEMMA TableMoves ==
  ASSUME CardInv, NEW k \in Ids, CloseTree(k) \/ AddRow(k)
  PROVE  /\ Forest'
         /\ \A x \in Ids : line[x].state # "absent" =>
               /\ line'[x].parent = line[x].parent /\ line'[x].state # "absent"
               /\ line'[x].state = "open" => line[x].state = "open"
               /\ line[x].state = "done" => line'[x].state = "done"
         /\ State("open")' \subseteq card'.seen
         /\ card' \in Cards /\ card.seen \subseteq card'.seen
         /\ card'.at = card.at /\ card'.open = card.open
         /\ card'.allOpen = card.allOpen /\ card'.allDone = card.allDone
<1> USE DEF CardInv
<1>1. CASE CloseTree(k)
  <2>1. /\ card' = card /\ DOMAIN line' = Ids
        /\ \A y \in Ids : \/ line'[y] = line[y]
                          \/ line[y].state = "open" /\ line'[y] = [line[y] EXCEPT !.state = "done"]
    BY <1>1 DEF CloseTree
  <2>2. ASSUME NEW y \in Ids
        PROVE  /\ line'[y] \in Lines /\ line'[y].parent = line[y].parent
               /\ line'[y].state = "absent" <=> line[y].state = "absent"
               /\ line'[y].state = "open" => line[y].state = "open"
               /\ line[y].state = "done" => line'[y].state = "done"
    BY <2>1 DEF Forest, Lines, States
  <2>3. line' \in [Ids -> Lines]
    <3>1. line' = [y \in Ids |-> line'[y]]
      BY <1>1 DEF CloseTree
    <3> QED
      BY <2>2, <3>1
  <2>4. \A x \in Ids : line'[x].state = "absent" => \A y \in x..MaxId : line'[y].state = "absent"
    BY <2>2, CardAssumption DEF Forest, Ids
  <2>5. Forest'
    BY <2>2, <2>3, <2>4 DEF Forest
  <2>6. State("open")' \subseteq State("open")
    BY <2>2 DEF State
  <2> QED
    BY <2>1, <2>2, <2>5, <2>6
<1>2. CASE AddRow(k)
  <2>1. PICK p \in 0..k - 1, project \in Projects :
           line' = [line EXCEPT ![k] = [state |-> "open", project |-> project, parent |-> p]]
    BY <1>2 DEF AddRow
  <2> DEFINE new == [state |-> "open", project |-> project, parent |-> p]
  <2>2. /\ line[k].state = "absent" /\ \A y \in 1..k - 1 : line[y].state # "absent"
        /\ card' = [card EXCEPT !.seen = card.seen \cup {k}]
    BY <1>2 DEF AddRow
  <2>3. new \in Lines /\ new.parent < k /\ new.state = "open"
    BY CardAssumption DEF Lines, States, Ids
  <2>4. line' \in [Ids -> Lines] /\ line'[k] = new /\ \A y \in Ids \ {k} : line'[y] = line[y]
    BY <2>1, <2>3 DEF Forest
  <2> HIDE DEF new
  <2>5. ASSUME NEW x \in Ids, line'[x].state = "absent", NEW y \in x..MaxId
        PROVE  line'[y].state = "absent"
    <3>1. x # k /\ line[x].state = "absent"
      BY <2>3, <2>4, <2>5
    <3>2. k < x
      BY <2>2, <3>1 DEF Ids
    <3>3. y \in Ids \ {k}
      BY <3>2, <2>5 DEF Ids
    <3>4. line[y].state = "absent"
      BY <2>5, <3>1 DEF Forest
    <3> QED
      BY <2>4, <3>3, <3>4
  <2>6. Forest'
    BY <2>3, <2>4, <2>5 DEF Forest
  <2>7. State("open")' \subseteq State("open") \cup {k}
    BY <2>4 DEF State
  <2>8. /\ card' \in Cards /\ card'.seen = card.seen \cup {k}
        /\ card'.at = card.at /\ card'.open = card.open
        /\ card'.allOpen = card.allOpen /\ card'.allDone = card.allDone
    BY <2>2 DEF Cards
  <2> QED
    BY <2>2, <2>4, <2>6, <2>7, <2>8
<1> QED
  BY <1>1, <1>2

\* Every step of the gather and of the others.
LEMMA CardStep == CardInv /\ [CardNext]_cardVars => CardInv'
<1> SUFFICES ASSUME CardInv, [CardNext]_cardVars PROVE CardInv'
  OBVIOUS
<1>1. ASSUME NEW k \in Ids, CloseTree(k) \/ AddRow(k)
      PROVE  CardInv'
  <2>1. /\ Forest' /\ State("open")' \subseteq card'.seen
        /\ card' \in Cards /\ card.seen \subseteq card'.seen
        /\ card'.at = card.at /\ card'.open = card.open
        /\ card'.allOpen = card.allOpen /\ card'.allDone = card.allDone
    BY <1>1, TableMoves
  <2>2. \A x \in Ids : line[x].state # "absent" =>
               /\ line'[x].parent = line[x].parent /\ line'[x].state # "absent"
               /\ line'[x].state = "open" => line[x].state = "open"
               /\ line[x].state = "done" => line'[x].state = "done"
    BY <1>1, TableMoves
  <2>3. card.open \subseteq Ids /\ card.allOpen \subseteq Ids
    BY DEF CardInv, Cards
  <2>4. card'.allDone \subseteq State("done")'
    BY <2>1, <2>2 DEF CardInv, State
  <2>5. \A x \in card'.open \cup card'.allOpen : line'[x].state # "absent"
    BY <2>1, <2>2, <2>3 DEF CardInv
  <2>6. ASSUME card'.at \in {"done", "built"}, NEW x \in card'.open \cup card'.allOpen,
               line'[x].parent \in State("open")'
        PROVE  line'[x].parent \in card'.allOpen
    <3>1. x \in Ids /\ line[x].state # "absent" /\ line'[x].parent = line[x].parent
      BY <2>1, <2>2, <2>3, <2>6 DEF CardInv
    <3>2. line[x].parent \in Ids /\ line'[line[x].parent].state = "open"
      BY <2>6, <3>1 DEF State
    <3>3. line[x].parent # 0
      BY <3>2 DEF Ids
    <3>4. line[line[x].parent].state # "absent"
      BY <3>1, <3>3, ParentsThere DEF CardInv
    <3>5. line[x].parent \in State("open")
      BY <2>2, <3>2, <3>4 DEF State
    <3> QED
      BY <2>1, <2>6, <3>1, <3>5 DEF CardInv
  <2>7. card'.open \subseteq card'.seen /\ card'.allOpen \subseteq card'.seen
    BY <2>1 DEF CardInv
  <2> QED
    BY <2>1, <2>4, <2>5, <2>6, <2>7 DEF CardInv
<1>2. CASE ReadOpen \/ ReadAllOpen \/ ReadAllDone
  <2>1. line' = line /\ Forest' /\ card \in Cards
    BY <1>2 DEF ReadOpen, ReadAllOpen, ReadAllDone, CardInv, Forest, Lines
  <2>2. \A s \in States : State(s)' = State(s) /\ State(s) \in SUBSET Ids
    BY <2>1 DEF State
  <2>3. CASE ReadOpen
    <3> DEFINE found == {x \in State("open") : line[x].project = Home}
    <3>1. found \subseteq State("open") /\ found \in SUBSET Ids
      BY DEF State
    <3>2. card.at = "open" /\ card' = [card EXCEPT !.at = "all", !.open = found]
      BY <2>3 DEF ReadOpen
    <3> HIDE DEF found
    <3>3. /\ card' \in Cards /\ card'.at = "all" /\ card'.open = found
          /\ card'.allOpen = card.allOpen /\ card'.allDone = card.allDone /\ card'.seen = card.seen
      BY <2>1, <3>1, <3>2 DEF Cards
    <3>4. \A x \in found : line[x].state # "absent"
      BY <3>1 DEF State
    <3> QED
      BY <2>1, <2>2, <3>1, <3>3, <3>4 DEF CardInv, States
  <2>4. CASE ReadAllOpen
    <3>1. State("open") \in SUBSET Ids /\ \A x \in State("open") : line[x].state # "absent"
      BY DEF State
    <3>2. card.at = "all" /\ card' = [card EXCEPT !.at = "done", !.allOpen = State("open")]
      BY <2>4 DEF ReadAllOpen
    <3>3. /\ card' \in Cards /\ card'.at = "done" /\ card'.open = card.open
          /\ card'.allOpen = State("open") /\ card'.allDone = card.allDone /\ card'.seen = card.seen
      BY <2>1, <3>1, <3>2 DEF Cards
    <3> QED
      BY <2>1, <2>2, <3>1, <3>3 DEF CardInv, States
  <2>5. CASE ReadAllDone
    <3>1. State("done") \in SUBSET Ids
      BY DEF State
    <3>2. card.at = "done" /\ card' = [card EXCEPT !.at = "built", !.allDone = State("done")]
      BY <2>5 DEF ReadAllDone
    <3>3. /\ card' \in Cards /\ card'.at = "built" /\ card'.open = card.open
          /\ card'.allOpen = card.allOpen /\ card'.allDone = State("done") /\ card'.seen = card.seen
      BY <2>1, <3>1, <3>2 DEF Cards
    <3> QED
      BY <2>1, <2>2, <3>1, <3>2, <3>3 DEF CardInv, States
  <2> QED
    BY <1>2, <2>3, <2>4, <2>5
<1>3. CASE UNCHANGED cardVars
  BY <1>3 DEF cardVars, CardInv, Forest, State, Lines, Cards
<1> QED
  BY <1>1, <1>2, <1>3 DEF CardNext

\* What holds of no number below it holds of none: the least number principle,
\* for the numbers that fall in a set.
LEMMA Least ==
  ASSUME NEW T \in SUBSET Nat, T # {}
  PROVE  \E x \in T : \A y \in T : x <= y
<1>1. PICK R : IsWellFoundedOn(R, Nat) /\ \A x, y \in Nat : y < x => <<y, x>> \in R
  <2> DEFINE R == OpToRel(<, Nat)
  <2>1. IsWellFoundedOn(R, Nat)
    BY NatLessThanWellFounded
  <2>2. \A x, y \in Nat : y < x => <<y, x>> \in R
    BY DEF OpToRel
  <2> QED
    BY <2>1, <2>2
<1>2. PICK x \in T : \A y \in T : ~ (<<y, x>> \in R)
  BY <1>1, WFMin
<1>3. \A y \in T : ~(y < x) /\ y \in Nat /\ x \in Nat
  BY <1>1, <1>2
<1> QED
  BY <1>3

\* Upwards is the function its definition asks for: there is one, which gives
\* for each row the smallest set that holds the row and, with each row, its
\* parent, as far as the rows were found.
LEMMA UpwardsDefined ==
  ASSUME Forest, card \in Cards
  PROVE  \A x \in 0..MaxId :
            Upwards[x] = IF x = 0 \/ x \notin ById THEN {} ELSE {x} \cup Upwards[line[x].parent]
<1>1. ById \in SUBSET Ids /\ Ids \subseteq 0..MaxId /\ 0 \notin Ids
  BY CardAssumption DEF ById, Cards, Ids
<1>2. \A x \in Ids : line[x].parent \in 0..MaxId
  BY CardAssumption DEF Forest, Lines
<1> DEFINE Closed(S) == \A y \in S : line[y].parent \in ById => line[y].parent \in S
           Above(x) == {y \in ById : \A S \in SUBSET ById : (Closed(S) /\ (x \in ById => x \in S)) => y \in S}
           f == [x \in 0..MaxId |-> Above(x)]
<1>3. ASSUME NEW x \in 0..MaxId, x \notin ById
      PROVE  Above(x) = {}
  <2>1. Closed({}) /\ {} \in SUBSET ById
    OBVIOUS
  <2> QED
    BY <1>3, <2>1
<1>4. ASSUME NEW x \in ById
      PROVE  Above(x) = {x} \cup Above(line[x].parent)
  <2> DEFINE p == line[x].parent
  <2>1. ASSUME NEW S \in SUBSET ById, Closed(S), x \in S
        PROVE  {x} \cup Above(p) \subseteq S
    BY <2>1
  <2>2. {x} \cup Above(p) \subseteq Above(x)
    BY <2>1
  <2> DEFINE B == {x} \cup Above(p)
  <2>3. B \in SUBSET ById /\ x \in B
    OBVIOUS
  <2>4. p \in ById => p \in Above(p)
    OBVIOUS
  <2>5. ASSUME NEW y \in Above(p), line[y].parent \in ById
        PROVE  line[y].parent \in Above(p)
    BY <2>5
  <2>6. Closed(B)
    BY <2>4, <2>5
  <2>7. Above(x) \subseteq B
    <3> HIDE DEF B
    <3> QED
      BY <2>3, <2>6
  <2> QED
    BY <2>2, <2>7
<1>5. f = [x \in 0..MaxId |-> IF x = 0 \/ x \notin ById THEN {} ELSE {x} \cup f[line[x].parent]]
  <2> HIDE DEF Above
  <2>1. \A x \in 0..MaxId : Above(x) = IF x = 0 \/ x \notin ById THEN {} ELSE {x} \cup f[line[x].parent]
    BY <1>1, <1>2, <1>3, <1>4
  <2> QED
    BY <2>1
<1> HIDE DEF f
<1> DEFINE g == Upwards
<1>6. g = [x \in 0..MaxId |-> IF x = 0 \/ x \notin ById THEN {} ELSE {x} \cup g[line[x].parent]]
  BY <1>5, Zenon DEF Upwards
<1> QED
  BY <1>6

\* A chain of parents holds rows that were found, and goes on as far as they
\* were found.
LEMMA ChainsClosed ==
  ASSUME Forest, card \in Cards, NEW q \in 0..MaxId
  PROVE  \A y \in Upwards[q] :
            y \in ById /\ (line[y].parent \in ById => line[y].parent \in Upwards[q])
<1> DEFINE Good(x) == \A y \in Upwards[x] :
                         y \in ById /\ (line[y].parent \in ById => line[y].parent \in Upwards[x])
           bad == {x \in 0..MaxId : ~Good(x)}
<1>1. CASE bad = {}
  BY <1>1
<1>2. CASE bad # {}
  <2>1. bad \in SUBSET Nat
    OBVIOUS
  <2>2. PICK x \in bad : \A z \in bad : x <= z
    <3> HIDE DEF bad
    <3> QED
      BY <1>2, <2>1, Least
  <2>3. x \in 0..MaxId /\ ~Good(x)
    OBVIOUS
  <2>4. Upwards[x] = IF x = 0 \/ x \notin ById THEN {} ELSE {x} \cup Upwards[line[x].parent]
    BY <2>3, UpwardsDefined
  <2>5. x # 0 /\ x \in ById /\ x \in Ids
    BY <2>3, <2>4 DEF Ids
  <2> DEFINE p == line[x].parent
  <2>6. p \in 0..MaxId /\ p < x
    BY <2>5, CardAssumption DEF Forest, Lines, Ids
  <2>7. Good(p)
    <3> HIDE DEF Good
    <3> QED
      BY <2>2, <2>6
  <2>8. p \in ById => p \in Upwards[p]
    <3>1. p \in ById => p # 0
      BY DEF ById, Cards, Ids
    <3> QED
      BY <2>6, <3>1, UpwardsDefined
  <2>9. Good(x)
    BY <2>4, <2>5, <2>7, <2>8
  <2> QED
    BY <2>3, <2>9
<1> QED
  BY <1>1, <1>2

\* Every row on the card was open at some moment of the gather.
LEMMA ShownSeen == ASSUME CardInv PROVE Shown \in SUBSET Ids /\ Shown \subseteq card.seen
<1>1. card \in Cards /\ Forest
  BY DEF CardInv
<1>2. \A x \in card.open : line[x].parent \in 0..MaxId
  BY <1>1, CardAssumption DEF Cards, Forest, Lines
<1>3. Context \subseteq ById
  BY <1>1, <1>2, ChainsClosed DEF Context
<1>4. Shown \subseteq card.open \cup card.allOpen
  BY <1>3 DEF Shown, ById
<1> QED
  BY <1>1, <1>4 DEF CardInv, Cards

\* Rendered is the function its definition asks for: there is one, which gives
\* 1 for every row on the card.
LEMMA RenderedDefined ==
  ASSUME Shown \in SUBSET Ids
  PROVE  \A x \in Ids : Rendered[x] = IF x \notin Shown THEN 0
                                      ELSE IF x \in Nested THEN Rendered[line[x].parent] ELSE 1
<1> DEFINE f == [x \in Ids |-> IF x \notin Shown THEN 0 ELSE 1]
<1>1. ASSUME NEW x \in Ids, x \in Nested
      PROVE  f[line[x].parent] = 1 /\ x \in Shown
  BY <1>1 DEF Nested
<1>2. f = [x \in Ids |-> IF x \notin Shown THEN 0
                         ELSE IF x \in Nested THEN f[line[x].parent] ELSE 1]
  BY <1>1
<1> HIDE DEF f
<1> DEFINE g == Rendered
<1>3. g = [x \in Ids |-> IF x \notin Shown THEN 0
                         ELSE IF x \in Nested THEN g[line[x].parent] ELSE 1]
  BY <1>2, Zenon DEF Rendered
<1> QED
  BY <1>3

\* Every row on the card is rendered once: as often as its parent if that is on
\* the card, whose number is smaller, else once at the top.
LEMMA RenderedOnce ==
  ASSUME CardInv
  PROVE  /\ \A x \in Shown : Rendered[x] = 1
         /\ \A x \in Ids \ Shown : Rendered[x] = 0
<1>1. Shown \in SUBSET Ids /\ Ids \in SUBSET Nat
  BY ShownSeen, CardAssumption DEF Ids
<1>2. \A x \in Ids \ Shown : Rendered[x] = 0
  BY <1>1, RenderedDefined
<1> DEFINE bad == {x \in Shown : Rendered[x] # 1}
<1>3. CASE bad = {}
  BY <1>2, <1>3
<1>4. CASE bad # {}
  <2>1. bad \in SUBSET Nat
    BY <1>1
  <2>2. PICK x \in bad : \A z \in bad : x <= z
    <3> HIDE DEF bad
    <3> QED
      BY <1>4, <2>1, Least
  <2>3. x \in Shown /\ x \in Ids /\ Rendered[x] # 1
    BY <1>1
  <2>4. x \in Nested /\ Rendered[x] = Rendered[line[x].parent]
    BY <1>1, <2>3, RenderedDefined
  <2>5. line[x].parent \in Shown /\ line[x].parent < x
    BY <2>3, <2>4 DEF Nested, CardInv, Forest
  <2>6. line[x].parent \notin bad
    <3> HIDE DEF bad
    <3> QED
      BY <1>1, <2>2, <2>3, <2>5
  <2> QED
    BY <2>3, <2>4, <2>5, <2>6
<1> QED
  BY <1>3, <1>4

\* A row whose parent is still open is nested under it: the parent was looked
\* up, is on the way up from a row of the project, and was not found closed.
LEMMA NestedUnderOpen ==
  ASSUME CardInv, card.at = "built", NEW x \in Shown, line[x].parent \in State("open")
  PROVE  x \in Nested
<1> DEFINE p == line[x].parent
<1>1. card \in Cards /\ Forest
  BY DEF CardInv
<1>2. \A y \in card.open : line[y].parent \in 0..MaxId
  BY <1>1, CardAssumption DEF Cards, Forest, Lines
<1>3. p \notin card.allDone
  BY DEF CardInv, State
<1>4. p \in Context
  <2>1. CASE x \in card.open
    <3>1. p \in card.allOpen /\ p \in ById /\ p \in 0..MaxId /\ p # 0
      BY <1>1, <1>2, <2>1 DEF CardInv, ById, Cards, Ids
    <3>2. p \in Upwards[p]
      BY <1>1, <3>1, UpwardsDefined
    <3> QED
      BY <2>1, <3>2 DEF Context
  <2>2. CASE x \notin card.open
    <3>1. x \in Context /\ x \notin card.allDone
      BY <2>2 DEF Shown
    <3>2. PICK y \in card.open : x \in Upwards[line[y].parent]
      BY <3>1 DEF Context
    <3>3. x \in ById /\ (p \in ById => p \in Upwards[line[y].parent])
      BY <1>1, <1>2, <3>2, ChainsClosed
    <3>4. x \in card.allOpen
      BY <3>1, <3>3 DEF ById
    <3>5. p \in ById
      BY <3>4 DEF CardInv, ById
    <3> QED
      BY <3>2, <3>3, <3>5 DEF Context
  <2> QED
    BY <2>1, <2>2
<1> QED
  BY <1>3, <1>4 DEF Shown, Nested

\* Whatever is added and closed between the three reads of a gather, the card
\* shows every open row of the project exactly once, no row that was closed all
\* along, and every row under its parent if that is still open
\* (gather_project_status, build_todo_hierarchy), for trees of every depth.
THEOREM CardShowsTheProject == CardSpec => []CardComplete
<1>1. CardInv => CardComplete
  <2> SUFFICES ASSUME CardInv, card.at = "built" PROVE CardComplete
    BY DEF CardComplete
  <2>1. \A x \in card.open : Rendered[x] = 1
    BY RenderedOnce DEF Shown
  <2>2. \A x \in Ids : Rendered[x] > 0 => x \in card.seen
    BY RenderedOnce, ShownSeen
  <2>3. \A x \in Shown : line[x].parent \in State("open") => x \in Nested
    BY NestedUnderOpen
  <2> QED
    BY <2>1, <2>2, <2>3 DEF CardComplete
<1> QED
  BY <1>1, CardStart, CardStep, PTL DEF CardSpec
=============================================================================
