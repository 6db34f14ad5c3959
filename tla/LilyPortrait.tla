---------------------------- MODULE LilyPortrait ----------------------------
(***************************************************************************)
(* Lily's portrait of the day (src/src/utils/lily_portrait.py) and the     *)
(* prompt it is made from (lily_config_db.py), as the threads of the       *)
(* portal and of the prompt server use them: a page embeds the image, and  *)
(* a "regen" request removes today's files and makes the image again.      *)
(* No lock guards the files.  A prompt is the number of the save that      *)
(* wrote it, or the day's outfit when the database could not be read; the  *)
(* image is known by the prompt it was made from.                          *)
(***************************************************************************)
EXTENDS Integers

CONSTANTS Threads,        \* request threads
          MaxSaves,       \* prompts saved
          RenameReplaces  \* rename() overwrites (POSIX) or fails (Windows)

ASSUME LilyAssumption == MaxSaves \in Nat /\ RenameReplaces \in BOOLEAN

NoImage  == 0
Rotation == -1   \* _BASE_PROMPT with the outfit of the weekday

VARIABLES prompt,  \* the active row of lily_prompts, 1 for the seeded one
          png,     \* today's cached image, NoImage when the file is absent
          svg,     \* today's fallback file is there
          handler   \* what each thread is doing

lilyVars == <<prompt, png, svg, handler>>

\* seen: the prompt when the request began; alone: no other request overlapped
Idle == [at |-> "idle", kind |-> "page", prompt |-> NoImage, shows |-> NoImage,
         seen |-> NoImage, alone |-> TRUE]

LilyInit ==
    /\ prompt = 1 /\ png \in {NoImage, 1, Rotation} /\ svg \in BOOLEAN
    /\ handler = [t \in Threads |-> Idle]

At(t, place) == handler[t].at = place
Proceed(t, place) == handler' = [handler EXCEPT ![t].at = place]
Busy(t) == handler[t].at \notin {"idle", "replied", "failed"}

-----------------------------------------------------------------------------
\* POST /lily/prompt: update_active_prompt in its own transaction.
SavePrompt ==
    /\ prompt <= MaxSaves
    /\ prompt' = prompt + 1
    /\ UNCHANGED <<png, svg, handler>>

Begin(t, kind) ==
    LET lonely == \A u \in Threads : ~Busy(u)
    IN  /\ ~Busy(t)
        /\ handler' = [u \in Threads |->
              IF u = t THEN [Idle EXCEPT !.at = IF kind = "regen" THEN "drop" ELSE "look",
                                         !.kind = kind, !.seen = prompt, !.alone = lonely]
                       ELSE [handler[u] EXCEPT !.alone = @ /\ ~Busy(u)]]
        /\ UNCHANGED <<prompt, png, svg>>

\* Mutant: the regen leaves today's image in the cache.
DropPng_Skips(t) == At(t, "drop") /\ Proceed(t, "drop_svg") /\ UNCHANGED png

\* _handle_lily_regen: "if today_path.exists(): today_path.unlink()", then the
\* same for the fallback; another thread may come between the two calls.
DropPng(t) ==
    \/ /\ At(t, "drop") /\ png = NoImage /\ Proceed(t, "drop_svg") /\ UNCHANGED png
    \/ /\ At(t, "drop") /\ png # NoImage /\ Proceed(t, "unlink") /\ UNCHANGED png
    \/ /\ At(t, "unlink") /\ png # NoImage /\ png' = NoImage /\ Proceed(t, "drop_svg")
    \/ /\ At(t, "unlink") /\ png = NoImage /\ Proceed(t, "failed") /\ UNCHANGED png

DropSvg(t) ==
    \/ /\ At(t, "drop_svg") /\ ~svg /\ Proceed(t, "look") /\ UNCHANGED svg
    \/ /\ At(t, "drop_svg") /\ svg /\ Proceed(t, "unlink_svg") /\ UNCHANGED svg
    \/ /\ At(t, "unlink_svg") /\ svg /\ svg' = FALSE /\ Proceed(t, "look")
    \/ /\ At(t, "unlink_svg") /\ ~svg /\ Proceed(t, "failed") /\ UNCHANGED svg

\* get_daily_portrait: a cache hit, or _build_prompt, which takes the saved
\* prompt and, on any error of the database, the rotation without a word.
Look(t) ==
    /\ At(t, "look")
    /\ \/ png # NoImage /\ Proceed(t, "have_png")
       \/ /\ png = NoImage
          /\ \E p \in {prompt, Rotation} :
                handler' = [handler EXCEPT ![t].at = "prompted", ![t].prompt = p]
    /\ UNCHANGED <<prompt, png, svg>>

WriteFallback(t) ==
    /\ At(t, "prompted") /\ svg' = TRUE /\ Proceed(t, "generating")
    /\ UNCHANGED <<prompt, png>>

\* The cascade of the shared workspace makes an image, or nothing better than
\* the silhouette.
Generate(t) ==
    /\ At(t, "generating")
    /\ \E made \in {"made", "have_svg"} : Proceed(t, made)
    /\ UNCHANGED <<prompt, png, svg>>

\* rename() onto today's path; when it fails because the file is there, the
\* file that is there is kept.
Rename(t) ==
    /\ At(t, "made")
    /\ png' = IF png = NoImage \/ RenameReplaces THEN handler[t].prompt ELSE png
    /\ Proceed(t, "renamed")
    /\ UNCHANGED <<prompt, svg>>

\* today_path.exists() again, after another thread may have removed it.
Settle(t) ==
    /\ At(t, "renamed")
    /\ \/ png # NoImage /\ svg' = FALSE /\ Proceed(t, "have_png")
       \/ png = NoImage /\ UNCHANGED svg /\ Proceed(t, "have_svg")
    /\ UNCHANGED <<prompt, png>>

\* get_portrait_img_tag reads the bytes of the image it was given the path of;
\* the silhouette is inlined from the program itself.  A regen answers the
\* path without reading it.
Reply(t) ==
    /\ \/ /\ At(t, "have_svg") /\ Proceed(t, "replied")
       \/ /\ At(t, "have_png")
          /\ handler' = [handler EXCEPT ![t].shows = png,
                ![t].at = IF png = NoImage /\ handler[t].kind = "page"
                          THEN "failed" ELSE "replied"]
    /\ UNCHANGED <<prompt, png, svg>>

HandlerStep(t) ==
    \/ DropPng(t) /\ UNCHANGED <<prompt, svg>>
    \/ DropSvg(t) /\ UNCHANGED <<prompt, png>>
    \/ Look(t) \/ WriteFallback(t) \/ Generate(t) \/ Rename(t) \/ Settle(t) \/ Reply(t)

LilyNext ==
    \/ SavePrompt
    \/ \E t \in Threads : HandlerStep(t) \/ \E kind \in {"page", "regen"} : Begin(t, kind)

-----------------------------------------------------------------------------
\* A request that no other one overlapped succeeds, and if it is a regen that
\* ends with an image, it is the image it made itself, from a prompt at least as
\* new as the one saved before it ("Save & Regenerate"), or from the rotation
\* when its own reading of the prompt failed: never the one it should replace.
UndisturbedRequest ==
    \A t \in Threads : handler[t].alone =>
        /\ ~At(t, "failed")
        /\ (At(t, "replied") /\ handler[t].kind = "regen" /\ handler[t].shows # NoImage) =>
              /\ handler[t].shows = handler[t].prompt
              /\ handler[t].shows >= handler[t].seen \/ handler[t].shows = Rotation

LilySpec == LilyInit /\ [][LilyNext]_lilyVars
=============================================================================
