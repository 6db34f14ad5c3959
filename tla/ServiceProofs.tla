---------------------------- MODULE ServiceProofs ----------------------------
(***************************************************************************)
(* Four of the parts that share no variable, for every value of their      *)
(* constants: the revision a CI job reports, the publication of voices,    *)
(* the retries of a submission to the voice queue, and the threads of the  *)
(* pool that works on it.                                                  *)
(***************************************************************************)
EXTENDS VoiceSubmission, VoicePublication, RevisionResolver, WorkerPool, SequenceTheorems, TLAPS

-----------------------------------------------------------------------------
(* The revision resolver.                                                  *)

Jobs == [at : {"lookup", "prepare", "fetch", "verify", "done", "failed"},
         event : {"pull_request", "push"}, ref : Refs, attempt : Nat]

\* A revision that was looked up was the tip of its branch at that moment, and
\* a pull request is on main because its branch was not there.
ResolverInv ==
    /\ job \in Jobs
    /\ \A b \in Refs : <<b, remote[b]>> \in tips
    /\ job.at \in {"prepare", "fetch", "verify"} => <<job.ref, revision>> \in tips
    /\ job.event = "pull_request" /\ job.ref = "main" => <<"pr", Absent>> \in tips
    /\ ReportIsTrue

\* A job begins with its own branch.
LEMMA ResolverStart == ResolverInit => ResolverInv
<1> SUFFICES ASSUME ResolverInit PROVE ResolverInv
  OBVIOUS
<1>1. PICK event \in {"pull_request", "push"} :
         job = [at |-> "lookup", event |-> event, attempt |-> 1,
                ref |-> IF event = "pull_request" THEN "pr" ELSE "main"]
  BY DEF ResolverInit
<1>2. \A b \in Refs : <<b, remote[b]>> \in tips
  BY DEF ResolverInit
<1>3. job \in Jobs
  BY <1>1 DEF Jobs, Refs
<1> QED BY <1>1, <1>2, <1>3 DEF ResolverInv, ReportIsTrue

\* One step of git, of the job or of the remote.
LEMMA ResolverStep == ResolverInv /\ [ResolverNext]_resolverVars => ResolverInv'
<1> SUFFICES ASSUME ResolverInv, [ResolverNext]_resolverVars PROVE ResolverInv'
  OBVIOUS
<1> USE DEF ResolverInv, ReportIsTrue
<1>1. CASE RemoteChanges
  <2>1. PICK b \in Refs, v \in Revisions \cup {Absent} :
           remote' = [remote EXCEPT ![b] = v] /\ tips' = tips \cup {<<b, v>>}
    BY <1>1 DEF RemoteChanges
  <2>2. \A c \in Refs : remote'[c] = remote[c] \/ (c = b /\ remote'[c] = v)
    BY <2>1
  <2>3. \A c \in Refs : <<c, remote'[c]>> \in tips'
    BY <2>1, <2>2
  <2> QED BY <1>1, <2>1, <2>3 DEF RemoteChanges
<1>2. CASE LookupFound
  BY <1>2 DEF LookupFound, Jobs
<1>3. CASE LookupAbsent
  BY <1>3 DEF LookupAbsent, Jobs, Refs
<1>4. CASE LookupError
  BY <1>4 DEF LookupError, Retry, Jobs
<1>5. CASE Prepare
  BY <1>5 DEF Prepare, Jobs
<1>6. CASE Checkout
  BY <1>6 DEF Checkout, Jobs
<1>7. CASE Verify
  <2>1. /\ job.at = "verify" /\ head = revision
        /\ job' = [job EXCEPT !.at = "done"]
        /\ report' = [ref |-> job.ref,
                      fallback |-> job.event = "pull_request" /\ job.ref = "main",
                      sha |-> head]
        /\ UNCHANGED <<remote, revision, head, tips, moves>>
    BY <1>7 DEF Verify
  <2>2. /\ job' \in Jobs /\ job'.at = "done"
        /\ job'.event = job.event /\ job'.ref = job.ref
    BY <2>1 DEF Jobs
  <2>3. /\ report'.sha = head /\ report'.ref = job.ref
        /\ report'.fallback = (job.event = "pull_request" /\ job.ref = "main")
    BY <2>1, Zenon
  <2>4. <<job.ref, revision>> \in tips
    BY <2>1
  <2>5. \A b \in Refs : <<b, remote'[b]>> \in tips'
    BY <2>1
  <2>6. job'.event = "pull_request" /\ job'.ref = "main" => <<"pr", Absent>> \in tips'
    BY <2>1, <2>2
  <2>7. ReportIsTrue'
    BY <2>1, <2>2, <2>3, <2>4
  <2>8. job'.at \in {"prepare", "fetch", "verify"} => <<job'.ref, revision'>> \in tips'
    BY <2>2
  <2>9. job' \in Jobs
    BY <2>2
  <2> HIDE DEF ReportIsTrue
  <2> QED BY <2>5, <2>6, <2>7, <2>8, <2>9
<1>8. CASE CheckoutFails
  <2>1. /\ job.at \in {"fetch", "verify"}
        /\ UNCHANGED <<remote, revision, head, report, tips, moves>>
    BY <1>8 DEF CheckoutFails
  <2>2. CASE job' = [job EXCEPT !.at = "fetch", !.attempt = @ + 1]
    <3>1. job' \in Jobs /\ job'.at = "fetch" /\ job'.event = job.event /\ job'.ref = job.ref
      <4>1. job \in [at : {"lookup", "prepare", "fetch", "verify", "done", "failed"},
                      event : {"pull_request", "push"}, ref : Refs, attempt : Nat]
        BY DEF Jobs
      <4>2. job.attempt + 1 \in Nat
        BY <4>1
      <4>3. [job EXCEPT !.at = "fetch", !.attempt = @ + 1] \in
              [at : {"lookup", "prepare", "fetch", "verify", "done", "failed"},
               event : {"pull_request", "push"}, ref : Refs, attempt : Nat]
        BY <4>1, <4>2
      <4>4. job' \in Jobs
        BY <2>2, <4>3, Zenon DEF Jobs
      <4> QED BY <2>2, <4>1, <4>4
    <3>2. <<job.ref, revision>> \in tips
      BY <2>1
    <3> QED BY <2>1, <3>1, <3>2
  <2>3. CASE job' = [job EXCEPT !.at = "failed"]
    BY <2>1, <2>3 DEF Jobs
  <2> QED BY <1>8, <2>2, <2>3 DEF CheckoutFails
<1>9. CASE UNCHANGED resolverVars
  BY <1>9 DEF resolverVars
<1> QED BY <1>1, <1>2, <1>3, <1>4, <1>5, <1>6, <1>7, <1>8, <1>9 DEF ResolverNext

\* The summary names what is checked out, what was the tip of its branch during
\* the job, and main for a pull request only if its branch was not there,
\* however the remote moves and git fails (resolve_workspace_revision.main).
THEOREM ReportHolds == ResolverSpec => []ReportIsTrue
<1>1. ResolverInv => ReportIsTrue
  BY DEF ResolverInv
<1> QED BY <1>1, ResolverStart, ResolverStep, PTL DEF ResolverSpec

-----------------------------------------------------------------------------
(* The publication of voices.                                              *)

\* The items ask for presets, and nobody is not a call.
Asked == Request \in Seq(Presets) /\ Nobody \notin Orchestrations

Renderings == [at : {"rendering", "publishing", "complete", "failed"},
          staged : Seq(Nat), published : Nat]
PublicationTyped ==
    /\ preset \in [Presets -> Seq(BOOLEAN)]
    /\ orch \in [Orchestrations -> Renderings]
    /\ out \in [DOMAIN Request -> Orchestrations \cup {Nobody}]
    /\ snapshot \in Seq(Savers)
    /\ saver \in [Savers -> [at : {"idle", "inserting", "saved", "refused"}, version : Nat]]

\* What has been staged was approved when it was rendered, and an approval is
\* never taken back: a new version gets a number of its own.
StagedApproved ==
    \A o \in Orchestrations :
        /\ Len(orch[o].staged) <= Len(Request)
        /\ \A n \in 1..Len(orch[o].staged) :
              /\ orch[o].staged[n] \in 1..Len(preset[Request[n]])
              /\ preset[Request[n]][orch[o].staged[n]]

\* A call that publishes, or has published, rendered everything first.
AllStaged ==
    /\ \A o \in Orchestrations :
          orch[o].at \in {"publishing", "complete"} => Len(orch[o].staged) = Len(Request)
    /\ \A i \in DOMAIN Request :
          out[i] # Nobody => Len(orch[out[i]].staged) = Len(Request)

\* A version in hand is at most the next one, a version saved is a row.
VersionsInStep ==
    \A s \in Savers :
        /\ saver[s].at = "inserting" => saver[s].version \in 1..Len(snapshot) + 1
        /\ saver[s].at = "saved" => /\ saver[s].version \in 1..Len(snapshot)
                                    /\ snapshot[saver[s].version] = s

PublicationInv == PublicationTyped /\ StagedApproved /\ AllStaged /\ VersionsInStep

\* Nothing has been registered, rendered or saved.
LEMMA PublicationStart == ASSUME Asked PROVE PublicationInit => PublicationInv
<1> SUFFICES ASSUME PublicationInit PROVE PublicationInv
  OBVIOUS
<1> USE DEF PublicationInit, Asked
<1>1. PublicationTyped
  BY DEF PublicationTyped, Renderings
<1>2. StagedApproved
  BY DEF StagedApproved
<1>3. AllStaged
  BY DEF AllStaged
<1>4. VersionsInStep
  BY DEF VersionsInStep
<1> QED BY <1>1, <1>2, <1>3, <1>4 DEF PublicationInv

\* An approved version stays where it is when versions are added or approved.
LEMMA ApprovalsStay ==
    ASSUME Asked, PublicationInv, preset' \in [Presets -> Seq(BOOLEAN)],
           \A p \in Presets : /\ Len(preset[p]) <= Len(preset'[p])
                              /\ \A v \in 1..Len(preset[p]) : preset[p][v] => preset'[p][v],
           UNCHANGED <<orch, out, snapshot, saver>>
    PROVE  PublicationInv'
<1> USE DEF PublicationInv, PublicationTyped, Asked
<1>1. PublicationTyped'
  BY DEF PublicationTyped
<1>2. StagedApproved'
  <2> SUFFICES ASSUME NEW o \in Orchestrations, NEW n \in 1..Len(orch[o].staged)
               PROVE  /\ orch[o].staged[n] \in 1..Len(preset'[Request[n]])
                      /\ preset'[Request[n]][orch[o].staged[n]]
    BY DEF StagedApproved
  <2>1. Len(orch[o].staged) \in Nat /\ Len(Request) \in Nat /\ Len(orch[o].staged) <= Len(Request)
    BY DEF StagedApproved
  <2>2. Request[n] \in Presets
    BY <2>1
  <2>3. /\ orch[o].staged[n] \in 1..Len(preset[Request[n]])
        /\ preset[Request[n]][orch[o].staged[n]]
    BY DEF StagedApproved
  <2>4. Len(preset[Request[n]]) \in Nat /\ Len(preset'[Request[n]]) \in Nat
    BY <2>2
  <2> QED BY <2>2, <2>3, <2>4
<1>3. AllStaged' /\ VersionsInStep'
  BY DEF AllStaged, VersionsInStep
<1> QED BY <1>1, <1>2, <1>3 DEF PublicationInv

\* What a destination file needs of the calls stays when staging does.
LEMMA StagingStays ==
    ASSUME Asked, out \in [DOMAIN Request -> Orchestrations \cup {Nobody}], AllStaged,
           NEW o \in Orchestrations,
           \A c \in Orchestrations : /\ orch'[c].staged = orch[c].staged
                                     /\ c # o => orch'[c].at = orch[c].at,
           orch'[o].at \in {"publishing", "complete"} => Len(orch[o].staged) = Len(Request),
           \A j \in DOMAIN Request : \/ out'[j] = out[j]
                                     \/ out'[j] = o /\ Len(orch[o].staged) = Len(Request)
    PROVE  AllStaged'
<1>1. ASSUME NEW c \in Orchestrations, orch'[c].at \in {"publishing", "complete"}
      PROVE  Len(orch'[c].staged) = Len(Request)
  <2>1. CASE c = o
    BY <1>1, <2>1
  <2>2. CASE c # o
    <3>1. orch'[c].at = orch[c].at /\ orch'[c].staged = orch[c].staged
      BY <2>2
    <3> QED BY <1>1, <3>1 DEF AllStaged
  <2> QED BY <2>1, <2>2
<1>2. ASSUME NEW j \in DOMAIN Request, out'[j] # Nobody
      PROVE  Len(orch'[out'[j]].staged) = Len(Request)
  <2>1. CASE out'[j] = out[j]
    <3>1. out[j] \in Orchestrations
      BY <1>2, <2>1
    <3>2. Len(orch[out[j]].staged) = Len(Request)
      BY <1>2, <2>1 DEF AllStaged
    <3>3. orch'[out[j]].staged = orch[out[j]].staged
      BY <3>1
    <3> QED BY <2>1, <3>2, <3>3
  <2>2. CASE out'[j] = o /\ Len(orch[o].staged) = Len(Request)
    BY <2>2, Zenon
  <2> QED BY <2>1, <2>2
<1> QED BY <1>1, <1>2, Zenon DEF AllStaged

\* Every step but a registration, an approval and an insertion.
LEMMA CallStep ==
    ASSUME Asked, PublicationInv, NEW o \in Orchestrations,
           Render(o) \/ StartPublishing(o) \/ Publish(o)
    PROVE  PublicationInv'
<1> USE DEF PublicationInv, PublicationTyped, Asked
<1> DEFINE done == orch[o].staged
           p == Request[Len(done) + 1]
<1>0. /\ done \in Seq(Nat) /\ Len(done) \in Nat /\ Len(Request) \in Nat
      /\ DOMAIN Request = 1..Len(Request) /\ orch[o].published \in Nat
  <2>1. orch[o] \in Renderings
    OBVIOUS
  <2>2. done \in Seq(Nat) /\ orch[o].published \in Nat
    BY <2>1 DEF Renderings
  <2> QED BY <2>2
<1>1. CASE Render(o) /\ orch' = [orch EXCEPT ![o].staged = Append(@, Len(preset[p]))]
                    /\ Approved(p)
  <2>1. /\ orch[o].at = "rendering" /\ Len(done) < Len(Request)
        /\ UNCHANGED <<preset, out, snapshot, saver>>
    BY <1>1 DEF Render
  <2>2. p \in Presets /\ preset[p] \in Seq(BOOLEAN) /\ Len(preset[p]) \in Nat
    BY <2>1, <1>0
  <2>3. Len(preset[p]) \in 1..Len(preset[p]) /\ preset[p][Len(preset[p])]
    BY <1>1, <2>2 DEF Approved
  <2>4. /\ orch'[o].staged = Append(done, Len(preset[p])) /\ orch'[o].at = "rendering"
        /\ \A c \in Orchestrations \ {o} : orch'[c] = orch[c]
    BY <1>1, <2>1
  <2>5. PublicationTyped'
    <3>1. [orch[o] EXCEPT !.staged = Append(@, Len(preset[p]))] \in Renderings
      <4>1. orch[o] \in Renderings /\ Append(done, Len(preset[p])) \in Seq(Nat)
        BY <2>2, <1>0
      <4> HIDE DEF p
      <4> QED BY <4>1 DEF Renderings
    <3>2. orch' = [orch EXCEPT ![o] = [orch[o] EXCEPT !.staged = Append(@, Len(preset[p]))]]
      BY <1>1
    <3> QED BY <2>1, <3>1, <3>2
  <2>6. StagedApproved'
    <3> SUFFICES ASSUME NEW c \in Orchestrations
                 PROVE  /\ Len(orch'[c].staged) <= Len(Request)
                        /\ \A n \in 1..Len(orch'[c].staged) :
                              /\ orch'[c].staged[n] \in 1..Len(preset[Request[n]])
                              /\ preset[Request[n]][orch'[c].staged[n]]
      BY <2>1 DEF StagedApproved
    <3>1. CASE c # o
      BY <3>1, <2>4 DEF StagedApproved
    <3>2. CASE c = o
      <4>1. Len(orch'[o].staged) = Len(done) + 1
        BY <2>4, <1>0, <2>2
      <4>2. \A n \in 1..Len(done) : orch'[o].staged[n] = done[n]
        BY <2>4, <1>0, <2>2
      <4>3. orch'[o].staged[Len(done) + 1] = Len(preset[p])
        BY <2>4, <1>0, <2>2
      <4>4. \A n \in 1..Len(done) : /\ done[n] \in 1..Len(preset[Request[n]])
                                    /\ preset[Request[n]][done[n]]
        BY DEF StagedApproved
      <4>5. ASSUME NEW n \in 1..Len(done) + 1
            PROVE  /\ orch'[o].staged[n] \in 1..Len(preset[Request[n]])
                   /\ preset[Request[n]][orch'[o].staged[n]]
        <5>0. ASSUME NEW k \in Nat, n \in 1..k + 1 PROVE n \in 1..k \/ n = k + 1
          BY <5>0
        <5>1. n \in 1..Len(done) \/ n = Len(done) + 1
          BY <1>0, <5>0
        <5>2. CASE n \in 1..Len(done)
          BY <5>2, <4>2, <4>4
        <5>3. CASE n = Len(done) + 1
          BY <5>3, <4>3, <2>3
        <5> QED BY <5>1, <5>2, <5>3
      <4>6. Len(done) + 1 <= Len(Request)
        BY <2>1, <1>0
      <4> HIDE DEF done, p
      <4> QED BY <3>2, <4>1, <4>5, <4>6
    <3> QED BY <3>1, <3>2
  <2>7. AllStaged'
    <3>1. \A i \in DOMAIN Request : out[i] # o
      BY <2>1 DEF AllStaged
    <3>2. ASSUME NEW c \in Orchestrations, orch'[c].at \in {"publishing", "complete"}
          PROVE  Len(orch'[c].staged) = Len(Request)
      <4>1. c # o
        BY <2>4, <3>2
      <4> QED BY <2>4, <3>2, <4>1 DEF AllStaged
    <3>3. ASSUME NEW i \in DOMAIN Request, out'[i] # Nobody
          PROVE  Len(orch'[out'[i]].staged) = Len(Request)
      <4>1. out'[i] = out[i] /\ out[i] # o /\ out[i] \in Orchestrations
        BY <2>1, <3>1, <3>3
      <4> QED BY <2>4, <3>3, <4>1 DEF AllStaged
    <3> QED BY <3>2, <3>3, Zenon DEF AllStaged
  <2>8. VersionsInStep'
    BY <2>1 DEF VersionsInStep
  <2> QED BY <2>5, <2>6, <2>7, <2>8
<1>2. CASE /\ orch' = [orch EXCEPT ![o].at = "failed"]
           /\ UNCHANGED <<preset, out, snapshot, saver>>
  <2>1. \A c \in Orchestrations : /\ orch'[c].staged = orch[c].staged
                                  /\ orch'[c].at \in {orch[c].at, "failed"}
    BY <1>2
  <2>2. PublicationTyped'
    <3>1. [orch[o] EXCEPT !.at = "failed"] \in Renderings
      BY DEF Renderings
    <3> QED BY <1>2, <3>1
  <2>3. StagedApproved' /\ VersionsInStep'
    BY <1>2, <2>1 DEF StagedApproved, VersionsInStep
  <2>4. AllStaged'
    BY <1>2, <2>1 DEF AllStaged
  <2> QED BY <2>2, <2>3, <2>4
<1>3. CASE StartPublishing(o)
  <2>1. \A c \in Orchestrations : /\ orch'[c].staged = orch[c].staged
                                  /\ c # o => orch'[c].at = orch[c].at
    BY <1>3 DEF StartPublishing
  <2>2. Len(orch[o].staged) = Len(Request) /\ UNCHANGED <<preset, out, snapshot, saver>>
    BY <1>3 DEF StartPublishing
  <2>3. PublicationTyped'
    <3>1. [orch[o] EXCEPT !.at = "publishing"] \in Renderings
      BY DEF Renderings
    <3> QED BY <1>3, <3>1 DEF StartPublishing
  <2>4. StagedApproved' /\ VersionsInStep'
    BY <2>1, <2>2 DEF StagedApproved, VersionsInStep
  <2>5. AllStaged'
    BY <2>1, <2>2 DEF AllStaged
  <2> QED BY <2>3, <2>4, <2>5
<1>4. CASE Publish(o) /\ out' # out
  <2> DEFINE i == orch[o].published + 1
  <2>1. /\ orch[o].at = "publishing" /\ i \in DOMAIN Request
        /\ out' = [out EXCEPT ![i] = o]
        /\ orch' = [orch EXCEPT ![o].published = i,
                                ![o].at = IF i = Len(Request) THEN "complete" ELSE @]
        /\ UNCHANGED <<preset, snapshot, saver>>
    BY <1>4 DEF Publish
  <2>2. \A c \in Orchestrations : /\ orch'[c].staged = orch[c].staged
                                  /\ c # o => orch'[c].at = orch[c].at
    BY <2>1
  <2>7. [orch[o] EXCEPT !.published = i,
                        !.at = IF i = Len(Request) THEN "complete" ELSE @] \in Renderings
    <3>1. i \in Nat /\ orch[o] \in Renderings
      BY <1>0
    <3> HIDE DEF i
    <3> QED BY <3>1 DEF Renderings
  <2>3. PublicationTyped'
    <3>1. orch'[o] \in Renderings /\ orch' = [orch EXCEPT ![o] = orch'[o]]
      BY <2>1, <2>7
    <3> QED BY <2>1, <3>1
  <2>4. StagedApproved' /\ VersionsInStep'
    BY <2>1, <2>2 DEF StagedApproved, VersionsInStep
  <2>5. \A j \in DOMAIN Request : out'[j] = out[j] \/ out'[j] = o
    BY <2>1
  <2>8. Len(orch[o].staged) = Len(Request)
    BY <2>1 DEF AllStaged
  <2>6. AllStaged'
    BY <2>2, <2>5, <2>8, StagingStays
  <2> QED BY <2>3, <2>4, <2>6
<1>5. CASE Publish(o) /\ out' = out
  <2>1. CASE orch' = [orch EXCEPT ![o].at = "failed"]
    BY <1>2, <1>5, <2>1 DEF Publish
  <2> DEFINE i == orch[o].published + 1
  <2>2. CASE orch' = [orch EXCEPT ![o].published = i,
                                  ![o].at = IF i = Len(Request) THEN "complete" ELSE @]
    <3>1. orch[o].at = "publishing" /\ UNCHANGED <<preset, out, snapshot, saver>>
      BY <1>5 DEF Publish
    <3>2. \A c \in Orchestrations : /\ orch'[c].staged = orch[c].staged
                                    /\ c # o => orch'[c].at = orch[c].at
      BY <2>2
    <3>6. i \in Nat /\ orch[o] \in Renderings
      BY DEF Renderings
    <3>7. [orch[o] EXCEPT !.published = i,
                          !.at = IF i = Len(Request) THEN "complete" ELSE @] \in Renderings
      <4> HIDE DEF i
      <4> QED BY <3>6 DEF Renderings
    <3>3. PublicationTyped'
      <4>1. orch'[o] \in Renderings /\ orch' = [orch EXCEPT ![o] = orch'[o]]
        BY <2>2, <3>7
      <4> QED BY <3>1, <4>1
    <3>4. StagedApproved' /\ VersionsInStep'
      BY <3>1, <3>2 DEF StagedApproved, VersionsInStep
    <3>8. Len(orch[o].staged) = Len(Request)
      BY <3>1 DEF AllStaged
    <3>5. AllStaged'
      BY <3>1, <3>2, <3>8, StagingStays
    <3> QED BY <3>3, <3>4, <3>5
  <2> QED BY <1>5, <2>1, <2>2 DEF Publish
<1>6. CASE Render(o)
  BY <1>1, <1>2, <1>6 DEF Render
<1> QED BY <1>3, <1>4, <1>5, <1>6

\* A version that was read is inserted, or refused because it is taken.
LEMMA SaverStep ==
    ASSUME Asked, PublicationInv, NEW s \in Savers, ReadVersion(s) \/ InsertSnapshot(s)
    PROVE  PublicationInv'
<1> USE DEF PublicationInv, PublicationTyped
<1>1. Len(snapshot) \in Nat /\ DOMAIN snapshot = 1..Len(snapshot)
  OBVIOUS
<1>2. CASE ReadVersion(s)
  <2>1. UNCHANGED <<preset, orch, out, snapshot>>
    BY <1>2 DEF ReadVersion
  <2>2. saver' = [saver EXCEPT ![s] = [at |-> "inserting", version |-> Len(snapshot) + 1]]
    BY <1>2 DEF ReadVersion
  <2>3. PublicationTyped' /\ StagedApproved' /\ AllStaged'
    <3>1. saver' \in [Savers -> [at : {"idle", "inserting", "saved", "refused"}, version : Nat]]
      BY <2>2, <1>1
    <3>2. PublicationTyped'
      BY <2>1, <3>1
    <3>3. StagedApproved' /\ AllStaged'
      BY <2>1 DEF StagedApproved, AllStaged
    <3> QED BY <3>2, <3>3
  <2>4. VersionsInStep'
    BY <2>1, <2>2, <1>1 DEF VersionsInStep
  <2> QED BY <2>3, <2>4
<1>3. CASE InsertSnapshot(s) /\ saver[s].version \in DOMAIN snapshot
  <2>1. UNCHANGED <<preset, orch, out, snapshot>>
    BY <1>3 DEF InsertSnapshot
  <2>2. saver' = [saver EXCEPT ![s].at = "refused"]
    BY <1>3 DEF InsertSnapshot
  <2>3. PublicationTyped' /\ StagedApproved' /\ AllStaged'
    BY <2>1, <2>2 DEF StagedApproved, AllStaged
  <2>4. VersionsInStep'
    BY <2>1, <2>2 DEF VersionsInStep
  <2> QED BY <2>3, <2>4
<1>4. CASE InsertSnapshot(s) /\ saver[s].version \notin DOMAIN snapshot
  <2>1. UNCHANGED <<preset, orch, out>> /\ saver[s].at = "inserting"
    BY <1>4 DEF InsertSnapshot
  <2>2. /\ saver' = [saver EXCEPT ![s].at = "saved"]
        /\ snapshot' = Append(snapshot, s)
    BY <1>4 DEF InsertSnapshot
  <2>3. PublicationTyped' /\ StagedApproved' /\ AllStaged'
    <3>1. saver' \in [Savers -> [at : {"idle", "inserting", "saved", "refused"}, version : Nat]]
      BY <2>2
    <3>2. snapshot' \in Seq(Savers)
      BY <2>2
    <3>3. PublicationTyped'
      BY <2>1, <3>1, <3>2
    <3>4. StagedApproved' /\ AllStaged'
      BY <2>1 DEF StagedApproved, AllStaged
    <3> QED BY <3>3, <3>4
  <2>4. saver[s].version = Len(snapshot) + 1
    BY <2>1, <1>1, <1>4 DEF VersionsInStep
  <2>5. /\ Len(snapshot') = Len(snapshot) + 1 /\ snapshot'[Len(snapshot) + 1] = s
        /\ \A v \in 1..Len(snapshot) : snapshot'[v] = snapshot[v]
    BY <2>2
  <2>6. VersionsInStep'
    <3> SUFFICES ASSUME NEW t \in Savers
                 PROVE  /\ saver'[t].at = "inserting" =>
                              saver'[t].version \in 1..Len(snapshot') + 1
                        /\ saver'[t].at = "saved" =>
                              /\ saver'[t].version \in 1..Len(snapshot')
                              /\ snapshot'[saver'[t].version] = t
      BY DEF VersionsInStep
    <3>1. CASE t = s
      BY <3>1, <2>2, <2>4, <2>5, <1>1
    <3>2. CASE t # s
      <4>1. saver'[t] = saver[t]
        BY <3>2, <2>2
      <4> QED BY <4>1, <2>5, <1>1 DEF VersionsInStep
    <3> QED BY <3>1, <3>2
  <2> QED BY <2>3, <2>6
<1> QED BY <1>2, <1>3, <1>4

\* One call to the registry, the provider, the file system or the database.
LEMMA PublicationStep ==
    ASSUME Asked PROVE PublicationInv /\ [PublicationNext]_publicationVars => PublicationInv'
<1> SUFFICES ASSUME PublicationInv, [PublicationNext]_publicationVars PROVE PublicationInv'
  OBVIOUS
<1>1. ASSUME NEW p \in Presets, Register(p) PROVE PublicationInv'
  <2>1. /\ preset' = [preset EXCEPT ![p] = Append(@, FALSE)]
        /\ UNCHANGED <<orch, out, snapshot, saver>>
    BY <1>1 DEF Register
  <2>2. preset \in [Presets -> Seq(BOOLEAN)]
    BY DEF PublicationInv, PublicationTyped
  <2>3. /\ preset' \in [Presets -> Seq(BOOLEAN)]
        /\ \A q \in Presets : /\ Len(preset[q]) <= Len(preset'[q])
                               /\ \A v \in 1..Len(preset[q]) : preset[q][v] => preset'[q][v]
    BY <2>1, <2>2
  <2> QED BY <2>1, <2>3, ApprovalsStay
<1>2. ASSUME NEW p \in Presets, Approve(p) PROVE PublicationInv'
  <2>1. /\ preset' = [preset EXCEPT ![p][Len(preset[p])] = TRUE]
        /\ UNCHANGED <<orch, out, snapshot, saver>>
    BY <1>2 DEF Approve
  <2>2. preset \in [Presets -> Seq(BOOLEAN)]
    BY DEF PublicationInv, PublicationTyped
  <2>3. /\ preset' \in [Presets -> Seq(BOOLEAN)]
        /\ \A q \in Presets : /\ Len(preset[q]) <= Len(preset'[q])
                               /\ \A v \in 1..Len(preset[q]) : preset[q][v] => preset'[q][v]
    <3>1. CASE preset[p] = <<>>
      BY <3>1, <1>2 DEF Approve
    <3>2. CASE preset[p] # <<>>
      <4> DEFINE a == [preset[p] EXCEPT ![Len(preset[p])] = TRUE]
      <4>0. preset[p] \in Seq(BOOLEAN) /\ Len(preset[p]) \in 1..Len(preset[p])
        BY <2>2, <3>2
      <4>1. a \in Seq(BOOLEAN) /\ Len(a) = Len(preset[p])
        BY <4>0, ExceptSeq
      <4>2. \A v \in 1..Len(preset[p]) : preset[p][v] => a[v]
        BY <4>0
      <4>3. preset' = [preset EXCEPT ![p] = a]
        BY <2>1
      <4> HIDE DEF a
      <4> QED BY <4>1, <4>2, <4>3, <2>2
    <3> QED BY <3>1, <3>2
  <2> QED BY <2>1, <2>3, ApprovalsStay
<1>3. ASSUME NEW o \in Orchestrations, Render(o) \/ StartPublishing(o) \/ Publish(o)
      PROVE  PublicationInv'
  BY <1>3, CallStep
<1>4. ASSUME NEW s \in Savers, ReadVersion(s) \/ InsertSnapshot(s)
      PROVE  PublicationInv'
  BY <1>4, SaverStep
<1>5. CASE UNCHANGED publicationVars
  BY <1>5 DEF publicationVars, PublicationInv, PublicationTyped, StagedApproved, AllStaged,
              VersionsInStep
<1> QED BY <1>1, <1>2, <1>3, <1>4, <1>5 DEF PublicationNext

\* Whoever publishes under the stem, a destination file comes from a call that
\* rendered every item with a version approved by then (orchestrate_voices).
THEOREM NothingHalfRendered ==
    ASSUME Asked PROVE PublicationSpec => []PublishedWasRendered
<1>1. PublicationInv => PublishedWasRendered
  <2> SUFFICES ASSUME PublicationInv, NEW i \in DOMAIN out, out[i] # Nobody
               PROVE  LET staged == orch[out[i]].staged
                      IN  /\ DOMAIN staged = DOMAIN Request
                          /\ \A n \in DOMAIN staged : preset[Request[n]][staged[n]]
    BY DEF PublishedWasRendered
  <2> DEFINE o == out[i]
  <2>1. i \in DOMAIN Request /\ o \in Orchestrations /\ orch[o] \in Renderings
    BY DEF PublicationInv, PublicationTyped
  <2>2. orch[o].staged \in Seq(Nat)
    BY <2>1 DEF Renderings
  <2>3. Len(orch[o].staged) = Len(Request)
    BY <2>1 DEF PublicationInv, AllStaged
  <2>4. \A n \in 1..Len(orch[o].staged) : preset[Request[n]][orch[o].staged[n]]
    BY <2>1 DEF PublicationInv, StagedApproved
  <2>5. Request \in Seq(Presets)
    BY DEF Asked
  <2> HIDE DEF o
  <2>6. DOMAIN orch[o].staged = 1..Len(orch[o].staged) /\ DOMAIN Request = 1..Len(Request)
    BY <2>2, <2>5
  <2> QED BY <2>3, <2>4, <2>6 DEF o
<1> QED BY <1>1, PublicationStart, PublicationStep, PTL DEF PublicationSpec

\* A version save_snapshot returned stays its own, however many processes
\* read the same next number (VoicePresetSnapshotCatalog.save_snapshot).
THEOREM SavedSnapshotsStay ==
    ASSUME Asked PROVE PublicationSpec => []SnapshotsKept
<1>1. PublicationInv => SnapshotsKept
  BY DEF PublicationInv, VersionsInStep, SnapshotsKept
<1> QED BY <1>1, PublicationStart, PublicationStep, PTL DEF PublicationSpec

-----------------------------------------------------------------------------
(* The retries of a submission.                                            *)

Entries == [request : Requests, decision : Decisions \cup {None},
            identity : Requests \cup {None}]
Tables == [there : BOOLEAN, ambiguous : BOOLEAN, columns : SUBSET AllColumns,
           indexes : SUBSET AllColumns, rows : Seq(Entries)]

\* NULL is not a request, and an earlier version left a table of the queue in
\* which every identity that is there belongs to its row.
Faithful(rows) == \A i \in DOMAIN rows : rows[i].identity \in {None, rows[i].request}
Shapes ==
    /\ None \notin Requests /\ Submissions \subseteq (Decisions \cup {None}) \X Requests
    /\ Legacy \subseteq Tables /\ \A t \in Legacy : Faithful(t.rows)

Places == {"idle", "refused", "creating", "checking", "listing", "renaming", "recreating",
           "comparing", "copying", "inspecting", "adding", "filling",
           "inserting", "inserted", "ignored", "deduplicated"}
Submitters == [at : Places, decision : Decisions \cup {None}, request : Requests \cup {None},
               job : Nat, listed : SUBSET AllColumns, columns : SUBSET AllColumns,
               nulls : SUBSET (Nat \X Requests)]
SubmissionTyped ==
    /\ voices \in Tables /\ aside \in Tables /\ moved \in Seq(SUBSET AllColumns)
    /\ client \in [Clients -> Submitters]
    /\ \A c \in Clients : /\ client[c].at # "idle" => client[c].request \in Requests
                          /\ client[c].at # "filling" => client[c].nulls = {}

\* Before any renaming an old table is open to nobody, and whoever is about to
\* rename has an old table before it.
NothingMoved ==
    moved = <<>> =>
        /\ ~aside.there /\ aside.indexes = {}
        /\ \A c \in Clients :
             /\ client[c].at \notin {"recreating", "comparing", "copying"}
             /\ client[c].at \notin {"idle", "creating", "refused"} => voices.there
             /\ client[c].at \in {"listing", "renaming"} => ~voices.ambiguous
             /\ client[c].at \in {"inspecting", "adding", "filling", "inserting", "inserted",
                                  "ignored", "deduplicated"} => voices.ambiguous

\* After one renaming the table in use is the new one, with every identity in.
FilledIn(rows) == \A i \in DOMAIN rows : rows[i].identity = rows[i].request
MovedOnce ==
    moved = <<{}>> =>
        /\ aside.indexes = {} /\ FilledIn(voices.rows)
        /\ \A c \in Clients : client[c].nulls = {}

\* Whoever got as far as inserting has left a table with both indexes.
Opened(c) == client[c].at \in {"inserting", "inserted", "ignored", "deduplicated"}
OpenTable ==
    (\E c \in Clients : Opened(c)) =>
        voices.there /\ Indexes \subseteq voices.indexes /\ Unique(voices.rows, Indexes)

\* The identities, those about to be filled in too, are those of the rows.
NullsHold ==
    /\ Faithful(voices.rows) /\ Faithful(aside.rows)
    /\ \A c \in Clients : \A p \in client[c].nulls :
         p[1] \in DOMAIN voices.rows /\ voices.rows[p[1]].request = p[2]

\* An insertion is in the table, a duplicate points at a row in its way.
InsertedAs(rows, c) ==
    /\ client[c].job \in DOMAIN rows
    /\ rows[client[c].job].decision = client[c].decision
    /\ rows[client[c].job].identity = client[c].request
InTheWay(rows, c) ==
    /\ client[c].job \in DOMAIN rows
    /\ \/ rows[client[c].job].decision = client[c].decision /\ client[c].decision # None
       \/ rows[client[c].job].identity = client[c].request
AnswersHold ==
    \A c \in Clients : /\ client[c].at = "inserted" => InsertedAs(voices.rows, c)
                       /\ client[c].at = "deduplicated" => InTheWay(voices.rows, c)

SubmissionInv ==
    /\ SubmissionTyped
    /\ NothingMoved /\ MovedOnce
    /\ RebuiltOnce => OpenTable /\ NullsHold /\ AnswersHold

\* Filling in identities keeps the table's shape.
LEMMA FilledTyped ==
    ASSUME NEW rows \in Seq(Entries), NEW nulls \in SUBSET (Nat \X Requests)
    PROVE  /\ Filled(rows, nulls) \in Seq(Entries)
           /\ DOMAIN Filled(rows, nulls) = DOMAIN rows
           /\ nulls = {} => Filled(rows, nulls) = rows
<1> DEFINE whole == Filled(rows, nulls)
<1>1. DOMAIN rows = 1..Len(rows) /\ Len(rows) \in Nat
  OBVIOUS
<1>2. \A i \in DOMAIN rows : rows[i] \in Entries
  OBVIOUS
<1>3. \A i \in DOMAIN rows : whole[i] =
        IF \E p \in nulls : p[1] = i
        THEN [rows[i] EXCEPT !.identity = (CHOOSE p \in nulls : p[1] = i)[2]] ELSE rows[i]
  BY DEF Filled
<1>4. ASSUME NEW i \in DOMAIN rows
      PROVE  whole[i] \in Entries /\ (nulls = {} => whole[i] = rows[i])
  <2>1. CASE \E p \in nulls : p[1] = i
    <3> DEFINE q == CHOOSE p \in nulls : p[1] = i
    <3>1. q \in nulls
      BY <2>1
    <3>2. q[2] \in Requests
      BY <3>1
    <3>3. whole[i] = [rows[i] EXCEPT !.identity = q[2]]
      BY <1>3, <2>1
    <3> HIDE DEF whole, q
    <3> QED BY <1>2, <2>1, <3>2, <3>3 DEF Entries
  <2>2. CASE ~\E p \in nulls : p[1] = i
    BY <1>2, <1>3, <2>2
  <2> QED BY <2>1, <2>2
<1>5. DOMAIN whole = DOMAIN rows
  BY DEF Filled
<1>6. whole = [i \in 1..Len(rows) |-> whole[i]]
  BY <1>1 DEF Filled
<1> HIDE DEF whole
<1>7. whole \in Seq(Entries)
  BY <1>1, <1>4, <1>6
<1>8. nulls = {} => whole = rows
  BY <1>1, <1>4, <1>6
<1> QED BY <1>5, <1>7, <1>8 DEF whole

\* Filling in identities that belong to the rows changes nothing that was there.
LEMMA FilledRows ==
    ASSUME NEW rows \in Seq(Entries), Faithful(rows), NEW nulls \in SUBSET (Nat \X Requests),
           \A p \in nulls : p[1] \in DOMAIN rows => rows[p[1]].request = p[2]
    PROVE  /\ Faithful(Filled(rows, nulls))
           /\ \A i \in DOMAIN rows :
                /\ Filled(rows, nulls)[i].request = rows[i].request
                /\ Filled(rows, nulls)[i].decision = rows[i].decision
                /\ rows[i].identity # None => Filled(rows, nulls)[i].identity = rows[i].identity
<1> DEFINE whole == Filled(rows, nulls)
<1>1. \A i \in DOMAIN rows : rows[i] \in Entries /\ rows[i].identity \in {None, rows[i].request}
  BY DEF Faithful
<1>2. \A i \in DOMAIN rows : whole[i] =
        IF \E p \in nulls : p[1] = i
        THEN [rows[i] EXCEPT !.identity = (CHOOSE p \in nulls : p[1] = i)[2]] ELSE rows[i]
  BY DEF Filled
<1>3. ASSUME NEW i \in DOMAIN rows
      PROVE  /\ whole[i].identity \in {None, whole[i].request}
             /\ whole[i].request = rows[i].request /\ whole[i].decision = rows[i].decision
             /\ rows[i].identity # None => whole[i].identity = rows[i].identity
  <2>1. CASE \E p \in nulls : p[1] = i
    <3> DEFINE q == CHOOSE p \in nulls : p[1] = i
    <3>1. q \in nulls /\ q[1] = i
      BY <2>1
    <3>2. q[2] = rows[i].request
      BY <3>1
    <3>3. whole[i] = [rows[i] EXCEPT !.identity = rows[i].request]
      BY <1>2, <2>1, <3>2
    <3> HIDE DEF whole, q
    <3> QED BY <1>1, <3>3 DEF Entries
  <2>2. CASE ~\E p \in nulls : p[1] = i
    BY <1>1, <1>2, <2>2
  <2> QED BY <2>1, <2>2
<1>4. DOMAIN whole = DOMAIN rows
  BY DEF Filled
<1> HIDE DEF whole
<1> QED BY <1>3, <1>4 DEF Faithful, whole

\* The identities that are missing, and what is left when they are filled in.
LEMMA FilledAll ==
    ASSUME Shapes, NEW rows \in Seq(Entries)
    PROVE  /\ Nulls(rows) \in SUBSET (Nat \X Requests)
           /\ Faithful(rows) => FilledIn(Filled(rows, Nulls(rows)))
           /\ FilledIn(rows) => Nulls(rows) = {}
<1>1. DOMAIN rows = 1..Len(rows) /\ Len(rows) \in Nat
  OBVIOUS
<1>2. \A i \in DOMAIN rows : rows[i] \in Entries /\ rows[i].request \in Requests
  <2>1. \A i \in DOMAIN rows : rows[i] \in Entries
    OBVIOUS
  <2> QED BY <2>1 DEF Entries
<1>3. Nulls(rows) \in SUBSET (Nat \X Requests)
  BY <1>1, <1>2 DEF Nulls
<1>4. \A p \in Nulls(rows) : p[1] \in DOMAIN rows /\ rows[p[1]].request = p[2]
  BY <1>1, <1>2 DEF Nulls
<1>5. ASSUME Faithful(rows), NEW i \in DOMAIN rows
      PROVE  Filled(rows, Nulls(rows))[i].identity = Filled(rows, Nulls(rows))[i].request
  <2>1. CASE rows[i].identity = None
    <3> DEFINE q == CHOOSE p \in Nulls(rows) : p[1] = i
    <3>1. <<i, rows[i].request>> \in Nulls(rows)
      BY <2>1 DEF Nulls
    <3>2. \E p \in Nulls(rows) : p[1] = i
      BY <3>1
    <3>3. q \in Nulls(rows) /\ q[1] = i
      BY <3>2
    <3>4. q[2] = rows[i].request
      BY <1>4, <3>3
    <3>5. Filled(rows, Nulls(rows))[i] = [rows[i] EXCEPT !.identity = rows[i].request]
      BY <3>2, <3>4 DEF Filled
    <3> QED BY <1>2, <3>5 DEF Entries
  <2>2. CASE rows[i].identity # None
    <3>1. rows[i].identity = rows[i].request
      BY <1>5, <2>2 DEF Faithful
    <3> QED BY <1>3, <1>4, <1>5, <2>2, <3>1, FilledRows
  <2> QED BY <2>1, <2>2
<1>6. DOMAIN Filled(rows, Nulls(rows)) = DOMAIN rows
  BY DEF Filled
<1>7. FilledIn(rows) => Nulls(rows) = {}
  BY <1>2 DEF Nulls, FilledIn, Shapes
<1> QED BY <1>3, <1>5, <1>6, <1>7 DEF FilledIn

\* One caller goes on to another place, or is refused.
LEMMA GoesOn ==
    ASSUME client \in [Clients -> Submitters], NEW c \in Clients, NEW to \in Places,
           client' = [client EXCEPT ![c].at = to]
    PROVE  /\ client' \in [Clients -> Submitters]
           /\ client'[c] = [client[c] EXCEPT !.at = to]
           /\ \A e \in Clients : e # c => client'[e] = client[e]
<1>1. [client[c] EXCEPT !.at = to] \in Submitters
  BY DEF Submitters
<1>2. client' = [client EXCEPT ![c] = [client[c] EXCEPT !.at = to]]
  OBVIOUS
<1> DEFINE new == [client[c] EXCEPT !.at = to]
<1> HIDE DEF new
<1>3. client' = [client EXCEPT ![c] = new] /\ new \in Submitters
  BY <1>1, <1>2 DEF new
<1>4. client' \in [Clients -> Submitters] /\ client'[c] = new
  BY <1>3
<1>5. \A e \in Clients : e # c => client'[e] = client[e]
  BY <1>3
<1> QED BY <1>4, <1>5 DEF new

\* A refusal leaves the tables alone.
LEMMA RefusedKeeps ==
    ASSUME SubmissionInv, NEW c \in Clients, client[c].at # "idle", Refused(c)
    PROVE  SubmissionInv'
<1> DEFINE new == [client[c] EXCEPT !.at = "refused", !.listed = {}, !.columns = {}, !.nulls = {}]
<1>1. client[c] \in Submitters /\ client \in [Clients -> Submitters]
  BY DEF SubmissionInv, SubmissionTyped
<1>2. new \in Submitters
  BY <1>1 DEF Submitters, Places
<1>3. new.at = "refused" /\ new.nulls = {} /\ new.request = client[c].request
  BY <1>1 DEF Submitters
<1>4. client' = [client EXCEPT ![c] = new]
  BY DEF Refused
<1>5. voices' = voices /\ aside' = aside /\ moved' = moved
  BY DEF Refused
<1> HIDE DEF new
<1>6. client'[c] = new /\ client' \in [Clients -> Submitters]
  BY <1>1, <1>2, <1>4
<1>7. \A e \in Clients : e # c => client'[e] = client[e]
  BY <1>1, <1>4
<1>8. SubmissionTyped'
  BY <1>1, <1>3, <1>5, <1>6, <1>7 DEF SubmissionInv, SubmissionTyped
<1>9. NothingMoved' /\ MovedOnce'
  BY <1>3, <1>5, <1>6, <1>7 DEF SubmissionInv, NothingMoved, MovedOnce
<1>10. ASSUME RebuiltOnce' PROVE OpenTable' /\ NullsHold' /\ AnswersHold'
  <2>1. RebuiltOnce
    BY <1>5, <1>10 DEF RebuiltOnce
  <2>2. OpenTable'
    BY <1>3, <1>5, <1>6, <1>7, <2>1 DEF SubmissionInv, OpenTable, Opened
  <2>3. NullsHold'
    BY <1>3, <1>5, <1>6, <1>7, <2>1 DEF SubmissionInv, NullsHold
  <2>4. AnswersHold'
    BY <1>3, <1>5, <1>6, <1>7, <2>1 DEF SubmissionInv, AnswersHold, InsertedAs, InTheWay
  <2> QED BY <2>2, <2>3, <2>4
<1> QED BY <1>8, <1>9, <1>10 DEF SubmissionInv

\* A step of a caller that is not through yet and leaves the tables alone.
LEMMA LooksOn ==
    ASSUME Shapes, SubmissionInv, NEW c \in Clients, NEW new \in Submitters,
           UNCHANGED <<voices, aside, moved>>, client' = [client EXCEPT ![c] = new],
           new.request \in Requests, new.at # "filling" => new.nulls = {},
           moved = <<{}>> => new.nulls = {},
           RebuiltOnce => \A p \in new.nulls :
                            p[1] \in DOMAIN voices.rows /\ voices.rows[p[1]].request = p[2],
           ~(new.at \in {"inserting", "inserted", "ignored", "deduplicated"}),
           moved = <<>> =>
             /\ new.at \notin {"recreating", "comparing", "copying"}
             /\ new.at \notin {"idle", "creating", "refused"} => voices.there
             /\ new.at \in {"listing", "renaming"} => ~voices.ambiguous
             /\ new.at \in {"inspecting", "adding", "filling", "inserting", "inserted",
                            "ignored", "deduplicated"} => voices.ambiguous
    PROVE  SubmissionInv'
<1>1. client \in [Clients -> Submitters]
  BY DEF SubmissionInv, SubmissionTyped
<1>2. client'[c] = new /\ client' \in [Clients -> Submitters]
  BY <1>1
<1>3. \A e \in Clients : e # c => client'[e] = client[e]
  BY <1>1
<1>4. voices' = voices /\ aside' = aside /\ moved' = moved
  OBVIOUS
<1>5. SubmissionTyped'
  BY <1>2, <1>3, <1>4 DEF SubmissionInv, SubmissionTyped
<1>6. NothingMoved'
  BY <1>2, <1>3, <1>4 DEF SubmissionInv, NothingMoved
<1>7. MovedOnce'
  BY <1>2, <1>3, <1>4 DEF SubmissionInv, MovedOnce
<1>8. ASSUME RebuiltOnce' PROVE OpenTable' /\ NullsHold' /\ AnswersHold'
  <2>1. RebuiltOnce
    BY <1>4, <1>8 DEF RebuiltOnce
  <2>2. OpenTable'
    BY <1>2, <1>3, <1>4, <2>1 DEF SubmissionInv, OpenTable, Opened
  <2>3. NullsHold'
    BY <1>2, <1>3, <1>4, <2>1 DEF SubmissionInv, NullsHold
  <2>4. AnswersHold'
    BY <1>2, <1>3, <1>4, <2>1 DEF SubmissionInv, AnswersHold, InsertedAs, InTheWay
  <2> QED BY <2>2, <2>3, <2>4
<1> QED BY <1>5, <1>6, <1>7, <1>8 DEF SubmissionInv

\* Nobody has opened an old table yet.
LEMMA SubmissionStart == ASSUME Shapes PROVE SubmissionInit => SubmissionInv
<1> SUFFICES ASSUME SubmissionInit PROVE SubmissionInv
  OBVIOUS
<1>1. \A c \in Clients : client[c] = Resting
  BY DEF SubmissionInit
<1>2. Resting \in Submitters /\ Resting.at = "idle" /\ Resting.nulls = {}
  BY DEF Resting, Submitters, Places
<1>3. NoTable \in Tables /\ ~NoTable.there /\ NoTable.indexes = {} /\ NoTable.rows = <<>>
  BY DEF NoTable, Tables
<1>4. SubmissionTyped
  <2>2. voices \in Tables
    BY DEF SubmissionInit, Shapes
  <2>3. client \in [Clients -> Submitters]
    BY <1>2 DEF SubmissionInit
  <2> QED BY <1>1, <1>2, <1>3, <2>2, <2>3 DEF SubmissionInit, SubmissionTyped
<1>5. NothingMoved
  BY <1>1, <1>2, <1>3 DEF SubmissionInit, NothingMoved
<1>6. MovedOnce
  BY DEF SubmissionInit, MovedOnce
<1>7. Faithful(voices.rows) /\ Faithful(aside.rows)
  <2>1. Faithful(aside.rows)
    BY <1>3 DEF SubmissionInit, Faithful
  <2> QED BY <2>1 DEF SubmissionInit, Shapes
<1>8. OpenTable /\ NullsHold /\ AnswersHold
  BY <1>1, <1>2, <1>7 DEF OpenTable, Opened, NullsHold, AnswersHold
<1> QED BY <1>4, <1>5, <1>6, <1>8 DEF SubmissionInv

\* A fresh table, at the start of every submission and after a renaming.
LEMMA CreateKeeps ==
    ASSUME Shapes, SubmissionInv, NEW c \in Clients, CreateQueue(c) PROVE SubmissionInv'
<1>1. PICK to \in {"checking", "comparing"} :
         /\ client' = [client EXCEPT ![c].at = to]
         /\ to = "checking" => client[c].at = "creating"
         /\ to = "comparing" => client[c].at = "recreating"
  BY DEF CreateQueue, Goes
<1>2. client \in [Clients -> Submitters] /\ to \in Places
  BY DEF SubmissionInv, SubmissionTyped, Places
<1>3. /\ client' \in [Clients -> Submitters] /\ client'[c] = [client[c] EXCEPT !.at = to]
      /\ \A e \in Clients : e # c => client'[e] = client[e]
  BY <1>1, <1>2, GoesOn
<1>4. /\ client'[c].at = to /\ client'[c].nulls = {} /\ client[c].nulls = {}
      /\ client'[c].request \in Requests
  BY <1>1, <1>2, <1>3 DEF SubmissionInv, SubmissionTyped, Submitters
<1>5. aside' = aside /\ moved' = moved
  BY DEF CreateQueue
<1>6. NewTable \in Tables /\ NewTable.there /\ NewTable.ambiguous /\ NewTable.rows = <<>>
  BY DEF NewTable, Tables, Created, AllColumns, Added
<1>7. CASE voices.there
  <2>1. voices' = voices
    BY <1>7 DEF CreateQueue
  <2>2. SubmissionTyped'
    BY <1>3, <1>4, <1>5, <2>1 DEF SubmissionInv, SubmissionTyped
  <2>3. NothingMoved'
    BY <1>1, <1>3, <1>4, <1>5, <1>7, <2>1 DEF SubmissionInv, NothingMoved
  <2>4. MovedOnce'
    BY <1>3, <1>4, <1>5, <2>1 DEF SubmissionInv, MovedOnce
  <2>5. ASSUME RebuiltOnce' PROVE OpenTable' /\ NullsHold' /\ AnswersHold'
    <3>1. RebuiltOnce
      BY <1>5, <2>5 DEF RebuiltOnce
    <3>2. OpenTable'
      BY <1>3, <1>4, <2>1, <3>1 DEF SubmissionInv, OpenTable, Opened
    <3>3. NullsHold'
      BY <1>3, <1>4, <1>5, <2>1, <3>1 DEF SubmissionInv, NullsHold
    <3>4. AnswersHold'
      BY <1>3, <1>4, <2>1, <3>1 DEF SubmissionInv, AnswersHold, InsertedAs, InTheWay
    <3> QED BY <3>2, <3>3, <3>4
  <2> QED BY <2>2, <2>3, <2>4, <2>5 DEF SubmissionInv
<1>8. CASE ~voices.there
  <2>1. voices' = NewTable
    BY <1>8 DEF CreateQueue
  <2>2. Faithful(voices'.rows) /\ FilledIn(voices'.rows)
    BY <1>6, <2>1 DEF Faithful, FilledIn
  <2>3. SubmissionTyped'
    BY <1>3, <1>4, <1>5, <1>6, <2>1 DEF SubmissionInv, SubmissionTyped
  <2>4. NothingMoved'
    BY <1>1, <1>3, <1>4, <1>5, <1>6, <1>8, <2>1 DEF SubmissionInv, NothingMoved
  <2>5. MovedOnce'
    BY <1>3, <1>4, <1>5, <2>2 DEF SubmissionInv, MovedOnce
  <2>6. ASSUME RebuiltOnce' PROVE OpenTable' /\ NullsHold' /\ AnswersHold'
    <3>1. RebuiltOnce
      BY <1>5, <2>6 DEF RebuiltOnce
    <3>2. \A e \in Clients : ~Opened(e)
      BY <1>8, <3>1 DEF SubmissionInv, OpenTable
    <3>3. \A e \in Clients : client'[e].at \notin {"inserting", "inserted", "ignored",
                                                     "deduplicated"}
      BY <1>3, <1>4, <3>2 DEF Opened
    <3>4. \A e \in Clients : client[e].nulls = {}
      <4>1. CASE moved = <<{}>>
        BY <4>1 DEF SubmissionInv, MovedOnce
      <4>2. CASE moved = <<>>
        BY <1>8, <4>2 DEF SubmissionInv, NothingMoved, SubmissionTyped
      <4> QED BY <3>1, <4>1, <4>2 DEF RebuiltOnce
    <3>5. Faithful(voices'.rows) /\ Faithful(aside'.rows)
      BY <1>5, <2>2, <3>1 DEF SubmissionInv, NullsHold
    <3> QED BY <1>3, <1>4, <3>3, <3>4, <3>5 DEF OpenTable, Opened, NullsHold, AnswersHold
  <2> QED BY <2>3, <2>4, <2>5, <2>6 DEF SubmissionInv
<1> QED BY <1>7, <1>8

\* The renaming: the first takes an old table away that nobody has got past.
LEMMA SetAsideKeeps ==
    ASSUME Shapes, SubmissionInv, NEW c \in Clients, SetAside(c) PROVE SubmissionInv'
<1>1. CASE Refused(c)
  <2>1. client[c].at # "idle"
    BY DEF SetAside
  <2> QED BY <1>1, <2>1, RefusedKeeps
<1>2. ASSUME ~Refused(c) PROVE SubmissionInv'
  <2>1. /\ client[c].at = "renaming" /\ voices.there /\ ~aside.there
        /\ voices' = NoTable /\ aside' = voices /\ moved' = Append(moved, voices.indexes)
        /\ client' = [client EXCEPT ![c].at = "recreating"]
    BY <1>2 DEF SetAside, Goes
  <2>2. client \in [Clients -> Submitters] /\ "recreating" \in Places
    BY DEF SubmissionInv, SubmissionTyped, Places
  <2>3. /\ client' \in [Clients -> Submitters]
        /\ client'[c] = [client[c] EXCEPT !.at = "recreating"]
        /\ \A e \in Clients : e # c => client'[e] = client[e]
    BY <2>1, <2>2, GoesOn
  <2>4. /\ client'[c].at = "recreating" /\ client'[c].nulls = {} /\ client[c].nulls = {}
        /\ client'[c].request \in Requests
    BY <2>1, <2>2, <2>3 DEF SubmissionInv, SubmissionTyped, Submitters
  <2>5. /\ NoTable \in Tables /\ NoTable.rows = <<>> /\ Faithful(NoTable.rows)
        /\ FilledIn(NoTable.rows)
    BY DEF NoTable, Tables, Faithful, FilledIn
  <2>6. voices.indexes \in SUBSET AllColumns
    BY DEF SubmissionInv, SubmissionTyped, Tables
  <2>7. moved' \in Seq(SUBSET AllColumns) /\ moved' # <<>>
    BY <2>1, <2>6 DEF SubmissionInv, SubmissionTyped
  <2>8. SubmissionTyped'
    BY <2>1, <2>3, <2>4, <2>5, <2>7 DEF SubmissionInv, SubmissionTyped
  <2>9. NothingMoved'
    BY <2>7 DEF NothingMoved
  <2>10. ASSUME moved' = <<{}>>
         PROVE  /\ moved = <<>> /\ voices.indexes = {}
                /\ \A e \in Clients : client[e].nulls = {} /\ ~Opened(e)
    <3>1. moved = <<>> /\ voices.indexes = {}
      <4>1. moved \in Seq(SUBSET AllColumns)
        BY DEF SubmissionInv, SubmissionTyped
      <4>2. Len(moved') = Len(moved) + 1 /\ moved'[Len(moved) + 1] = voices.indexes
        BY <2>1, <2>6, <4>1
      <4>3. moved' = <<{}>>
        BY <2>10
      <4> DEFINE n == Len(moved)
                 m == Len(moved')
      <4>4. n \in Nat /\ m = n + 1 /\ m = 1
        BY <4>1, <4>2, <4>3
      <4>7. n = 0
        <5> HIDE DEF n, m
        <5> QED BY <4>4
      <4>5. moved = <<>>
        BY <4>1, <4>7
      <4>6. moved'[1] = voices.indexes
        BY <4>2, <4>7
      <4> QED BY <2>10, <4>5, <4>6
    <3>2. ~voices.ambiguous
      BY <2>1, <3>1 DEF SubmissionInv, NothingMoved
    <3>3. \A e \in Clients : client[e].at # "filling" /\ ~Opened(e)
      BY <3>1, <3>2 DEF SubmissionInv, NothingMoved, Opened
    <3> QED BY <3>1, <3>3 DEF SubmissionInv, SubmissionTyped
  <2>11. MovedOnce'
    BY <2>1, <2>3, <2>4, <2>5, <2>10 DEF MovedOnce
  <2>12. ASSUME RebuiltOnce' PROVE OpenTable' /\ NullsHold' /\ AnswersHold'
    <3>1. moved' = <<{}>>
      BY <2>7, <2>12 DEF RebuiltOnce
    <3>2. \A e \in Clients : /\ client'[e].nulls = {}
                             /\ client'[e].at \notin {"inserting", "inserted", "ignored",
                                                      "deduplicated"}
      BY <2>3, <2>4, <2>10, <3>1 DEF Opened
    <3>3. RebuiltOnce
      BY <2>10, <3>1 DEF RebuiltOnce
    <3>4. Faithful(voices'.rows) /\ Faithful(aside'.rows)
      BY <2>1, <2>5, <3>3 DEF SubmissionInv, NullsHold
    <3> QED BY <3>2, <3>4 DEF OpenTable, Opened, NullsHold, AnswersHold
  <2> QED BY <2>8, <2>9, <2>11, <2>12 DEF SubmissionInv
<1> QED BY <1>1, <1>2

\* The end of an upgrade: the caller goes on to insert, and what others were
\* told is still in the table.
LEMMA CommitKeeps ==
    ASSUME Shapes, SubmissionInv, NEW c \in Clients, NEW new \in Submitters,
           client' = [client EXCEPT ![c] = new], new.at = "inserting", new.nulls = {},
           new.request \in Requests, moved' = moved, aside' \in {aside, NoTable},
           NEW rows \in Seq(Entries), NEW cols \in SUBSET AllColumns,
           NEW names \in SUBSET AllColumns, voices.there,
           voices' = [voices EXCEPT !.columns = cols, !.indexes = names, !.rows = rows],
           RebuiltOnce => Indexes \subseteq names /\ Unique(rows, names) /\ Faithful(rows),
           moved = <<>> => voices.ambiguous,
           moved = <<{}>> => FilledIn(rows),
           \A e \in Clients : \A p \in client[e].nulls : RebuiltOnce =>
              p[1] \in DOMAIN rows /\ rows[p[1]].request = p[2],
           \A e \in Clients : RebuiltOnce /\ Accepted(e) => \A i \in DOMAIN voices.rows :
              /\ i \in DOMAIN rows /\ rows[i].decision = voices.rows[i].decision
              /\ voices.rows[i].identity # None => rows[i].identity = voices.rows[i].identity
    PROVE  SubmissionInv'
<1>1. client \in [Clients -> Submitters] /\ voices \in Tables /\ aside \in Tables
  BY DEF SubmissionInv, SubmissionTyped
<1>2. client'[c] = new /\ client' \in [Clients -> Submitters]
  BY <1>1
<1>3. \A e \in Clients : e # c => client'[e] = client[e]
  BY <1>1
<1>4. /\ voices'.rows = rows /\ voices'.indexes = names /\ voices'.there = voices.there
      /\ voices'.ambiguous = voices.ambiguous /\ voices'.columns = cols
  BY <1>1 DEF Tables
<1>5. voices' \in Tables
  BY <1>1 DEF Tables
<1>6. /\ NoTable \in Tables /\ NoTable.indexes = {} /\ Faithful(NoTable.rows)
      /\ NoTable.there = FALSE
  BY DEF NoTable, Tables, Faithful
<1>7. SubmissionTyped'
  <2>1. aside' \in Tables
    BY <1>6 DEF SubmissionInv, SubmissionTyped
  <2> QED BY <1>2, <1>3, <1>5, <2>1 DEF SubmissionInv, SubmissionTyped
<1>8. NothingMoved'
  BY <1>2, <1>3, <1>4, <1>6 DEF SubmissionInv, NothingMoved
<1>9. MovedOnce'
  BY <1>2, <1>3, <1>4, <1>6 DEF SubmissionInv, MovedOnce
<1>10. ASSUME RebuiltOnce' PROVE OpenTable' /\ NullsHold' /\ AnswersHold'
  <2>1. RebuiltOnce
    BY <1>10 DEF RebuiltOnce
  <2>2. Unique(rows, Indexes)
    BY <2>1 DEF Unique
  <2>3. OpenTable'
    BY <1>4, <2>1, <2>2 DEF OpenTable
  <2>4. NullsHold'
    <3>1. Faithful(voices'.rows) /\ Faithful(aside'.rows)
      BY <1>4, <1>6, <2>1 DEF SubmissionInv, NullsHold
    <3> QED BY <1>2, <1>3, <1>4, <2>1, <3>1 DEF NullsHold
  <2>5. ASSUME NEW e \in Clients, client'[e].at \in {"inserted", "deduplicated"}
        PROVE  client'[e] = client[e] /\ Accepted(e) /\ client[e].request # None
    <3>1. client'[e] = client[e]
      BY <1>2, <1>3, <2>5
    <3> QED BY <2>5, <3>1 DEF Accepted, SubmissionInv, SubmissionTyped, Shapes
  <2>6. AnswersHold'
    <3> SUFFICES ASSUME NEW e \in Clients
                 PROVE  /\ client'[e].at = "inserted" => InsertedAs(voices.rows, e)'
                        /\ client'[e].at = "deduplicated" => InTheWay(voices.rows, e)'
      BY DEF AnswersHold
    <3>1. ASSUME client'[e].at = "inserted" PROVE InsertedAs(voices.rows, e)'
      <4>1. InsertedAs(voices.rows, e)
        BY <2>1, <2>5, <3>1 DEF SubmissionInv, AnswersHold
      <4> QED BY <1>4, <2>1, <2>5, <3>1, <4>1 DEF InsertedAs
    <3>2. ASSUME client'[e].at = "deduplicated" PROVE InTheWay(voices.rows, e)'
      <4>1. InTheWay(voices.rows, e)
        BY <2>1, <2>5, <3>2 DEF SubmissionInv, AnswersHold
      <4> QED BY <1>4, <2>1, <2>5, <3>2, <4>1 DEF InTheWay
    <3> QED BY <3>1, <3>2
  <2> QED BY <2>3, <2>4, <2>6
<1> QED BY <1>7, <1>8, <1>9, <1>10 DEF SubmissionInv

\* The transaction of a rebuild.
LEMMA CopyKeeps ==
    ASSUME Shapes, SubmissionInv, NEW c \in Clients, Copy(c) PROVE SubmissionInv'
<1>1. CASE Refused(c)
  <2>1. client[c].at # "idle"
    BY DEF Copy
  <2> QED BY <1>1, <2>1, RefusedKeeps
<1>2. ASSUME ~Refused(c) PROVE SubmissionInv'
  <2> DEFINE base == IF aside.rows = <<>> THEN voices.rows ELSE Copied(client[c].columns)
             whole == Filled(base, Nulls(base))
             names == voices.indexes \cup client[c].listed \cup Indexes
             new == [client[c] EXCEPT !.at = "inserting", !.listed = {}, !.columns = {}]
  <2>1. /\ client[c].at = "copying" /\ voices.there
        /\ voices.rows = <<>> \/ aside.rows = <<>>
        /\ Unique(whole, names)
        /\ voices' = [voices EXCEPT !.columns = AllColumns, !.indexes = names, !.rows = whole]
        /\ aside' = NoTable /\ moved' = moved
        /\ client' = [client EXCEPT ![c] = new]
    BY <1>2, Zenon DEF Copy
  <2>2. /\ client[c] \in Submitters /\ client[c].request \in Requests
        /\ client[c].nulls = {}
    BY <2>1 DEF SubmissionInv, SubmissionTyped
  <2>3. new \in Submitters /\ new.at = "inserting" /\ new.nulls = {} /\ new.request \in Requests
    BY <2>2 DEF Submitters, Places
  <2>4. /\ voices.rows \in Seq(Entries) /\ aside.rows \in Seq(Entries)
        /\ RebuiltOnce => Faithful(voices.rows) /\ Faithful(aside.rows)
        /\ voices.indexes \in SUBSET AllColumns /\ client[c].listed \in SUBSET AllColumns
    BY <2>2 DEF SubmissionInv, SubmissionTyped, NullsHold, Tables, Submitters
  <2>5. /\ Copied(client[c].columns) \in Seq(Entries)
        /\ RebuiltOnce => Faithful(Copied(client[c].columns))
    <3> DEFINE common == client[c].columns
               copy == Copied(common)
    <3>1. DOMAIN aside.rows = 1..Len(aside.rows) /\ Len(aside.rows) \in Nat
      BY <2>4
    <3>2. \A i \in DOMAIN aside.rows : aside.rows[i] \in Entries
      BY <2>4
    <3>3. ASSUME NEW i \in DOMAIN aside.rows
          PROVE  /\ copy[i] \in Entries
                 /\ RebuiltOnce => copy[i].identity \in {None, copy[i].request}
      <4>1. copy[i] = [request  |-> aside.rows[i].request,
                       decision |-> IF "decision" \in common THEN aside.rows[i].decision ELSE None,
                       identity |-> IF "identity" \in common THEN aside.rows[i].identity ELSE None]
        BY DEF Copied
      <4>2. /\ aside.rows[i].request \in Requests /\ aside.rows[i].decision \in Decisions \cup {None}
            /\ aside.rows[i].identity \in Requests \cup {None}
            /\ RebuiltOnce => aside.rows[i].identity \in {None, aside.rows[i].request}
        BY <2>4, <3>2 DEF Entries, Faithful
      <4> HIDE DEF copy, common
      <4> QED BY <4>1, <4>2 DEF Entries
    <3>4. copy = [i \in 1..Len(aside.rows) |-> copy[i]]
      BY <3>1 DEF Copied
    <3> HIDE DEF copy
    <3>5. copy \in Seq(Entries)
      BY <3>1, <3>3, <3>4
    <3>6. DOMAIN copy = DOMAIN aside.rows
      BY <3>1, <3>4
    <3> QED BY <3>3, <3>5, <3>6 DEF copy, Faithful
  <2>6. base \in Seq(Entries) /\ (RebuiltOnce => Faithful(base))
    BY <2>4, <2>5
  <2> HIDE DEF base
  <2>7. /\ Nulls(base) \in SUBSET (Nat \X Requests)
        /\ RebuiltOnce => FilledIn(whole)
        /\ FilledIn(base) => Nulls(base) = {}
    BY <2>6, FilledAll
  <2>8. /\ whole \in Seq(Entries) /\ (Nulls(base) = {} => whole = base)
        /\ RebuiltOnce => Faithful(whole)
    <3>1. whole \in Seq(Entries) /\ (Nulls(base) = {} => whole = base)
      BY <2>6, <2>7, FilledTyped
    <3>2. FilledIn(whole) => Faithful(whole)
      BY DEF FilledIn, Faithful
    <3> QED BY <2>7, <3>1, <3>2
  <2>9. moved # <<>>
    BY <2>1 DEF SubmissionInv, NothingMoved
  <2>10. Indexes \subseteq AllColumns
    BY DEF Indexes, AllColumns, Added
  <2>11. ASSUME RebuiltOnce, NEW e \in Clients
         PROVE  /\ client[e].nulls = {}
                /\ Accepted(e) => whole = voices.rows
    <3>1. FilledIn(voices.rows) /\ client[e].nulls = {}
      BY <2>9, <2>11 DEF RebuiltOnce, SubmissionInv, MovedOnce
    <3>2. ASSUME Accepted(e) PROVE whole = voices.rows
      <4>1. client[e].job \in DOMAIN voices.rows
        BY <2>11, <3>2 DEF Accepted, SubmissionInv, AnswersHold, InsertedAs, InTheWay
      <4>2. voices.rows # <<>>
        BY <4>1
      <4>3. base = voices.rows
        BY <2>1, <4>2 DEF base
      <4> QED BY <2>7, <2>8, <3>1, <4>3
    <3> QED BY <3>1, <3>2
  <2> HIDE DEF whole, new
  <2>12. names \in SUBSET AllColumns /\ Indexes \subseteq names
    BY <2>4, <2>10
  <2> HIDE DEF names
  <2>13. aside' \in {aside, NoTable}
    BY <2>1
  <2>14. AllColumns \in SUBSET AllColumns
    OBVIOUS
  <2>15. moved = <<{}>> => RebuiltOnce
    BY DEF RebuiltOnce
  <2> QED BY <2>1, <2>3, <2>7, <2>8, <2>9, <2>11, <2>12, <2>13, <2>14, <2>15, CommitKeeps
<1> QED BY <1>1, <1>2

\* The transaction without a rebuild.
LEMMA FillKeeps ==
    ASSUME Shapes, SubmissionInv, NEW c \in Clients, Fill(c) PROVE SubmissionInv'
<1>1. CASE Refused(c)
  <2>1. client[c].at # "idle"
    BY DEF Fill
  <2> QED BY <1>1, <2>1, RefusedKeeps
<1>2. ASSUME ~Refused(c) PROVE SubmissionInv'
  <2> DEFINE nulls == client[c].nulls
             whole == Filled(voices.rows, nulls)
             names == voices.indexes \cup (Indexes \ aside.indexes)
             new == [client[c] EXCEPT !.at = "inserting", !.nulls = {}]
  <2>1. /\ client[c].at = "filling" /\ voices.there /\ names \subseteq voices.columns
        /\ Unique(whole, names) /\ voices' = [voices EXCEPT !.indexes = names, !.rows = whole]
        /\ client' = [client EXCEPT ![c] = new] /\ aside' = aside /\ moved' = moved
    BY <1>2, Zenon DEF Fill
  <2>2. client[c] \in Submitters /\ client[c].request \in Requests
    BY <2>1 DEF SubmissionInv, SubmissionTyped
  <2>3. new \in Submitters /\ new.at = "inserting" /\ new.nulls = {} /\ new.request \in Requests
    BY <2>2 DEF Submitters, Places
  <2>4. /\ voices.rows \in Seq(Entries) /\ voices \in Tables
        /\ voices.indexes \in SUBSET AllColumns /\ voices.columns \in SUBSET AllColumns
        /\ nulls \in SUBSET (Nat \X Requests)
    BY <2>2 DEF SubmissionInv, SubmissionTyped, Tables, Submitters
  <2>5. names \in SUBSET AllColumns
    BY <2>1, <2>4
  <2>6. ASSUME RebuiltOnce
        PROVE  /\ \A p \in nulls : p[1] \in DOMAIN voices.rows => voices.rows[p[1]].request = p[2]
               /\ Indexes \subseteq names /\ Faithful(voices.rows)
    <3>1. aside.indexes = {}
      BY <2>6 DEF RebuiltOnce, SubmissionInv, NothingMoved, MovedOnce
    <3>2. NullsHold
      BY <2>6 DEF SubmissionInv
    <3> QED BY <3>1, <3>2 DEF NullsHold
  <2>7. voices' = [voices EXCEPT !.columns = voices.columns, !.indexes = names, !.rows = whole]
    BY <2>1, <2>4 DEF Tables
  <2>8. moved = <<>> => voices.ambiguous
    BY <2>1 DEF SubmissionInv, NothingMoved
  <2> HIDE DEF new, names
  <2>9. whole \in Seq(Entries) /\ DOMAIN whole = DOMAIN voices.rows
        /\ (nulls = {} => whole = voices.rows)
    BY <2>4, FilledTyped
  <2>10. ASSUME RebuiltOnce
         PROVE  /\ Faithful(whole)
                /\ \A i \in DOMAIN voices.rows :
                     /\ whole[i].request = voices.rows[i].request
                     /\ whole[i].decision = voices.rows[i].decision
                     /\ voices.rows[i].identity # None =>
                          whole[i].identity = voices.rows[i].identity
    BY <2>4, <2>6, <2>10, FilledRows
  <2>11. moved = <<{}>> => FilledIn(whole)
    BY <2>9 DEF SubmissionInv, MovedOnce
  <2>12. ASSUME RebuiltOnce, NEW e \in Clients, NEW p \in client[e].nulls
         PROVE  p[1] \in DOMAIN whole /\ whole[p[1]].request = p[2]
    BY <2>9, <2>10, <2>12 DEF SubmissionInv, NullsHold
  <2> HIDE DEF whole
  <2>13. \A e \in Clients : \A p \in client[e].nulls : RebuiltOnce =>
            p[1] \in DOMAIN whole /\ whole[p[1]].request = p[2]
    BY <2>12
  <2>14. \A e \in Clients : RebuiltOnce /\ Accepted(e) => \A i \in DOMAIN voices.rows :
            /\ i \in DOMAIN whole /\ whole[i].decision = voices.rows[i].decision
            /\ voices.rows[i].identity # None => whole[i].identity = voices.rows[i].identity
    BY <2>9, <2>10
  <2>15. aside' \in {aside, NoTable} /\ whole \in Seq(Entries)
    BY <2>1, <2>9
  <2>16. RebuiltOnce => Indexes \subseteq names /\ Unique(whole, names) /\ Faithful(whole)
    BY <2>1, <2>6, <2>10
  <2>17. /\ voices.there /\ client' = [client EXCEPT ![c] = new] /\ moved' = moved
         /\ voices.columns \in SUBSET AllColumns
    BY <2>1, <2>4
  <2> HIDE DEF nulls
  <2> QED BY <2>3, <2>5, <2>7, <2>8, <2>11, <2>13, <2>14, <2>15, <2>16, <2>17, CommitKeeps, Zenon
<1> QED BY <1>1, <1>2

\* One missing column more.
LEMMA AddColumnKeeps ==
    ASSUME Shapes, SubmissionInv, NEW c \in Clients, AddColumn(c) PROVE SubmissionInv'
<1>0. client[c].at = "adding"
  BY DEF AddColumn
<1>1. CASE Refused(c)
  BY <1>0, <1>1, RefusedKeeps
<1>2. ASSUME ~Refused(c) PROVE SubmissionInv'
  <2>1. PICK x \in AllColumns :
           /\ voices' = [voices EXCEPT !.columns = @ \cup {x}]
           /\ client' = [client EXCEPT ![c].columns = @ \ {x}]
           /\ aside' = aside /\ moved' = moved
    <3>1. PICK k \in DOMAIN Added :
             IF voices.there /\ Added[k] \notin voices.columns
             THEN /\ voices' = [voices EXCEPT !.columns = @ \cup {Added[k]}]
                  /\ client' = [client EXCEPT ![c].columns = @ \ {Added[k]}]
                  /\ UNCHANGED <<aside, moved>>
             ELSE Refused(c)
      BY Zenon DEF AddColumn
    <3> QED BY <1>2, <3>1 DEF AllColumns
  <2> DEFINE new == [client[c] EXCEPT !.columns = @ \ {x}]
  <2>2. client \in [Clients -> Submitters] /\ client[c] \in Submitters /\ voices \in Tables
    BY DEF SubmissionInv, SubmissionTyped
  <2>3. new \in Submitters /\ new.at = "adding" /\ new.nulls = client[c].nulls
        /\ new.request = client[c].request
    BY <1>0, <2>2 DEF Submitters
  <2>4. client' = [client EXCEPT ![c] = new]
    BY <2>1
  <2> HIDE DEF new
  <2>5. /\ client'[c] = new /\ client' \in [Clients -> Submitters]
        /\ \A e \in Clients : e # c => client'[e] = client[e]
    BY <2>2, <2>3, <2>4
  <2>6. /\ voices' \in Tables /\ voices'.rows = voices.rows /\ voices'.indexes = voices.indexes
        /\ voices'.there = voices.there /\ voices'.ambiguous = voices.ambiguous
    BY <2>1, <2>2 DEF Tables
  <2>7. SubmissionTyped'
    BY <1>0, <2>1, <2>3, <2>5, <2>6 DEF SubmissionInv, SubmissionTyped
  <2>8. NothingMoved'
    BY <1>0, <2>1, <2>3, <2>5, <2>6 DEF SubmissionInv, NothingMoved
  <2>9. MovedOnce'
    BY <2>1, <2>3, <2>5, <2>6 DEF SubmissionInv, MovedOnce
  <2>10. ASSUME RebuiltOnce' PROVE OpenTable' /\ NullsHold' /\ AnswersHold'
    <3>1. RebuiltOnce
      BY <2>1, <2>10 DEF RebuiltOnce
    <3>2. OpenTable'
      BY <2>3, <2>5, <2>6, <3>1 DEF SubmissionInv, OpenTable, Opened
    <3>3. NullsHold'
      BY <2>1, <2>3, <2>5, <2>6, <3>1 DEF SubmissionInv, NullsHold
    <3>4. AnswersHold'
      BY <2>3, <2>5, <2>6, <3>1 DEF SubmissionInv, AnswersHold, InsertedAs, InTheWay
    <3> QED BY <3>2, <3>3, <3>4
  <2> QED BY <2>7, <2>8, <2>9, <2>10 DEF SubmissionInv
<1> QED BY <1>1, <1>2

\* A row that clashes with none leaves the table without clashes.
LEMMA AppendedUnique ==
    ASSUME NEW rows \in Seq(Entries), NEW names \in SUBSET AllColumns, Unique(rows, Indexes),
           NEW e \in Entries, Conflicts(rows, names, e) = {}, Indexes \subseteq names
    PROVE  Unique(Append(rows, e), Indexes)
<1> DEFINE n == Len(rows)
           t == Append(rows, e)
<1>1. n \in Nat /\ DOMAIN rows = 1..n /\ DOMAIN t = 1..n + 1
  OBVIOUS
<1>2. t[n + 1] = e /\ \A i \in 1..n : t[i] = rows[i]
  OBVIOUS
<1>3. \A i \in 1..n, x \in Indexes : ~Clash(rows[i][x], e[x]) /\ ~Clash(e[x], rows[i][x])
  BY <1>1 DEF Conflicts, Clash
<1>4. \A i, j \in 1..n, x \in Indexes : Clash(rows[i][x], rows[j][x]) => i = j
  BY <1>1 DEF Unique
<1> HIDE DEF n, t
<1>5. \A k \in 1..n + 1 : k \in 1..n \/ k = n + 1
  BY <1>1
<1>6. \A i, j \in 1..n + 1, x \in Indexes : Clash(t[i][x], t[j][x]) => i = j
  BY <1>2, <1>3, <1>4, <1>5
<1> QED BY <1>1, <1>6 DEF Unique, t

\* A row is added, or a row was in the way.
LEMMA InsertKeeps ==
    ASSUME Shapes, SubmissionInv, NEW c \in Clients, Insert(c) PROVE SubmissionInv'
<1>0. client[c].at = "inserting"
  BY DEF Insert, Goes
<1>1. CASE Refused(c)
  BY <1>0, <1>1, RefusedKeeps
<1>2. ASSUME Conflicts(voices.rows, voices.indexes, Entry(c)) = {},
             voices' = [voices EXCEPT !.rows = Append(@, Entry(c))],
             client' = [client EXCEPT ![c].at = "inserted", ![c].job = Len(voices.rows) + 1],
             aside' = aside, moved' = moved
      PROVE  SubmissionInv'
  <2> DEFINE k == Len(voices.rows) + 1
             new == [client[c] EXCEPT !.at = "inserted", !.job = k]
             rows == Append(voices.rows, Entry(c))
  <2>1. /\ client \in [Clients -> Submitters] /\ client[c] \in Submitters
        /\ client[c].request \in Requests /\ client[c].nulls = {}
        /\ voices \in Tables /\ voices.rows \in Seq(Entries)
    BY <1>0 DEF SubmissionInv, SubmissionTyped, Tables
  <2>2. k \in Nat /\ k >= 1 /\ Entry(c) \in Entries /\ Entry(c).decision = client[c].decision
        /\ Entry(c).identity = client[c].request /\ Entry(c).request = client[c].request
    BY <2>1 DEF Entry, Entries, Submitters
  <2>3. /\ rows \in Seq(Entries) /\ DOMAIN rows = 1..k /\ DOMAIN voices.rows = 1..(k - 1)
        /\ rows[k] = Entry(c) /\ \A i \in 1..(k - 1) : i \in 1..k /\ rows[i] = voices.rows[i]
    BY <2>1, <2>2
  <2>4. \A i \in 1..k : i \in 1..(k - 1) \/ i = k
    BY <2>2
  <2>5. client' = [client EXCEPT ![c] = new] /\ voices' = [voices EXCEPT !.rows = rows]
    BY <1>2
  <2> HIDE DEF k
  <2>6. /\ new \in Submitters /\ new.at = "inserted" /\ new.job = k /\ new.nulls = {}
        /\ new.request = client[c].request /\ new.decision = client[c].decision
    BY <2>1, <2>2 DEF Submitters, Places
  <2> HIDE DEF new, rows
  <2>7. /\ client'[c] = new /\ client' \in [Clients -> Submitters]
        /\ \A e \in Clients : e # c => client'[e] = client[e]
    BY <2>1, <2>5, <2>6
  <2>8. /\ voices' \in Tables /\ voices'.rows = rows /\ voices'.indexes = voices.indexes
        /\ voices'.there = voices.there /\ voices'.ambiguous = voices.ambiguous
    BY <2>1, <2>3, <2>5 DEF Tables
  <2>9. SubmissionTyped'
    BY <1>2, <2>1, <2>6, <2>7, <2>8 DEF SubmissionInv, SubmissionTyped
  <2>10. NothingMoved'
    BY <1>0, <1>2, <2>6, <2>7, <2>8 DEF SubmissionInv, NothingMoved
  <2>11. MovedOnce'
    <3>1. moved = <<{}>> => FilledIn(rows)
      BY <2>2, <2>3, <2>4 DEF SubmissionInv, MovedOnce, FilledIn
    <3> QED BY <1>2, <2>6, <2>7, <2>8, <3>1 DEF SubmissionInv, MovedOnce
  <2>12. ASSUME RebuiltOnce' PROVE OpenTable' /\ NullsHold' /\ AnswersHold'
    <3>1. RebuiltOnce
      BY <1>2, <2>12 DEF RebuiltOnce
    <3>2. voices.there /\ Indexes \subseteq voices.indexes /\ Unique(voices.rows, Indexes)
      BY <1>0, <3>1 DEF SubmissionInv, OpenTable, Opened
    <3>3. OpenTable'
      <4>1. Unique(rows, Indexes)
        <5>1. voices.indexes \in SUBSET AllColumns
          BY <2>1 DEF Tables
        <5> QED BY <1>2, <2>1, <2>2, <3>2, <5>1, AppendedUnique DEF rows
      <4> QED BY <2>8, <3>2, <4>1 DEF OpenTable
    <3>4. NullsHold'
      <4>1. Faithful(rows)
        BY <2>2, <2>3, <2>4, <3>1 DEF SubmissionInv, NullsHold, Faithful
      <4>2. \A e \in Clients : \A p \in client[e].nulls :
               p[1] \in DOMAIN rows /\ rows[p[1]].request = p[2]
        BY <2>3, <3>1 DEF SubmissionInv, NullsHold
      <4> QED BY <1>2, <2>6, <2>7, <2>8, <3>1, <4>1, <4>2 DEF SubmissionInv, NullsHold
    <3>5. AnswersHold'
      <4> SUFFICES ASSUME NEW e \in Clients
                   PROVE  /\ client'[e].at = "inserted" => InsertedAs(voices.rows, e)'
                          /\ client'[e].at = "deduplicated" => InTheWay(voices.rows, e)'
        BY DEF AnswersHold
      <4>1. CASE e = c
        <5>1. InsertedAs(voices.rows, c)'
          <6>1. k \in DOMAIN rows
            BY <2>2, <2>3
          <6> QED BY <2>2, <2>3, <2>6, <2>7, <2>8, <6>1 DEF InsertedAs
        <5> QED BY <2>6, <2>7, <4>1, <5>1
      <4>2. CASE e # c
        <5>1. client'[e] = client[e]
          BY <2>7, <4>2
        <5>2. \A i \in DOMAIN voices.rows : i \in DOMAIN rows /\ rows[i] = voices.rows[i]
          BY <2>3
        <5>3. client[e].at = "inserted" => InsertedAs(voices.rows, e)'
          BY <2>8, <3>1, <5>1, <5>2 DEF SubmissionInv, AnswersHold, InsertedAs
        <5>4. client[e].at = "deduplicated" => InTheWay(voices.rows, e)'
          BY <2>8, <3>1, <5>1, <5>2 DEF SubmissionInv, AnswersHold, InTheWay
        <5> QED BY <5>1, <5>3, <5>4
      <4> QED BY <4>1, <4>2
    <3> QED BY <3>3, <3>4, <3>5
  <2> QED BY <2>9, <2>10, <2>11, <2>12 DEF SubmissionInv
<1>3. ASSUME client' = [client EXCEPT ![c].at = "ignored"], UNCHANGED <<voices, aside, moved>>
      PROVE  SubmissionInv'
  <2>1. client \in [Clients -> Submitters] /\ "ignored" \in Places
    BY DEF SubmissionInv, SubmissionTyped, Places
  <2>2. /\ client' \in [Clients -> Submitters] /\ client'[c] = [client[c] EXCEPT !.at = "ignored"]
        /\ \A e \in Clients : e # c => client'[e] = client[e]
    BY <1>3, <2>1, GoesOn
  <2>3. /\ client'[c].at = "ignored" /\ client'[c].nulls = {} /\ client[c].nulls = {}
        /\ client'[c].request \in Requests
    BY <1>0, <2>1, <2>2 DEF SubmissionInv, SubmissionTyped, Submitters
  <2>4. SubmissionTyped'
    BY <1>3, <2>2, <2>3 DEF SubmissionInv, SubmissionTyped
  <2>5. NothingMoved'
    BY <1>0, <1>3, <2>2, <2>3 DEF SubmissionInv, NothingMoved
  <2>6. MovedOnce'
    BY <1>3, <2>2, <2>3 DEF SubmissionInv, MovedOnce
  <2>7. ASSUME RebuiltOnce' PROVE OpenTable' /\ NullsHold' /\ AnswersHold'
    <3>1. RebuiltOnce
      BY <1>3, <2>7 DEF RebuiltOnce
    <3>2. OpenTable'
      BY <1>0, <1>3, <3>1 DEF SubmissionInv, OpenTable, Opened
    <3>3. NullsHold'
      BY <1>3, <2>2, <2>3, <3>1 DEF SubmissionInv, NullsHold
    <3>4. AnswersHold'
      BY <1>3, <2>2, <2>3, <3>1 DEF SubmissionInv, AnswersHold, InsertedAs, InTheWay
    <3> QED BY <3>2, <3>3, <3>4
  <2> QED BY <2>4, <2>5, <2>6, <2>7 DEF SubmissionInv
<1> QED BY <1>1, <1>2, <1>3, Zenon DEF Insert, Goes

\* The row that is found is one in the way.
LEMMA LookupKeeps ==
    ASSUME Shapes, SubmissionInv, NEW c \in Clients, Lookup(c) PROVE SubmissionInv'
<1>0. client[c].at = "ignored"
  BY DEF Lookup
<1>1. CASE Refused(c)
  BY <1>0, <1>1, RefusedKeeps
<1>2. ASSUME NEW i \in Conflicts(voices.rows, {"decision", "identity"}, Entry(c)),
             client' = [client EXCEPT ![c].at = "deduplicated", ![c].job = i],
             UNCHANGED <<voices, aside, moved>>
      PROVE  SubmissionInv'
  <2> DEFINE new == [client[c] EXCEPT !.at = "deduplicated", !.job = i]
  <2>1. /\ client \in [Clients -> Submitters] /\ client[c] \in Submitters
        /\ client[c].request \in Requests /\ client[c].nulls = {}
        /\ voices.rows \in Seq(Entries)
    BY <1>0 DEF SubmissionInv, SubmissionTyped, Tables
  <2>2. /\ i \in DOMAIN voices.rows /\ i \in Nat
        /\ \/ Clash(voices.rows[i].decision, Entry(c).decision)
           \/ Clash(voices.rows[i].identity, Entry(c).identity)
    BY <2>1 DEF Conflicts
  <2>3. \/ voices.rows[i].decision = client[c].decision /\ client[c].decision # None
        \/ voices.rows[i].identity = client[c].request
    BY <2>2 DEF Clash, Entry
  <2>4. client' = [client EXCEPT ![c] = new]
    BY <1>2
  <2>5. /\ new \in Submitters /\ new.at = "deduplicated" /\ new.job = i /\ new.nulls = {}
        /\ new.request = client[c].request /\ new.decision = client[c].decision
    BY <2>1, <2>2 DEF Submitters, Places
  <2> HIDE DEF new
  <2>6. /\ client'[c] = new /\ client' \in [Clients -> Submitters]
        /\ \A e \in Clients : e # c => client'[e] = client[e]
    BY <2>1, <2>4, <2>5
  <2>7. SubmissionTyped'
    BY <1>2, <2>1, <2>5, <2>6 DEF SubmissionInv, SubmissionTyped
  <2>8. NothingMoved'
    BY <1>0, <1>2, <2>5, <2>6 DEF SubmissionInv, NothingMoved
  <2>9. MovedOnce'
    BY <1>2, <2>5, <2>6 DEF SubmissionInv, MovedOnce
  <2>10. ASSUME RebuiltOnce' PROVE OpenTable' /\ NullsHold' /\ AnswersHold'
    <3>1. RebuiltOnce
      BY <1>2, <2>10 DEF RebuiltOnce
    <3>2. OpenTable'
      BY <1>0, <1>2, <3>1 DEF SubmissionInv, OpenTable, Opened
    <3>3. NullsHold'
      BY <1>2, <2>5, <2>6, <3>1 DEF SubmissionInv, NullsHold
    <3>4. InTheWay(voices.rows, c)'
      BY <1>2, <2>2, <2>3, <2>5, <2>6 DEF InTheWay
    <3>5. AnswersHold'
      BY <1>2, <2>5, <2>6, <3>1, <3>4 DEF SubmissionInv, AnswersHold, InsertedAs, InTheWay
    <3> QED BY <3>2, <3>3, <3>5
  <2> QED BY <2>7, <2>8, <2>9, <2>10 DEF SubmissionInv
<1> QED BY <1>1, <1>2, Zenon DEF Lookup

\* A caller looks at the tables and keeps what it read.
LEMMA ReadsKeep ==
    ASSUME Shapes, SubmissionInv, NEW c \in Clients,
           \/ \E s \in Submissions : Submit(c, s[1], s[2])
           \/ CheckTable(c) \/ ListIndexes(c) \/ Compare(c) \/ Inspect(c) \/ ReadNulls(c)
    PROVE  SubmissionInv'
<1> DEFINE old == client[c]
<1>1. /\ client \in [Clients -> Submitters] /\ old \in Submitters
      /\ old.at # "idle" => old.request \in Requests
      /\ old.at # "filling" => old.nulls = {}
      /\ voices \in Tables /\ aside \in Tables
      /\ voices.indexes \in SUBSET AllColumns /\ voices.columns \in SUBSET AllColumns
      /\ aside.columns \in SUBSET AllColumns /\ voices.rows \in Seq(Entries)
  BY DEF SubmissionInv, SubmissionTyped, Tables
<1>2. ASSUME NEW s \in Submissions, Submit(c, s[1], s[2]) PROVE SubmissionInv'
  <2> DEFINE new == [Resting EXCEPT !.at = "creating", !.decision = s[1], !.request = s[2]]
  <2>1. s[1] \in Decisions \cup {None} /\ s[2] \in Requests
    BY DEF Shapes
  <2>2. new \in Submitters /\ new.at = "creating" /\ new.request \in Requests /\ new.nulls = {}
    BY <2>1 DEF Resting, Submitters, Places
  <2>3. client' = [client EXCEPT ![c] = new] /\ UNCHANGED <<voices, aside, moved>>
    BY <1>2 DEF Submit
  <2> HIDE DEF new
  <2> QED BY <2>2, <2>3, LooksOn
<1>3. ASSUME CheckTable(c) PROVE SubmissionInv'
  <2>1. /\ old.at = "checking" /\ UNCHANGED <<voices, aside, moved>>
        /\ \E to \in {"inspecting", "listing"} :
             /\ client' = [client EXCEPT ![c].at = to]
             /\ to = "inspecting" => (voices.there => voices.ambiguous)
             /\ to = "listing" => voices.there /\ ~voices.ambiguous
    BY <1>3 DEF CheckTable, Goes
  <2>2. PICK to \in {"inspecting", "listing"} :
             /\ client' = [client EXCEPT ![c].at = to]
             /\ to = "inspecting" => (voices.there => voices.ambiguous)
             /\ to = "listing" => voices.there /\ ~voices.ambiguous
    BY <2>1
  <2> DEFINE new == [old EXCEPT !.at = to]
  <2>3. /\ new \in Submitters /\ new.at = to /\ new.request \in Requests /\ new.nulls = {}
    BY <1>1, <2>1 DEF Submitters, Places
  <2>4. client' = [client EXCEPT ![c] = new]
    BY <2>2
  <2>5. moved = <<>> => voices.there
    BY <2>1 DEF SubmissionInv, NothingMoved
  <2> HIDE DEF new, old
  <2> QED BY <2>1, <2>2, <2>3, <2>4, <2>5, LooksOn
<1>4. ASSUME ListIndexes(c) PROVE SubmissionInv'
  <2>1. old.at = "listing" /\ UNCHANGED <<voices, aside, moved>>
    BY <1>4 DEF ListIndexes
  <2> DEFINE new == [old EXCEPT !.at = "renaming", !.listed = voices.indexes]
  <2>2. /\ new \in Submitters /\ new.at = "renaming" /\ new.request \in Requests
        /\ new.nulls = {}
    BY <1>1, <2>1 DEF Submitters, Places
  <2>3. client' = [client EXCEPT ![c] = new]
    BY <1>4 DEF ListIndexes
  <2>4. moved = <<>> => voices.there /\ ~voices.ambiguous
    BY <2>1 DEF SubmissionInv, NothingMoved
  <2> HIDE DEF new, old
  <2> QED BY <2>1, <2>2, <2>3, <2>4, LooksOn
<1>5. ASSUME Compare(c) PROVE SubmissionInv'
  <2>1. old.at = "comparing" /\ UNCHANGED <<voices, aside, moved>>
    BY <1>5 DEF Compare
  <2> DEFINE new == [old EXCEPT !.at = "copying", !.columns = voices.columns \cap aside.columns]
  <2>2. /\ new \in Submitters /\ new.at = "copying" /\ new.request \in Requests
        /\ new.nulls = {}
    BY <1>1, <2>1 DEF Submitters, Places
  <2>3. client' = [client EXCEPT ![c] = new]
    BY <1>5 DEF Compare
  <2>4. moved # <<>>
    BY <2>1 DEF SubmissionInv, NothingMoved
  <2> HIDE DEF new, old
  <2> QED BY <2>1, <2>2, <2>3, <2>4, LooksOn
<1>6. ASSUME Inspect(c) PROVE SubmissionInv'
  <2>1. old.at = "inspecting" /\ UNCHANGED <<voices, aside, moved>>
    BY <1>6 DEF Inspect
  <2> DEFINE new == [old EXCEPT !.at = "adding", !.columns = AllColumns \ voices.columns]
  <2>2. /\ new \in Submitters /\ new.at = "adding" /\ new.request \in Requests
        /\ new.nulls = {}
    BY <1>1, <2>1 DEF Submitters, Places
  <2>3. client' = [client EXCEPT ![c] = new]
    BY <1>6 DEF Inspect
  <2>4. moved = <<>> => voices.there /\ voices.ambiguous
    BY <2>1 DEF SubmissionInv, NothingMoved
  <2> HIDE DEF new, old
  <2> QED BY <2>1, <2>2, <2>3, <2>4, LooksOn
<1>7. ASSUME ReadNulls(c) PROVE SubmissionInv'
  <2>1. CASE Refused(c)
    <3>1. client[c].at # "idle"
      BY <1>7 DEF ReadNulls
    <3> QED BY <2>1, <3>1, RefusedKeeps
  <2>2. ASSUME ~Refused(c) PROVE SubmissionInv'
    <3> DEFINE new == [old EXCEPT !.at = "filling", !.nulls = Nulls(voices.rows)]
    <3>1. /\ old.at = "adding" /\ client' = [client EXCEPT ![c] = new]
          /\ UNCHANGED <<voices, aside, moved>>
      BY <1>7, <2>2 DEF ReadNulls
    <3>2. Nulls(voices.rows) \in SUBSET (Nat \X Requests)
      BY <1>1, FilledAll
    <3>3. /\ new \in Submitters /\ new.at = "filling" /\ new.request \in Requests
          /\ new.nulls = Nulls(voices.rows)
      BY <1>1, <3>1, <3>2 DEF Submitters, Places
    <3>4. moved = <<{}>> => Nulls(voices.rows) = {}
      BY <1>1, FilledAll DEF SubmissionInv, MovedOnce
    <3>5. \A p \in Nulls(voices.rows) : /\ p[1] \in DOMAIN voices.rows
                                        /\ voices.rows[p[1]].request = p[2]
      BY DEF Nulls
    <3>6. moved = <<>> => voices.there /\ voices.ambiguous
      BY <3>1 DEF SubmissionInv, NothingMoved
    <3> HIDE DEF new, old
    <3> QED BY <3>1, <3>3, <3>4, <3>5, <3>6, LooksOn
  <2> QED BY <2>1, <2>2
<1> QED BY <1>2, <1>3, <1>4, <1>5, <1>6, <1>7

\* One statement or transaction of one submission.
LEMMA SubmissionStep ==
    ASSUME Shapes PROVE SubmissionInv /\ [SubmissionNext]_submissionVars => SubmissionInv'
<1> SUFFICES ASSUME SubmissionInv, [SubmissionNext]_submissionVars PROVE SubmissionInv'
  OBVIOUS
<1>1. CASE UNCHANGED submissionVars
  BY <1>1 DEF submissionVars, SubmissionInv, SubmissionTyped, NothingMoved, MovedOnce,
     RebuiltOnce, OpenTable, Opened, NullsHold, AnswersHold, InsertedAs, InTheWay
<1>2. CASE SubmissionNext
  BY <1>2, CreateKeeps, SetAsideKeeps, CopyKeeps, AddColumnKeeps, FillKeeps, InsertKeeps,
     LookupKeeps, ReadsKeep DEF SubmissionNext
<1> QED BY <1>1, <1>2

\* However often and from wherever a request is submitted again, and while any
\* number of openers upgrade the table at any of their statements, it is given
\* the job its first insertion was given (enqueue_with_status), so long as the
\* table was set aside at most once and without indexes of the same names.
THEOREM RetriesAgree ==
    ASSUME Shapes PROVE SubmissionSpec => []RetriesConverge
<1>1. SubmissionInv => RetriesConverge
  <2> SUFFICES ASSUME SubmissionInv, RebuiltOnce, NEW c \in Clients, NEW e \in Clients,
                      client[c].at = "inserted", Accepted(e),
                      client[e].decision = client[c].decision,
                      client[e].request = client[c].request
               PROVE  client[e].job = client[c].job
    BY DEF RetriesConverge
  <2> DEFINE j == client[c].job
             d == client[c].decision
             r == client[c].request
             rows == voices.rows
  <2>1. Unique(rows, Indexes) /\ r # None
    BY DEF SubmissionInv, SubmissionTyped, OpenTable, Opened, Shapes
  <2>2. j \in DOMAIN rows /\ rows[j].decision = d /\ rows[j].identity = r
    BY DEF SubmissionInv, AnswersHold, InsertedAs
  <2>3. /\ client[e].job \in DOMAIN rows
        /\ \/ rows[client[e].job].decision = d /\ d # None
           \/ rows[client[e].job].identity = r
    BY DEF Accepted, SubmissionInv, AnswersHold, InsertedAs, InTheWay
  <2>4. /\ \A k \in DOMAIN rows : Clash(rows[k].decision, rows[j].decision) => k = j
        /\ \A k \in DOMAIN rows : Clash(rows[k].identity, rows[j].identity) => k = j
    BY <2>1, <2>2 DEF Unique, Indexes
  <2> QED BY <2>1, <2>2, <2>3, <2>4 DEF Clash
<1> QED BY <1>1, SubmissionStart, SubmissionStep, PTL DEF SubmissionSpec

-----------------------------------------------------------------------------
(* The threads of a worker pool.                                           *)

ThreadPlaces == {"head", "get", "work", "put", "gone"}

PoolTyped ==
    /\ stopping \in [Instances -> BOOLEAN]
    /\ queue \in [Instances -> Seq({"job", "stop"})]
    /\ started \in Seq(Instances)
    /\ thread \in Seq([Slots -> ThreadPlaces]) /\ Len(thread) = Len(started)
    /\ caller \in [of : Instances \cup {NoInstance}, left : Nat]

\* An instance nobody keeps is started once, so until it is stopped its queue
\* holds no sentinel and no thread of it has a reason to end.
Complete(k) ==
    /\ k \notin Used => queue[k] = <<>> /\ ~stopping[k]
    /\ ~stopping[k] => /\ \A i \in DOMAIN queue[k] : queue[k][i] = "job"
                       /\ \A n \in Calls, s \in Slots : started[n] = k => Alive(n, s)

PoolInv ==
    /\ PoolTyped
    /\ default # NoInstance => default \in Instances \ Kept
    /\ caller.left > 0 => caller.of \in Instances
    /\ caller.of \in Instances => stopping[caller.of] /\ caller.of \in Used
    /\ \A k \in Instances \ Kept : Complete(k)

\* Nothing was started yet.
LEMMA PoolStart == PoolInit => PoolInv
<1> SUFFICES ASSUME PoolInit PROVE PoolInv
  OBVIOUS
<1>1. PoolTyped
  BY DEF PoolInit, PoolTyped, NoCall
<1>2. ~(caller.of \in Instances) /\ ~(caller.left > 0)
  BY PoolAssumption DEF PoolInit, NoCall
<1>3. \A k \in Instances : Complete(k)
  BY DEF PoolInit, Complete, Calls
<1> QED
  BY <1>1, <1>2, <1>3 DEF PoolInit, PoolInv

\* A call of start(): the threads of the other instances are as they were.
LEMMA StartKeeps ==
  ASSUME PoolInv, NEW k \in Instances, Start(k), k \in Kept \/ k \notin Used
  PROVE  /\ PoolTyped' /\ ~(caller'.left > 0) /\ ~(caller'.of \in Instances)
         /\ \A i \in Instances \ Kept : Complete(i)'
<1>1. /\ caller = NoCall /\ UNCHANGED <<queue, caller>>
      /\ started' = Append(started, k)
      /\ stopping' = [stopping EXCEPT ![k] = FALSE]
      /\ thread' = Append(thread, [s \in Slots |-> "head"])
  BY DEF Start
<1>2. PoolTyped
  BY DEF PoolInv
<1>3. [s \in Slots |-> "head"] \in [Slots -> ThreadPlaces]
  BY DEF ThreadPlaces
<1>4. PoolTyped'
  BY <1>1, <1>2, <1>3 DEF PoolTyped
<1>5. ~(caller'.left > 0) /\ ~(caller'.of \in Instances)
  BY <1>1, PoolAssumption DEF NoCall
<1>6. /\ Calls' = Calls \cup {Len(started) + 1} /\ Len(started) + 1 \notin Calls
      /\ started'[Len(started) + 1] = k
      /\ \A s \in Slots : thread'[Len(started) + 1][s] = "head"
      /\ \A n \in Calls : started'[n] = started[n] /\ thread'[n] = thread[n]
  BY <1>1, <1>2 DEF PoolTyped, Calls
<1>7. Used' = Used \cup {k}
  BY <1>6 DEF Used
<1>8. ASSUME NEW i \in Instances \ Kept PROVE Complete(i)'
  <2>1. Complete(i)
    BY DEF PoolInv
  <2>2. CASE i = k
    <3>1. queue'[i] = <<>> /\ k \notin Used
      BY <1>1, <2>1, <2>2 DEF Complete
    <3>2. \A n \in Calls : started'[n] # i
      BY <1>6, <2>2, <3>1 DEF Used
    <3>3. \A n \in Calls', s \in Slots : started'[n] = i => thread'[n][s] # "gone"
      BY <1>6, <3>2
    <3> QED
      BY <1>7, <2>2, <3>1, <3>3 DEF Complete, Alive
  <2>3. CASE i # k
    <3>1. stopping'[i] = stopping[i] /\ queue'[i] = queue[i] /\ (i \in Used' <=> i \in Used)
      BY <1>1, <1>2, <1>7, <2>3 DEF PoolTyped
    <3>2. \A n \in Calls', s \in Slots :
             started'[n] = i => n \in Calls /\ started[n] = i /\ thread'[n][s] = thread[n][s]
      BY <1>6, <2>3
    <3> QED
      BY <2>1, <3>1, <3>2 DEF Complete, Alive
  <2> QED
    BY <2>2, <2>3
<1> QED
  BY <1>4, <1>5, <1>8

\* Starting, and the three parts of stop().
LEMMA CallsKeep ==
  ASSUME PoolInv,
         \/ StartDefault \/ Sentinel \/ Joined
         \/ \E k \in Instances : StartKept(k) \/ SetEvent(k)
  PROVE  PoolInv'
<1>1. CASE StartDefault
  <2>1. PICK k \in Fresh : Start(k) /\ default' = k
    BY <1>1 DEF StartDefault
  <2>2. k \in Instances \ Kept /\ k \notin Used
    BY DEF Fresh
  <2> QED
    BY <2>1, <2>2, StartKeeps DEF PoolInv
<1>2. ASSUME NEW k \in Instances, StartKept(k) PROVE PoolInv'
  <2>1. k \in Kept /\ Start(k) /\ default' = default
    BY <1>2 DEF StartKept
  <2>2. default # NoInstance => default \in Instances \ Kept
    BY DEF PoolInv
  <2> QED
    BY <2>1, <2>2, StartKeeps DEF PoolInv
<1>3. ASSUME NEW k \in Instances, SetEvent(k) PROVE PoolInv'
  <2>1. /\ k \in Used /\ stopping' = [stopping EXCEPT ![k] = TRUE]
        /\ caller' = [of |-> k, left |-> Workers]
        /\ UNCHANGED <<queue, started, thread, held, default>>
    BY <1>3 DEF SetEvent
  <2>2. PoolTyped'
    BY <2>1, PoolAssumption DEF PoolInv, PoolTyped
  <2>3. Calls' = Calls /\ Used' = Used
    BY <2>1 DEF Calls, Used
  <2>4. stopping'[k] /\ \A i \in Instances \ {k} : stopping'[i] = stopping[i]
    BY <2>1 DEF PoolInv, PoolTyped
  <2>5. ASSUME NEW i \in Instances \ Kept PROVE Complete(i)'
    BY <2>1, <2>3, <2>4 DEF PoolInv, Complete, Alive
  <2> QED
    BY <2>1, <2>2, <2>3, <2>4, <2>5 DEF PoolInv
<1>4. CASE Sentinel
  <2>1. /\ caller' = [caller EXCEPT !.left = @ - 1] /\ caller.left > 0
        /\ UNCHANGED <<stopping, started, thread, held, default>>
        /\ caller.of \in Instances /\ stopping[caller.of] /\ caller.of \in Used
    BY <1>4 DEF Sentinel, PoolInv
  <2> DEFINE k == caller.of
             q == IF Len(queue[k]) < QueueSize THEN Append(queue[k], "stop") ELSE queue[k]
  <2>2. queue' = [queue EXCEPT ![k] = q]
    BY <1>4 DEF Sentinel
  <2>3. q \in Seq({"job", "stop"})
    BY <2>1 DEF PoolInv, PoolTyped
  <2> HIDE DEF q
  <2>4. caller' \in [of : Instances \cup {NoInstance}, left : Nat] /\ caller'.of = k
    <3>1. caller \in [of : Instances \cup {NoInstance}, left : Nat] /\ caller.left - 1 \in Nat
      BY <2>1 DEF PoolInv, PoolTyped
    <3>2. caller' = [caller EXCEPT !.left = caller.left - 1]
      BY <2>1
    <3> QED
      BY <3>1, <3>2
  <2>5. PoolTyped'
    BY <2>1, <2>2, <2>3, <2>4 DEF PoolInv, PoolTyped
  <2>6. Calls' = Calls /\ Used' = Used /\ \A i \in Instances \ {k} : queue'[i] = queue[i]
    BY <2>1, <2>2 DEF Calls, Used, PoolInv, PoolTyped
  <2>7. ASSUME NEW i \in Instances \ Kept PROVE Complete(i)'
    BY <2>1, <2>6 DEF PoolInv, Complete, Alive
  <2> QED
    BY <2>1, <2>4, <2>5, <2>6, <2>7 DEF PoolInv
<1>5. CASE Joined
  <2>1. /\ caller' = NoCall /\ default' \in {default, NoInstance}
        /\ UNCHANGED <<stopping, queue, started, thread, held>>
    BY <1>5 DEF Joined
  <2>2. ~(caller'.left > 0) /\ ~(caller'.of \in Instances)
    BY <2>1, PoolAssumption DEF NoCall
  <2>3. PoolTyped'
    BY <2>1 DEF PoolInv, PoolTyped, NoCall
  <2>4. ASSUME NEW i \in Instances \ Kept PROVE Complete(i)'
    BY <2>1 DEF PoolInv, Complete, Alive, Calls, Used
  <2> QED
    BY <2>1, <2>2, <2>3, <2>4 DEF PoolInv
<1> QED
  BY <1>1, <1>2, <1>3, <1>4, <1>5

\* A thread goes from one place to another and changes the queue of its own
\* instance at most: it ends for a sentinel or for the event only, and puts
\* nothing but jobs.
LEMMA ThreadMoves ==
  ASSUME PoolInv, NEW n \in Calls, NEW s \in Slots, ThreadStep(n, s)
  PROVE  \E place \in ThreadPlaces, q \in Seq({"job", "stop"}) :
            /\ thread' = [thread EXCEPT ![n][s] = place]
            /\ queue' = [queue EXCEPT ![started[n]] = q]
            /\ (\A i \in DOMAIN queue[started[n]] : queue[started[n]][i] = "job") =>
                  /\ \A i \in DOMAIN q : q[i] = "job"
                  /\ place = "gone" => stopping[started[n]]
<1> DEFINE k == started[n]
           OnlyJobs(q) == \A i \in DOMAIN q : q[i] = "job"
<1>1. k \in Instances /\ queue[k] \in Seq({"job", "stop"}) /\ DOMAIN queue = Instances
  BY DEF PoolInv, PoolTyped, Calls
<1>2. queue = [queue EXCEPT ![k] = queue[k]]
  BY <1>1 DEF PoolInv, PoolTyped
<1>3. CASE LoopHead(n, s) \/ BackToHead(n, s) \/ (Claim(n) /\ s = 0)
  <2>1. PICK place \in ThreadPlaces :
           /\ thread' = [thread EXCEPT ![n][s] = place] /\ queue' = queue
           /\ place = "gone" => stopping[k]
    BY <1>3 DEF LoopHead, BackToHead, Claim, Move, ThreadPlaces
  <2> QED
    BY <1>1, <1>2, <2>1
<1>4. CASE Get(n, s)
  <2>1. /\ queue[k] # <<>> /\ queue' = [queue EXCEPT ![k] = Tail(queue[k])]
        /\ thread' = [thread EXCEPT ![n][s] = IF Head(queue[k]) = "stop" THEN "gone" ELSE "work"]
    BY <1>4 DEF Get, Move
  <2>2. /\ Tail(queue[k]) \in Seq({"job", "stop"})
        /\ OnlyJobs(queue[k]) => OnlyJobs(Tail(queue[k])) /\ Head(queue[k]) = "job"
    BY <1>1, <2>1
  <2> DEFINE place == IF Head(queue[k]) = "stop" THEN "gone" ELSE "work"
  <2>3. place \in ThreadPlaces /\ (Head(queue[k]) = "job" => place = "work")
    BY DEF ThreadPlaces
  <2> HIDE DEF place
  <2>4. thread' = [thread EXCEPT ![n][s] = place]
    BY <2>1 DEF place
  <2> QED
    BY <2>1, <2>2, <2>3, <2>4
<1>5. CASE Put(n) /\ s = 0
  <2> DEFINE q == IF Len(queue[k]) < QueueSize THEN Append(queue[k], "job") ELSE queue[k]
  <2>1. queue' = [queue EXCEPT ![k] = q]
    BY <1>5 DEF Put
  <2>2. PICK place \in {"head", "put"} : thread' = [thread EXCEPT ![n][s] = place]
    BY <1>5 DEF Put, Move
  <2>3. q \in Seq({"job", "stop"}) /\ (OnlyJobs(queue[k]) => OnlyJobs(q))
    BY <1>1
  <2> HIDE DEF q
  <2> QED
    BY <2>1, <2>2, <2>3 DEF ThreadPlaces
<1>6. LoopHead(n, s) \/ BackToHead(n, s) \/ Get(n, s) \/ (s = 0 /\ (Claim(n) \/ Put(n)))
  BY DEF ThreadStep
<1> QED
  BY <1>3, <1>4, <1>5, <1>6

\* One step of one thread.
LEMMA ThreadKeeps ==
  ASSUME PoolInv, NEW n \in Calls, NEW s \in Slots, ThreadStep(n, s)
  PROVE  PoolInv'
<1> DEFINE k == started[n]
<1>1. PICK place \in ThreadPlaces, q \in Seq({"job", "stop"}) :
         /\ thread' = [thread EXCEPT ![n][s] = place]
         /\ queue' = [queue EXCEPT ![k] = q]
         /\ (\A i \in DOMAIN queue[k] : queue[k][i] = "job") =>
               /\ \A i \in DOMAIN q : q[i] = "job"
               /\ place = "gone" => stopping[k]
  BY ThreadMoves
<1>2. UNCHANGED <<stopping, started, default, caller>>
  BY DEF ThreadStep
<1>3. PoolTyped /\ k \in Instances /\ n \in DOMAIN thread /\ k \in Used
  BY DEF PoolInv, PoolTyped, Calls, Used
<1>4. /\ thread' \in Seq([Slots -> ThreadPlaces]) /\ Len(thread') = Len(thread)
      /\ \A m \in Calls, u \in Slots :
            thread'[m][u] = IF m = n /\ u = s THEN place ELSE thread[m][u]
  <2>1. thread[n] \in [Slots -> ThreadPlaces] /\ thread \in Seq([Slots -> ThreadPlaces])
    BY <1>3 DEF PoolTyped
  <2> DEFINE t == [thread[n] EXCEPT ![s] = place]
  <2>2. t \in [Slots -> ThreadPlaces] /\ \A u \in Slots : t[u] = IF u = s THEN place ELSE thread[n][u]
    BY <2>1
  <2>3. thread' = [thread EXCEPT ![n] = t]
    BY <1>1
  <2> HIDE DEF t
  <2>4. thread' \in Seq([Slots -> ThreadPlaces]) /\ Len(thread') = Len(thread)
    BY <1>3, <2>1, <2>2, <2>3, ExceptSeq
  <2>5. \A m \in Calls : thread'[m] = IF m = n THEN t ELSE thread[m]
    BY <1>3, <2>1, <2>3 DEF PoolTyped, Calls
  <2> QED
    BY <2>2, <2>4, <2>5
<1>5. PoolTyped'
  BY <1>1, <1>2, <1>3, <1>4 DEF PoolTyped
<1>6. Calls' = Calls /\ Used' = Used
  BY <1>2 DEF Calls, Used
<1>7. /\ \A i \in Instances \ {k} : queue'[i] = queue[i]
      /\ queue'[k] = q
  BY <1>1, <1>3 DEF PoolTyped
<1>8. ASSUME NEW i \in Instances \ Kept PROVE Complete(i)'
  <2>1. Complete(i)
    BY DEF PoolInv
  <2>2. i \notin Used' => queue'[i] = <<>> /\ ~stopping'[i]
    BY <1>2, <1>3, <1>6, <1>7, <2>1 DEF Complete
  <2>3. ASSUME ~stopping'[i]
        PROVE  /\ \A j \in DOMAIN queue'[i] : queue'[i][j] = "job"
               /\ \A m \in Calls', u \in Slots : started'[m] = i => thread'[m][u] # "gone"
    <3>1. /\ ~stopping[i] /\ \A j \in DOMAIN queue[i] : queue[i][j] = "job"
          /\ \A m \in Calls, u \in Slots : started[m] = i => thread[m][u] # "gone"
      BY <1>2, <2>1, <2>3 DEF Complete, Alive
    <3> QED
      BY <1>1, <1>2, <1>4, <1>6, <1>7, <3>1
  <2> QED
    BY <2>2, <2>3 DEF Complete, Alive
<1> QED
  BY <1>2, <1>5, <1>6, <1>8 DEF PoolInv

\* Every step.
LEMMA PoolStep == PoolInv /\ [PoolNext]_poolVars => PoolInv'
<1> SUFFICES ASSUME PoolInv, [PoolNext]_poolVars PROVE PoolInv'
  OBVIOUS
<1>1. CASE UNCHANGED poolVars
  BY <1>1 DEF poolVars, PoolInv, PoolTyped, Complete, Alive, Calls, Used
<1> QED
  BY <1>1, CallsKeep, ThreadKeeps DEF PoolNext

\* The default pool is complete while nobody stops it: no sentinel of an
\* earlier stop() takes one of its threads away (start_default_worker,
\* stop_default_worker), for any number of instances, workers and calls, and
\* whatever outlived its join.
THEOREM NoStraySentinel == PoolSpec => []DefaultPoolComplete
<1>1. PoolInv => DefaultPoolComplete
  BY DEF PoolInv, Complete, DefaultPoolComplete
<1> QED
  BY <1>1, PoolStart, PoolStep, PTL DEF PoolSpec
=============================================================================
