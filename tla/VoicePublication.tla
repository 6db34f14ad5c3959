-------------------------- MODULE VoicePublication --------------------------
(***************************************************************************)
(* Voice presets and what is made with them: the registry and the ordered  *)
(* rendering of src/src/voice_orchestration.py, and the catalogue of       *)
(* preset snapshots of voice_preset_snapshots.py.  An orchestration        *)
(* renders every item into a staging directory and publishes afterwards,   *)
(* file by file; another one with the same output stem writes the same     *)
(* names.  Each step below is one call the code makes to the registry, the *)
(* provider, the file system or the database.                              *)
(***************************************************************************)
EXTENDS Naturals, Sequences

CONSTANTS Presets,        \* preset names, with one intended use each
          Request,          \* the request: Request[i] is the preset of the i-th text
          Orchestrations, \* calls of orchestrate_voices with one output stem
          MaxVersions,    \* bound: versions of one preset
          Savers,         \* save_snapshot calls on one name
          Nobody

VARIABLES preset,   \* approval of every version registered, by name
          orch,     \* [at, staged, published]: what each call has done
          out,      \* whose audio the i-th destination file holds
          snapshot, \* the rows of the catalogue: who wrote version v
          saver     \* [at, version] of each save_snapshot

publicationVars == <<preset, orch, out, snapshot, saver>>

PublicationInit ==
    /\ preset = [p \in Presets |-> <<>>]
    /\ orch = [o \in Orchestrations |-> [at |-> "rendering", staged |-> <<>>, published |-> 0]]
    /\ out = [i \in DOMAIN Request |-> Nobody]
    /\ snapshot = <<>>
    /\ saver = [s \in Savers |-> [at |-> "idle", version |-> 0]]

-----------------------------------------------------------------------------
\* VoicePresetRegistry: a new version is not approved, and hides the old one.
Register(p) ==
    /\ Len(preset[p]) < MaxVersions
    /\ preset' = [preset EXCEPT ![p] = Append(@, FALSE)]
    /\ UNCHANGED <<orch, out, snapshot, saver>>

Approve(p) ==
    /\ preset[p] # <<>>
    /\ preset' = [preset EXCEPT ![p][Len(preset[p])] = TRUE]
    /\ UNCHANGED <<orch, out, snapshot, saver>>

\* require_approved looks at the latest version only.
Approved(p) == preset[p] # <<>> /\ preset[p][Len(preset[p])]

\* One turn of the rendering loop.  The voice may be gone and the provider or
\* the disk may fail: the exception removes the staging directory.
Render(o) ==
    LET p == Request[Len(orch[o].staged) + 1]
    IN  /\ orch[o].at = "rendering" /\ Len(orch[o].staged) < Len(Request)
        /\ \/ /\ Approved(p)
              /\ orch' = [orch EXCEPT ![o].staged = Append(@, Len(preset[p]))]
           \/ orch' = [orch EXCEPT ![o].at = "failed"]
        /\ UNCHANGED <<preset, out, snapshot, saver>>

\* Mutant: publishing begins with what has been rendered so far.
StartPublishing_Eager(o) ==
    /\ orch[o].at = "rendering" /\ orch[o].staged # <<>>
    /\ orch' = [orch EXCEPT ![o].at = "publishing"]
    /\ UNCHANGED <<preset, out, snapshot, saver>>

StartPublishing(o) ==
    /\ orch[o].at = "rendering" /\ Len(orch[o].staged) = Len(Request)
    /\ orch' = [orch EXCEPT ![o].at = "publishing"]
    /\ UNCHANGED <<preset, out, snapshot, saver>>

\* atomic_write_bytes onto the destination, or an exception that leaves what
\* has been published so far.
Publish(o) ==
    LET i == orch[o].published + 1
    IN  /\ orch[o].at = "publishing" /\ i \in DOMAIN Request
        /\ \/ /\ out' = [out EXCEPT ![i] = o]
              /\ orch' = [orch EXCEPT ![o].published = i,
                                      ![o].at = IF i = Len(Request) THEN "complete" ELSE @]
           \/ orch' = [orch EXCEPT ![o].at = "failed"] /\ UNCHANGED out
        /\ UNCHANGED <<preset, snapshot, saver>>

-----------------------------------------------------------------------------
\* save_snapshot reads MAX(version) + 1 outside any transaction, ...
ReadVersion(s) ==
    /\ saver[s].at = "idle"
    /\ saver' = [saver EXCEPT ![s] = [at |-> "inserting", version |-> Len(snapshot) + 1]]
    /\ UNCHANGED <<preset, orch, out, snapshot>>

\* Mutant: INSERT OR REPLACE.
InsertSnapshot_Replaces(s) ==
    /\ saver[s].at = "inserting"
    /\ snapshot' = [v \in DOMAIN snapshot \cup {saver[s].version} |->
                      IF v = saver[s].version THEN s ELSE snapshot[v]]
    /\ saver' = [saver EXCEPT ![s].at = "saved"]
    /\ UNCHANGED <<preset, orch, out>>

\* ... so another process may have taken it: the primary key refuses the row.
InsertSnapshot(s) ==
    /\ saver[s].at = "inserting"
    /\ \/ /\ saver[s].version \notin DOMAIN snapshot
          /\ snapshot' = Append(snapshot, s)
          /\ saver' = [saver EXCEPT ![s].at = "saved"]
       \/ /\ saver[s].version \in DOMAIN snapshot
          /\ saver' = [saver EXCEPT ![s].at = "refused"]
          /\ UNCHANGED snapshot
    /\ UNCHANGED <<preset, orch, out>>

PublicationNext ==
    \/ \E p \in Presets : Register(p) \/ Approve(p)
    \/ \E o \in Orchestrations : Render(o) \/ StartPublishing(o) \/ Publish(o)
    \/ \E s \in Savers : ReadVersion(s) \/ InsertSnapshot(s)

PublicationSpec == PublicationInit /\ [][PublicationNext]_publicationVars

-----------------------------------------------------------------------------
\* "Publish all files only after every render succeeds": a destination file
\* belongs to a call that rendered every item, each with a version that has
\* been approved; a call that failed while rendering has published nothing.
PublishedWasRendered ==
    \A i \in DOMAIN out : out[i] # Nobody =>
        LET staged == orch[out[i]].staged
        IN  /\ DOMAIN staged = DOMAIN Request
            /\ \A n \in DOMAIN staged : preset[Request[n]][staged[n]]

\* A revision that save_snapshot returned is what the catalogue holds under
\* that version from then on, and no two calls were given the same one.
SnapshotsKept ==
    \A s \in Savers : saver[s].at = "saved" => snapshot[saver[s].version] = s

=============================================================================
