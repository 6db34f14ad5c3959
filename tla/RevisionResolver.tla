-------------------------- MODULE RevisionResolver --------------------------
(***************************************************************************)
(* tools/resolve_workspace_revision.py: a CI job picks the revision of the *)
(* peer Workspace repository, checks it out and reports it.  The remote    *)
(* belongs to somebody else: between any two git commands its branches may *)
(* move, appear and disappear, and every command may fail.                 *)
(***************************************************************************)
EXTENDS Naturals

CONSTANTS Revisions, MaxAttempts,
          MaxMoves,  \* bound: changes of the remote
          Absent       \* a branch that does not exist

Refs == {"pr", "main"}

VARIABLES remote,    \* the revision of each branch
          job,       \* [at, event, ref, attempt]: where main() is
          revision,  \* what the lookup answered
          head,      \* HEAD of the checkout
          report,    \* the summary: [ref, fallback, sha]
          tips,      \* history: what each branch has been during the job
          moves

resolverVars == <<remote, job, revision, head, report, tips, moves>>

NoReport == [ref |-> "main", fallback |-> FALSE, sha |-> Absent]

ResolverInit ==
    /\ remote \in [Refs -> Revisions \cup {Absent}]
    /\ \E event \in {"pull_request", "push"} :
         job = [at |-> "lookup", event |-> event, attempt |-> 1,
                ref |-> IF event = "pull_request" THEN "pr" ELSE "main"]
    /\ revision = Absent /\ head = Absent
    /\ report = NoReport /\ moves = 0
    /\ tips = {<<b, remote[b]>> : b \in Refs}

RemoteChanges ==
    /\ moves < MaxMoves /\ moves' = moves + 1
    /\ \E b \in Refs, v \in Revisions \cup {Absent} :
         remote' = [remote EXCEPT ![b] = v] /\ tips' = tips \cup {<<b, v>>}
    /\ UNCHANGED <<job, revision, head, report>>

\* The next attempt of the same command, or RuntimeError after the last one.
Retry == job' = IF job.attempt < MaxAttempts THEN [job EXCEPT !.attempt = @ + 1]
                ELSE [job EXCEPT !.at = "failed"]

\* _lookup_revision; a pull request whose branch is not there tries main.
LookupFound ==
    /\ job.at = "lookup" /\ remote[job.ref] # Absent
    /\ revision' = remote[job.ref]
    /\ job' = [job EXCEPT !.at = "prepare", !.attempt = 1]
    /\ UNCHANGED <<remote, head, report, tips, moves>>

LookupAbsent ==
    /\ job.at = "lookup" /\ remote[job.ref] = Absent
    /\ job' = IF job.ref = "pr" THEN [job EXCEPT !.ref = "main", !.attempt = 1]
              ELSE [job EXCEPT !.at = "failed"]
    /\ UNCHANGED <<remote, revision, head, report, tips, moves>>

\* Mutant: a pull request whose lookups all failed is given main.
LookupError_FallsBack ==
    /\ job.at = "lookup"
    /\ job' = IF job.attempt < MaxAttempts THEN [job EXCEPT !.attempt = @ + 1]
              ELSE IF job.ref = "pr" THEN [job EXCEPT !.ref = "main", !.attempt = 1]
              ELSE [job EXCEPT !.at = "failed"]
    /\ UNCHANGED <<remote, revision, head, report, tips, moves>>

LookupError ==
    /\ job.at = "lookup" /\ Retry
    /\ UNCHANGED <<remote, revision, head, report, tips, moves>>

\* git init and git remote add are run once, with no second attempt.
Prepare ==
    /\ job.at = "prepare"
    /\ \E place \in {"fetch", "failed"} : job' = [job EXCEPT !.at = place]
    /\ UNCHANGED <<remote, revision, head, report, tips, moves>>

\* Fetch and checkout of the revision itself: the host serves it as long as it
\* has it, wherever the branch is now.  A command that fails, or leaves HEAD
\* elsewhere, is followed by the next attempt.
Checkout ==
    /\ job.at = "fetch"
    /\ head' \in {head} \cup Revisions
    /\ job' = [job EXCEPT !.at = "verify"]
    /\ UNCHANGED <<remote, revision, report, tips, moves>>

Verify ==
    /\ job.at = "verify" /\ head = revision
    /\ job' = [job EXCEPT !.at = "done"]
    /\ report' = [ref |-> job.ref, fallback |-> job.event = "pull_request" /\ job.ref = "main",
                  sha |-> head]
    /\ UNCHANGED <<remote, revision, head, tips, moves>>

CheckoutFails ==
    /\ job.at \in {"fetch", "verify"}
    /\ job' = IF job.attempt < MaxAttempts
              THEN [job EXCEPT !.at = "fetch", !.attempt = @ + 1]
              ELSE [job EXCEPT !.at = "failed"]
    /\ UNCHANGED <<remote, revision, head, report, tips, moves>>

ResolverNext ==
    RemoteChanges \/ LookupFound \/ LookupAbsent \/ LookupError
    \/ Prepare \/ Checkout \/ Verify \/ CheckoutFails

ResolverSpec == ResolverInit /\ [][ResolverNext]_resolverVars

-----------------------------------------------------------------------------
\* The summary tells the truth, whatever the remote did and however often git
\* failed: the SHA it names is checked out, it was the tip of the branch named
\* at some moment of the job, and a pull request is given main only when its
\* own branch was not there.
ReportIsTrue ==
    job.at = "done" =>
        /\ report.sha = head
        /\ <<report.ref, report.sha>> \in tips
        /\ (job.event = "pull_request" /\ report.ref = "main") =>
              report.fallback /\ <<"pr", Absent>> \in tips
=============================================================================
