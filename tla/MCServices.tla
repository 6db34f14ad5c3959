----------------------------- MODULE MCServices -----------------------------
(***************************************************************************)
(* Model values for the parts of the system that share no variable: the    *)
(* portrait, the migration, voice submissions, the worker pool, the        *)
(* publication of voices, rescoring, the revision resolver, discovery,     *)
(* the building of a card, annotations of todos and the upgrade of the     *)
(* schema.  Running them side by side would add nothing: Init picks the    *)
(* one that is busy, and the others stay in one of their initial states.   *)
(***************************************************************************)
EXTENDS TodoMigration, PriorityRescore, TodoAnnotations, SchemaUpgrade,
        VoiceSubmission, VoicePublication, RevisionResolver, LilyPortrait, WorkerPool,
        TodoDiscovery, ProjectCard, TLC

\* The migration: one of the two files cannot be read.
MCContents == "TODO_AI" :> {"a1", "a2"} @@ "TODO_TYLER" :> {"t1"}

\* Submissions: three callers find no table, one that needs the rebuild (empty,
\* with a row, with an index on its decision column), or one that lacks columns
\* (with a row, with two rows for one request).
MCSubmissions == {<<None, "r1">>, <<"d1", "r1">>, <<"d1", "r2">>}
OldRow(d, r) == [decision |-> d, request |-> r, identity |-> None]
Rebuilt(names, rs) == [there |-> TRUE, ambiguous |-> FALSE, columns |-> names,
                       indexes |-> names, rows |-> rs]
MCLegacy == {NoTable,
    Rebuilt({}, <<>>), Rebuilt({}, <<OldRow(None, "r1")>>),
    Rebuilt({"decision"}, <<OldRow("d1", "r1")>>),
    [NewTable EXCEPT !.columns = {}, !.rows = <<OldRow(None, "r1")>>],
    [NewTable EXCEPT !.rows = <<OldRow(None, "r1"), OldRow(None, "r1")>>]}

\* Orchestrations: a text for each of two presets.
MCRequest == <<"lily", "narrator">>

\* Rescoring: two texts with different scores.
MCScore == "urgent" :> 9 @@ "typo" :> 2

\* Annotations: middling metadata, an impact of 9 with and without evidence.
Meta(score, evidence) == [scores |-> [k \in 1..5 |-> IF k = 1 THEN score ELSE 5],
                          evidence |-> evidence, category |-> TRUE]
MCOffers == {Meta(3, 0), Meta(9, 2), Meta(9, 1)}

\* Discovery: two spellings of one text and another text.
MCNorm     == "Fix" :> "fix" @@ "fix" :> "fix" @@ "ship" :> "ship"
MCSupplied == {<<>>, <<"fix", "ship">>, <<"Fix", "fix", "ship">>, <<"ship", "Fix", "fix">>}

VARIABLE busy

vars == <<busy, lilyVars, migrationVars, submissionVars, poolVars, publicationVars,
          rescoreVars, resolverVars, discoveryVars, cardVars, annotationVars, schemaVars>>

\* What is not busy starts from one fixed state.
Init ==
    /\ busy \in {"portrait", "migration", "submission", "pool", "publication",
                 "rescore", "resolver", "discovery", "card", "annotations", "schema"}
    /\ busy = "portrait" \/ (png = 0 /\ svg = FALSE)
    /\ busy = "migration" \/ db = {}
    /\ busy = "submission" \/ voices = NoTable
    /\ busy = "rescore" \/ todo = [t \in Todos |-> [open |-> TRUE, text |-> "typo",
                                                    priority |-> 2, version |-> 1]]
    /\ busy = "resolver" \/ (/\ remote = [b \in Refs |-> Absent]
                             /\ job = [at |-> "lookup", event |-> "push", attempt |-> 1,
                                       ref |-> "main"])
    /\ busy = "discovery" \/ rows = {}
    /\ busy = "card" \/ line = [x \in Ids |-> [state |-> "absent", project |-> "home", parent |-> 0]]
    /\ busy = "annotations" \/ info = [t \in Rows |-> [here |-> t = 1, fr |-> None, priority |-> 5]]
    /\ busy = "schema" \/ table = [there |-> FALSE, scan |-> FALSE, columns |-> {}]
    /\ LilyInit /\ MigrationInit /\ SubmissionInit /\ PoolInit /\ PublicationInit /\ RescoreInit
    /\ ResolverInit /\ DiscoveryInit /\ CardInit /\ AnnotationInit /\ SchemaInit

Next ==
    /\ UNCHANGED busy
    /\ \/ /\ busy = "portrait" /\ LilyNext
          /\ UNCHANGED <<migrationVars, submissionVars, poolVars, publicationVars,
                       rescoreVars, resolverVars, discoveryVars, cardVars, annotationVars, schemaVars>>
       \/ /\ busy = "migration" /\ MigrationNext
          /\ UNCHANGED <<lilyVars, submissionVars, poolVars, publicationVars,
                       rescoreVars, resolverVars, discoveryVars, cardVars, annotationVars, schemaVars>>
       \/ /\ busy = "submission" /\ SubmissionNext
          /\ UNCHANGED <<lilyVars, migrationVars, poolVars, publicationVars,
                       rescoreVars, resolverVars, discoveryVars, cardVars, annotationVars, schemaVars>>
       \/ /\ busy = "pool" /\ PoolNext
          /\ UNCHANGED <<lilyVars, migrationVars, submissionVars, publicationVars,
                       rescoreVars, resolverVars, discoveryVars, cardVars, annotationVars, schemaVars>>
       \/ /\ busy = "publication" /\ PublicationNext
          /\ UNCHANGED <<lilyVars, migrationVars, submissionVars, poolVars,
                       rescoreVars, resolverVars, discoveryVars, cardVars, annotationVars, schemaVars>>
       \/ /\ busy = "rescore" /\ RescoreNext
          /\ UNCHANGED <<lilyVars, migrationVars, submissionVars, poolVars,
                       publicationVars, resolverVars, discoveryVars, cardVars, annotationVars, schemaVars>>
       \/ /\ busy = "resolver" /\ ResolverNext
          /\ UNCHANGED <<lilyVars, migrationVars, submissionVars, poolVars,
                       publicationVars, rescoreVars, discoveryVars, cardVars, annotationVars, schemaVars>>
       \/ /\ busy = "discovery" /\ DiscoveryNext
          /\ UNCHANGED <<lilyVars, migrationVars, submissionVars, poolVars,
                       publicationVars, rescoreVars, resolverVars, cardVars, annotationVars, schemaVars>>
       \/ /\ busy = "card" /\ CardNext
          /\ UNCHANGED <<lilyVars, migrationVars, submissionVars, poolVars,
                       publicationVars, rescoreVars, resolverVars, discoveryVars, annotationVars, schemaVars>>
       \/ /\ busy = "annotations" /\ AnnotationNext
          /\ UNCHANGED <<lilyVars, migrationVars, submissionVars, poolVars, publicationVars,
                       rescoreVars, resolverVars, discoveryVars, cardVars, schemaVars>>
       \/ /\ busy = "schema" /\ SchemaNext
          /\ UNCHANGED <<lilyVars, migrationVars, submissionVars, poolVars, publicationVars,
                       rescoreVars, resolverVars, discoveryVars, cardVars, annotationVars>>

Spec == Init /\ [][Next]_vars
=============================================================================
