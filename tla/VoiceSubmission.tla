-------------------------- MODULE VoiceSubmission --------------------------
(***************************************************************************)
(* How text gets into the voice queue: submit_repository_voice and the     *)
(* enqueue functions of tts_queue_db.py.  Every submission opens its own   *)
(* connection, which first brings an older table up to date, then inserts  *)
(* with ON CONFLICT DO NOTHING under two unique indexes, commits, and only *)
(* then looks for the row that was in the way.                             *)
(*                                                                         *)
(* The upgrade is not one transaction: sqlite3 commits every CREATE, ALTER *)
(* and DROP by itself until the first INSERT or UPDATE, which opens a      *)
(* transaction that lasts until the commit at the end.  So each statement  *)
(* up to there is a step, seen by whoever opens the queue meanwhile, and   *)
(* the rest is one step that happens or is rolled back as a whole.  Where  *)
(* the code raises, the submission is refused.  A caller that is killed,   *)
(* or gives up waiting for a lock, is one that takes no further step.      *)
(*                                                                         *)
(* The logical request (text, voice, model, format) is one value; distinct *)
(* requests have distinct identities.  Rows are never deleted, so the ids  *)
(* of a table are 1, 2, 3, ...                                             *)
(***************************************************************************)
EXTENDS Naturals, Sequences

CONSTANTS Decisions, Requests, Clients,
          Submissions, \* what is submitted: pairs of a decision (or None) and a request
          Legacy,      \* the states earlier versions may have left the table in
          None         \* SQL NULL

VARIABLES voices,   \* tts_queue: [there, ambiguous, columns, indexes, rows]
          aside,    \* tts_queue_legacy, likewise
          moved,    \* the indexes of each table that was set aside, in order
          client    \* what each submitting thread or process is doing

submissionVars == <<voices, aside, moved, client>>

\* The columns that _CREATE_TABLE_SQL has had from the start are left out.
Created == {"identity", "publication"}
Added   == <<"decision", "identity", "publication">>
AllColumns == {Added[k] : k \in DOMAIN Added}

NoTable  == [there |-> FALSE, ambiguous |-> FALSE, columns |-> {}, indexes |-> {}, rows |-> <<>>]
NewTable == [there |-> TRUE, ambiguous |-> TRUE, columns |-> Created, indexes |-> {}, rows |-> <<>>]

Resting == [at |-> "idle", decision |-> None, request |-> None, job |-> 0,
            listed |-> {}, columns |-> {}, nulls |-> {}]

SubmissionInit ==
    /\ voices \in Legacy
    /\ aside = NoTable /\ moved = <<>>
    /\ client = [c \in Clients |-> Resting]

\* The two partial unique indexes, named after their columns: NULLs never conflict.
\* Mutant: the index on request identities is missing.
Indexes_DecisionOnly == {"decision"}
Indexes == {"decision", "identity"}
Clash(a, b) == a # None /\ a = b
Conflicts(rows, columns, v) ==
    {i \in DOMAIN rows : \E x \in columns : Clash(rows[i][x], v[x])}
Unique(rows, columns) ==
    \A i, j \in DOMAIN rows, x \in columns : Clash(rows[i][x], rows[j][x]) => i = j

\* UPDATE ... SET request_identity=? WHERE id=? for the rows found without one.
Nulls(rows) == {<<i, rows[i].request>> : i \in {k \in DOMAIN rows : rows[k].identity = None}}
Filled(rows, nulls) ==
    [i \in DOMAIN rows |-> IF \E p \in nulls : p[1] = i
                           THEN [rows[i] EXCEPT !.identity = (CHOOSE p \in nulls : p[1] = i)[2]]
                           ELSE rows[i]]

Goes(c, from, to) == client[c].at = from /\ client' = [client EXCEPT ![c].at = to]
\* The code raises: what is not committed is rolled back.
Refused(c) ==
    /\ client' = [client EXCEPT ![c].at = "refused", ![c].listed = {},
                                ![c].columns = {}, ![c].nulls = {}]
    /\ UNCHANGED <<voices, aside, moved>>

\* A governed submission names its decision, a plain enqueue need not.
Submit(c, d, r) ==
    /\ client[c].at = "idle"
    /\ client' = [client EXCEPT ![c] = [Resting EXCEPT !.at = "creating", !.decision = d,
                                                       !.request = r]]
    /\ UNCHANGED <<voices, aside, moved>>

\* CREATE TABLE IF NOT EXISTS, at the start and again after the renaming.
CreateQueue(c) ==
    /\ Goes(c, "creating", "checking") \/ Goes(c, "recreating", "comparing")
    /\ voices' = IF voices.there THEN voices ELSE NewTable
    /\ UNCHANGED <<aside, moved>>

\* _migrate_legacy_tts_queue: does the table's CHECK know AMBIGUOUS?
CheckTable(c) ==
    /\ \/ (voices.there => voices.ambiguous) /\ Goes(c, "checking", "inspecting")
       \/ voices.there /\ ~voices.ambiguous /\ Goes(c, "checking", "listing")
    /\ UNCHANGED <<voices, aside, moved>>

ListIndexes(c) ==
    /\ client[c].at = "listing"
    /\ client' = [client EXCEPT ![c].at = "renaming", ![c].listed = voices.indexes]
    /\ UNCHANGED <<voices, aside, moved>>

\* The table and its indexes go aside, whatever table it is by now.
SetAside(c) ==
    /\ client[c].at = "renaming"
    /\ IF voices.there /\ ~aside.there
       THEN /\ voices' = NoTable /\ aside' = voices
            /\ moved' = Append(moved, voices.indexes)
            /\ Goes(c, "renaming", "recreating")
       ELSE Refused(c)

Compare(c) ==
    /\ client[c].at = "comparing"
    /\ client' = [client EXCEPT ![c].at = "copying",
                                ![c].columns = voices.columns \cap aside.columns]
    /\ UNCHANGED <<voices, aside, moved>>

\* INSERT ... SELECT of the common columns with the ids: it fails when the new
\* table has got rows already.
Copied(common) ==
    [i \in DOMAIN aside.rows |->
        [request  |-> aside.rows[i].request,
         decision |-> IF "decision" \in common THEN aside.rows[i].decision ELSE None,
         identity |-> IF "identity" \in common THEN aside.rows[i].identity ELSE None]]

\* The transaction of a rebuild: copy, drop, indexes as listed, and the rest of
\* init_tts_queue.  A listed index on a column the new table lacks is an error.
Copy(c) ==
    LET rows  == IF aside.rows = <<>> THEN voices.rows ELSE Copied(client[c].columns)
        whole == Filled(rows, Nulls(rows))
        names == voices.indexes \cup client[c].listed \cup Indexes
    IN  /\ client[c].at = "copying"
        /\ IF /\ voices.there /\ aside.there
              /\ voices.rows = <<>> \/ aside.rows = <<>>
              /\ client[c].listed \subseteq voices.columns \ voices.indexes
              /\ Unique(whole, names)
           THEN /\ voices' = [voices EXCEPT !.columns = AllColumns, !.indexes = names, !.rows = whole]
                /\ aside' = NoTable
                /\ client' = [client EXCEPT ![c].at = "inserting", ![c].listed = {},
                                            ![c].columns = {}]
                /\ UNCHANGED moved
           ELSE Refused(c)

\* Without a rebuild: which columns are missing, and each of them added, which
\* fails when another opener has just added it.
Inspect(c) ==
    /\ client[c].at = "inspecting"
    /\ client' = [client EXCEPT ![c].at = "adding", ![c].columns = AllColumns \ voices.columns]
    /\ UNCHANGED <<voices, aside, moved>>

AddColumn(c) ==
    /\ client[c].at = "adding"
    /\ \E k \in DOMAIN Added :
         /\ Added[k] \in client[c].columns
         /\ \A j \in 1..k - 1 : Added[j] \notin client[c].columns
         /\ IF voices.there /\ Added[k] \notin voices.columns
            THEN /\ voices' = [voices EXCEPT !.columns = @ \cup {Added[k]}]
                 /\ client' = [client EXCEPT ![c].columns = @ \ {Added[k]}]
                 /\ UNCHANGED <<aside, moved>>
            ELSE Refused(c)

ReadNulls(c) ==
    /\ client[c].at = "adding" /\ client[c].columns = {}
    /\ IF "identity" \in voices.columns
       THEN /\ client' = [client EXCEPT ![c].at = "filling", ![c].nulls = Nulls(voices.rows)]
            /\ UNCHANGED <<voices, aside, moved>>
       ELSE Refused(c)

\* The transaction without a rebuild: the identities found missing, then the
\* indexes.  IF NOT EXISTS goes by name, and a table set aside keeps its names.
Fill(c) ==
    LET whole == Filled(voices.rows, client[c].nulls)
        names == voices.indexes \cup (Indexes \ aside.indexes)
    IN  /\ client[c].at = "filling"
        /\ IF voices.there /\ names \subseteq voices.columns /\ Unique(whole, names)
           THEN /\ voices' = [voices EXCEPT !.indexes = names, !.rows = whole]
                /\ client' = [client EXCEPT ![c].at = "inserting", ![c].nulls = {}]
                /\ UNCHANGED <<aside, moved>>
           ELSE Refused(c)

Entry(c) == [decision |-> client[c].decision, request |-> client[c].request,
             identity |-> client[c].request]

Insert(c) ==
    /\ client[c].at = "inserting"
    /\ \/ /\ {"decision", "identity"} \subseteq voices.columns
          /\ Conflicts(voices.rows, voices.indexes, Entry(c)) = {}
          /\ voices' = [voices EXCEPT !.rows = Append(@, Entry(c))]
          /\ client' = [client EXCEPT ![c].at = "inserted", ![c].job = Len(voices.rows) + 1]
          /\ UNCHANGED <<aside, moved>>
       \/ /\ {"decision", "identity"} \subseteq voices.columns
          /\ Conflicts(voices.rows, voices.indexes, Entry(c)) # {}
          /\ Goes(c, "inserting", "ignored")
          /\ UNCHANGED <<voices, aside, moved>>
       \/ ~({"decision", "identity"} \subseteq voices.columns) /\ Refused(c)

\* "WHERE decision_id=? OR request_identity=?", whichever row comes first.
Lookup(c) ==
    LET found == Conflicts(voices.rows, {"decision", "identity"}, Entry(c))
    IN  /\ client[c].at = "ignored"
        /\ \/ /\ {"decision", "identity"} \subseteq voices.columns
              /\ \E i \in found :
                   client' = [client EXCEPT ![c].at = "deduplicated", ![c].job = i]
              /\ UNCHANGED <<voices, aside, moved>>
           \/ /\ found = {} \/ ~({"decision", "identity"} \subseteq voices.columns)
              /\ Refused(c)

SubmissionNext == \E c \in Clients :
    \/ \E s \in Submissions : Submit(c, s[1], s[2])
    \/ CreateQueue(c) \/ CheckTable(c)
    \/ ListIndexes(c) \/ SetAside(c) \/ Compare(c) \/ Copy(c)
    \/ Inspect(c) \/ AddColumn(c) \/ ReadNulls(c) \/ Fill(c)
    \/ Insert(c) \/ Lookup(c)

SubmissionSpec == SubmissionInit /\ [][SubmissionNext]_submissionVars

-----------------------------------------------------------------------------
Accepted(c) == client[c].at \in {"inserted", "deduplicated"}

\* At most one table was set aside, and it did not take the names of the two
\* indexes with it.
RebuiltOnce == moved \in {<<>>, <<{}>>}

\* Once a decision's request has been told "inserted", every retry of it, at
\* any moment, from any process, and while others still upgrade the table, is
\* given the same job: nothing is spoken twice because an answer got lost.
\* Two rebuilds, or one of a table that has the indexes, break it.
RetriesConverge ==
    RebuiltOnce =>
    \A c, e \in Clients :
        ( /\ client[c].at = "inserted" /\ Accepted(e)
          /\ client[e].decision = client[c].decision
          /\ client[e].request = client[c].request ) =>
        client[e].job = client[c].job
=============================================================================
