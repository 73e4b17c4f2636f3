------------------------- MODULE DocumentIngestion -------------------------
(***************************************************************************)
(* Upload and indexing of documents in one organization:                   *)
(* DocumentIngestionService over KnowledgeRepository, with the publication *)
(* of document.indexed by module EventDispatch.  Requests run concurrently *)
(* and each one is a chain of transactions: ingest the text as a new       *)
(* version, audit, read the latest version, commit its chunks, publish,    *)
(* audit again.  A request serves once, so the event it may publish bears  *)
(* its name.  Texts are not blank (the routes refuse blank ones).          *)
(***************************************************************************)
EXTENDS Naturals, Sequences, FiniteSets, FiniteSetsExt

CONSTANTS
    Requests,
    Sources,        \* source names
    NoSource,       \* the source of a document id without a row
    MaxEarlier,     \* bound on the documents earlier requests have left
    Handlers, Workflows, Registered, MaxAttempts   \* of EventDispatch

ASSUME RequestsAssumption == IsFiniteSet(Requests)
ASSUME NoSourceAssumption == NoSource \notin Sources
ASSUME MaxEarlierAssumption == MaxEarlier \in Nat
\* Those of EventDispatch, for the events that requests publish.
ASSUME HandlersAssumption ==
    /\ Workflows \subseteq Handlers
    /\ Registered \in [Requests -> Seq(Handlers)]
ASSUME RegisteredOnce ==
    \A r \in Requests : \A j, k \in DOMAIN Registered[r] :
        Registered[r][j] = Registered[r][k] => j = k
ASSUME AttemptsAssumption == MaxAttempts \in Nat \ {0}

VARIABLES
    lastDocument,   \* sequence of documents.id
    lastVersion,    \* sequence of document_versions.id
    source,         \* documents rows: source_name, by id
    documentOf,     \* document_versions rows: document_id, by id, 0 if no row
    chunkSets,      \* how many times the chunks of a version were written
    trail,          \* the newest audit entry of a document
    req,            \* what each request is doing
    alone,          \* history: requests no other request has overlapped so far
    log, executions, deadLetters, call, handled, faulted    \* of EventDispatch

rows == <<lastDocument, lastVersion, source, documentOf, chunkSets, trail>>
dispatchVars == <<log, executions, deadLetters, call, handled, faulted>>
vars == <<rows, req, alone, dispatchVars>>

Dispatcher == INSTANCE EventDispatch WITH Events <- Requests

\* A request inserts one document and one version at most.
Ids == 1 .. MaxEarlier + Cardinality(Requests)

Answers == {"done", "indexError", "serverError", "lost"}

Steps == {"idle",
          "find", "insert", "commit", "auditUpload",        \* ingest
          "read", "index", "publish", "dispatch",           \* index
          "auditIndexed", "auditFailed", "auditExternal"} \cup Answers

Ops == {"upload", "fromUrl", "reindex"}

RequestState ==
    [step: Steps, op: Ops, source: Sources \cup {NoSource},
     document: Ids \cup {0},    \* 0: to be created
     version: Ids \cup {0},     \* the version this request ingested
     indexed: Ids \cup {0}]     \* the version index() works on

At(r, step) == req[r].step = step

\* Types; the publication runs exactly while its request waits for it.
TypeOK ==
    /\ lastDocument \in Ids \cup {0} /\ lastVersion \in Ids \cup {0}
    /\ source \in [Ids -> Sources \cup {NoSource}]
    /\ documentOf \in [Ids -> Ids \cup {0}]
    /\ chunkSets \in [Ids -> 0 .. 1 + Cardinality(Requests)]
    /\ trail \in [Ids -> {"none", "uploaded", "indexed", "index_failed", "ingested_from_external_source"}]
    /\ req \in [Requests -> RequestState]
    /\ alone \subseteq Requests
    /\ Dispatcher!TypeOK
    /\ \A r \in Requests : At(r, "dispatch") => r \in Dispatcher!InProgress

\* Earlier uploads have left documents with one indexed version each; racing
\* ones may have left several for one source name.
Init ==
    /\ lastDocument \in 0 .. MaxEarlier /\ lastVersion = lastDocument
    /\ source \in [Ids -> Sources \cup {NoSource}]
    /\ \A d \in Ids : source[d] = NoSource <=> d > lastDocument
    /\ documentOf = [v \in Ids |-> IF v > lastDocument THEN 0 ELSE v]
    /\ chunkSets = [v \in Ids |-> IF v > lastDocument THEN 0 ELSE 1]
    /\ trail = [d \in Ids |-> IF d > lastDocument THEN "none" ELSE "indexed"]
    /\ req = [r \in Requests |-> [step |-> "idle", op |-> "upload", source |-> NoSource,
                                  document |-> 0, version |-> 0, indexed |-> 0]]
    /\ alone = {}
    /\ Dispatcher!Init

-----------------------------------------------------------------------------

Goto(r, step) == req' = [req EXCEPT ![r].step = step]

Active(r) == req[r].step \notin Answers \cup {"idle"}

Documents(s) == {d \in Ids : source[d] = s}

Versions(d) == {v \in Ids : documentOf[v] = d}

Latest(d) == Max(Versions(d))

\* get_status: chunks of the latest version first, then the newest audit entry.
Status(d) ==
    IF chunkSets[Latest(d)] > 0 THEN "indexed"
    ELSE IF trail[d] = "index_failed" THEN "failed"
    ELSE "ingested_pending_index"

\* A request starts: it overlaps the active ones.
Starts(r, state) ==
    /\ At(r, "idle")
    /\ req' = [req EXCEPT ![r] = state]
    /\ alone' = IF \E q \in Requests : Active(q) THEN {q \in alone : ~ Active(q)}
                ELSE alone \cup {r}
    /\ UNCHANGED <<rows, dispatchVars>>

\* POST /documents, or /documents/from-url once the text has been fetched.
BeginUpload(r, op, s) ==
    Starts(r, [req[r] EXCEPT !.step = "find", !.op = op, !.source = s])

\* POST /documents/{id}/reindex of a document of the organization.
BeginReindex(r, d) ==
    /\ source[d] # NoSource
    /\ Starts(r, [req[r] EXCEPT !.step = "read", !.op = "reindex", !.document = d])

AlwaysCreate(r) ==   \* variant of Find: the document is not looked for
    /\ At(r, "find")
    /\ Goto(r, "insert")
    /\ UNCHANGED <<rows, alone, dispatchVars>>

\* one_or_none: two rows for one source name raise MultipleResultsFound.
Find(r) ==
    LET found == Documents(req[r].source)
    IN  /\ At(r, "find")
        /\ \/ found = {} /\ Goto(r, "insert")
           \/ \E d \in found : found = {d} /\
                req' = [req EXCEPT ![r].step = "insert", ![r].document = d]
           \/ Cardinality(found) > 1 /\ Goto(r, "serverError")
        /\ UNCHANGED <<rows, alone, dispatchVars>>

\* The INSERTs draw the ids; the rows are not visible yet.
Insert(r) ==
    LET new == req[r].document = 0
    IN  /\ At(r, "insert")
        /\ lastDocument' = IF new THEN lastDocument + 1 ELSE lastDocument
        /\ lastVersion' = lastVersion + 1
        /\ req' = [req EXCEPT ![r].step = "commit",
                              ![r].document = IF new THEN lastDocument' ELSE @,
                              ![r].version = lastVersion']
        /\ UNCHANGED <<source, documentOf, chunkSets, trail, alone, dispatchVars>>

CommitIngest(r) ==
    /\ At(r, "commit")
    /\ source' = [source EXCEPT ![req[r].document] = req[r].source]
    /\ documentOf' = [documentOf EXCEPT ![req[r].version] = req[r].document]
    /\ Goto(r, "auditUpload")
    /\ UNCHANGED <<lastDocument, lastVersion, chunkSets, trail, alone, dispatchVars>>

Audit(r, action) == trail' = [trail EXCEPT ![req[r].document] = action]

AuditUpload(r) ==
    /\ At(r, "auditUpload")
    /\ Audit(r, "uploaded")
    /\ Goto(r, "read")
    /\ UNCHANGED <<lastDocument, lastVersion, source, documentOf, chunkSets, alone, dispatchVars>>

PublishFirst(r) ==   \* variant of ReadLatest: the event does not wait for the chunks
    /\ At(r, "read")
    /\ req' = [req EXCEPT ![r].step = "publish", ![r].indexed = Latest(req[r].document)]
    /\ UNCHANGED <<rows, alone, dispatchVars>>

OldestFirst(r) ==    \* variant of ReadLatest: ORDER BY id instead of id DESC
    /\ At(r, "read")
    /\ req' = [req EXCEPT ![r].step = "index", ![r].indexed = Min(Versions(req[r].document))]
    /\ UNCHANGED <<rows, alone, dispatchVars>>

\* index(): the latest version that is visible now, whoever ingested it.
ReadLatest(r) ==
    /\ At(r, "read")
    /\ req' = [req EXCEPT ![r].step = "index", ![r].indexed = Latest(req[r].document)]
    /\ UNCHANGED <<rows, alone, dispatchVars>>

\* The chunks of the version are added; those an earlier call wrote stay.
WithChunks(r) == [chunkSets EXCEPT ![req[r].indexed] = @ + 1]

\* Chunks and embeddings of the version, in one transaction.
CommitChunks(r) ==
    /\ At(r, "index")
    /\ chunkSets' = WithChunks(r)
    /\ Goto(r, "publish")
    /\ UNCHANGED <<lastDocument, lastVersion, source, documentOf, trail, alone, dispatchVars>>

\* A read or the embedding provider raises: no chunk is written.  A commit
\* that raises may have been carried out.
IndexRaises(r) ==
    /\ \/ At(r, "read") /\ UNCHANGED chunkSets
       \/ At(r, "index") /\ Dispatcher!InDoubt(chunkSets, WithChunks(r), chunkSets')
    /\ Goto(r, "auditFailed")
    /\ UNCHANGED <<lastDocument, lastVersion, source, documentOf, trail, alone, dispatchVars>>

Publish(r) ==
    /\ At(r, "publish")
    /\ \/ Dispatcher!Persist(r) /\ Goto(r, "dispatch")
       \/ Dispatcher!PersistRaises(r) /\ Goto(r, "auditFailed")
    /\ UNCHANGED <<rows, alone>>

RaisedUnseen(r) ==   \* variant of RunHandlers: index() waits for publish to return only
    /\ At(r, "dispatch")
    /\ Dispatcher!Dispatch(r)
    /\ Goto(r, IF call'[r].step = "returned" THEN "auditIndexed" ELSE "dispatch")
    /\ UNCHANGED <<rows, alone>>

\* The handlers run in the request's own thread; publish returns or raises.
RunHandlers(r) ==
    /\ At(r, "dispatch")
    /\ Dispatcher!Dispatch(r)
    /\ Goto(r, CASE call'[r].step = "returned" -> "auditIndexed"
                 [] call'[r].step = "raised" -> "auditFailed"
                 [] OTHER -> "dispatch")
    /\ UNCHANGED <<rows, alone>>

\* DocumentIndexingError: 502, whichever part of index() has raised.
AuditFailed(r) ==
    /\ At(r, "auditFailed")
    /\ Audit(r, "index_failed")
    /\ Goto(r, "indexError")
    /\ UNCHANGED <<lastDocument, lastVersion, source, documentOf, chunkSets, alone, dispatchVars>>

\* The document is read again for the audit entry and the response.
AuditIndexed(r) ==
    /\ At(r, "auditIndexed")
    /\ Audit(r, "indexed")
    /\ Goto(r, IF req[r].op = "fromUrl" THEN "auditExternal" ELSE "done")
    /\ UNCHANGED <<lastDocument, lastVersion, source, documentOf, chunkSets, alone, dispatchVars>>

\* The provenance of a fetched text.
AuditExternal(r) ==
    /\ At(r, "auditExternal")
    /\ Audit(r, "ingested_from_external_source")
    /\ Goto(r, "done")
    /\ UNCHANGED <<lastDocument, lastVersion, source, documentOf, chunkSets, alone, dispatchVars>>

\* A database error outside index(): 500, what was committed stays.
ServerError(r) ==
    /\ req[r].step \in {"find", "insert", "commit", "auditUpload", "read",
                        "auditIndexed", "auditFailed", "auditExternal"}
    /\ Goto(r, "serverError")
    /\ UNCHANGED <<rows, alone, dispatchVars>>

\* The process ends under all active requests.
Crash ==
    /\ \E r \in Requests : Active(r)
    /\ req' = [r \in Requests |-> IF Active(r) THEN [req[r] EXCEPT !.step = "lost"] ELSE req[r]]
    /\ \/ Dispatcher!Crash
       \/ Dispatcher!InProgress = {} /\ UNCHANGED dispatchVars
    /\ UNCHANGED <<rows, alone>>

Advance(r) ==
    \/ Find(r) \/ Insert(r) \/ CommitIngest(r) \/ AuditUpload(r)
    \/ ReadLatest(r) \/ CommitChunks(r) \/ IndexRaises(r)
    \/ Publish(r) \/ RunHandlers(r)
    \/ AuditFailed(r) \/ AuditIndexed(r) \/ AuditExternal(r)

Begin(r) ==
    \/ \E s \in Sources, op \in {"upload", "fromUrl"} : BeginUpload(r, op, s)
    \/ \E d \in Ids : BeginReindex(r, d)

Next ==
    \/ \E r \in Requests : Begin(r) \/ Advance(r) \/ ServerError(r)
    \/ Crash

Spec == Init /\ [][Next]_vars

\* The thread of a request keeps running; nothing makes a client send one.
FairSpec == Spec /\ \A r \in Requests : WF_vars(Advance(r))

-----------------------------------------------------------------------------
(* Properties. *)

\* No event document.indexed before the chunks it announces are committed,
\* nor a success answer without them and a completed dispatch.
AnnouncedChunksExist ==
    /\ \A r \in log : chunkSets[req[r].indexed] > 0
    /\ \A r \in Requests : At(r, "done") => r \in log /\ Dispatcher!At(r, "returned")

\* A workflow that fails does not fail the upload: a request that committed
\* its chunks answers 502 only if a table write of the event machinery raised.
HandlersCannotFailTheRequest ==
    \A r \in Requests : At(r, "indexError") /\ call[r].step # "new" => r \in faulted

\* Uploads one after the other find the source's document again: a request
\* that ran alone never adds a second one.
SerialUploadsShareADocument ==
    [][ \A r \in alone, s \in Sources :
          At(r, "commit") /\ ~ At(r, "commit")' /\ Cardinality(Documents(s)) <= 1 =>
            Cardinality(Documents(s)') <= 1 ]_vars

\* A request that ran alone and succeeded has chunked the version it ingested,
\* once, and that version is its document's latest, with the status indexed.
SerialUploadsIndexOnce ==
    [][ \A r \in alone :
          At(r, "auditIndexed") /\ ~ At(r, "auditIndexed")' /\ req[r].op # "reindex" =>
            /\ req[r].indexed = req[r].version
            /\ chunkSets[req[r].version] = 1
            /\ Status(req[r].document) = "indexed" ]_vars

\* Every request is answered, whatever its handlers do.
RequestsTerminate == \A r \in Requests : ~ At(r, "idle") ~> req[r].step \in Answers

\* The design of the ingestion (docs): "the version created by ingest() is, at
\* the moment of index(), guaranteed to be the latest".
IndexesItsOwnVersion ==
    \A r \in Requests : req[r].version # 0 /\ req[r].indexed # 0 =>
        req[r].indexed = req[r].version

=============================================================================
