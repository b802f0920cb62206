----------------------------- MODULE LspServer -----------------------------
(***************************************************************************)
(* The language server (crates/lsp): the document store, the debounced and *)
(* cancellable analyses, and the coalescing publisher of diagnostics.      *)
(*                                                                         *)
(* Notification handlers run concurrently and give way at every `await`,   *)
(* so a handler is a sequence of steps; each step is the code between two  *)
(* awaits, and the documents mutex is held only within a step, but for     *)
(* `enqueue`, whose two halves the publisher can come between.  A text is  *)
(* identified by the revision it got in the store, and so are the analysis *)
(* of that text and its result; 0 stands for no analysis and for an empty  *)
(* list of diagnostics.  The keys modelled are packages.                   *)
(***************************************************************************)
EXTENDS Integers, Sequences, FiniteSets

CONSTANTS
  Uri,
  AnalysisKey,
  analysis_key_for_uri,   \* the package (or workspace) of each document
  MaxHandlers,            \* handlers the protocol library runs at a time
  MaxEvents,              \* bound on notifications the client sends
  MAX_BLOCKING_ANALYSES,
  MAX_PENDING_DIAGNOSTIC_PUBLICATIONS

ASSUME LspAssumption ==
  /\ IsFiniteSet(Uri)
  /\ analysis_key_for_uri \in [Uri -> AnalysisKey]
  /\ MaxHandlers \in Nat /\ MaxEvents \in Nat
  /\ MAX_BLOCKING_ANALYSES \in Nat \ {0}
  /\ MAX_PENDING_DIAGNOSTIC_PUBLICATIONS \in Nat \ {0}

VARIABLES
  documents,         \* DocumentStore.documents
  next_revision, generations,
  jobs,              \* the spawned AnalysisJobs, each with the state of its task
  pending_analysis,  \* the registered analysis of each key
  handlers, sent,    \* the notification handlers in flight; bound: all sent
  client,            \* version of each document in the editor, 0 when closed
  pending,           \* DiagnosticsPublisher.pending
  wake,              \* the capacity-one wake channel holds a message
  waking,            \* an `enqueue` has yet to try the wake channel
  worker, batch,     \* the publisher task and the publications it took
  shown,             \* what the editor was told last
  evicted            \* history: documents whose last publication was dropped

storeVars == <<documents, next_revision, generations>>
pubVars == <<pending, wake, waking, worker, batch, shown, evicted>>
vars == <<storeVars, jobs, pending_analysis, handlers, sent, client, pubVars>>

Closed == [open |-> FALSE, revision |-> 0, version |-> 0, synchronized |-> FALSE,
           diagnostics |-> 0]

NoPublication == [diagnostics |-> 0, at |-> 0, some |-> FALSE]
\* `at` is history: the store's revision counter when it was enqueued.
Publication(diagnostics) ==
  [diagnostics |-> diagnostics, at |-> next_revision', some |-> TRUE]

Slot == 1 .. MaxHandlers
NoHandler == [op |-> "none"]

Init ==
  /\ documents = [d \in Uri |-> Closed]
  /\ next_revision = 1
  /\ generations = [k \in AnalysisKey |-> 0]
  /\ jobs = {}
  /\ pending_analysis = [k \in AnalysisKey |-> 0]
  /\ handlers = [h \in Slot |-> NoHandler] /\ sent = 0
  /\ client = [d \in Uri |-> 0]
  /\ pending = [d \in Uri |-> NoPublication]
  /\ wake = FALSE /\ waking = FALSE
  /\ worker = "idle"
  /\ batch = [d \in Uri |-> NoPublication]
  /\ shown = [d \in Uri |-> NoPublication]
  /\ evicted = {}

-----------------------------------------------------------------------------
(* The document store.                                                     *)

\* Mutant: the counter is only advanced when the package has a generation.
allocate_revision_reused(k) ==
  /\ next_revision' = IF generations[k] = 0 THEN next_revision ELSE next_revision + 1
  /\ generations' = [generations EXCEPT ![k] = next_revision]

allocate_revision(k) ==
  /\ next_revision' = next_revision + 1
  /\ generations' = [generations EXCEPT ![k] = next_revision]

Synchronized(docs, k) ==
  {d \in Uri : docs[d].open /\ docs[d].synchronized /\ analysis_key_for_uri[d] = k}

\* The open documents of the package, as `analysis_job` copies them.
Snapshot(docs, k) == [d \in Synchronized(docs, k) |-> docs[d].revision]

analysis_job(docs, d, generation) ==
  [uri |-> d, revision |-> docs[d].revision, version |-> docs[d].version,
   generation |-> generation,
   open_documents |-> Snapshot(docs, analysis_key_for_uri[d]),
   state |-> "sleeping", cancelled |-> FALSE]

\* A new text for `d`: the store's part of open, change and save.
SetText(d, version) ==
  /\ allocate_revision(analysis_key_for_uri[d])
  /\ documents' = [documents EXCEPT ![d] =
       [open |-> TRUE, revision |-> next_revision, version |-> version,
        synchronized |-> TRUE, diagnostics |-> 0]]

\* The text of an open document is no longer known.
mark_document_desynchronized(d, version) ==
  /\ allocate_revision(analysis_key_for_uri[d])
  /\ documents' = [documents EXCEPT ![d] =
       [@ EXCEPT !.revision = next_revision, !.version = version,
                 !.synchronized = FALSE, !.diagnostics = 0]]

\* Mutant: an analysis of another generation of the package is accepted.
commit_diagnostics_any_generation(job) ==
  LET doc == documents[job.uri] IN
  /\ doc.open
  /\ doc.revision = job.revision /\ doc.version = job.version
  /\ doc.synchronized

commit_diagnostics_if_current(job) ==
  LET doc == documents[job.uri] IN
  /\ job.generation = generations[analysis_key_for_uri[job.uri]]
  /\ doc.open
  /\ doc.revision = job.revision /\ doc.version = job.version
  /\ doc.synchronized

-----------------------------------------------------------------------------
(* The publisher: a coalescing map and a task that drains it.              *)

Waiting == {d \in Uri : pending[d].some}

\* Mutant: when the map is full the publication is sent at once.
enqueue_direct(d, publication) ==
  /\ IF pending[d].some \/ Cardinality(Waiting) < MAX_PENDING_DIAGNOSTIC_PUBLICATIONS
     THEN pending' = [pending EXCEPT ![d] = publication] /\ UNCHANGED shown
     ELSE shown' = [shown EXCEPT ![d] = publication] /\ UNCHANGED pending
  /\ waking' = TRUE
  /\ UNCHANGED <<wake, worker, batch, evicted>>

\* The map is locked while the publication is inserted, and only then.  A full
\* map makes room by dropping some other document's publication.
enqueue(d, publication) ==
  /\ \/ /\ pending[d].some \/ Cardinality(Waiting) < MAX_PENDING_DIAGNOSTIC_PUBLICATIONS
        /\ pending' = [pending EXCEPT ![d] = publication]
        /\ evicted' = evicted \ {d}
     \/ /\ ~pending[d].some
        /\ Cardinality(Waiting) >= MAX_PENDING_DIAGNOSTIC_PUBLICATIONS
        /\ \E e \in Waiting :
             /\ pending' = [pending EXCEPT ![e] = NoPublication, ![d] = publication]
             /\ evicted' = (evicted \cup {e}) \ {d}
  /\ waking' = TRUE
  /\ UNCHANGED <<wake, worker, batch, shown>>

\* The end of `enqueue`: try_send on the wake channel, which may be full.  The
\* caller holds the documents lock until then.
TryWake ==
  /\ waking
  /\ wake' = TRUE /\ waking' = FALSE
  /\ UNCHANGED <<storeVars, jobs, pending_analysis, handlers, sent, client, pending, worker,
                 batch, shown, evicted>>

DocumentsFree == ~waking

\* receiver.recv() returns.
PublisherWakes ==
  /\ worker = "idle" /\ wake
  /\ wake' = FALSE /\ worker' = "drain"
  /\ UNCHANGED <<storeVars, jobs, pending_analysis, handlers, sent, client, pending, waking,
                 batch, shown, evicted>>

take_pending ==
  /\ worker = "drain"
  /\ \A d \in Uri : ~batch[d].some
  /\ batch' = pending
  /\ pending' = [d \in Uri |-> NoPublication]
  /\ worker' = IF Waiting = {} THEN "idle" ELSE "drain"
  /\ UNCHANGED <<storeVars, jobs, pending_analysis, handlers, sent, client, wake, waking,
                 shown, evicted>>

publish_diagnostics(d) ==
  /\ batch[d].some
  /\ shown' = [shown EXCEPT ![d] = batch[d]]
  /\ batch' = [batch EXCEPT ![d] = NoPublication]
  /\ UNCHANGED <<storeVars, jobs, pending_analysis, handlers, sent, client, pending, wake,
                 waking, worker, evicted>>

-----------------------------------------------------------------------------
(* The task of an analysis: debounce, permit, blocking work, commit.       *)

Become(job, state) == (jobs \ {job}) \cup {[job EXCEPT !.state = state]}

\* cancel() and abort(): the task ends at the await it stands at; blocking
\* work runs on with its permit, and a task that passed its last check may
\* still be committing.
Aborted(job) ==
  [job EXCEPT !.cancelled = TRUE, !.state = IF @ = "blocking" THEN "detached" ELSE @]

Abort(revision) ==
  {IF j.revision = revision THEN Aborted(j) ELSE j :
     j \in {i \in jobs : i.revision = revision => i.state \in {"blocking", "detached", "committing"}}}

Blocking == {j \in jobs : j.state \in {"blocking", "detached"}}

\* Mutant: an analysis whose task was aborted never gives its permit back.
BlockingReturns_leaky(job) ==
  /\ job.state = "blocking"
  /\ \/ jobs' = Become(job, "computed")
     \/ jobs' = jobs \ {job}
  /\ UNCHANGED <<storeVars, pending_analysis, handlers, sent, client, pubVars>>

\* The debounce is over and a permit is free.  A task that sleeps and one
\* that waits for its permit differ in nothing others can see.
AcquirePermit(job) ==
  /\ job.state = "sleeping"
  /\ Cardinality(Blocking) < MAX_BLOCKING_ANALYSES
  /\ jobs' = Become(job, "blocking")
  /\ UNCHANGED <<storeVars, pending_analysis, handlers, sent, client, pubVars>>

\* The blocking closure returns diagnostics, or fails (a panic), or nobody
\* waits for it any more.
BlockingReturns(job) ==
  /\ job \in Blocking
  /\ \/ job.state = "blocking" /\ jobs' = Become(job, "computed")
     \/ jobs' = jobs \ {job}
  /\ UNCHANGED <<storeVars, pending_analysis, handlers, sent, client, pubVars>>

\* The last test of the cancellation flag, before documents.lock().
LastCheck(job) ==
  /\ job.state = "computed"
  /\ jobs' = Become(job, "committing")
  /\ UNCHANGED <<storeVars, pending_analysis, handlers, sent, client, pubVars>>

\* Under the lock: commit and enqueue, or give up.
Commit(job) ==
  /\ job.state = "committing" /\ DocumentsFree
  /\ jobs' = jobs \ {job}
  /\ UNCHANGED <<next_revision, generations>>
  /\ \/ /\ commit_diagnostics_if_current(job)
        /\ documents' = [documents EXCEPT ![job.uri].diagnostics = job.revision]
        /\ enqueue(job.uri, Publication(job.revision))
     \/ /\ ~commit_diagnostics_if_current(job)
        /\ UNCHANGED <<documents, pubVars>>
  /\ UNCHANGED <<pending_analysis, handlers, sent, client>>

\* The abort reaches a task that still waits for the lock.
AbortLands(job) ==
  /\ job.state = "committing" /\ job.cancelled
  /\ jobs' = jobs \ {job}
  /\ UNCHANGED <<storeVars, pending_analysis, handlers, sent, client, pubVars>>

-----------------------------------------------------------------------------
(* Notification handlers.                                                  *)

\* Where the handler of each notification starts.
FirstStep(op) == IF op \in {"change", "watched", "shutdown"} THEN "store" ELSE "cancel"

\* The protocol library starts the handler of the next notification.
Start(op, d, version, input) ==
  /\ sent < MaxEvents /\ sent' = sent + 1
  /\ \E h \in Slot :
       /\ handlers[h] = NoHandler /\ \A g \in 1 .. h - 1 : handlers[g] # NoHandler
       /\ handlers' = [handlers EXCEPT ![h] =
            [op |-> op, uri |-> d, version |-> version, input |-> input,
             pc |-> FirstStep(op), todo |-> <<>>]]
  /\ UNCHANGED <<storeVars, jobs, pending_analysis, pubVars>>

\* The editor opens a text (too large or not), edits it (with a change that
\* applies, a full text, or a change the server cannot apply), saves it (with
\* its text, a text too large, or none), closes it; or files of the package change on disk.
ClientOpens(d) ==
  /\ client[d] = 0 /\ client' = [client EXCEPT ![d] = 1]
  /\ \E input \in {"fits", "oversized"} : Start("open", d, 1, input)
ClientEdits(d) ==
  /\ client[d] > 0 /\ client' = [client EXCEPT ![d] = @ + 1]
  /\ \E input \in {"range", "full", "invalid"} : Start("change", d, client[d] + 1, input)
ClientSaves(d) ==
  /\ client[d] > 0 /\ UNCHANGED client
  /\ \E input \in {"text", "oversized", "no_text"} : Start("save", d, 0, input)
ClientCloses(d) ==
  /\ client[d] > 0 /\ client' = [client EXCEPT ![d] = 0]
  /\ Start("close", d, 0, "none")
FilesChange(d) ==
  /\ UNCHANGED client
  /\ Start("watched", d, 0, "none")
ClientShutsDown(d) ==
  /\ sent = MaxEvents - 1 /\ UNCHANGED client
  /\ Start("shutdown", d, 0, "none")

At(h, op, pc) == handlers[h].op = op /\ handlers[h].pc = pc
Key(h) == analysis_key_for_uri[handlers[h].uri]
Goto(h, pc, todo) ==
  handlers' = [handlers EXCEPT ![h] =
                 IF pc = "done" THEN NoHandler ELSE [@ EXCEPT !.pc = pc, !.todo = todo]]

\* cancel_pending_analysis, and what the handler does up to its next await.
CancelPending(h) ==
  LET k == Key(h)
      todo == handlers[h].todo
      op == handlers[h].op
      spawn == todo # <<>>
      stores == op \in {"open", "close"} \/ (op = "save" /\ handlers[h].input # "no_text") IN
  /\ op # "none" /\ handlers[h].pc = "cancel"
  /\ pending_analysis' = [pending_analysis EXCEPT ![k] = 0]
  /\ jobs' = Abort(pending_analysis[k]) \cup (IF spawn THEN {Head(todo)} ELSE {})
  /\ Goto(h, CASE spawn -> "register"
               [] ~spawn /\ stores -> "store"
               [] ~spawn /\ ~stores -> "done", todo)
  /\ UNCHANGED <<storeVars, sent, client, pubVars>>

\* Mutant: the analysis that was registered before is forgotten, not stopped.
replace_pending_analysis_forgetful(h) ==
  /\ handlers[h].op # "none" /\ handlers[h].pc = "register"
  /\ pending_analysis' = [pending_analysis EXCEPT ![Key(h)] = Head(handlers[h].todo).revision]
  /\ Goto(h, IF Len(handlers[h].todo) > 1 THEN "cancel" ELSE "done", Tail(handlers[h].todo))
  /\ UNCHANGED <<storeVars, jobs, sent, client, pubVars>>

\* replace_pending_analysis; a watched-files handler goes on to its next job.
replace_pending_analysis(h) ==
  /\ handlers[h].op # "none" /\ handlers[h].pc = "register"
  /\ jobs' = Abort(pending_analysis[Key(h)])
  /\ pending_analysis' = [pending_analysis EXCEPT ![Key(h)] = Head(handlers[h].todo).revision]
  /\ Goto(h, IF Len(handlers[h].todo) > 1 THEN "cancel" ELSE "done", Tail(handlers[h].todo))
  /\ UNCHANGED <<storeVars, sent, client, pubVars>>

NewJob(d) == analysis_job(documents', d, generations'[analysis_key_for_uri[d]])

\* open_document, and the spawn that follows it.
open_document(h) ==
  LET d == handlers[h].uri
      accepted == /\ handlers[h].input = "fits"
                  /\ documents[d].open => handlers[h].version > documents[d].version IN
  /\ At(h, "open", "store") /\ DocumentsFree
  /\ \/ /\ accepted
        /\ SetText(d, handlers[h].version)
        /\ jobs' = jobs \cup {NewJob(d)}
        /\ Goto(h, "register", <<NewJob(d)>>)
     \/ /\ ~accepted
        /\ Goto(h, "done", <<>>)
        /\ UNCHANGED <<storeVars, jobs>>
  /\ UNCHANGED <<pending_analysis, sent, client, pubVars>>

\* save_document, and the spawn that follows it.
save_document(h) ==
  LET d == handlers[h].uri
      accepted == handlers[h].input = "text" /\ documents[d].open IN
  /\ At(h, "save", "store") /\ DocumentsFree
  /\ \/ /\ accepted
        /\ SetText(d, documents[d].version)
        /\ jobs' = jobs \cup {NewJob(d)}
        /\ Goto(h, "register", <<NewJob(d)>>)
     \/ /\ ~accepted
        /\ Goto(h, "done", <<>>)
        /\ UNCHANGED <<storeVars, jobs>>
  /\ UNCHANGED <<pending_analysis, sent, client, pubVars>>

\* change_document: ignored as stale, applied, or the text is lost; in the
\* last case the editor's diagnostics are cleared under the same lock.
change_document(h) ==
  LET d == handlers[h].uri
      doc == documents[d]
      version == handlers[h].version
      input == handlers[h].input
      stale == doc.open /\ version <= doc.version
      applies == doc.open /\ ~stale
                   /\ (input = "full" \/ (input = "range" /\ doc.synchronized)) IN
  /\ At(h, "change", "store") /\ DocumentsFree
  /\ \/ /\ stale
        /\ Goto(h, "done", <<>>)
        /\ UNCHANGED <<storeVars, pubVars>>
     \/ /\ applies
        /\ SetText(d, version)
        /\ Goto(h, "cancel", <<NewJob(d)>>)
        /\ UNCHANGED pubVars
     \/ /\ ~stale /\ ~applies
        /\ IF doc.open THEN mark_document_desynchronized(d, version)
           ELSE UNCHANGED storeVars
        /\ enqueue(d, Publication(0))
        /\ Goto(h, "cancel", <<>>)
  /\ UNCHANGED <<jobs, pending_analysis, sent, client>>

\* Mutant: closing does not clear what the editor shows.
did_close_silent(h) ==
  LET d == handlers[h].uri IN
  /\ At(h, "close", "store") /\ DocumentsFree
  /\ allocate_revision(Key(h))
  /\ documents' = [documents EXCEPT ![d] = Closed]
  /\ Goto(h, "done", <<>>)
  /\ UNCHANGED <<jobs, pending_analysis, sent, client, pubVars>>

\* did_close after its cancellation.
did_close(h) ==
  LET d == handlers[h].uri IN
  /\ At(h, "close", "store") /\ DocumentsFree
  /\ allocate_revision(Key(h))
  /\ documents' = [documents EXCEPT ![d] = Closed]
  /\ enqueue(d, Publication(0))
  /\ Goto(h, "done", <<>>)
  /\ UNCHANGED <<jobs, pending_analysis, sent, client>>

\* The store after the first `i` documents of `order` got new revisions.
Touched(order, i) ==
  [d \in Uri |->
     IF \E m \in 1 .. i : order[m] = d
     THEN [documents[d] EXCEPT !.diagnostics = 0,
             !.revision = next_revision + (CHOOSE m \in 1 .. i : order[m] = d) - 1]
     ELSE documents[d]]

\* The orders in which a hash map may list the elements of a set.
Orders(S) ==
  {order \in [1 .. Cardinality(S) -> S] : \A i, m \in DOMAIN order : order[i] = order[m] => i = m}

\* did_change_watched_files: a job for every synchronized document of the
\* package, in the order of a hash map.
did_change_watched_files(h) ==
  /\ At(h, "watched", "store") /\ DocumentsFree
  /\ \E order \in Orders(Synchronized(documents, Key(h))) :
       LET n == Len(order) IN
       /\ documents' = Touched(order, n)
       /\ next_revision' = next_revision + n
       /\ generations' = [generations EXCEPT ![Key(h)] =
                            IF n = 0 THEN @ ELSE next_revision + n - 1]
       /\ Goto(h, IF n = 0 THEN "done" ELSE "cancel",
               [i \in 1 .. n |-> analysis_job(Touched(order, i), order[i], next_revision + i - 1)])
  /\ UNCHANGED <<jobs, pending_analysis, sent, client, pubVars>>

\* shutdown stops every registered analysis.
shutdown(h) ==
  /\ At(h, "shutdown", "store")
  /\ jobs' = {IF \E k \in AnalysisKey : j.revision = pending_analysis[k] THEN Aborted(j) ELSE j :
                j \in {i \in jobs : i.state \in {"blocking", "detached", "committing"}
                                    \/ \A k \in AnalysisKey : i.revision # pending_analysis[k]}}
  /\ pending_analysis' = [k \in AnalysisKey |-> 0]
  /\ Goto(h, "done", <<>>)
  /\ UNCHANGED <<storeVars, sent, client, pubVars>>

-----------------------------------------------------------------------------
ClientStep ==
  \E d \in Uri :
    \/ ClientOpens(d) \/ ClientEdits(d) \/ ClientSaves(d) \/ ClientCloses(d)
    \/ FilesChange(d) \/ ClientShutsDown(d)

HandlerStep(h) ==
  \/ CancelPending(h) \/ replace_pending_analysis(h)
  \/ open_document(h) \/ save_document(h) \/ change_document(h)
  \/ did_close(h) \/ did_change_watched_files(h) \/ shutdown(h)

AnalysisStep ==
  \E job \in jobs :
    \/ AcquirePermit(job) \/ BlockingReturns(job) \/ LastCheck(job)
    \/ Commit(job) \/ AbortLands(job)

PublisherStep ==
  PublisherWakes \/ take_pending \/ \E d \in Uri : publish_diagnostics(d)

Next ==
  ClientStep \/ (\E h \in Slot : HandlerStep(h)) \/ AnalysisStep \/ TryWake \/ PublisherStep

Spec == Init /\ [][Next]_vars

\* Every task the runtime was given keeps running; the client need not.
FairSpec ==
  /\ Spec
  /\ \A h \in Slot : WF_vars(HandlerStep(h))
  /\ WF_vars(AnalysisStep)
  /\ WF_vars(TryWake)
  /\ WF_vars(PublisherStep)

-----------------------------------------------------------------------------
(* Properties.                                                             *)

JobState == {"sleeping", "blocking", "detached", "computed", "committing"}

\* Every variable has its type: a revision was allocated before it is used,
\* and an analysis is never of an older generation than its text.
ServerTypeOK ==
  /\ \A d \in Uri :
       /\ documents[d].open \in BOOLEAN /\ documents[d].synchronized \in BOOLEAN
       /\ documents[d].revision \in 0 .. next_revision - 1
       /\ documents[d].diagnostics \in {0, documents[d].revision}
  /\ \A k \in AnalysisKey : generations[k] \in 0 .. next_revision - 1
  /\ \A j \in jobs : j.state \in JobState /\ j.revision <= j.generation
  /\ wake \in BOOLEAN /\ waking \in BOOLEAN
  /\ worker \in {"idle", "drain"} /\ evicted \subseteq Uri

\* The publication of `d` the editor will have seen once the publisher is done.
Latest(d) ==
  IF pending[d].some THEN pending[d] ELSE IF batch[d].some THEN batch[d] ELSE shown[d]

\* What the editor ends up showing agrees with the store: nothing for a
\* document that is closed or whose text is unknown, and the committed
\* diagnostics for one that has any.  (A full map may drop a publication.)
EditorAgrees ==
  \A d \in Uri \ evicted :
    /\ ~documents[d].synchronized => Latest(d).diagnostics = 0
    /\ documents[d].diagnostics # 0 => Latest(d).diagnostics = documents[d].diagnostics

\* The editor is never taken back to an earlier state of the store.
NeverGoesBack == [][\A d \in Uri : shown'[d].at >= shown[d].at]_vars

\* Diagnostics are committed only if the texts they were computed from are
\* still those of every open document of the package.
CommitIsCurrent ==
  [][\A j \in jobs :
       documents[j.uri].diagnostics # j.revision /\ documents'[j.uri].diagnostics = j.revision =>
         j.open_documents = Snapshot(documents, analysis_key_for_uri[j.uri])]_vars

\* Once the handlers are through, an analysis that was not cancelled is the
\* registered one: superseded work never keeps running unnoticed.
OnlyRegisteredRuns ==
  (\A h \in Slot : handlers[h] = NoHandler) =>
    \A j \in jobs : j.cancelled \/ pending_analysis[analysis_key_for_uri[j.uri]] = j.revision

\* The server comes to rest: every analysis ends, every publication arrives,
\* also one that was inserted while the publisher was draining the map.
ComesToRest == <>[](jobs = {} /\ Waiting = {} /\ worker = "idle")
=============================================================================
