-------------------------- MODULE GithubProvider ---------------------------
(***************************************************************************)
(* How runs come about (providers/src/github.rs): webhook deliveries and   *)
(* retry requests, each handled by a task of its own, resolve a tenant,    *)
(* find pipelines or earlier runs, and launch coordinators one after the   *)
(* other.  GitHub may deliver anything any number of times; its calls, S3, *)
(* Redis and Postgres may fail; the server may be restarted with another   *)
(* tenancy document at any moment.  GitHub itself is external.             *)
(***************************************************************************)
EXTENDS Tenancy, PipelineDefinition, SourceUpload

CONSTANTS
    Docs,          \* Docs[d]: the tenancy documents a server may be started with
    Deliveries,    \* what GitHub may deliver (records like NoDelivery)
    Owners,        \* logins of accounts
    Repos,         \* names of repositories
    RefNames,      \* names of branches and tags
    Installed,     \* <<app, owner>>: the App is installed in the owner's account
    Directory,     \* Directory[sha]: the entries of .jefferies at that commit
    Definition,    \* Definition[name]: the pipeline file of that name
    Frames,        \* Frames[sha]: the lengths of the tarball's frames
    Handlers,      \* requests that can be handled at once
    MaxRequests,   \* bound: requests
    MaxAnswered,   \* bound: of these, the first that may be answered at once
    MaxFaults,     \* bound: calls that fail and restarts
    MaxRuns        \* bound: run ids

OwnerKind == {"User", "Organization", "Unknown"}

OwnerInfo == [login : Owners, type : OwnerKind]

\* refs/heads/..., refs/tags/..., or anything else.
GitRef == {"heads", "tags", "other"} \X RefNames

\* What GitHub sends, as far as it is read; `head' is the owner of a pull
\* request's head repository and `repo' its name, or else that of the repository;
\* "retry" stands for a request to the API.
Delivery ==
    [event : STRING, action : {None} \cup STRING, secret : STRING,
     repository : {None} \cup OwnerInfo, repo : {None} \cup Repos,
     organization : {None} \cup Owners, installation : {None} \cup OwnerInfo,
     ref : {None} \cup GitRef, sha : {None} \cup DOMAIN Directory,
     head : {None} \cup Owners, base : {None} \cup RefNames,
     external_id : {None} \cup 1..MaxRuns]

\* Pushes and pull requests say of which repository, ref and commit they are.
Complete(q) ==
    /\ q.event \in {"push", "pull_request"} => None \notin {q.repo, q.ref, q.sha}
    /\ q.event = "pull_request" => None \notin {q.repository, q.base}

Item == [name : DOMAIN Definition, type : {"file", "dir"}, is_yaml : BOOLEAN]

ASSUME IngressAssumption ==
    /\ \A d \in DOMAIN Docs : Docs[d] \in Document
    /\ Deliveries \subseteq Delivery
    /\ \A q \in Deliveries : q.event # "retry" /\ Complete(q)
    /\ None \notin STRING /\ None \notin Nat /\ None \notin [login : STRING, type : OwnerKind]
    /\ DOMAIN Directory = DOMAIN Frames
    /\ \A sha \in DOMAIN Directory :
           /\ Directory[sha] \in Seq(Item) /\ Frames[sha] \in Seq(Nat)
           /\ \A i, j \in DOMAIN Directory[sha] : Directory[sha][i].name = Directory[sha][j].name => i = j
    /\ \A name \in DOMAIN Definition : IsFile(Definition[name])
    /\ {MaxRequests, MaxAnswered, MaxFaults, MaxRuns} \subseteq Nat

VARIABLES
    doc,       \* which tenancy document the server is running with
    faults,    \* failed calls of GitHub, S3, Redis and Postgres, and restarts
    log,       \* history: the requests so far
    handler,   \* handler[h]: the request h is handling
    issued,    \* run ids given out so far
    source,    \* source[id]: the parts of the source object in S3
    runs       \* runs[id]: the run whose coordinator was started

ingressVars == <<doc, faults, log, handler, issued, source, runs>>

----------------------------------------------------------------------------
(* Requests                                                                *)

NoDelivery ==
    [event |-> "ping", action |-> None, secret |-> "",
     repository |-> None, repo |-> None, organization |-> None, installation |-> None,
     ref |-> None, sha |-> None, head |-> None, base |-> None,
     external_id |-> None]

Account(login, type) == [login |-> login, type |-> type]

Registries == [d \in DOMAIN Docs |-> from_document(Docs[d])]

\* A server starts only with a document it accepts.
Accepted == {d \in DOMAIN Docs : Registries[d].ok}

registry == Registries[doc]

Slugs == UNION {{t.slug : t \in ToSet(Docs[d].tenants)} : d \in DOMAIN Docs}

RunIds == 1..MaxRuns

\* The Apps whose secret verifies the signature; the first one found in a
\* HashMap is taken.
identify_signing_app(secret) == {a \in DOMAIN registry.apps : registry.apps[a].webhook_secret = secret}

extract_owner_info(q) ==
    IF q.repository # None THEN q.repository
    ELSE IF q.organization # None THEN Account(q.organization, "Organization")
    ELSE q.installation

\* Mutant: the tenant of the organisation, whichever App signed.
tenant_for_any_app(app, q) ==
    LET owner == extract_owner_info(q)
        found == {t \in ToSet(Docs[doc].tenants) : owner # None /\ t.org_name = owner.login}
    IN  IF found = {} THEN NoTenant ELSE CHOOSE t \in found : TRUE

\* Only organisations have tenants.
tenant_for(app, q) ==
    LET owner == extract_owner_info(q)
    IN  IF owner = None THEN NoTenant
        ELSE IF owner.type # "Organization" THEN NoTenant
        ELSE by_app_and_org(registry, app, owner.login)

\* Mutant: a tag keeps its refs/tags/ prefix.
parse_push_ref_prefixed(ref) ==
    [branch |-> IF ref[1] = "heads" THEN ref[2] ELSE None,
     tag |-> IF ref[1] = "tags" THEN "refs/tags/" \o ref[2] ELSE None,
     target_branch |-> None]

parse_push_ref(ref) ==
    [branch |-> IF ref[1] = "heads" THEN ref[2] ELSE None,
     tag |-> IF ref[1] = "tags" THEN ref[2] ELSE None,
     target_branch |-> None]

----------------------------------------------------------------------------
(* State                                                                   *)

Idle == [pc |-> "idle", cause |-> 0, todo |-> << >>, run_context |-> None, run_id |-> 0]

RunContext ==
    [owner : Owners, repo : Repos,
     sha : DOMAIN Directory,
     ref : [branch : RefNames \cup {None}, tag : RefNames \cup {None}, target_branch : RefNames \cup {None}],
     yaml : DOMAIN Definition,
     retry_of : {None} \cup RunIds,
     tenant_slug : Slugs]

Run == [run_context : RunContext, cause : Nat, recorded : BOOLEAN]

ASSUME RunAssumption == None \notin Run

\* pc: about to read the commit's pipelines, to list the runs of a check suite,
\* to go on with the next launch, to upload its source, to start its coordinator.
IsHandler(s) ==
    /\ s.pc \in {"idle", "match", "originals", "next", "upload", "start"}
    /\ s # Idle => /\ s.cause \in DOMAIN log /\ log[s.cause].status = "open"
                   /\ s.todo \in (IF log[s.cause].request.event \in {"push", "pull_request"}
                                  THEN Seq(DOMAIN Definition) ELSE Seq(RunIds))
    /\ s.run_context # None => s.run_context \in RunContext
    /\ s.run_id \in 0..issued

Status == {"OK", "UNAUTHORIZED", "NOT_FOUND", "NOT_IMPLEMENTED", "INTERNAL_SERVER_ERROR"}

IngressInit ==
    /\ doc \in Accepted
    /\ faults = 0 /\ log = << >>
    /\ handler = [h \in Handlers |-> Idle]
    /\ issued = 0
    /\ source = [id \in RunIds |-> << >>]
    /\ runs = [id \in RunIds |-> None]

\* Every variable has its type, and a handler is busy only while its request is
\* open.
IngressTypeOK ==
    /\ doc \in DOMAIN Docs /\ faults \in 0..MaxFaults
    /\ Len(log) <= MaxRequests
    /\ \A i \in DOMAIN log :
           /\ log[i].doc \in DOMAIN Docs /\ log[i].tenant_slug \in Slugs \cup {None}
           /\ log[i].status \in Status \cup {"open", "lost"} /\ log[i].fault \in BOOLEAN
    /\ DOMAIN handler = Handlers /\ \A h \in Handlers : IsHandler(handler[h])
    /\ issued \in 0..MaxRuns
    /\ \A id \in RunIds :
           runs[id] # None => /\ id <= issued
                              /\ runs[id].run_context \in RunContext
                              /\ runs[id].recorded \in BOOLEAN
                              /\ runs[id].cause \in DOMAIN log

----------------------------------------------------------------------------
(* Routing                                                                 *)

Register(q, slug, status) ==
    /\ log' = Append(log, [request |-> q, doc |-> doc, tenant_slug |-> slug,
                           status |-> status, fault |-> FALSE])
    /\ UNCHANGED <<doc, faults, issued, source, runs>>

\* Answered without doing anything.
Answer(q, status) ==
    /\ Len(log) < MaxAnswered
    /\ Register(q, None, status)
    /\ UNCHANGED handler

\* Handler h takes on request q for a tenant.
Accept(h, q, slug, pc, todo) ==
    /\ Register(q, slug, "open")
    /\ handler' = [handler EXCEPT ![h] = [Idle EXCEPT !.pc = pc, !.cause = Len(log) + 1, !.todo = todo]]

handle_push(h, q, t) ==
    IF q.repository = None THEN Answer(q, "INTERNAL_SERVER_ERROR")
    ELSE Accept(h, q, t.slug, "match", << >>)

handle_pull_request(h, q, t) ==
    IF q.action \notin {"opened", "synchronize"} THEN Answer(q, "NOT_IMPLEMENTED")
    ELSE IF q.head = None THEN Answer(q, "INTERNAL_SERVER_ERROR")
    ELSE Accept(h, q, t.slug, "match", << >>)

handle_check_run(h, q, t) ==
    IF q.action # "rerequested" \/ q.external_id = None THEN Answer(q, "OK")
    ELSE Accept(h, q, t.slug, "next", <<q.external_id>>)

handle_check_suite(h, q, t) ==
    IF q.action # "rerequested" THEN Answer(q, "OK")
    ELSE IF q.repository = None THEN Answer(q, "INTERNAL_SERVER_ERROR")
    ELSE IF q.sha = None THEN Answer(q, "OK")
    ELSE Accept(h, q, t.slug, "originals", << >>)

\* A check run comes back with the run id it was created with.
Delivered(q) ==
    IF q.event = "check_run" THEN {[q EXCEPT !.external_id = id] : id \in {None} \cup 1..issued} ELSE {q}

handle_webhook(h) ==
    /\ handler[h] = Idle /\ Len(log) < MaxRequests
    /\ \E d \in Deliveries : \E q \in Delivered(d) :
           \/ q.event = "installation" /\ Answer(q, "OK")
           \/ /\ q.event # "installation" /\ identify_signing_app(q.secret) = {}
              /\ Answer(q, "UNAUTHORIZED")
           \/ /\ q.event # "installation"
              /\ \E app \in identify_signing_app(q.secret) :
                     LET t == tenant_for(app, q)
                     IN  IF t = NoTenant THEN Answer(q, "OK")
                         ELSE CASE q.event = "push"         -> handle_push(h, q, t)
                                [] q.event = "pull_request" -> handle_pull_request(h, q, t)
                                [] q.event = "check_run"    -> handle_check_run(h, q, t)
                                [] q.event = "check_suite"  -> handle_check_suite(h, q, t)
                                [] OTHER                    -> Answer(q, "OK")

\* POST /api/{slug}/runs/{run_id}/retry, behind the AuthorizedTenant layer.
retry_run(h) ==
    /\ handler[h] = Idle /\ Len(log) < MaxRequests
    /\ \E slug \in Slugs, id \in 1..issued :
           Accept(h, [NoDelivery EXCEPT !.event = "retry", !.external_id = id], slug, "next", <<id>>)

----------------------------------------------------------------------------
(* Finding what to launch                                                  *)

Entry(h) == log[handler[h].cause]
Request(h) == Entry(h).request

\* A call fails, or none does.
Fault(fault) == /\ faults' = faults + (IF fault THEN 1 ELSE 0)
                /\ faults' <= MaxFaults

Close(h, status, fault) ==
    /\ Fault(fault)
    /\ log' = [log EXCEPT ![handler[h].cause].status = status, ![handler[h].cause].fault = @ \/ fault]
    /\ handler' = [handler EXCEPT ![h] = Idle]

\* build_installation_client can succeed.
Reachable(slug, owner) == <<by_slug(registry, slug).app_ref, owner>> \in Installed

\* The repository the event is about: of the head for a pull request.
Owner(q) == IF q.event = "pull_request" THEN q.head ELSE q.repository.login

Matches(q, p) ==
    IF q.event = "push"
    THEN triggered_by_push(p, parse_push_ref(q.ref).branch, parse_push_ref(q.ref).tag)
    ELSE triggered_by_pull_request(p, q.base)

\* The files that from_yaml accepts.
WellFormed == {name \in DOMAIN Definition : from_yaml(Definition[name])}

\* The pipelines of the commit that the event triggers, by file name, but for
\* those that cannot be fetched.
find_matching_pipelines(q, unread) ==
    LET items == Directory[q.sha]
        wanted(item) == /\ item.type = "file" /\ item.is_yaml
                        /\ item.name \in WellFormed \ unread
                        /\ Matches(q, Definition[item.name])
        found[i \in 0..Len(items)] ==
            IF i = 0 THEN << >>
            ELSE IF wanted(items[i]) THEN Append(found[i - 1], items[i].name)
            ELSE found[i - 1]
    IN  found[Len(items)]

\* start_push_pipelines and start_pr_pipelines up to their loop: no client or
\* no directory ends the request; a file that cannot be fetched is passed over.
start_pipelines(h) ==
    LET q == Request(h)
    IN  /\ handler[h].pc = "match"
        /\ \/ Close(h, "INTERNAL_SERVER_ERROR", TRUE)
           \/ /\ ~Reachable(Entry(h).tenant_slug, Owner(q))
              /\ Close(h, "INTERNAL_SERVER_ERROR", FALSE)
           \/ /\ Reachable(Entry(h).tenant_slug, Owner(q))
              /\ \E unread \in SUBSET ToSet(find_matching_pipelines(q, {})) :
                     /\ handler' = [handler EXCEPT ![h].pc = "next",
                                        ![h].todo = find_matching_pipelines(q, unread)]
                     /\ Fault(unread # {})
                     /\ log' = [log EXCEPT ![handler[h].cause].fault = unread # {}]
        /\ UNCHANGED <<doc, issued, source, runs>>

Recorded(id) == runs[id] # None /\ runs[id].recorded

\* Mutant: runs that are themselves retries are listed too.
list_originating_runs_for_sha_all(slug, owner, repo, sha) ==
    {id \in RunIds : /\ Recorded(id)
                     /\ runs[id].run_context.tenant_slug = slug
                     /\ runs[id].run_context.owner = owner /\ runs[id].run_context.repo = repo
                     /\ runs[id].run_context.sha = sha}

list_originating_runs_for_sha(slug, owner, repo, sha) ==
    {id \in RunIds : /\ Recorded(id)
                     /\ runs[id].run_context.tenant_slug = slug
                     /\ runs[id].run_context.owner = owner /\ runs[id].run_context.repo = repo
                     /\ runs[id].run_context.sha = sha
                     /\ runs[id].run_context.retry_of = None}

\* The rest of handle_check_suite: the runs in the order they were created.
list_originating_runs(h) ==
    LET q == Request(h)
        ids == list_originating_runs_for_sha(Entry(h).tenant_slug, q.repository.login, q.repo, q.sha)
    IN  /\ handler[h].pc = "originals"
        /\ \/ Close(h, "OK", TRUE)
           \/ /\ \E order \in SetToSeqs(ids) :
                     /\ \A i, j \in DOMAIN order : i < j => order[i] < order[j]
                     /\ handler' = [handler EXCEPT ![h].pc = "next", ![h].todo = order]
              /\ UNCHANGED <<faults, log>>
        /\ UNCHANGED <<doc, issued, source, runs>>

----------------------------------------------------------------------------
(* Launching                                                               *)

IsRetry(h) == Request(h).event \in {"check_run", "check_suite", "retry"}

\* Done with the launch at hand, one way or the other: only a caller of the API
\* is told; a webhook goes on with the next one.
Proceed(h, status, fault) ==
    IF Request(h).event = "retry" THEN Close(h, status, fault)
    ELSE /\ Fault(fault)
         /\ handler' = [handler EXCEPT ![h].pc = "next", ![h].todo = Tail(@),
                                           ![h].run_context = None, ![h].run_id = 0]
         /\ log' = [log EXCEPT ![handler[h].cause].fault = @ \/ fault]

\* The loop of start_push_pipelines and start_pr_pipelines.
build_run_context(h) ==
    LET q == Request(h)
    IN  /\ handler[h].pc = "next" /\ handler[h].todo # << >> /\ ~IsRetry(h)
        /\ handler' = [handler EXCEPT ![h].pc = "upload", ![h].run_context =
               [owner |-> Owner(q), repo |-> q.repo, sha |-> q.sha, yaml |-> Head(handler[h].todo),
                ref |-> IF q.event = "push" THEN parse_push_ref(q.ref)
                        ELSE [branch |-> q.ref[2], tag |-> None, target_branch |-> q.base],
                retry_of |-> None, tenant_slug |-> Entry(h).tenant_slug]]
        /\ UNCHANGED <<doc, faults, log, issued, source, runs>>

Belongs(id, slug) == Recorded(id) /\ runs[id].run_context.tenant_slug = slug

\* The tenant is still registered, its App is installed where the run's
\* repository is, and the stored definition is still accepted.
Retriable(original) ==
    /\ by_slug(registry, original.tenant_slug) # NoTenant
    /\ original.yaml \in WellFormed
    /\ Reachable(original.tenant_slug, original.owner)

\* Up to launch_coordinator_for_pipeline.
retry_pipeline_run(h) ==
    LET id == Head(handler[h].todo)
        original == runs[id].run_context
        slug == Entry(h).tenant_slug
    IN  /\ handler[h].pc = "next" /\ handler[h].todo # << >> /\ IsRetry(h)
        /\ \/ Proceed(h, "INTERNAL_SERVER_ERROR", TRUE)
           \/ /\ ~Belongs(id, slug)
              /\ Proceed(h, "NOT_FOUND", FALSE)
           \/ /\ Belongs(id, slug)
              /\ IF Retriable(original)
                 THEN /\ handler' = [handler EXCEPT ![h].pc = "upload",
                                         ![h].run_context = [original EXCEPT !.retry_of = id]]
                      /\ UNCHANGED <<faults, log>>
                 ELSE Proceed(h, "INTERNAL_SERVER_ERROR", FALSE)
        /\ UNCHANGED <<doc, issued, source, runs>>

\* The pipelines of which some node checks out the source.
needs_source ==
    {name \in WellFormed : \E i \in DOMAIN Definition[name].nodes : node_info(Definition[name])[i].checkout}

\* launch_coordinator_for_pipeline takes a fresh run id and uploads the source
\* if a node checks it out; without the upload there is no object and no run.
upload_source(h) ==
    LET c == handler[h].run_context
    IN  /\ handler[h].pc = "upload" /\ issued < MaxRuns
        /\ issued' = issued + 1
        /\ \/ /\ handler' = [handler EXCEPT ![h].pc = "start", ![h].run_id = issued + 1]
              /\ source' = IF c.yaml \in needs_source
                           THEN [source EXCEPT ![issued + 1] = upload_parts(Frames[c.sha])]
                           ELSE source
              /\ UNCHANGED <<faults, log>>
           \/ /\ c.yaml \in needs_source
              /\ Proceed(h, "INTERNAL_SERVER_ERROR", TRUE)
              /\ UNCHANGED source
        /\ UNCHANGED <<doc, runs>>

\* The coordinator takes the lease of the new run or not; that it could not
\* record the run's row is only logged.
start_coordinator(h) ==
    LET id == handler[h].run_id
    IN  /\ handler[h].pc = "start"
        /\ \/ Proceed(h, "INTERNAL_SERVER_ERROR", TRUE) /\ UNCHANGED runs
           \/ \E recorded \in BOOLEAN :
                  /\ runs' = [runs EXCEPT ![id] = [run_context |-> handler[h].run_context,
                                                   cause |-> handler[h].cause, recorded |-> recorded]]
                  /\ Proceed(h, "OK", ~recorded)
        /\ UNCHANGED <<doc, issued, source>>

\* A coordinator that ends records the verdict of its run by an upsert: a run
\* without a row gets one.
record_pipeline_run(id) ==
    /\ runs[id] # None
    /\ ~runs[id].recorded
    /\ runs' = [runs EXCEPT ![id].recorded = TRUE]
    /\ UNCHANGED <<doc, faults, log, handler, issued, source>>

\* Nothing is left to launch.
Finish(h) ==
    /\ handler[h].pc = "next" /\ handler[h].todo = << >>
    /\ Close(h, "OK", FALSE)
    /\ UNCHANGED <<doc, issued, source, runs>>

\* The server dies or is replaced, perhaps with another document; the requests
\* it was handling get no answer.
Restart ==
    /\ Fault(TRUE)
    /\ doc' \in Accepted
    /\ handler' = [h \in Handlers |-> Idle]
    /\ log' = [i \in DOMAIN log |-> IF log[i].status = "open" THEN [log[i] EXCEPT !.status = "lost"] ELSE log[i]]
    /\ UNCHANGED <<issued, source, runs>>

IngressNext ==
    \/ \E h \in Handlers :
           \/ handle_webhook(h) \/ retry_run(h)
           \/ start_pipelines(h) \/ list_originating_runs(h)
           \/ build_run_context(h) \/ retry_pipeline_run(h)
           \/ upload_source(h) \/ start_coordinator(h) \/ Finish(h)
    \/ \E id \in RunIds : record_pipeline_run(id)
    \/ Restart

IngressSpec == IngressInit /\ [][IngressNext]_ingressVars

----------------------------------------------------------------------------
(* Properties                                                              *)

Started == {id \in RunIds : runs[id] # None}

\* The first run of the chain of retries that id ends.
root[id \in RunIds] ==
    IF id \notin Started THEN id
    ELSE IF runs[id].run_context.retry_of = None THEN id
    ELSE root[runs[id].run_context.retry_of]

\* Run id comes from a push or pull request that was signed with the secret of
\* the tenant's App and sent for the tenant's organisation, by the document of that
\* time.
FromEvent(id) ==
    LET c == runs[id].run_context
        e == log[runs[id].cause]
    IN  /\ e.request.event \in {"push", "pull_request"}
        /\ \E t \in ToSet(Docs[e.doc].tenants) : \E a \in ToSet(Docs[e.doc].github_apps) :
               /\ t.slug = c.tenant_slug /\ t.app_ref = a.id
               /\ a.webhook_secret = e.request.secret
               /\ e.request.repository = Account(t.org_name, "Organization")

\* Whatever documents came and went, every run is a tenant's own: started by an
\* event of its organisation, or a retry that the same tenant asked for of a
\* recorded run, at the same commit with the same definition as the first of its chain.
RunProvenance ==
    \A id \in Started :
        LET c == runs[id].run_context
            first == runs[root[id]].run_context
        IN  /\ FromEvent(root[id])
            /\ [c EXCEPT !.retry_of = None] = first
            /\ log[runs[id].cause].tenant_slug = c.tenant_slug
            /\ c.retry_of # None => Recorded(c.retry_of)

\* One request launches no pipeline twice: a re-run of a check suite starts one run
\* for each first run of the commit, however often that was retried before.
NoDoubleLaunch ==
    \A i, j \in Started :
        i # j /\ runs[i].cause = runs[j].cause =>
            IF runs[i].run_context.retry_of = None
            THEN runs[i].run_context.yaml # runs[j].run_context.yaml
            ELSE root[i] # root[j]

\* A run that checks out its source was started with the whole tarball in S3.
SourceIsWhole ==
    \A id \in Started :
        runs[id].run_context.yaml \in needs_source => Whole(Frames[runs[id].run_context.sha], source[id])

Launched(i) == {id \in Started : runs[id].cause = i}

Wants(q, yaml) ==
    IF q.event = "push"
    THEN WantsPush(yaml, parse_push_ref(q.ref).branch, parse_push_ref(q.ref).tag)
    ELSE WantsPullRequest(yaml, q.base)

\* The tenant the request is for, by its secret and its repository.
Addressed(e) ==
    {t \in ToSet(Docs[e.doc].tenants) :
        /\ e.request.repository = Account(t.org_name, "Organization")
        /\ \E a \in ToSet(Docs[e.doc].github_apps) :
               a.id = t.app_ref /\ a.webhook_secret = e.request.secret}

Wanted(q) ==
    {name \in WellFormed : /\ [name |-> name, type |-> "file", is_yaml |-> TRUE] \in ToSet(Directory[q.sha])
                           /\ Wants(q, Definition[name])}

DistinctSecrets(d) ==
    \A i, j \in DOMAIN Docs[d].github_apps :
        Docs[d].github_apps[i].webhook_secret = Docs[d].github_apps[j].webhook_secret => i = j

\* A push or pull request that was answered OK, with no failure on the way, has
\* started exactly the pipelines of the commit that ask for it, and none if it is for
\* no tenant (two Apps with one secret make this a matter of luck); a retry
\* through the API that was answered OK has started one run.
AnsweredInFull ==
    \A i \in DOMAIN log :
        LET e == log[i]
            started == {runs[id].run_context.yaml : id \in Launched(i)}
        IN  e.status = "OK" =>
                /\ e.request.event \in {"push", "pull_request"} /\ ~e.fault /\ DistinctSecrets(e.doc) =>
                       started = IF Addressed(e) = {} THEN {} ELSE Wanted(e.request)
                /\ e.request.event = "retry" =>
                       \E id \in RunIds : /\ Launched(i) = {id}
                                          /\ runs[id].run_context.retry_of = e.request.external_id

=============================================================================
