----------------------------- MODULE Sessions ------------------------------
(***************************************************************************)
(* Logging in and being let in (auth/src/handlers.rs, session.rs,          *)
(* extractor.rs and the protected routes of server/src/lib.rs).  One       *)
(* browser with several tabs has requests under way at the same time; each *)
(* loads the whole session record from Redis, changes its copy, and the    *)
(* session middleware writes the whole copy back when the response is      *)
(* ready.  The store, the middleware and the identity provider are         *)
(* external.                                                               *)
(***************************************************************************)
EXTENDS Tenancy

CONSTANTS
    Docs,         \* tenancy documents a server may be started with
    Claims,       \* what the identity provider may say of a user
    Runs,         \* runs in the history
    TenantOf,     \* TenantOf[r]: the tenant_slug of run r
    OwnerOf,      \* OwnerOf[r]: the owner of run r's repository
    Tabs,         \* requests that can be under way at once
    Sids,         \* session ids
    None,         \* no id, no record, no value
    MaxLogins,    \* bound: logins
    MaxDeploys    \* bound: restarts with another document

ASSUME SessionsAssumption ==
    /\ Docs \subseteq Document
    /\ Claims \subseteq [groups : Seq(Seq(STRING) \ {<< >>}), connector_id : STRING \cup {None}]
    /\ TenantOf \in [Runs -> Labels] /\ OwnerOf \in [Runs -> OrgNames]
    /\ None \notin Sids /\ None \notin Nat /\ None \notin STRING
    /\ MaxLogins \in Nat /\ MaxDeploys \in Nat

VARIABLES
    doc,       \* the document the server is running with
    deploys,   \* restarts so far
    store,     \* store[s]: the session record in Redis
    cookie,    \* the session id the browser sends
    logins,    \* logins so far; attempt t has its own csrf, nonce and verifier
    redeemed,  \* attempts whose code was exchanged
    tab,       \* tab[r]: the request under way in tab r
    started,   \* history: started[t]: the session attempt t belongs to
    granted,   \* history: what completed logins were entitled to
    closed     \* history: sessions that were logged out

sessionsVars == <<doc, deploys, store, cookie, logins, redeemed, tab, started, granted, closed>>

----------------------------------------------------------------------------
(* Session records                                                         *)

Attempts == 1..MaxLogins
Empty == [auth |-> None, pre_auth |-> None]

Slugs == UNION {{t.slug : t \in ToSet(d.tenants)} : d \in Docs}

AuthSession == [attempt : Attempts, authorized_slugs : Seq(Slugs), active_tenant_context : Slugs]
Record == [auth : AuthSession \cup {None}, pre_auth : Attempts \cup {None}]

\* A fresh record is used for a cookie whose record is gone.
load(s) == IF s = None THEN Empty ELSE IF store[s] = None THEN Empty ELSE store[s]
load_id(s) == IF s = None THEN None ELSE IF store[s] = None THEN None ELSE s

store_pre_auth(rec, t) == [rec EXCEPT !.pre_auth = t]
clear_pre_auth(rec) == [rec EXCEPT !.pre_auth = None]
store_auth(rec, auth) == [rec EXCEPT !.auth = auth]

----------------------------------------------------------------------------
(* What a login is entitled to                                             *)

registry == from_document(doc)

\* A group is <<organisation>> or <<organisation, team>>.
org_from_group(group) == group[1]

\* Mutant: the connector the user came through is not part of the lookup.
resolve_authorized_slugs_any(claims) ==
    IF claims.connector_id = None THEN << >>
    ELSE FoldLeft(LAMBDA slugs, group :
                      LET found == {t \in ToSet(doc.tenants) : t.org_name = org_from_group(group)}
                      IN  slugs \o SetToSeq({t.slug : t \in found} \ ToSet(slugs)),
                  << >>, claims.groups)

\* The tenant of one group, if there is one, goes behind the others, once.
authorize(slugs, t) ==
    IF t = NoTenant \/ t.slug \in ToSet(slugs) THEN slugs ELSE Append(slugs, t.slug)

\* The tenants the user's groups name through the connector, in order.
resolve_authorized_slugs(claims) ==
    LET authorized[i \in 0..Len(claims.groups)] ==
            IF i = 0 THEN << >>
            ELSE authorize(authorized[i - 1],
                           find_for_connector_and_org(registry, claims.connector_id,
                                                      org_from_group(claims.groups[i])))
    IN  IF claims.connector_id = None THEN << >> ELSE authorized[Len(claims.groups)]

\* The same, read off the document.
Entitled(d, claims) ==
    {t.slug : t \in {u \in ToSet(d.tenants) :
        /\ claims.connector_id \in ToSet(u.connector_ids)
        /\ \E g \in ToSet(claims.groups) : g[1] = u.org_name}}

----------------------------------------------------------------------------
(* Requests                                                                *)

\* pc: the request is about to load its record, to exchange a code, to check
\* the run, to delete its record (flush), or to hand its response to the
\* middleware.
Idle == [kind |-> "none", pc |-> "idle", sid |-> None, attempt |-> None, slug |-> None,
         run |-> None, rec |-> Empty, modified |-> FALSE, late |-> FALSE, served |-> FALSE, rows |-> {}]

Request ==
    [kind : {"none", "login", "callback", "logout", "active_tenant", "api"},
     pc : {"idle", "load", "exchange", "check_run", "flush", "respond"},
     sid : Sids \cup {None},
     attempt : Attempts \cup {None},   \* the state parameter of a callback
     slug : Slugs \cup {None},
     run : Runs \cup {None},           \* None: the list of runs is asked for
     rec : Record,
     modified : BOOLEAN,
     late : BOOLEAN,      \* history: sent after its session was logged out
     served : BOOLEAN,    \* data was delivered or changed
     rows : SUBSET Runs]  \* the runs it is about

SessionsInit ==
    /\ doc \in {d \in Docs : from_document(d).ok}
    /\ deploys = 0
    /\ store = [s \in Sids |-> None]
    /\ cookie = None
    /\ logins = 0 /\ redeemed = {}
    /\ tab = [r \in Tabs |-> Idle]
    /\ started = [t \in Attempts |-> None]
    /\ granted = {} /\ closed = {}

\* Every variable has its type.
SessionsTypeOK ==
    /\ doc \in Docs /\ deploys \in 0..MaxDeploys
    /\ store \in [Sids -> Record \cup {None}]
    /\ cookie \in Sids \cup {None}
    /\ logins \in 0..MaxLogins /\ redeemed \subseteq Attempts
    /\ tab \in [Tabs -> Request]
    /\ started \in [Attempts -> Sids \cup {None}]
    /\ granted \subseteq [sid : Sids, attempt : Attempts, claims : Claims, doc : Docs]
    /\ closed \subseteq Sids

\* The browser sends a request with the cookie it has: a callback brings the
\* state of some attempt, the other requests a slug and a run.
Sent(r, kind, attempt, slug, run) ==
    tab' = [tab EXCEPT ![r] = [Idle EXCEPT !.kind = kind, !.attempt = attempt, !.slug = slug,
                                           !.run = run, !.pc = "load", !.sid = cookie,
                                           !.late = cookie \in closed]]

Send(r) ==
    /\ tab[r] = Idle
    /\ \/ \E kind \in {"login", "logout"} : Sent(r, kind, None, None, None)
       \/ \E t \in 1..logins : Sent(r, "callback", t, None, None)
       \/ \E g \in Slugs : Sent(r, "active_tenant", None, g, None)
       \/ \E g \in Slugs, u \in Runs \cup {None} : Sent(r, "api", None, g, u)
    /\ UNCHANGED <<doc, deploys, store, cookie, logins, redeemed, started, granted, closed>>

Loads(r, kind) == tab[r].kind = kind /\ tab[r].pc = "load"

\* The record as loaded, the handler's next step, and its change of the record.
Continue(r, pc, rec) ==
    tab' = [tab EXCEPT ![r].pc = pc, ![r].sid = load_id(tab[r].sid), ![r].rec = rec,
                       ![r].modified = (rec # load(tab[r].sid))]

\* 401, 403, 404, and 500 when Redis fails: nothing was changed.
Reject(r) ==
    /\ tab[r].pc \in {"load", "exchange", "check_run"}
    /\ tab' = [tab EXCEPT ![r] = Idle]
    /\ UNCHANGED <<doc, deploys, store, cookie, logins, redeemed, started, granted, closed>>

login(r) ==
    /\ Loads(r, "login") /\ logins < MaxLogins
    /\ logins' = logins + 1
    /\ Continue(r, "respond", store_pre_auth(load(tab[r].sid), logins + 1))
    /\ UNCHANGED <<doc, deploys, store, cookie, redeemed, started, granted, closed>>

\* callback up to the token request: the state must be that of the pending
\* attempt, which another tab may have replaced.
callback(r) ==
    /\ Loads(r, "callback")
    /\ load(tab[r].sid).pre_auth = tab[r].attempt
    /\ Continue(r, "exchange", load(tab[r].sid))
    /\ UNCHANGED <<doc, deploys, store, cookie, logins, redeemed, started, granted, closed>>

\* Mutant: a user with no tenant is logged in all the same.
callback_answer_unchecked(r, claims) ==
    LET slugs == resolve_authorized_slugs(claims)
        rec == tab[r].rec
    IN  clear_pre_auth(store_auth(rec, [attempt |-> rec.pre_auth, authorized_slugs |-> slugs,
                                        active_tenant_context |-> IF slugs = << >> THEN None ELSE slugs[1]]))

callback_answer(r, claims) ==
    LET slugs == resolve_authorized_slugs(claims)
        rec == tab[r].rec
    IN  IF slugs = << >> THEN clear_pre_auth(rec)
        ELSE clear_pre_auth(store_auth(rec, [attempt |-> rec.pre_auth, authorized_slugs |-> slugs,
                                             active_tenant_context |-> slugs[1]]))

\* The code is exchanged with the attempt's verifier, once, and the id token
\* carries its nonce; the claims decide.
exchange(r) ==
    /\ tab[r].pc = "exchange" /\ tab[r].rec.pre_auth \notin redeemed
    /\ redeemed' = redeemed \cup {tab[r].rec.pre_auth}
    /\ \E claims \in Claims :
           /\ tab' = [tab EXCEPT ![r].pc = "respond", ![r].modified = TRUE,
                                 ![r].rec = callback_answer(r, claims)]
           /\ granted' = granted \cup {[sid |-> tab[r].sid, attempt |-> tab[r].rec.pre_auth,
                                        claims |-> claims, doc |-> doc]}
    /\ UNCHANGED <<doc, deploys, store, cookie, logins, started, closed>>

\* Mutant: clear_auth without the flush; the middleware saves what is left.
logout_cleared(r) ==
    /\ Loads(r, "logout")
    /\ Continue(r, "respond", [load(tab[r].sid) EXCEPT !.auth = None])
    /\ closed' = closed \cup ({tab[r].sid} \ {None})
    /\ UNCHANGED <<doc, deploys, store, cookie, logins, redeemed, started, granted>>

\* clear_auth changes the loaded copy, which flush throws away.
logout(r) ==
    /\ Loads(r, "logout")
    /\ Continue(r, "flush", Empty)
    /\ UNCHANGED <<doc, deploys, store, cookie, logins, redeemed, started, granted, closed>>

\* session.flush deletes the record, or fails and is only logged; the response
\* deletes the cookie.
flush(r) ==
    /\ tab[r].pc = "flush"
    /\ \/ /\ store' = [s \in Sids |-> IF s = tab[r].sid THEN None ELSE store[s]]
          /\ closed' = closed \cup ({tab[r].sid} \ {None})
       \/ UNCHANGED <<store, closed>>
    /\ cookie' = None
    /\ tab' = [tab EXCEPT ![r] = Idle]
    /\ UNCHANGED <<doc, deploys, logins, redeemed, started, granted>>

\* The check of active_tenant and of the AuthorizedTenant extractor.
Admits(rec, slug) == rec.auth # None /\ slug \in ToSet(rec.auth.authorized_slugs)

active_tenant(r) ==
    LET rec == load(tab[r].sid)
    IN  /\ Loads(r, "active_tenant") /\ Admits(rec, tab[r].slug)
        /\ Continue(r, "respond", [rec EXCEPT !.auth.active_tenant_context = tab[r].slug])
        /\ UNCHANGED <<doc, deploys, store, cookie, logins, redeemed, started, granted, closed>>

AuthorizedTenant(r) ==
    /\ Loads(r, "api") /\ Admits(load(tab[r].sid), tab[r].slug)
    /\ Continue(r, "check_run", load(tab[r].sid))
    /\ UNCHANGED <<doc, deploys, store, cookie, logins, redeemed, started, granted, closed>>

\* Mutant: a run is served whatever its tenant.
check_run_in_slug_any(run, slug) == TRUE

\* The run's row names the tenant of the path.
check_run_in_slug(run, slug) == TenantOf[run] = slug

\* Every route of a run (status, row, nodes, logs, cancel, retry) starts so.
ServeRun(r) ==
    /\ tab[r].pc = "check_run" /\ tab[r].run # None /\ check_run_in_slug(tab[r].run, tab[r].slug)
    /\ tab' = [tab EXCEPT ![r].pc = "respond", ![r].served = TRUE, ![r].rows = {tab[r].run}]
    /\ UNCHANGED <<doc, deploys, store, cookie, logins, redeemed, started, granted, closed>>

\* The list has no such check: it takes the rows whose owner has the slug's name.
list_runs(r) ==
    /\ tab[r].pc = "check_run" /\ tab[r].run = None
    /\ tab' = [tab EXCEPT ![r].pc = "respond", ![r].served = TRUE,
                          ![r].rows = {u \in Runs : OwnerOf[u] = tab[r].slug}]
    /\ UNCHANGED <<doc, deploys, store, cookie, logins, redeemed, started, granted, closed>>

----------------------------------------------------------------------------
(* The session middleware (external): the whole record is written back if  *)
(* it was changed, deleted if nothing is left in it.  A record that is     *)
(* gone is not created again under its old id.                             *)

Respond(r) ==
    LET q == tab[r]
        fresh == {s \in Sids : store[s] = None /\ s \notin closed /\ \A t \in Attempts : started[t] # s}
        save(s) ==
            /\ store' = [store EXCEPT ![s] = q.rec]
            /\ cookie' = s
            /\ started' = IF q.kind = "login" THEN [started EXCEPT ![q.rec.pre_auth] = s] ELSE started
    IN  /\ q.pc = "respond"
        /\ tab' = [tab EXCEPT ![r] = Idle]
        /\ \/ ~q.modified /\ UNCHANGED <<store, cookie, started>>
           \/ /\ q.modified /\ q.rec = Empty
              /\ store' = [s \in Sids |-> IF s = q.sid THEN None ELSE store[s]]
              /\ cookie' = None /\ UNCHANGED started
           \/ /\ q.modified /\ q.rec # Empty /\ q.sid = None
              /\ fresh # {} /\ save(CHOOSE s \in fresh : TRUE)
           \/ /\ q.modified /\ q.rec # Empty /\ q.sid # None /\ store[q.sid] # None
              /\ save(q.sid)
           \/ /\ q.modified /\ q.rec # Empty /\ q.sid # None /\ store[q.sid] = None
              /\ cookie' = q.sid /\ UNCHANGED <<store, started>>
        /\ UNCHANGED <<doc, deploys, logins, redeemed, granted, closed>>

\* A record is dropped after its days of inactivity.
Expire(s) ==
    /\ store[s] # None
    /\ store' = [store EXCEPT ![s] = None]
    /\ UNCHANGED <<doc, deploys, cookie, logins, redeemed, tab, started, granted, closed>>

\* A restart drops the requests under way; a server whose document is refused
\* does not start, and the old one stays.
Deploy ==
    /\ deploys < MaxDeploys
    /\ deploys' = deploys + 1
    /\ doc' \in {d \in Docs : from_document(d).ok} \ {doc}
    /\ tab' = [r \in Tabs |-> Idle]
    /\ UNCHANGED <<store, cookie, logins, redeemed, started, granted, closed>>

SessionsNext ==
    \/ \E r \in Tabs :
           \/ Send(r) \/ Reject(r) \/ login(r) \/ callback(r) \/ exchange(r) \/ logout(r)
           \/ flush(r) \/ active_tenant(r) \/ AuthorizedTenant(r) \/ ServeRun(r) \/ list_runs(r)
           \/ Respond(r)
    \/ \E s \in Sids : Expire(s)
    \/ Deploy

SessionsSpec == SessionsInit /\ [][SessionsNext]_sessionsVars

----------------------------------------------------------------------------
(* Properties                                                              *)

\* rec, as kept under session s, holds what a login of this very session gave.
Earned(s, rec) ==
    rec.auth # None =>
        /\ rec.auth.active_tenant_context \in ToSet(rec.auth.authorized_slugs)
        /\ rec.auth.attempt # rec.pre_auth
        /\ \E g \in granted :
               /\ g.sid = s /\ g.attempt = rec.auth.attempt /\ started[g.attempt] = s
               /\ ToSet(rec.auth.authorized_slugs) = Entitled(g.doc, g.claims)

\* However the tabs' whole-record writes interleave, a session never holds slugs
\* other than those a completed login of that session was entitled to by the
\* document of that time, the active one is among them, and the attempt they came
\* from is not pending again in the same record.
AuthIsEarned ==
    /\ \A s \in Sids : store[s] # None => Earned(s, store[s])
    /\ \A r \in Tabs : tab[r].sid # None => Earned(tab[r].sid, tab[r].rec)

\* A request sent after its session was logged out and its record deleted is not
\* served, although requests that had loaded the record before may write it afterwards.
LogoutIsFinal == \A r \in Tabs : tab[r].served => ~tab[r].late

\* Whatever is served was asked for under a slug that a login of this very session
\* was entitled to.  A run served by itself is of a tenant the user was entitled to
\* then.  Of a run in a list only the owner's name is known to be that of such a
\* slug: a tenant's slug and its organisation may have different names, so the
\* list may lack the tenant's runs and hold those of another one.
ServedIsGranted ==
    \A r \in Tabs :
        tab[r].served =>
            \E g \in granted :
                /\ g.sid = tab[r].sid /\ tab[r].slug \in Entitled(g.doc, g.claims)
                /\ \A u \in tab[r].rows :
                       (IF tab[r].run = None THEN OwnerOf[u] ELSE TenantOf[u])
                           \in Entitled(g.doc, g.claims)

\* A document the server starts with resolves every tenant and nothing else.
RegistryIsFaithful == Faithful(doc, registry)

=============================================================================
