-------------------------- MODULE Sessions_proofs ---------------------------
(***************************************************************************)
(* What holds of Sessions for any documents, claims, tabs and sessions.    *)
(***************************************************************************)
EXTENDS Sessions, Tenancy_proofs

----------------------------------------------------------------------------
(* What a login resolves to                                                *)

FoundFor(claims, i) ==
    find_for_connector_and_org(registry, claims.connector_id, org_from_group(claims.groups[i]))

\* The loop over the groups, unrolled.
LEMMA GroupsUnrolled ==
    ASSUME NEW claims, Len(claims.groups) \in Nat, claims.connector_id # None
    PROVE  \E out : /\ out[0] = << >>
                    /\ \A i \in 1..Len(claims.groups) : out[i] = authorize(out[i - 1], FoundFor(claims, i))
                    /\ resolve_authorized_slugs(claims) = out[Len(claims.groups)]
<1> DEFINE Run(n, g) == g = [i \in 0..n |-> IF i = 0 THEN << >>
                                            ELSE authorize(g[i - 1], FoundFor(claims, i))]
           S == {n \in Nat : \E g : Run(n, g)}
<1>1. 0 \in S
    <2>1. Run(0, [i \in 0..0 |-> << >>])
        OBVIOUS
    <2> QED
        BY <2>1
<1>2. ASSUME NEW n \in Nat, n \in S PROVE n + 1 \in S
    <2>1. PICK g : Run(n, g)
        BY <1>2
    <2> DEFINE h == [i \in 0..(n + 1) |-> IF i = n + 1 THEN authorize(g[n], FoundFor(claims, n + 1))
                                          ELSE g[i]]
    <2>2. Run(n + 1, h)
        <3>1. ASSUME NEW i \in 0..(n + 1)
              PROVE  h[i] = IF i = 0 THEN << >> ELSE authorize(h[i - 1], FoundFor(claims, i))
            BY <2>1
        <3> QED
            BY <3>1
    <2> HIDE DEF h
    <2>3. \E k : Run(n + 1, k)
        BY <2>2
    <2> QED
        BY <2>3
<1>3. Len(claims.groups) \in S
    BY <1>1, <1>2, SetInduction
<1>4. PICK g : Run(Len(claims.groups), g)
    BY <1>3
<1> DEFINE f == CHOOSE k : Run(Len(claims.groups), k)
<1>5. Run(Len(claims.groups), f)
    BY <1>4
<1>6. resolve_authorized_slugs(claims) = f[Len(claims.groups)]
    <2>1. resolve_authorized_slugs(claims) =
              (CHOOSE k : k = [i \in 0..Len(claims.groups) |->
                  IF i = 0 THEN << >>
                  ELSE authorize(k[i - 1], find_for_connector_and_org(registry, claims.connector_id,
                                                      org_from_group(claims.groups[i])))])[Len(claims.groups)]
        BY DEF resolve_authorized_slugs
    <2> QED
        BY <2>1 DEF FoundFor
<1> HIDE DEF f
<1>7. f[0] = << >>
    BY <1>5
<1>8. \A i \in 1..Len(claims.groups) : f[i] = authorize(f[i - 1], FoundFor(claims, i))
    BY <1>5
<1> HIDE DEF Run
<1> QED
    BY <1>6, <1>7, <1>8

\* The lookup finds the tenant that claims the connector and the organisation.
LEMMA FoundIsClaimed ==
    ASSUME NEW d \in Document, from_document(d).ok, NEW c, NEW o
    PROVE  LET t == find_for_connector_and_org(from_document(d), c, o)
           IN  /\ t # NoTenant => /\ t \in ToSet(d.tenants)
                                  /\ c \in ToSet(t.connector_ids) /\ o = t.org_name
               /\ \A u \in ToSet(d.tenants) :
                      c \in ToSet(u.connector_ids) /\ o = u.org_name => t = u
<1> DEFINE reg == from_document(d)
           t == find_for_connector_and_org(reg, c, o)
<1>1. ConnectorsHeld(reg.by_connector_and_org, ToSet(d.tenants))
    BY AcceptedDocument DEF Holds
<1> HIDE DEF reg
<1>2. ASSUME t # NoTenant
      PROVE  t \in ToSet(d.tenants) /\ c \in ToSet(t.connector_ids) /\ o = t.org_name
    <2>1. t \in ToSet(d.tenants) /\ <<c, o>> \in ConnectorKeys(t)
        BY <1>1, <1>2 DEF ConnectorsHeld, find_for_connector_and_org, Lookup
    <2> HIDE DEF t
    <2> QED
        BY <2>1 DEF ConnectorKeys
<1>3. ASSUME NEW u \in ToSet(d.tenants), c \in ToSet(u.connector_ids), o = u.org_name
      PROVE  t = u
    <2>1. <<c, o>> \in ConnectorKeys(u)
        BY <1>3 DEF ConnectorKeys
    <2> QED
        BY <1>1, <1>3, <2>1 DEF ConnectorsHeld, find_for_connector_and_org, Lookup
<1> QED
    BY <1>2, <1>3 DEF reg

LEMMA AppendSet ==
    ASSUME NEW T, NEW s \in Seq(T), NEW e
    PROVE  ToSet(Append(s, e)) = ToSet(s) \cup {e}
<1>1. /\ DOMAIN Append(s, e) = 1..(Len(s) + 1) /\ DOMAIN s = 1..Len(s) /\ Len(s) \in Nat
      /\ Append(s, e)[Len(s) + 1] = e /\ \A i \in 1..Len(s) : Append(s, e)[i] = s[i]
    OBVIOUS
<1> DEFINE a == Append(s, e)
<1> HIDE DEF a
<1>2. /\ DOMAIN a = 1..(Len(s) + 1) /\ DOMAIN s = 1..Len(s) /\ Len(s) \in Nat
      /\ a[Len(s) + 1] = e /\ \A i \in 1..Len(s) : a[i] = s[i]
    BY <1>1 DEF a
<1>3. ToSet(a) \subseteq ToSet(s) \cup {e}
    BY <1>2 DEF ToSet
<1>4. ToSet(s) \cup {e} \subseteq ToSet(a)
    BY <1>2 DEF ToSet
<1> QED
    BY <1>3, <1>4 DEF a

\* A login yields the tenants the document entitles the user to, no more, no fewer.
LEMMA ResolveIsEntitled ==
    ASSUME doc \in Docs, from_document(doc).ok, NEW claims \in Claims
    PROVE  /\ resolve_authorized_slugs(claims) \in Seq(Slugs)
           /\ ToSet(resolve_authorized_slugs(claims)) = Entitled(doc, claims)
<1>1. /\ doc \in Document /\ ToSet(doc.tenants) \subseteq TenantEntry
      /\ {t.slug : t \in ToSet(doc.tenants)} \subseteq Slugs
    <2>1. doc \in Document
        BY SessionsAssumption
    <2>2. doc.tenants \in Seq(TenantEntry)
        BY <2>1 DEF Document
    <2>3. ToSet(doc.tenants) \subseteq TenantEntry
        BY <2>2 DEF ToSet
    <2> QED
        BY <2>1, <2>3 DEF Slugs
<1>2. /\ Len(claims.groups) \in Nat /\ DOMAIN claims.groups = 1..Len(claims.groups)
      /\ claims.connector_id \in STRING \cup {None}
    <2>1. claims \in [groups : Seq(Seq(STRING) \ {<< >>}), connector_id : STRING \cup {None}]
        BY SessionsAssumption
    <2>2. claims.groups \in Seq(Seq(STRING) \ {<< >>}) /\ claims.connector_id \in STRING \cup {None}
        BY <2>1
    <2> QED
        BY <2>2
<1>3. CASE claims.connector_id = None
    <2>1. \A t \in ToSet(doc.tenants) : None \notin ToSet(t.connector_ids)
        <3>1. None \notin STRING
            BY SessionsAssumption
        <3>2. ASSUME NEW t \in TenantEntry PROVE None \notin ToSet(t.connector_ids)
            <4>1. t.connector_ids \in Seq(STRING)
                BY <3>2 DEF TenantEntry
            <4> QED
                BY <3>1, <4>1 DEF ToSet
        <3> QED
            BY <1>1, <3>2
    <2>2. Entitled(doc, claims) = {}
        BY <1>3, <2>1 DEF Entitled
    <2>3. resolve_authorized_slugs(claims) = << >>
        BY <1>3 DEF resolve_authorized_slugs
    <2>4. << >> \in Seq(Slugs) /\ ToSet(<< >>) = {}
        BY DEF ToSet
    <2> QED
        BY <2>2, <2>3, <2>4
<1>4. CASE claims.connector_id # None
    <2>1. PICK out : /\ out[0] = << >>
                     /\ \A i \in 1..Len(claims.groups) : out[i] = authorize(out[i - 1], FoundFor(claims, i))
                     /\ resolve_authorized_slugs(claims) = out[Len(claims.groups)]
        BY <1>2, <1>4, GroupsUnrolled
    <2> DEFINE Named(n) == {t.slug : t \in {u \in ToSet(doc.tenants) :
                                /\ claims.connector_id \in ToSet(u.connector_ids)
                                /\ \E j \in 1..n : claims.groups[j][1] = u.org_name}}
               Good(n) == out[n] \in Seq(Slugs) /\ ToSet(out[n]) = Named(n)
               S == {n \in Nat : n <= Len(claims.groups) => Good(n)}
    <2>2. Good(0)
        <3>1. << >> \in Seq(Slugs) /\ ToSet(<< >>) = {}
            BY DEF ToSet
        <3>2. Named(0) = {}
            OBVIOUS
        <3> QED
            BY <2>1, <3>1, <3>2
    <2>3. ASSUME NEW n \in Nat, Good(n), n + 1 <= Len(claims.groups) PROVE Good(n + 1)
        <3> DEFINE o == claims.groups[n + 1][1]
                   c == claims.connector_id
                   t == find_for_connector_and_org(from_document(doc), c, o)
        <3>1. out[n + 1] = authorize(out[n], t)
            <4>1. n + 1 \in 1..Len(claims.groups) /\ (n + 1) - 1 = n
                BY <1>2, <2>3
            <4> QED
                BY <2>1, <4>1 DEF FoundFor, registry, org_from_group
        <3>2. /\ t # NoTenant => /\ t \in ToSet(doc.tenants)
                                 /\ c \in ToSet(t.connector_ids) /\ o = t.org_name
              /\ \A u \in ToSet(doc.tenants) :
                     c \in ToSet(u.connector_ids) /\ o = u.org_name => t = u
            BY <1>1, FoundIsClaimed
        <3>3. NoTenant \notin ToSet(doc.tenants)
            BY <1>1, TenancyAssumption
        <3> HIDE DEF t
        <3>4. Named(n + 1) = IF t = NoTenant THEN Named(n) ELSE Named(n) \cup {t.slug}
            <4>1. \A u : u \in Named(n + 1) <=>
                      \/ u \in Named(n)
                      \/ \E v \in ToSet(doc.tenants) :
                             v.slug = u /\ c \in ToSet(v.connector_ids) /\ o = v.org_name
                OBVIOUS
            <4> HIDE DEF Named
            <4> QED
                BY <3>2, <3>3, <4>1
        <3>5. t # NoTenant => t.slug \in Slugs
            BY <1>1, <3>2
        <3> HIDE DEF Named
        <3>6. CASE t = NoTenant \/ t.slug \in ToSet(out[n])
            BY <2>3, <3>1, <3>4, <3>6 DEF authorize
        <3>7. CASE ~(t = NoTenant \/ t.slug \in ToSet(out[n]))
            <4>1. out[n + 1] = Append(out[n], t.slug)
                BY <3>1, <3>7 DEF authorize
            <4>2. ToSet(Append(out[n], t.slug)) = ToSet(out[n]) \cup {t.slug}
                BY <2>3, AppendSet
            <4>3. Append(out[n], t.slug) \in Seq(Slugs)
                BY <2>3, <3>5, <3>7
            <4> QED
                BY <2>3, <3>4, <3>7, <4>1, <4>2, <4>3
        <3> QED
            BY <3>6, <3>7
    <2>4. Good(Len(claims.groups))
        <3> HIDE DEF Good
        <3>1. 0 \in S /\ \A n \in Nat : n \in S => n + 1 \in S
            BY <1>2, <2>2, <2>3
        <3>2. Len(claims.groups) \in S
            <4> HIDE DEF S
            <4> QED
                BY <1>2, <3>1, SetInduction
        <3> QED
            BY <1>2, <3>2
    <2>5. Named(Len(claims.groups)) = Entitled(doc, claims)
        BY <1>2 DEF Entitled, ToSet
    <2> QED
        BY <2>1, <2>4, <2>5
<1> QED
    BY <1>3, <1>4

----------------------------------------------------------------------------
(* Records and requests                                                    *)

\* The record a request loads is the one in the store, or a new one.
LEMMA Loaded ==
    ASSUME SessionsTypeOK, NEW s \in Sids \cup {None}
    PROVE  /\ load(s) \in Record /\ load_id(s) \in Sids \cup {None}
           /\ load_id(s) = None => load(s) = Empty
           /\ load_id(s) # None => s \in Sids /\ load_id(s) = s /\ store[s] # None /\ load(s) = store[s]
<1>1. Empty \in Record
    BY DEF Empty, Record
<1> QED
    BY <1>1, SessionsAssumption DEF SessionsTypeOK, load, load_id

\* The other tabs do not notice.
Others(r) == \A p \in Tabs : p # r => tab'[p] = tab[p]

\* Continue, field by field.
LEMMA Continued ==
    ASSUME SessionsTypeOK, NEW r \in Tabs, NEW pc, NEW rec, Continue(r, pc, rec),
           pc \in {"exchange", "check_run", "flush", "respond"}, rec \in Record
    PROVE  /\ tab' \in [Tabs -> Request] /\ Others(r)
           /\ tab'[r].kind = tab[r].kind /\ tab'[r].pc = pc /\ tab'[r].sid = load_id(tab[r].sid)
           /\ tab'[r].attempt = tab[r].attempt /\ tab'[r].slug = tab[r].slug
           /\ tab'[r].run = tab[r].run /\ tab'[r].rec = rec
           /\ tab'[r].late = tab[r].late /\ tab'[r].served = tab[r].served
<1>1. tab \in [Tabs -> Request] /\ tab[r] \in Request /\ load_id(tab[r].sid) \in Sids \cup {None}
    BY Loaded DEF SessionsTypeOK, Request
<1> DEFINE sid == load_id(tab[r].sid)
           modified == (rec # load(tab[r].sid))
<1>2. modified \in BOOLEAN
    OBVIOUS
<1>3. tab' = [tab EXCEPT ![r].pc = pc, ![r].sid = sid, ![r].rec = rec, ![r].modified = modified]
    BY DEF Continue
<1> HIDE DEF sid, modified
<1>4. sid \in Sids \cup {None}
    BY <1>1 DEF sid
<1>5. tab'[r] = [tab[r] EXCEPT !.pc = pc, !.sid = sid, !.rec = rec, !.modified = modified]
    BY <1>1, <1>3
<1>6. Others(r) /\ DOMAIN tab' = Tabs
    BY <1>1, <1>3 DEF Others
<1>7. tab'[r] \in Request
    BY <1>1, <1>2, <1>4, <1>5 DEF Request
<1>8. tab' \in [Tabs -> Request]
    BY <1>1, <1>3, <1>6, <1>7 DEF Others
<1> QED
    BY <1>1, <1>5, <1>6, <1>8 DEF Request, sid

LEMMA IdleType == Idle \in Request
BY DEF Idle, Request, Empty, Record

----------------------------------------------------------------------------
(* The inductive invariant                                                 *)

\* Earned and the properties below, of the state variables given as arguments:
\* G are the grants, st the sessions of the attempts, n the attempts so far, C
\* the sessions closed.
EarnedIn(s, rec, G, st) ==
    rec.auth # None =>
        /\ rec.auth.active_tenant_context \in ToSet(rec.auth.authorized_slugs)
        /\ rec.auth.attempt # rec.pre_auth
        /\ \E g \in G :
               /\ g.sid = s /\ g.attempt = rec.auth.attempt /\ st[g.attempt] = s
               /\ ToSet(rec.auth.authorized_slugs) = Entitled(g.doc, g.claims)

\* The attempt pending in rec was started by session s.
PendingIn(s, rec, st, n) ==
    rec.pre_auth # None => rec.pre_auth \in 1..n /\ s # None /\ st[rec.pre_auth] = s

\* The request holds a new attempt that no session has yet.
Fresh(q) == q.kind = "login" /\ q.pc = "respond"

\* The session of the request was granted the tenant it names.
GrantedIn(q, G) == \E g \in G : g.sid = q.sid /\ q.slug \in Entitled(g.doc, g.claims)

\* The name a run is served by: its owner's in a list, its tenant's otherwise.
ServedAs(q, u) == IF q.run = None THEN OwnerOf[u] ELSE TenantOf[u]

\* What a request under way carries.
RequestOK(q, G, st, n, C) ==
    /\ q.sid # None => EarnedIn(q.sid, q.rec, G, st)
    /\ q.sid = None => q.rec.auth = None
    /\ Fresh(q) => q.rec.pre_auth \in 1..n /\ st[q.rec.pre_auth] = None
    /\ ~Fresh(q) => PendingIn(q.sid, q.rec, st, n)
    /\ q.pc = "load" => q.rec = Empty /\ (q.late => q.sid \in C) /\ ~q.served
    /\ q.pc = "load" /\ q.kind = "callback" => q.attempt \in 1..n
    /\ q.pc \in {"exchange", "check_run"} => q.kind # "login"
    /\ q.pc = "exchange" => q.rec.pre_auth # None /\ ~q.served
    /\ q.pc = "check_run" => GrantedIn(q, G) /\ ~q.late
    /\ q.served => GrantedIn(q, G) /\ ~q.late /\ \A u \in q.rows : ServedAs(q, u) = q.slug

\* Every attempt belongs to one session for good, and a session that was logged
\* out has no record.
AttemptsOK ==
    /\ \A t \in Attempts : t > logins => started[t] = None
    /\ \A g \in granted : g.attempt \in 1..logins /\ started[g.attempt] = g.sid
    /\ \A s \in closed : store[s] = None

StoreOK ==
    \A s \in Sids : store[s] # None =>
        EarnedIn(s, store[s], granted, started) /\ PendingIn(s, store[s], started, logins)

TabsOK == \A r \in Tabs : RequestOK(tab[r], granted, started, logins, closed)

\* Two tabs do not hold the same new attempt.
FreshOnce ==
    \A r, p \in Tabs :
        Fresh(tab[r]) /\ Fresh(tab[p]) /\ tab[r].rec.pre_auth = tab[p].rec.pre_auth => r = p

SessionsInv ==
    /\ SessionsTypeOK /\ from_document(doc).ok
    /\ AttemptsOK /\ StoreOK /\ TabsOK /\ FreshOnce

\* An attempt that has a session keeps it.
WriteOnce(st, st2) == \A t \in Attempts : st[t] # None => st2[t] = st[t]

\* What a record holds stays earned.
LEMMA EarnedStays ==
    ASSUME NEW s \in Sids, NEW rec \in Record, NEW G, NEW st, EarnedIn(s, rec, G, st),
           NEW G2, G \subseteq G2, NEW st2, WriteOnce(st, st2)
    PROVE  EarnedIn(s, rec, G2, st2)
<1> SUFFICES ASSUME rec.auth # None PROVE EarnedIn(s, rec, G2, st2)
    BY DEF EarnedIn
<1>1. PICK g \in G : /\ g.sid = s /\ g.attempt = rec.auth.attempt /\ st[g.attempt] = s
                     /\ ToSet(rec.auth.authorized_slugs) = Entitled(g.doc, g.claims)
    BY DEF EarnedIn
<1>2. g.attempt \in Attempts
    BY <1>1 DEF Record, AuthSession
<1>3. g \in G2 /\ st2[g.attempt] = s
    BY <1>1, <1>2, SessionsAssumption DEF WriteOnce
<1> QED
    BY <1>1, <1>3 DEF EarnedIn

\* A request that is not touched stays as good as it was.
LEMMA RequestStays ==
    ASSUME NEW q \in Request, NEW G, NEW st, NEW n \in 0..MaxLogins, NEW C, RequestOK(q, G, st, n, C),
           NEW G2, G \subseteq G2, NEW st2, WriteOnce(st, st2), NEW n2 \in 0..MaxLogins, n <= n2,
           NEW C2, C \subseteq C2, Fresh(q) => st2[q.rec.pre_auth] = None
    PROVE  RequestOK(q, G2, st2, n2, C2)
<1>1. q.sid \in Sids \cup {None} /\ q.rec \in Record
    BY DEF Request
<1>2. q.sid # None => EarnedIn(q.sid, q.rec, G2, st2)
    <2> SUFFICES ASSUME q.sid # None PROVE EarnedIn(q.sid, q.rec, G2, st2)
        OBVIOUS
    <2>1. q.sid \in Sids /\ EarnedIn(q.sid, q.rec, G, st)
        BY <1>1 DEF RequestOK
    <2> QED
        BY <1>1, <2>1, EarnedStays
<1>3. Fresh(q) => q.rec.pre_auth \in 1..n2 /\ st2[q.rec.pre_auth] = None
    BY SessionsAssumption DEF RequestOK
<1>4. ~Fresh(q) => PendingIn(q.sid, q.rec, st2, n2)
    BY SessionsAssumption DEF RequestOK, PendingIn, WriteOnce, Attempts
<1>5. GrantedIn(q, G) => GrantedIn(q, G2)
    BY DEF GrantedIn
<1>6. q.attempt \in 1..n => q.attempt \in 1..n2
    BY SessionsAssumption
<1> QED
    BY <1>2, <1>3, <1>4, <1>5, <1>6 DEF RequestOK

\* A step of one tab that changes nothing but the tab.
LEMMA TabStep ==
    ASSUME SessionsInv, NEW r \in Tabs, Others(r), tab' \in [Tabs -> Request],
           UNCHANGED <<doc, deploys, store, cookie, logins, redeemed, started, granted, closed>>,
           RequestOK(tab'[r], granted, started, logins, closed), ~Fresh(tab'[r])
    PROVE  SessionsInv'
<1>1. SessionsTypeOK' /\ from_document(doc').ok
    BY DEF SessionsInv, SessionsTypeOK
<1>2. AttemptsOK' /\ StoreOK'
    BY DEF SessionsInv, AttemptsOK, StoreOK, EarnedIn, PendingIn
<1>3. TabsOK'
    <2>1. ASSUME NEW p \in Tabs PROVE RequestOK(tab'[p], granted, started, logins, closed)
        BY DEF SessionsInv, TabsOK, Others
    <2> QED
        BY <2>1 DEF TabsOK
<1>4. FreshOnce'
    <2>1. ASSUME NEW p \in Tabs, Fresh(tab'[p]) PROVE p # r /\ tab'[p] = tab[p]
        BY <2>1 DEF Others
    <2> QED
        BY <2>1 DEF SessionsInv, FreshOnce
<1> QED
    BY <1>1, <1>2, <1>3, <1>4 DEF SessionsInv

----------------------------------------------------------------------------
(* The steps of a tab                                                      *)

LEMMA TabTypes ==
    ASSUME SessionsInv, NEW r \in Tabs
    PROVE  /\ tab \in [Tabs -> Request] /\ tab[r] \in Request /\ tab[r].sid \in Sids \cup {None}
           /\ tab[r].rec \in Record /\ tab[r].attempt \in Attempts \cup {None}
           /\ tab[r].slug \in Slugs \cup {None} /\ tab[r].run \in Runs \cup {None}
           /\ RequestOK(tab[r], granted, started, logins, closed)
BY DEF SessionsInv, SessionsTypeOK, TabsOK, Request

LEMMA IdleOK == RequestOK(Idle, granted, started, logins, closed) /\ ~Fresh(Idle)
BY DEF RequestOK, Idle, Empty, Fresh, PendingIn, EarnedIn

\* A request that was rejected, or answered without a change.
LEMMA ToIdle ==
    ASSUME SessionsInv, NEW r \in Tabs, tab' = [tab EXCEPT ![r] = Idle]
    PROVE  Others(r) /\ tab' \in [Tabs -> Request] /\ tab'[r] = Idle
BY TabTypes, IdleType DEF Others

LEMMA RejectStep ==
    ASSUME SessionsInv, NEW r \in Tabs, Reject(r)
    PROVE  SessionsInv'
BY ToIdle, IdleOK, TabStep DEF Reject

\* The request as it is sent.
LEMMA SentStep ==
    ASSUME SessionsInv, NEW r \in Tabs, NEW kind \in {"login", "logout", "callback", "active_tenant", "api"},
           NEW attempt \in Attempts \cup {None}, NEW slug \in Slugs \cup {None}, NEW run \in Runs \cup {None},
           kind = "callback" => attempt \in 1..logins, Sent(r, kind, attempt, slug, run),
           UNCHANGED <<doc, deploys, store, cookie, logins, redeemed, started, granted, closed>>
    PROVE  SessionsInv'
<1> DEFINE late == cookie \in closed
           new == [Idle EXCEPT !.kind = kind, !.attempt = attempt, !.slug = slug, !.run = run,
                               !.pc = "load", !.sid = cookie, !.late = late]
<1>1. cookie \in Sids \cup {None}
    BY DEF SessionsInv, SessionsTypeOK
<1>2. late \in BOOLEAN
    OBVIOUS
<1>3. tab' = [tab EXCEPT ![r] = new]
    BY DEF Sent
<1> HIDE DEF late
<1>4. /\ new \in Request /\ new.pc = "load" /\ new.sid = cookie /\ new.late = late /\ new.rec = Empty
      /\ new.kind = kind /\ new.attempt = attempt
    BY <1>1, <1>2, IdleType DEF Request, Idle
<1>5. ~new.served
    BY <1>1, <1>2, IdleType DEF Request, Idle
<1> HIDE DEF new
<1>6. Others(r) /\ tab' \in [Tabs -> Request] /\ tab'[r] = new
    BY <1>3, <1>4, TabTypes DEF Others
<1>7. new.late => new.sid \in closed
    BY <1>4, Zenon DEF late
<1>8. RequestOK(new, granted, started, logins, closed) /\ ~Fresh(new)
    BY <1>4, <1>5, <1>7 DEF RequestOK, Fresh, EarnedIn, PendingIn, Empty
<1> QED
    BY <1>6, <1>8, TabStep

LEMMA SendStep ==
    ASSUME SessionsInv, NEW r \in Tabs, Send(r)
    PROVE  SessionsInv'
<1>1. 1..logins \subseteq Attempts
    BY SessionsAssumption DEF SessionsInv, SessionsTypeOK, Attempts
<1>2. UNCHANGED <<doc, deploys, store, cookie, logins, redeemed, started, granted, closed>>
    BY DEF Send
<1>3. CASE \E kind \in {"login", "logout"} : Sent(r, kind, None, None, None)
    BY <1>2, <1>3, SentStep
<1>4. CASE \E t \in 1..logins : Sent(r, "callback", t, None, None)
    BY <1>1, <1>2, <1>4, SentStep
<1>5. CASE \E g \in Slugs : Sent(r, "active_tenant", None, g, None)
    BY <1>2, <1>5, SentStep
<1>6. CASE \E g \in Slugs, u \in Runs \cup {None} : Sent(r, "api", None, g, u)
    BY <1>2, <1>6, SentStep
<1> QED
    BY <1>3, <1>4, <1>5, <1>6 DEF Send

\* A record as loaded is as good as the store.
LEMMA LoadedOK ==
    ASSUME SessionsInv, NEW s \in Sids \cup {None}
    PROVE  /\ load(s) \in Record /\ load_id(s) \in Sids \cup {None}
           /\ load_id(s) = None => load(s) = Empty
           /\ load_id(s) # None => /\ load_id(s) = s /\ store[s] # None
                                   /\ EarnedIn(s, load(s), granted, started)
           /\ PendingIn(load_id(s), load(s), started, logins)
<1>1. /\ load(s) \in Record /\ load_id(s) \in Sids \cup {None}
      /\ load_id(s) = None => load(s) = Empty
      /\ load_id(s) # None => s \in Sids /\ load_id(s) = s /\ store[s] # None /\ load(s) = store[s]
    BY Loaded DEF SessionsInv
<1>2. CASE load_id(s) = None
    BY <1>1, <1>2 DEF PendingIn, Empty
<1>3. CASE load_id(s) # None
    BY <1>1, <1>3 DEF SessionsInv, StoreOK
<1> QED
    BY <1>1, <1>2, <1>3

LEMMA CallbackStep ==
    ASSUME SessionsInv, NEW r \in Tabs, callback(r)
    PROVE  SessionsInv'
<1> DEFINE sid == tab[r].sid
<1>1. tab[r] \in Request /\ sid \in Sids \cup {None} /\ RequestOK(tab[r], granted, started, logins, closed)
    BY TabTypes
<1>2. /\ load(sid) \in Record /\ (load_id(sid) = None => load(sid) = Empty)
      /\ load_id(sid) # None => load_id(sid) = sid /\ EarnedIn(sid, load(sid), granted, started)
      /\ PendingIn(load_id(sid), load(sid), started, logins)
    BY <1>1, LoadedOK
<1>3. tab[r].kind = "callback" /\ tab[r].pc = "load" /\ load(sid).pre_auth = tab[r].attempt
    BY DEF callback, Loads
<1>4. load(sid).pre_auth # None
    BY <1>1, <1>3, SessionsAssumption DEF RequestOK
<1>5. load_id(sid) # None
    BY <1>2, <1>4 DEF Empty
<1>6. /\ tab' \in [Tabs -> Request] /\ Others(r)
      /\ tab'[r].kind = "callback" /\ tab'[r].pc = "exchange" /\ tab'[r].sid = load_id(sid)
      /\ tab'[r].rec = load(sid) /\ tab'[r].served = tab[r].served
    BY <1>2, <1>3, Continued DEF callback, SessionsInv
<1> DEFINE q == tab'[r]
<1>7. ~q.served
    BY <1>1, <1>3, <1>6 DEF RequestOK
<1> HIDE DEF sid, q
<1>8. RequestOK(q, granted, started, logins, closed) /\ ~Fresh(q)
    BY <1>2, <1>4, <1>5, <1>6, <1>7 DEF RequestOK, Fresh, q
<1> QED
    BY <1>6, <1>8, TabStep DEF callback, q

LEMMA LogoutStep ==
    ASSUME SessionsInv, NEW r \in Tabs, logout(r)
    PROVE  SessionsInv'
<1>1. tab[r] \in Request /\ RequestOK(tab[r], granted, started, logins, closed)
    BY TabTypes
<1>2. tab[r].kind = "logout" /\ tab[r].pc = "load" /\ Empty \in Record
    BY DEF logout, Loads, Empty, Record
<1>3. /\ tab' \in [Tabs -> Request] /\ Others(r)
      /\ tab'[r].kind = "logout" /\ tab'[r].pc = "flush"
      /\ tab'[r].rec = Empty /\ tab'[r].served = tab[r].served
    BY <1>2, Continued DEF logout, SessionsInv
<1> DEFINE q == tab'[r]
<1>4. ~q.served
    BY <1>1, <1>2, <1>3 DEF RequestOK
<1> HIDE DEF q
<1>5. RequestOK(q, granted, started, logins, closed) /\ ~Fresh(q)
    BY <1>3, <1>4 DEF RequestOK, Fresh, EarnedIn, PendingIn, Empty, q
<1> QED
    BY <1>3, <1>5, TabStep DEF logout, q

LEMMA ActiveTenantStep ==
    ASSUME SessionsInv, NEW r \in Tabs, active_tenant(r)
    PROVE  SessionsInv'
<1> DEFINE sid == tab[r].sid
           rec == load(sid)
           new == [rec EXCEPT !.auth.active_tenant_context = tab[r].slug]
<1>1. /\ tab[r] \in Request /\ sid \in Sids \cup {None} /\ tab[r].slug \in Slugs \cup {None}
      /\ RequestOK(tab[r], granted, started, logins, closed)
    BY TabTypes
<1>2. /\ rec \in Record /\ (load_id(sid) = None => rec = Empty)
      /\ load_id(sid) # None => load_id(sid) = sid /\ EarnedIn(sid, rec, granted, started)
      /\ PendingIn(load_id(sid), rec, started, logins)
    BY <1>1, LoadedOK
<1>3. /\ tab[r].kind = "active_tenant" /\ tab[r].pc = "load"
      /\ rec.auth # None /\ tab[r].slug \in ToSet(rec.auth.authorized_slugs)
      /\ Continue(r, "respond", new)
    BY DEF active_tenant, Loads, Admits
<1>4. load_id(sid) # None
    BY <1>2, <1>3 DEF Empty
<1> HIDE DEF rec
<1>5. rec.auth \in AuthSession /\ tab[r].slug \in Slugs
    BY <1>2, <1>3 DEF Record, AuthSession, ToSet
<1>6. /\ new.auth = [rec.auth EXCEPT !.active_tenant_context = tab[r].slug]
      /\ new.pre_auth = rec.pre_auth
    BY <1>2 DEF Record
<1>7. /\ new.auth \in AuthSession /\ new.auth.attempt = rec.auth.attempt
      /\ new.auth.authorized_slugs = rec.auth.authorized_slugs
      /\ new.auth.active_tenant_context = tab[r].slug
    BY <1>5, <1>6 DEF AuthSession
<1>8. new \in Record
    BY <1>2, <1>7 DEF Record
<1> HIDE DEF new
<1>9. EarnedIn(sid, new, granted, started) /\ PendingIn(load_id(sid), new, started, logins)
    BY <1>2, <1>3, <1>4, <1>6, <1>7 DEF EarnedIn, PendingIn
<1>10. /\ tab' \in [Tabs -> Request] /\ Others(r)
       /\ tab'[r].kind = "active_tenant" /\ tab'[r].pc = "respond" /\ tab'[r].sid = load_id(sid)
       /\ tab'[r].rec = new /\ tab'[r].served = tab[r].served
    BY <1>3, <1>8, Continued DEF SessionsInv
<1> DEFINE q == tab'[r]
<1>11. ~q.served
    BY <1>1, <1>3, <1>10 DEF RequestOK
<1> HIDE DEF sid, q
<1>12. RequestOK(q, granted, started, logins, closed) /\ ~Fresh(q)
    BY <1>2, <1>4, <1>9, <1>10, <1>11 DEF RequestOK, Fresh, q
<1> QED
    BY <1>10, <1>12, TabStep DEF active_tenant, q

LEMMA AuthorizedTenantStep ==
    ASSUME SessionsInv, NEW r \in Tabs, AuthorizedTenant(r)
    PROVE  SessionsInv'
<1> DEFINE sid == tab[r].sid
           rec == load(sid)
<1>1. /\ tab[r] \in Request /\ sid \in Sids \cup {None}
      /\ RequestOK(tab[r], granted, started, logins, closed)
    BY TabTypes
<1>2. /\ rec \in Record /\ (load_id(sid) = None => rec = Empty)
      /\ load_id(sid) # None => load_id(sid) = sid /\ store[sid] # None /\ EarnedIn(sid, rec, granted, started)
      /\ PendingIn(load_id(sid), rec, started, logins)
    BY <1>1, LoadedOK
<1>3. /\ tab[r].kind = "api" /\ tab[r].pc = "load"
      /\ rec.auth # None /\ tab[r].slug \in ToSet(rec.auth.authorized_slugs)
      /\ Continue(r, "check_run", rec)
    BY DEF AuthorizedTenant, Loads, Admits
<1>4. load_id(sid) # None
    BY <1>2, <1>3 DEF Empty
\* The session was not logged out: its record is there.
<1>5. ~tab[r].late /\ ~tab[r].served
    BY <1>1, <1>2, <1>3, <1>4 DEF RequestOK, SessionsInv, AttemptsOK
<1> HIDE DEF rec
<1>6. /\ tab' \in [Tabs -> Request] /\ Others(r)
      /\ tab'[r].kind = "api" /\ tab'[r].pc = "check_run" /\ tab'[r].sid = load_id(sid)
      /\ tab'[r].rec = rec /\ tab'[r].served = tab[r].served
      /\ tab'[r].slug = tab[r].slug /\ tab'[r].late = tab[r].late
    BY <1>2, <1>3, Continued DEF SessionsInv
<1> DEFINE q == tab'[r]
<1>7. GrantedIn(q, granted)
    BY <1>2, <1>3, <1>4, <1>6 DEF GrantedIn, EarnedIn
<1>8. ~q.served /\ ~q.late
    BY <1>5, <1>6
<1> HIDE DEF sid, q
<1>9. RequestOK(q, granted, started, logins, closed) /\ ~Fresh(q)
    BY <1>2, <1>4, <1>6, <1>7, <1>8 DEF RequestOK, Fresh, q
<1> QED
    BY <1>6, <1>9, TabStep DEF AuthorizedTenant, q

\* A request that passed the extractor is served.
LEMMA ServeStep ==
    ASSUME SessionsInv, NEW r \in Tabs, tab[r].pc = "check_run", NEW rows \in SUBSET Runs,
           tab' = [tab EXCEPT ![r].pc = "respond", ![r].served = TRUE, ![r].rows = rows],
           \A u \in rows : ServedAs(tab[r], u) = tab[r].slug,
           UNCHANGED <<doc, deploys, store, cookie, logins, redeemed, started, granted, closed>>
    PROVE  SessionsInv'
<1> DEFINE q == tab'[r]
           yes == TRUE
<1>1. tab \in [Tabs -> Request] /\ tab[r] \in Request /\ RequestOK(tab[r], granted, started, logins, closed)
    BY TabTypes
<1>2. tab' = [tab EXCEPT ![r].pc = "respond", ![r].served = yes, ![r].rows = rows] /\ yes \in BOOLEAN
    OBVIOUS
<1> HIDE DEF yes
<1>4. q = [tab[r] EXCEPT !.pc = "respond", !.served = yes, !.rows = rows]
    BY <1>1, <1>2
<1>5. /\ q \in Request /\ q.pc = "respond" /\ q.kind = tab[r].kind /\ q.sid = tab[r].sid
      /\ q.rec = tab[r].rec /\ q.slug = tab[r].slug /\ q.run = tab[r].run /\ q.late = tab[r].late
      /\ q.rows = rows
    BY <1>1, <1>2, <1>4 DEF Request
<1>6. Others(r) /\ tab' \in [Tabs -> Request]
    BY <1>1, <1>2, <1>5 DEF Others
<1>7. GrantedIn(q, granted) /\ ~q.late /\ \A u \in q.rows : ServedAs(q, u) = q.slug
    BY <1>1, <1>5 DEF RequestOK, GrantedIn, ServedAs
<1> HIDE DEF q
<1>8. RequestOK(q, granted, started, logins, closed) /\ ~Fresh(q)
    BY <1>1, <1>5, <1>7 DEF RequestOK, Fresh
<1> QED
    BY <1>6, <1>8, TabStep DEF q

LEMMA ServeRunStep ==
    ASSUME SessionsInv, NEW r \in Tabs, ServeRun(r)
    PROVE  SessionsInv'
<1>1. /\ tab[r].pc = "check_run" /\ tab[r].run # None /\ TenantOf[tab[r].run] = tab[r].slug
      /\ tab' = [tab EXCEPT ![r].pc = "respond", ![r].served = TRUE, ![r].rows = {tab[r].run}]
      /\ UNCHANGED <<doc, deploys, store, cookie, logins, redeemed, started, granted, closed>>
    BY DEF ServeRun, check_run_in_slug
<1>2. {tab[r].run} \in SUBSET Runs
    BY <1>1, TabTypes
<1>3. \A u \in {tab[r].run} : ServedAs(tab[r], u) = tab[r].slug
    BY <1>1 DEF ServedAs
<1> QED
    BY <1>1, <1>2, <1>3, ServeStep

LEMMA ListRunsStep ==
    ASSUME SessionsInv, NEW r \in Tabs, list_runs(r)
    PROVE  SessionsInv'
<1> DEFINE rows == {u \in Runs : OwnerOf[u] = tab[r].slug}
<1>1. /\ tab[r].pc = "check_run" /\ tab[r].run = None
      /\ tab' = [tab EXCEPT ![r].pc = "respond", ![r].served = TRUE, ![r].rows = rows]
      /\ UNCHANGED <<doc, deploys, store, cookie, logins, redeemed, started, granted, closed>>
    BY DEF list_runs
<1>2. rows \in SUBSET Runs
    OBVIOUS
<1>3. \A u \in rows : ServedAs(tab[r], u) = tab[r].slug
    BY <1>1 DEF ServedAs
<1> HIDE DEF rows
<1> QED
    BY <1>1, <1>2, <1>3, ServeStep

\* What a step of one tab leaves to show: only that tab's own request.
LEMMA TabsStay ==
    ASSUME SessionsInv, SessionsTypeOK', NEW r \in Tabs, Others(r),
           granted \subseteq granted', WriteOnce(started, started'), logins <= logins', closed \subseteq closed',
           RequestOK(tab'[r], granted', started', logins', closed'),
           \A p \in Tabs : p # r /\ Fresh(tab[p]) =>
               /\ started'[tab[p].rec.pre_auth] = None
               /\ Fresh(tab'[r]) => tab[p].rec.pre_auth # tab'[r].rec.pre_auth
    PROVE  TabsOK' /\ FreshOnce'
<1>1. ASSUME NEW p \in Tabs PROVE RequestOK(tab'[p], granted', started', logins', closed')
    <2>1. CASE p = r
        BY <2>1
    <2>2. CASE p # r
        <3>1. tab[p] \in Request /\ RequestOK(tab[p], granted, started, logins, closed) /\ tab'[p] = tab[p]
            BY <2>2, TabTypes DEF Others
        <3>2. Fresh(tab[p]) => started'[tab[p].rec.pre_auth] = None
            BY <2>2
        <3>3. logins \in 0..MaxLogins /\ logins' \in 0..MaxLogins
            BY DEF SessionsInv, SessionsTypeOK
        <3>4. RequestOK(tab[p], granted', started', logins', closed')
            BY <3>1, <3>2, <3>3, RequestStays
        <3> QED
            BY <3>1, <3>4
    <2> QED
        BY <2>1, <2>2
<1>2. ASSUME NEW p \in Tabs, NEW q \in Tabs, Fresh(tab'[p]), Fresh(tab'[q]),
             tab'[p].rec.pre_auth = tab'[q].rec.pre_auth
      PROVE  p = q
    <2>1. CASE p # r /\ q # r
        <3>1. tab'[p] = tab[p] /\ tab'[q] = tab[q]
            BY <2>1 DEF Others
        <3> QED
            BY <1>2, <3>1 DEF SessionsInv, FreshOnce
    <2>2. CASE p = r /\ q # r
        BY <1>2, <2>2 DEF Others
    <2>3. CASE p # r /\ q = r
        BY <1>2, <2>3 DEF Others
    <2> QED
        BY <2>1, <2>2, <2>3
<1> QED
    BY <1>1, <1>2 DEF TabsOK, FreshOnce

LEMMA LoginStep ==
    ASSUME SessionsInv, NEW r \in Tabs, login(r)
    PROVE  SessionsInv'
<1> DEFINE sid == tab[r].sid
           rec == load(sid)
           new == store_pre_auth(rec, logins + 1)
           q == tab'[r]
<1>1. /\ tab[r] \in Request /\ sid \in Sids \cup {None}
      /\ RequestOK(tab[r], granted, started, logins, closed)
    BY TabTypes
<1>2. /\ rec \in Record /\ (load_id(sid) = None => rec = Empty) /\ load_id(sid) \in Sids \cup {None}
      /\ load_id(sid) # None => load_id(sid) = sid /\ EarnedIn(sid, rec, granted, started)
    BY <1>1, LoadedOK
<1>3. /\ tab[r].kind = "login" /\ tab[r].pc = "load" /\ logins' = logins + 1
      /\ Continue(r, "respond", new)
      /\ UNCHANGED <<doc, deploys, store, cookie, redeemed, started, granted, closed>>
    BY DEF login, Loads
<1>4. logins \in Nat /\ logins' \in 0..MaxLogins /\ logins + 1 \in Attempts /\ logins + 1 \in Nat
    BY SessionsAssumption DEF SessionsInv, SessionsTypeOK, Attempts, login
<1> HIDE DEF rec
<1>5. new \in Record /\ new.auth = rec.auth /\ new.pre_auth = logins + 1
    BY <1>2, <1>4 DEF store_pre_auth, Record
<1> HIDE DEF new
<1>6. /\ tab' \in [Tabs -> Request] /\ Others(r)
      /\ q.kind = "login" /\ q.pc = "respond" /\ q.sid = load_id(sid)
      /\ q.rec = new /\ q.served = tab[r].served
    BY <1>3, <1>5, Continued DEF SessionsInv
<1>7. /\ \A t \in Attempts : t > logins => started[t] = None
      /\ \A g \in granted : g.attempt \in 1..logins /\ started[g.attempt] = g.sid
      /\ \A s \in closed : store[s] = None
    BY DEF SessionsInv, AttemptsOK
<1>8. SessionsTypeOK' /\ from_document(doc').ok
    BY <1>3, <1>4, <1>6 DEF SessionsInv, SessionsTypeOK
<1>9. AttemptsOK'
    BY <1>3, <1>4, <1>7 DEF AttemptsOK, Attempts
<1>10. StoreOK'
    <2>1. ASSUME NEW s \in Sids, store[s] # None
          PROVE  EarnedIn(s, store[s], granted, started) /\ PendingIn(s, store[s], started, logins + 1)
        <3>1. EarnedIn(s, store[s], granted, started) /\ PendingIn(s, store[s], started, logins)
            BY <2>1 DEF SessionsInv, StoreOK
        <3> QED
            BY <1>4, <3>1 DEF PendingIn
    <2> QED
        BY <1>3, <2>1 DEF StoreOK
\* The attempt is new: no login completed with it.
<1>11. q.sid # None => EarnedIn(q.sid, new, granted, started)
    BY <1>2, <1>4, <1>5, <1>6, <1>7 DEF EarnedIn
<1>12. q.sid = None => new.auth = None
    BY <1>2, <1>5, <1>6 DEF Empty
<1>13. ~q.served
    BY <1>1, <1>3, <1>6 DEF RequestOK
<1>14. started[logins + 1] = None /\ logins + 1 \in 1..logins'
    BY <1>3, <1>4, <1>7
<1>15. RequestOK(q, granted', started', logins', closed')
    <2> HIDE DEF q
    <2> QED
        BY <1>3, <1>5, <1>6, <1>11, <1>12, <1>13, <1>14 DEF RequestOK, Fresh, q
<1>16. \A p \in Tabs : p # r /\ Fresh(tab[p]) =>
           /\ started'[tab[p].rec.pre_auth] = None
           /\ tab[p].rec.pre_auth # q.rec.pre_auth
    <2>1. ASSUME NEW p \in Tabs, Fresh(tab[p])
          PROVE  tab[p].rec.pre_auth \in 1..logins /\ started[tab[p].rec.pre_auth] = None
        BY <2>1, TabTypes DEF RequestOK
    <2> QED
        BY <1>3, <1>4, <1>5, <1>6, <2>1
<1>17. TabsOK' /\ FreshOnce'
    <2>1. WriteOnce(started, started') /\ logins <= logins'
        BY <1>3, <1>4 DEF WriteOnce
    <2> QED
        BY <1>3, <1>6, <1>8, <1>15, <1>16, <2>1, TabsStay
<1> QED
    BY <1>8, <1>9, <1>10, <1>17 DEF SessionsInv

LEMMA ExpireStep ==
    ASSUME SessionsInv, NEW s \in Sids, Expire(s)
    PROVE  SessionsInv'
<1>1. /\ store' = [store EXCEPT ![s] = None]
      /\ UNCHANGED <<doc, deploys, cookie, logins, redeemed, tab, started, granted, closed>>
    BY DEF Expire
<1>2. SessionsTypeOK' /\ from_document(doc').ok
    BY <1>1 DEF SessionsInv, SessionsTypeOK
<1>3. \A u \in Sids : store'[u] = IF u = s THEN None ELSE store[u]
    BY <1>1 DEF SessionsInv, SessionsTypeOK
<1>4. AttemptsOK'
    BY <1>1, <1>3 DEF SessionsInv, SessionsTypeOK, AttemptsOK
<1>5. StoreOK'
    BY <1>1, <1>3 DEF SessionsInv, StoreOK
<1>6. TabsOK' /\ FreshOnce'
    BY <1>1 DEF SessionsInv, TabsOK, FreshOnce
<1> QED
    BY <1>2, <1>4, <1>5, <1>6 DEF SessionsInv

LEMMA DeployStep ==
    ASSUME SessionsInv, Deploy
    PROVE  SessionsInv'
<1>1. /\ deploys < MaxDeploys /\ deploys' = deploys + 1
      /\ doc' \in Docs /\ from_document(doc').ok /\ tab' = [r \in Tabs |-> Idle]
      /\ UNCHANGED <<store, cookie, logins, redeemed, started, granted, closed>>
    BY DEF Deploy
<1>2. SessionsTypeOK'
    BY <1>1, IdleType, SessionsAssumption DEF SessionsInv, SessionsTypeOK
<1>3. AttemptsOK' /\ StoreOK'
    BY <1>1 DEF SessionsInv, AttemptsOK, StoreOK
<1>4. TabsOK' /\ FreshOnce'
    <2>1. \A r \in Tabs : tab'[r] = Idle
        BY <1>1
    <2> QED
        BY <1>1, <2>1, IdleOK DEF TabsOK, FreshOnce
<1> QED
    BY <1>1, <1>2, <1>3, <1>4 DEF SessionsInv

\* The tab is done, and records were deleted at most.
LEMMA DropStep ==
    ASSUME SessionsInv, NEW r \in Tabs, tab' = [tab EXCEPT ![r] = Idle],
           store' \in [Sids -> Record \cup {None}], \A s \in Sids : store'[s] \in {None, store[s]},
           closed \subseteq closed', closed' \subseteq Sids, \A s \in closed' : store'[s] = None,
           cookie' \in Sids \cup {None},
           UNCHANGED <<doc, deploys, logins, redeemed, started, granted>>
    PROVE  SessionsInv'
<1>1. Others(r) /\ tab' \in [Tabs -> Request] /\ tab'[r] = Idle
    BY ToIdle
<1>2. SessionsTypeOK' /\ from_document(doc').ok
    BY <1>1 DEF SessionsInv, SessionsTypeOK
<1>3. AttemptsOK'
    BY DEF SessionsInv, AttemptsOK
<1>4. StoreOK'
    BY DEF SessionsInv, StoreOK
<1>5. TabsOK' /\ FreshOnce'
    <2>1. WriteOnce(started, started') /\ logins <= logins' /\ granted \subseteq granted'
        BY DEF WriteOnce, SessionsInv, SessionsTypeOK
    <2>2. RequestOK(tab'[r], granted', started', logins', closed') /\ ~Fresh(tab'[r])
        BY <1>1 DEF RequestOK, Idle, Empty, Fresh, PendingIn, EarnedIn
    <2>3. \A p \in Tabs : Fresh(tab[p]) => started'[tab[p].rec.pre_auth] = None
        BY TabTypes DEF RequestOK
    <2> QED
        BY <1>1, <1>2, <2>1, <2>2, <2>3, TabsStay
<1> QED
    BY <1>2, <1>3, <1>4, <1>5 DEF SessionsInv

LEMMA FlushStep ==
    ASSUME SessionsInv, NEW r \in Tabs, flush(r)
    PROVE  SessionsInv'
<1> DEFINE sid == tab[r].sid
<1>1. /\ tab' = [tab EXCEPT ![r] = Idle] /\ cookie' = None
      /\ UNCHANGED <<doc, deploys, logins, redeemed, started, granted>>
    BY DEF flush
<1>2. /\ store \in [Sids -> Record \cup {None}] /\ closed \subseteq Sids /\ sid \in Sids \cup {None}
      /\ \A s \in closed : store[s] = None
    BY TabTypes DEF SessionsInv, SessionsTypeOK, AttemptsOK
<1>3. CASE UNCHANGED <<store, closed>>
    BY <1>1, <1>2, <1>3, DropStep
<1>4. CASE /\ store' = [s \in Sids |-> IF s = sid THEN None ELSE store[s]]
           /\ closed' = closed \cup ({sid} \ {None})
    <2>1. store' \in [Sids -> Record \cup {None}] /\ \A s \in Sids : store'[s] \in {None, store[s]}
        BY <1>2, <1>4
    <2>2. closed \subseteq closed' /\ closed' \subseteq Sids /\ \A s \in closed' : store'[s] = None
        BY <1>2, <1>4
    <2> QED
        BY <1>1, <2>1, <2>2, DropStep
<1> QED
    BY <1>3, <1>4 DEF flush

\* The record a completed login leaves.
LEMMA AnswerOK ==
    ASSUME SessionsInv, NEW r \in Tabs, tab[r].pc = "exchange", NEW claims \in Claims
    PROVE  LET new == callback_answer(r, claims)
               grant == [sid |-> tab[r].sid, attempt |-> tab[r].rec.pre_auth,
                         claims |-> claims, doc |-> doc]
           IN  /\ new \in Record /\ new.pre_auth = None
               /\ grant \in [sid : Sids, attempt : Attempts, claims : Claims, doc : Docs]
               /\ grant.attempt \in 1..logins /\ started[grant.attempt] = grant.sid
               /\ EarnedIn(tab[r].sid, new, granted \cup {grant}, started)
<1> DEFINE sid == tab[r].sid
           rec == tab[r].rec
           t == tab[r].rec.pre_auth
           slugs == resolve_authorized_slugs(claims)
           new == callback_answer(r, claims)
           grant == [sid |-> sid, attempt |-> t, claims |-> claims, doc |-> doc]
<1>1. doc \in Docs /\ from_document(doc).ok /\ logins \in 0..MaxLogins
    BY DEF SessionsInv, SessionsTypeOK
<1>2. slugs \in Seq(Slugs) /\ ToSet(slugs) = Entitled(doc, claims)
    BY <1>1, ResolveIsEntitled
<1>3. sid \in Sids \cup {None} /\ rec \in Record /\ RequestOK(tab[r], granted, started, logins, closed)
    BY TabTypes
<1>4. t \in 1..logins /\ sid # None /\ started[t] = sid
    BY <1>3 DEF RequestOK, Fresh, PendingIn
<1>5. t \in Attempts /\ t # None /\ sid \in Sids
    BY <1>1, <1>3, <1>4, SessionsAssumption DEF Attempts
<1>6. /\ grant \in [sid : Sids, attempt : Attempts, claims : Claims, doc : Docs]
      /\ grant.sid = sid /\ grant.attempt = t /\ grant.claims = claims /\ grant.doc = doc
    BY <1>1, <1>5
<1>7. EarnedIn(sid, rec, granted, started)
    BY <1>3, <1>5, SessionsAssumption DEF RequestOK
<1>8. new \in Record /\ new.pre_auth = None /\ EarnedIn(sid, new, granted \cup {grant}, started)
    <2> DEFINE auth == [attempt |-> t, authorized_slugs |-> slugs, active_tenant_context |-> slugs[1]]
    <2>1. CASE slugs = << >>
        <3>1. new = [rec EXCEPT !.pre_auth = None]
            BY <2>1 DEF callback_answer, clear_pre_auth
        <3>2. new \in Record /\ new.pre_auth = None /\ new.auth = rec.auth
            BY <1>3, <3>1 DEF Record
        <3>3. new.auth # None => new.auth.attempt # None
            BY <3>2, SessionsAssumption DEF Record, AuthSession, Attempts
        <3> HIDE DEF new, grant
        <3> QED
            BY <1>7, <3>2, <3>3 DEF EarnedIn
    <2>2. CASE slugs # << >>
        <3>1. new = [[rec EXCEPT !.auth = auth] EXCEPT !.pre_auth = None]
            BY <2>2 DEF callback_answer, clear_pre_auth, store_auth
        <3> HIDE DEF slugs
        <3>2. slugs[1] \in ToSet(slugs) /\ slugs[1] \in Slugs
            BY <1>2, <2>2 DEF ToSet
        <3>3. auth \in AuthSession /\ auth.attempt = t /\ auth.authorized_slugs = slugs
              /\ auth.active_tenant_context = slugs[1]
            BY <1>2, <1>5, <3>2 DEF AuthSession
        <3> HIDE DEF auth
        <3>4. new \in Record /\ new.pre_auth = None /\ new.auth = auth
            BY <1>3, <3>1, <3>3 DEF Record
        <3> HIDE DEF new, grant
        <3>5. grant \in granted \cup {grant}
            OBVIOUS
        <3>6. \E g \in granted \cup {grant} :
                  /\ g.sid = sid /\ g.attempt = t /\ started[g.attempt] = sid
                  /\ ToSet(slugs) = Entitled(g.doc, g.claims)
            BY <1>2, <1>4, <1>6, <3>5
        <3> QED
            BY <1>5, <3>2, <3>3, <3>4, <3>6 DEF EarnedIn
    <2> QED
        BY <2>1, <2>2
<1> QED
    BY <1>4, <1>6, <1>8

LEMMA ExchangeStep ==
    ASSUME SessionsInv, NEW r \in Tabs, exchange(r)
    PROVE  SessionsInv'
<1> DEFINE sid == tab[r].sid
           t == tab[r].rec.pre_auth
           q == tab'[r]
<1>1. PICK claims \in Claims :
          /\ tab' = [tab EXCEPT ![r].pc = "respond", ![r].modified = TRUE,
                                ![r].rec = callback_answer(r, claims)]
          /\ granted' = granted \cup {[sid |-> sid, attempt |-> t, claims |-> claims, doc |-> doc]}
    BY DEF exchange
<1> DEFINE new == callback_answer(r, claims)
           grant == [sid |-> sid, attempt |-> t, claims |-> claims, doc |-> doc]
           yes == TRUE
<1>2. /\ tab[r].pc = "exchange" /\ redeemed' = redeemed \cup {t}
      /\ UNCHANGED <<doc, deploys, store, cookie, logins, started, closed>>
    BY DEF exchange
<1>3. /\ new \in Record /\ new.pre_auth = None
      /\ grant \in [sid : Sids, attempt : Attempts, claims : Claims, doc : Docs]
      /\ grant.attempt \in 1..logins /\ started[grant.attempt] = grant.sid /\ grant.attempt = t
      /\ EarnedIn(sid, new, granted \cup {grant}, started)
    BY <1>2, AnswerOK
<1>4. tab' = [tab EXCEPT ![r].pc = "respond", ![r].modified = yes, ![r].rec = new] /\ yes \in BOOLEAN
    BY <1>1
<1>5. granted' = granted \cup {grant}
    BY <1>1
<1> HIDE DEF new, grant, yes
<1>6. /\ tab \in [Tabs -> Request] /\ tab[r] \in Request /\ sid \in Sids \cup {None}
      /\ RequestOK(tab[r], granted, started, logins, closed)
    BY TabTypes
<1>7. q = [tab[r] EXCEPT !.pc = "respond", !.modified = yes, !.rec = new]
    BY <1>4, <1>6
<1>8. /\ q \in Request /\ q.pc = "respond" /\ q.kind = tab[r].kind /\ q.sid = sid /\ q.rec = new
      /\ q.served = tab[r].served
    <2>1. new \in Record /\ yes \in BOOLEAN /\ tab[r] \in Request
        BY <1>3, <1>4, <1>6
    <2> QED
        BY <1>7, <2>1 DEF Request
<1>9. Others(r) /\ tab' \in [Tabs -> Request]
    BY <1>4, <1>6, <1>8 DEF Others
<1>10. t \in Attempts
    BY <1>3
<1>11. SessionsTypeOK' /\ from_document(doc').ok
    BY <1>2, <1>3, <1>5, <1>9, <1>10 DEF SessionsInv, SessionsTypeOK
<1>12. AttemptsOK'
    BY <1>2, <1>3, <1>5 DEF SessionsInv, AttemptsOK
<1>13. WriteOnce(started, started') /\ logins <= logins' /\ granted \subseteq granted' /\ closed \subseteq closed'
    BY <1>2, <1>5 DEF WriteOnce, SessionsInv, SessionsTypeOK
<1>14. StoreOK'
    <2>1. ASSUME NEW s \in Sids, store[s] # None
          PROVE  EarnedIn(s, store[s], granted', started) /\ PendingIn(s, store[s], started, logins)
        <3>1. /\ EarnedIn(s, store[s], granted, started) /\ PendingIn(s, store[s], started, logins)
              /\ store[s] \in Record
            BY <2>1 DEF SessionsInv, StoreOK, SessionsTypeOK
        <3>2. WriteOnce(started, started)
            BY DEF WriteOnce
        <3> QED
            BY <1>13, <3>1, <3>2, EarnedStays
    <2> QED
        BY <1>2, <2>1 DEF StoreOK
<1>15. ~q.served /\ q.kind # "login" /\ sid # None
    BY <1>2, <1>6, <1>8 DEF RequestOK, PendingIn, Fresh
<1>16. RequestOK(q, granted', started', logins', closed') /\ ~Fresh(q)
    <2> HIDE DEF q
    <2> QED
        BY <1>2, <1>3, <1>5, <1>8, <1>15 DEF RequestOK, Fresh, PendingIn
<1>17. TabsOK' /\ FreshOnce'
    <2>1. \A p \in Tabs : Fresh(tab[p]) => started'[tab[p].rec.pre_auth] = None
        BY <1>2, TabTypes DEF RequestOK
    <2> QED
        BY <1>9, <1>11, <1>13, <1>16, <2>1, TabsStay
<1> QED
    BY <1>11, <1>12, <1>14, <1>17 DEF SessionsInv

\* The middleware writes the record under its session, or under a new one.
LEMMA SaveStep ==
    ASSUME SessionsInv, NEW r \in Tabs, tab' = [tab EXCEPT ![r] = Idle], tab[r].pc = "respond",
           NEW s \in Sids, s \notin closed, tab[r].sid \in {None, s},
           store' = [store EXCEPT ![s] = tab[r].rec], cookie' = s,
           started' = IF tab[r].kind = "login" THEN [started EXCEPT ![tab[r].rec.pre_auth] = s] ELSE started,
           UNCHANGED <<doc, deploys, logins, redeemed, granted, closed>>
    PROVE  SessionsInv'
<1> DEFINE q == tab[r]
           t == tab[r].rec.pre_auth
<1>1. /\ q.rec \in Record /\ q.sid \in Sids \cup {None}
      /\ RequestOK(q, granted, started, logins, closed)
    BY TabTypes
<1>2. Others(r) /\ tab' \in [Tabs -> Request] /\ tab'[r] = Idle
    BY ToIdle
<1>3. /\ store \in [Sids -> Record \cup {None}] /\ started \in [Attempts -> Sids \cup {None}]
      /\ logins \in 0..MaxLogins /\ granted \subseteq [sid : Sids, attempt : Attempts, claims : Claims, doc : Docs]
    BY DEF SessionsInv, SessionsTypeOK
<1>4. Fresh(q) => t \in 1..logins /\ t \in Attempts /\ started[t] = None
    BY <1>1, <1>3, SessionsAssumption DEF RequestOK, Attempts
<1>5. IF Fresh(q) THEN started' = [started EXCEPT ![t] = s] ELSE started' = started
    BY DEF Fresh
<1>6. started' \in [Attempts -> Sids \cup {None}]
    BY <1>3, <1>5
<1>7. WriteOnce(started, started')
    BY <1>3, <1>4, <1>5 DEF WriteOnce
<1>8. SessionsTypeOK' /\ from_document(doc').ok
    BY <1>1, <1>2, <1>3, <1>6 DEF SessionsInv, SessionsTypeOK
<1>9. EarnedIn(s, q.rec, granted, started') /\ PendingIn(s, q.rec, started', logins)
    <2>1. EarnedIn(s, q.rec, granted, started)
        BY <1>1 DEF RequestOK, EarnedIn
    <2>2. EarnedIn(s, q.rec, granted, started')
        BY <1>1, <1>7, <2>1, EarnedStays
    <2>3. CASE Fresh(q)
        BY <1>3, <1>4, <1>5, <2>2, <2>3, SessionsAssumption DEF PendingIn
    <2>4. CASE ~Fresh(q)
        BY <1>1, <1>5, <2>2, <2>4 DEF RequestOK, PendingIn
    <2> QED
        BY <2>3, <2>4
<1>10. StoreOK'
    <2>1. ASSUME NEW u \in Sids, store'[u] # None
          PROVE  EarnedIn(u, store'[u], granted, started') /\ PendingIn(u, store'[u], started', logins)
        <3>1. CASE u = s
            BY <1>3, <1>9, <3>1
        <3>2. CASE u # s
            <4>1. store'[u] = store[u] /\ store[u] \in Record
                BY <1>3, <2>1, <3>2
            <4>2. EarnedIn(u, store[u], granted, started) /\ PendingIn(u, store[u], started, logins)
                BY <2>1, <4>1 DEF SessionsInv, StoreOK
            <4>3. EarnedIn(u, store[u], granted, started')
                BY <1>7, <4>1, <4>2, EarnedStays
            <4>4. PendingIn(u, store[u], started', logins)
                BY <1>3, <1>7, <4>2, SessionsAssumption DEF PendingIn, WriteOnce, Attempts
            <4> QED
                BY <4>1, <4>3, <4>4
        <3> QED
            BY <3>1, <3>2
    <2> QED
        BY <2>1 DEF StoreOK
<1>11. AttemptsOK'
    <2>1. \A u \in closed : store'[u] = None
        BY <1>3 DEF SessionsInv, AttemptsOK, SessionsTypeOK
    <2>2. \A u \in Attempts : u > logins => started'[u] = None
        BY <1>3, <1>4, <1>5 DEF SessionsInv, AttemptsOK
    <2>3. \A g \in granted : g.attempt \in 1..logins /\ started'[g.attempt] = g.sid
        BY <1>3, <1>7, SessionsAssumption DEF SessionsInv, AttemptsOK, WriteOnce
    <2> QED
        BY <2>1, <2>2, <2>3 DEF AttemptsOK
<1>12. TabsOK' /\ FreshOnce'
    <2>1. logins <= logins' /\ granted \subseteq granted' /\ closed \subseteq closed'
        BY <1>3
    <2>2. RequestOK(tab'[r], granted', started', logins', closed') /\ ~Fresh(tab'[r])
        BY <1>2 DEF RequestOK, Idle, Empty, Fresh, PendingIn, EarnedIn
    <2>3. ASSUME NEW p \in Tabs, p # r, Fresh(tab[p]) PROVE started'[tab[p].rec.pre_auth] = None
        <3>1. started[tab[p].rec.pre_auth] = None /\ tab[p].rec.pre_auth \in 1..logins
            BY <2>3, TabTypes DEF RequestOK
        <3>2. Fresh(q) => tab[p].rec.pre_auth # t
            BY <2>3 DEF SessionsInv, FreshOnce
        <3>3. tab[p].rec.pre_auth \in Attempts
            BY <1>3, <3>1, SessionsAssumption DEF Attempts
        <3> QED
            BY <1>3, <1>5, <3>1, <3>2, <3>3
    <2> QED
        BY <1>2, <1>7, <1>8, <2>1, <2>2, <2>3, TabsStay
<1> QED
    BY <1>8, <1>10, <1>11, <1>12 DEF SessionsInv

LEMMA RespondStep ==
    ASSUME SessionsInv, NEW r \in Tabs, Respond(r)
    PROVE  SessionsInv'
<1> DEFINE q == tab[r]
           Unused == {s \in Sids : store[s] = None /\ s \notin closed /\ \A t \in Attempts : started[t] # s}
           Save(s) ==
               /\ store' = [store EXCEPT ![s] = q.rec]
               /\ cookie' = s
               /\ started' = IF q.kind = "login" THEN [started EXCEPT ![q.rec.pre_auth] = s] ELSE started
<1>1. /\ q.pc = "respond" /\ tab' = [tab EXCEPT ![r] = Idle]
      /\ UNCHANGED <<doc, deploys, logins, redeemed, granted, closed>>
    BY DEF Respond
<1>2. /\ store \in [Sids -> Record \cup {None}] /\ closed \subseteq Sids /\ q.sid \in Sids \cup {None}
      /\ cookie \in Sids \cup {None} /\ \A s \in closed : store[s] = None
    BY TabTypes DEF SessionsInv, SessionsTypeOK, AttemptsOK
<1>3. CASE UNCHANGED <<store, cookie, started>>
    BY <1>1, <1>2, <1>3, DropStep
<1>4. CASE store' = [s \in Sids |-> IF s = q.sid THEN None ELSE store[s]] /\ cookie' = None /\ UNCHANGED started
    BY <1>1, <1>2, <1>4, DropStep
<1>5. CASE q.sid = None /\ Unused # {} /\ Save(CHOOSE s \in Unused : TRUE)
    <2> DEFINE s == CHOOSE u \in Unused : TRUE
    <2>1. s \in Unused /\ Save(s)
        BY <1>5
    <2> HIDE DEF s
    <2>2. s \in Sids /\ s \notin closed
        BY <2>1
    <2> QED
        BY <1>1, <1>5, <2>1, <2>2, SaveStep
<1>6. CASE q.sid # None /\ store[q.sid] # None /\ Save(q.sid)
    <2>1. q.sid \in Sids /\ q.sid \notin closed
        BY <1>2, <1>6
    <2> QED
        BY <1>1, <1>6, <2>1, SaveStep
<1>7. CASE cookie' = q.sid /\ UNCHANGED <<store, started>>
    BY <1>1, <1>2, <1>7, DropStep
<1> QED
    BY <1>3, <1>4, <1>5, <1>6, <1>7 DEF Respond

----------------------------------------------------------------------------
(* Theorems                                                                *)

LEMMA InitInv == SessionsInit => SessionsInv
<1> SUFFICES ASSUME SessionsInit PROVE SessionsInv
    OBVIOUS
<1>1. \A r \in Tabs : tab[r] = Idle
    BY DEF SessionsInit
<1>2. SessionsTypeOK /\ from_document(doc).ok
    BY IdleType, SessionsAssumption DEF SessionsInit, SessionsTypeOK
<1>3. AttemptsOK /\ StoreOK
    BY DEF SessionsInit, AttemptsOK, StoreOK
<1>4. TabsOK /\ FreshOnce
    BY <1>1, IdleOK DEF TabsOK, FreshOnce
<1> QED
    BY <1>2, <1>3, <1>4 DEF SessionsInv

LEMMA NextInv == SessionsInv /\ [SessionsNext]_sessionsVars => SessionsInv'
<1> SUFFICES ASSUME SessionsInv, [SessionsNext]_sessionsVars PROVE SessionsInv'
    OBVIOUS
<1>1. CASE UNCHANGED sessionsVars
    BY <1>1 DEF sessionsVars, SessionsInv, SessionsTypeOK, AttemptsOK, StoreOK, TabsOK, FreshOnce
<1>2. ASSUME NEW r \in Tabs, Send(r) \/ Reject(r) \/ login(r) \/ callback(r) \/ exchange(r) \/ logout(r)
      PROVE  SessionsInv'
    BY <1>2, SendStep, RejectStep, LoginStep, CallbackStep, ExchangeStep, LogoutStep
<1>3. ASSUME NEW r \in Tabs,
             flush(r) \/ active_tenant(r) \/ AuthorizedTenant(r) \/ ServeRun(r) \/ list_runs(r) \/ Respond(r)
      PROVE  SessionsInv'
    BY <1>3, FlushStep, ActiveTenantStep, AuthorizedTenantStep, ServeRunStep, ListRunsStep, RespondStep
<1>4. ASSUME NEW s \in Sids, Expire(s) PROVE SessionsInv'
    BY <1>4, ExpireStep
<1>5. CASE Deploy
    BY <1>5, DeployStep
<1> QED
    BY <1>1, <1>2, <1>3, <1>4, <1>5 DEF SessionsNext

\* The inductive invariant holds: whatever the tabs send and however their
\* whole-record writes interleave.
THEOREM SessionsInvHolds == SessionsSpec => []SessionsInv
BY InitInv, NextInv, PTL DEF SessionsSpec

\* Every variable has its type.
THEOREM SessionsTypeTheorem == SessionsSpec => []SessionsTypeOK
<1>1. SessionsInv => SessionsTypeOK
    BY DEF SessionsInv
<1> QED
    BY <1>1, SessionsInvHolds, PTL

\* A session never holds slugs other than those a completed login of that very
\* session was entitled to by the document of that time.
THEOREM AuthIsEarnedTheorem == SessionsSpec => []AuthIsEarned
<1>1. SessionsInv => AuthIsEarned
    BY DEF SessionsInv, StoreOK, TabsOK, RequestOK, EarnedIn, AuthIsEarned, Earned
<1> QED
    BY <1>1, SessionsInvHolds, PTL

\* No request sent after its session was logged out and its record deleted is served.
THEOREM LogoutIsFinalTheorem == SessionsSpec => []LogoutIsFinal
<1>1. SessionsInv => LogoutIsFinal
    BY DEF SessionsInv, TabsOK, RequestOK, LogoutIsFinal
<1> QED
    BY <1>1, SessionsInvHolds, PTL

\* Whatever the protected routes of server/src/lib.rs serve was asked for under a
\* slug a login of this very session was entitled to; a run served by itself is of
\* a tenant among these, a run that list_runs serves has an owner with such a name.
THEOREM ServedIsGrantedTheorem == SessionsSpec => []ServedIsGranted
<1>1. SessionsInv => ServedIsGranted
    <2> SUFFICES ASSUME SessionsInv, NEW r \in Tabs, tab[r].served
                 PROVE  \E g \in granted :
                            /\ g.sid = tab[r].sid /\ tab[r].slug \in Entitled(g.doc, g.claims)
                            /\ \A u \in tab[r].rows :
                                   (IF tab[r].run = None THEN OwnerOf[u] ELSE TenantOf[u])
                                       \in Entitled(g.doc, g.claims)
        BY DEF ServedIsGranted
    <2>1. GrantedIn(tab[r], granted) /\ \A u \in tab[r].rows : ServedAs(tab[r], u) = tab[r].slug
        BY DEF SessionsInv, TabsOK, RequestOK
    <2> QED
        BY <2>1 DEF GrantedIn, ServedAs
<1> QED
    BY <1>1, SessionsInvHolds, PTL

\* The registry of every document a server runs with finds every tenant of it under
\* each of its keys, and nothing else.
THEOREM RegistryIsFaithfulTheorem == SessionsSpec => []RegistryIsFaithful
<1>1. SessionsInv => RegistryIsFaithful
    <2> SUFFICES ASSUME SessionsInv PROVE RegistryIsFaithful
        OBVIOUS
    <2>1. doc \in Document /\ from_document(doc).ok
        BY SessionsAssumption DEF SessionsInv, SessionsTypeOK
    <2> QED
        BY <2>1, FaithfulTheorem DEF RegistryIsFaithful, registry
<1> QED
    BY <1>1, SessionsInvHolds, PTL

============================================================================
