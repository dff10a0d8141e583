------------------------------ MODULE Tenancy ------------------------------
(***************************************************************************)
(* The tenancy document (tenancy/src/lib.rs): the GitHub Apps and the      *)
(* tenants bound to them, how the document is checked when the server      *)
(* starts, and the three indexes requests are resolved with.               *)
(***************************************************************************)
EXTENDS Integers, Sequences, FiniteSets, SequencesExt

CONSTANTS
    Labels,      \* the strings that are DNS labels of admissible length
    OrgNames,    \* the strings that are GitHub organisation names
    Blank,       \* the strings that are empty or white space
    NoTenant     \* a lookup found nothing

\* An app: id, whether app_id and private_key are well formed, the webhook
\* secret ("" is no secret).  A tenant: slug, the connectors its users log
\* in through, the app and the organisation it is bound to.
App(id, app_id_ok, secret, key_ok) ==
    [id |-> id, app_id_ok |-> app_id_ok, webhook_secret |-> secret, private_key_ok |-> key_ok]

Tenant(slug, connector_ids, app_ref, org_name) ==
    [slug |-> slug, connector_ids |-> connector_ids, app_ref |-> app_ref, org_name |-> org_name]

\* A document as parsed: any strings at all.
AppEntry == [id : STRING, app_id_ok : BOOLEAN, webhook_secret : STRING, private_key_ok : BOOLEAN]

TenantEntry == [slug : STRING, connector_ids : Seq(STRING), app_ref : STRING, org_name : STRING]

Document == [github_apps : Seq(AppEntry), tenants : Seq(TenantEntry)]

ASSUME TenancyAssumption == NoTenant \notin TenantEntry

----------------------------------------------------------------------------
(* Validation                                                              *)

validate_app_entry(app) ==
    /\ app.id \in Labels
    /\ app.app_id_ok
    /\ app.webhook_secret # ""
    /\ app.private_key_ok

validate_connector_ids(t) ==
    /\ t.connector_ids # << >>
    /\ ToSet(t.connector_ids) \cap Blank = {}

validate_tenant_binding(t, apps) ==
    /\ t.org_name \in OrgNames
    /\ t.app_ref \in DOMAIN apps

validate_tenant(t, apps) ==
    /\ t.slug \in Labels
    /\ validate_connector_ids(t)
    /\ validate_tenant_binding(t, apps)

----------------------------------------------------------------------------
(* Registries.  A registry under construction is good until an entry is    *)
(* refused; then the server does not start.                                *)

\* HashMap::insert, under several keys at once.
insert(index, keys, entry) ==
    [k \in DOMAIN index \cup keys |-> IF k \in keys THEN entry ELSE index[k]]

\* GithubAppRegistry::build, one entry.
register_app(reg, app) ==
    IF reg.ok /\ validate_app_entry(app) /\ app.id \notin DOMAIN reg.apps
    THEN [reg EXCEPT !.apps = insert(@, {app.id}, app)]
    ELSE [reg EXCEPT !.ok = FALSE]

ConnectorKeys(t) == {<<c, t.org_name>> : c \in ToSet(t.connector_ids)}

\* The three indexes with one more tenant.
index_tenant(reg, t) ==
    [reg EXCEPT !.by_slug = insert(@, {t.slug}, t),
                !.by_app_and_org = insert(@, {<<t.app_ref, t.org_name>>}, t),
                !.by_connector_and_org = insert(@, ConnectorKeys(t), t)]

\* Mutant: a (connector, organisation) pair may be claimed twice.
register_tenant_shared(reg, t) ==
    IF /\ reg.ok /\ validate_tenant(t, reg.apps)
       /\ t.slug \notin DOMAIN reg.by_slug
       /\ <<t.app_ref, t.org_name>> \notin DOMAIN reg.by_app_and_org
    THEN index_tenant(reg, t)
    ELSE [reg EXCEPT !.ok = FALSE]

\* TenantRegistry::build, one entry.  A tenant that lists a connector twice
\* collides with itself.
register_tenant(reg, t) ==
    IF /\ reg.ok /\ validate_tenant(t, reg.apps)
       /\ t.slug \notin DOMAIN reg.by_slug
       /\ <<t.app_ref, t.org_name>> \notin DOMAIN reg.by_app_and_org
       /\ ConnectorKeys(t) \cap DOMAIN reg.by_connector_and_org = {}
       /\ IsInjective(t.connector_ids)
    THEN index_tenant(reg, t)
    ELSE [reg EXCEPT !.ok = FALSE]

EmptyRegistry ==
    [ok |-> TRUE, apps |-> << >>, by_slug |-> << >>,
     by_app_and_org |-> << >>, by_connector_and_org |-> << >>]

\* TenancyRegistry::from_document: the Apps in order, then the tenants.
register_apps(apps) ==
    LET reg[i \in 0..Len(apps)] ==
            IF i = 0 THEN EmptyRegistry ELSE register_app(reg[i - 1], apps[i])
    IN  reg[Len(apps)]

register_tenants(base, tenants) ==
    LET reg[i \in 0..Len(tenants)] ==
            IF i = 0 THEN base ELSE register_tenant(reg[i - 1], tenants[i])
    IN  reg[Len(tenants)]

from_document(doc) == register_tenants(register_apps(doc.github_apps), doc.tenants)

Lookup(index, key) == IF key \in DOMAIN index THEN index[key] ELSE NoTenant

by_slug(reg, slug) == Lookup(reg.by_slug, slug)

by_app_and_org(reg, app, org) == Lookup(reg.by_app_and_org, <<app, org>>)

find_for_connector_and_org(reg, connector, org) ==
    Lookup(reg.by_connector_and_org, <<connector, org>>)

----------------------------------------------------------------------------

\* Every tenant of an accepted document is found under each of its keys, its app
\* is there, and whatever a key of the three indexes finds is a tenant of the
\* document that has this key.
Faithful(doc, reg) ==
    /\ \A t \in ToSet(doc.tenants) :
           /\ by_slug(reg, t.slug) = t
           /\ by_app_and_org(reg, t.app_ref, t.org_name) = t
           /\ \A c \in ToSet(t.connector_ids) : find_for_connector_and_org(reg, c, t.org_name) = t
           /\ \E a \in ToSet(doc.github_apps) : a.id = t.app_ref
    /\ \A k \in DOMAIN reg.by_slug :
           \E t \in ToSet(doc.tenants) : reg.by_slug[k] = t /\ k = t.slug
    /\ \A k \in DOMAIN reg.by_app_and_org :
           \E t \in ToSet(doc.tenants) : reg.by_app_and_org[k] = t /\ k = <<t.app_ref, t.org_name>>
    /\ \A k \in DOMAIN reg.by_connector_and_org :
           \E t \in ToSet(doc.tenants) : reg.by_connector_and_org[k] = t /\ k \in ConnectorKeys(t)

=============================================================================
