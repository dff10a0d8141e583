--------------------------- MODULE Tenancy_proofs ---------------------------
(***************************************************************************)
(* What from_document promises of every tenancy document.  Its two loops   *)
(* are recursive functions; what they compute is shown by induction on the *)
(* number of entries, over a set of numbers rather than a predicate.       *)
(***************************************************************************)
EXTENDS Tenancy, WellFoundedInduction, TLAPS

\* A set of natural numbers that is not empty has a least element.
LEMMA LeastNatural ==
    ASSUME NEW T \in SUBSET Nat, T # {}
    PROVE  \E m \in T : \A k \in T : m <= k
<1> DEFINE R == OpToRel(<, Nat)
<1>1. IsWellFoundedOn(R, Nat)
    BY NatLessThanWellFounded
<1>2. R = {ss \in Nat \X Nat : ss[1] < ss[2]}
    BY DEF OpToRel
<1> HIDE DEF R
<1>3. PICK x \in T : \A y \in T : <<y, x>> \notin R
    BY <1>1, WFMin
<1>4. ASSUME NEW y \in T PROVE x <= y
    <2>1. ~(y < x)
        BY <1>2, <1>3
    <2> QED
        BY <2>1
<1> QED
    BY <1>4

\* Induction, for a set of numbers rather than for a predicate.
LEMMA SetInduction ==
    ASSUME NEW S, 0 \in S, \A n \in Nat : n \in S => n + 1 \in S
    PROVE  Nat \subseteq S
<1> DEFINE T == Nat \ S
<1> SUFFICES ASSUME T # {} PROVE FALSE
    OBVIOUS
<1>1. PICK m \in T : \A k \in T : m <= k
    BY LeastNatural
<1>2. m \in Nat /\ m # 0 /\ m - 1 \in Nat
    BY <1>1
<1>3. m - 1 \in S
    BY <1>1, <1>2
<1>4. (m - 1) + 1 \in S
    BY <1>2, <1>3
<1> QED
    BY <1>2, <1>4

\* The loop over the Apps, unrolled.
LEMMA AppsUnrolled ==
    ASSUME NEW apps, Len(apps) \in Nat
    PROVE  \E reg : /\ reg[0] = EmptyRegistry
                    /\ \A i \in 1..Len(apps) : reg[i] = register_app(reg[i - 1], apps[i])
                    /\ register_apps(apps) = reg[Len(apps)]
<1> DEFINE Run(n, g) == g = [i \in 0..n |-> IF i = 0 THEN EmptyRegistry
                                            ELSE register_app(g[i - 1], apps[i])]
           S == {n \in Nat : \E g : Run(n, g)}
<1>1. 0 \in S
    <2>1. Run(0, [i \in 0..0 |-> EmptyRegistry])
        OBVIOUS
    <2> QED
        BY <2>1
<1>2. ASSUME NEW n \in Nat, n \in S PROVE n + 1 \in S
    <2>1. PICK g : Run(n, g)
        BY <1>2
    <2> DEFINE h == [i \in 0..(n + 1) |-> IF i = n + 1 THEN register_app(g[n], apps[n + 1])
                                          ELSE g[i]]
    <2>2. Run(n + 1, h)
        <3>1. ASSUME NEW i \in 0..(n + 1)
              PROVE  h[i] = IF i = 0 THEN EmptyRegistry ELSE register_app(h[i - 1], apps[i])
            BY <2>1
        <3> QED
            BY <3>1
    <2> HIDE DEF h
    <2>3. \E k : Run(n + 1, k)
        BY <2>2
    <2> QED
        BY <2>3
<1>3. Len(apps) \in S
    BY <1>1, <1>2, SetInduction
<1>4. PICK g : Run(Len(apps), g)
    BY <1>3
<1> DEFINE f == CHOOSE k : Run(Len(apps), k)
<1>5. Run(Len(apps), f)
    BY <1>4
<1>6. register_apps(apps) = f[Len(apps)]
    BY DEF register_apps
<1> HIDE DEF f
<1> QED
    BY <1>5, <1>6

\* The loop over the tenants, unrolled.
LEMMA TenantsUnrolled ==
    ASSUME NEW base, NEW tenants, Len(tenants) \in Nat
    PROVE  \E reg : /\ reg[0] = base
                    /\ \A i \in 1..Len(tenants) : reg[i] = register_tenant(reg[i - 1], tenants[i])
                    /\ register_tenants(base, tenants) = reg[Len(tenants)]
<1> DEFINE Run(n, g) == g = [i \in 0..n |-> IF i = 0 THEN base
                                            ELSE register_tenant(g[i - 1], tenants[i])]
           S == {n \in Nat : \E g : Run(n, g)}
<1>1. 0 \in S
    <2>1. Run(0, [i \in 0..0 |-> base])
        OBVIOUS
    <2> QED
        BY <2>1
<1>2. ASSUME NEW n \in Nat, n \in S PROVE n + 1 \in S
    <2>1. PICK g : Run(n, g)
        BY <1>2
    <2> DEFINE h == [i \in 0..(n + 1) |-> IF i = n + 1 THEN register_tenant(g[n], tenants[n + 1])
                                          ELSE g[i]]
    <2>2. Run(n + 1, h)
        <3>1. ASSUME NEW i \in 0..(n + 1)
              PROVE  h[i] = IF i = 0 THEN base ELSE register_tenant(h[i - 1], tenants[i])
            BY <2>1
        <3> QED
            BY <3>1
    <2> HIDE DEF h
    <2>3. \E k : Run(n + 1, k)
        BY <2>2
    <2> QED
        BY <2>3
<1>3. Len(tenants) \in S
    BY <1>1, <1>2, SetInduction
<1>4. PICK g : Run(Len(tenants), g)
    BY <1>3
<1> DEFINE f == CHOOSE k : Run(Len(tenants), k)
<1>5. Run(Len(tenants), f)
    BY <1>4
<1>6. register_tenants(base, tenants) = f[Len(tenants)]
    BY DEF register_tenants
<1> HIDE DEF f
<1> QED
    BY <1>5, <1>6

----------------------------------------------------------------------------
(* What the loops establish                                                *)

Registry(ok, apps, slugs, bindings, connectors) ==
    [ok |-> ok, apps |-> apps, by_slug |-> slugs, by_app_and_org |-> bindings,
     by_connector_and_org |-> connectors]

\* reg is a registry record.
Shape(reg) ==
    reg = Registry(reg.ok, reg.apps, reg.by_slug, reg.by_app_and_org, reg.by_connector_and_org)

AppKey(t) == <<t.app_ref, t.org_name>>

\* The indexes of reg hold the tenants in ts, under all their keys, and
\* nothing else.
SlugsHeld(index, ts) ==
    /\ \A t \in ts : t.slug \in DOMAIN index /\ index[t.slug] = t
    /\ \A k \in DOMAIN index : index[k] \in ts /\ index[k].slug = k

BindingsHeld(index, ts) ==
    /\ \A t \in ts : AppKey(t) \in DOMAIN index /\ index[AppKey(t)] = t
    /\ \A k \in DOMAIN index : index[k] \in ts /\ AppKey(index[k]) = k

ConnectorsHeld(index, ts) ==
    /\ \A t \in ts : \A k \in ConnectorKeys(t) : k \in DOMAIN index /\ index[k] = t
    /\ \A k \in DOMAIN index : index[k] \in ts /\ k \in ConnectorKeys(index[k])

Holds(reg, ts) ==
    /\ SlugsHeld(reg.by_slug, ts)
    /\ BindingsHeld(reg.by_app_and_org, ts)
    /\ ConnectorsHeld(reg.by_connector_and_org, ts)
    /\ \A t \in ts : t.app_ref \in DOMAIN reg.apps

\* The apps of reg are entries of `apps`.
Apps(index, apps) == \A id \in DOMAIN index : index[id] \in apps /\ index[id].id = id

LEMMA RegistryFields ==
    ASSUME NEW ok, NEW a, NEW s, NEW b, NEW c
    PROVE  /\ Shape(Registry(ok, a, s, b, c))
           /\ Registry(ok, a, s, b, c).ok = ok
           /\ Registry(ok, a, s, b, c).apps = a
           /\ Registry(ok, a, s, b, c).by_slug = s
           /\ Registry(ok, a, s, b, c).by_app_and_org = b
           /\ Registry(ok, a, s, b, c).by_connector_and_org = c
BY DEF Registry, Shape

LEMMA RefusedRegistry ==
    ASSUME NEW reg, Shape(reg)
    PROVE  Shape([reg EXCEPT !.ok = FALSE]) /\ ~[reg EXCEPT !.ok = FALSE].ok
<1> DEFINE v == FALSE
           new == Registry(v, reg.apps, reg.by_slug, reg.by_app_and_org, reg.by_connector_and_org)
<1> HIDE DEF v
<1>1. [reg EXCEPT !.ok = v] = new
    BY DEF Shape, Registry
<1>2. Shape(new) /\ new.ok = v
    BY RegistryFields
<1>3. Shape([reg EXCEPT !.ok = v])
    BY <1>1, <1>2
<1>4. [reg EXCEPT !.ok = v].ok = v
    BY <1>1, <1>2
<1>5. Shape([reg EXCEPT !.ok = FALSE])
    BY <1>3 DEF v
<1>6. ~[reg EXCEPT !.ok = FALSE].ok
    BY <1>4 DEF v
<1> QED
    BY <1>5, <1>6

\* An App is accepted under an id of its own.
LEMMA RegisterApp ==
    ASSUME NEW reg, Shape(reg), NEW app, NEW apps, reg.ok => Apps(reg.apps, apps)
    PROVE  LET new == register_app(reg, app)
           IN  /\ Shape(new)
               /\ new.ok => /\ reg.ok /\ Apps(new.apps, apps \cup {app})
                            /\ new.by_slug = reg.by_slug
                            /\ new.by_app_and_org = reg.by_app_and_org
                            /\ new.by_connector_and_org = reg.by_connector_and_org
<1> DEFINE index == insert(reg.apps, {app.id}, app)
           good == Registry(reg.ok, index, reg.by_slug, reg.by_app_and_org, reg.by_connector_and_org)
           bad == [reg EXCEPT !.ok = FALSE]
           new == register_app(reg, app)
<1>1. [reg EXCEPT !.apps = index] = good
    <2> HIDE DEF index
    <2> QED
        BY DEF Shape, Registry
<1>2. /\ Shape(good) /\ good.ok = reg.ok /\ good.apps = index /\ good.by_slug = reg.by_slug
      /\ good.by_app_and_org = reg.by_app_and_org
      /\ good.by_connector_and_org = reg.by_connector_and_org
    BY RegistryFields
<1>3. Shape(bad) /\ ~bad.ok
    BY RefusedRegistry
<1>4. (new = good /\ reg.ok) \/ new = bad
    BY <1>1 DEF register_app
<1>5. reg.ok => Apps(index, apps \cup {app})
    <2>1. /\ DOMAIN index = DOMAIN reg.apps \cup {app.id} /\ index[app.id] = app
          /\ \A k \in DOMAIN reg.apps : k # app.id => index[k] = reg.apps[k]
        BY DEF insert
    <2> HIDE DEF index
    <2> QED
        BY <2>1 DEF Apps
<1> HIDE DEF good, bad, index, new
<1>6. CASE new = bad
    BY <1>3, <1>6 DEF new
<1>7. CASE new = good /\ reg.ok
    BY <1>2, <1>5, <1>7 DEF new
<1> QED
    BY <1>4, <1>6, <1>7

\* A tenant is accepted only if none of its keys is taken.
LEMMA RegisterTenant ==
    ASSUME NEW reg, Shape(reg), NEW t, NEW ts, reg.ok => Holds(reg, ts)
    PROVE  LET new == register_tenant(reg, t)
           IN  Shape(new) /\ (new.ok => reg.ok /\ Holds(new, ts \cup {t}) /\ new.apps = reg.apps)
<1> DEFINE slugs == insert(reg.by_slug, {t.slug}, t)
           bindings == insert(reg.by_app_and_org, {AppKey(t)}, t)
           connectors == insert(reg.by_connector_and_org, ConnectorKeys(t), t)
           good == Registry(reg.ok, reg.apps, slugs, bindings, connectors)
           bad == [reg EXCEPT !.ok = FALSE]
           new == register_tenant(reg, t)
           free == /\ reg.ok /\ t.slug \notin DOMAIN reg.by_slug
                   /\ AppKey(t) \notin DOMAIN reg.by_app_and_org
                   /\ ConnectorKeys(t) \cap DOMAIN reg.by_connector_and_org = {}
                   /\ t.app_ref \in DOMAIN reg.apps
<1>1. index_tenant(reg, t) = good
    <2>1. index_tenant(reg, t) = [reg EXCEPT !.by_slug = slugs, !.by_app_and_org = bindings,
                                             !.by_connector_and_org = connectors]
        BY DEF index_tenant, AppKey
    <2> HIDE DEF slugs, bindings, connectors
    <2>2. [reg EXCEPT !.by_slug = slugs]
            = Registry(reg.ok, reg.apps, slugs, reg.by_app_and_org, reg.by_connector_and_org)
        BY DEF Shape, Registry
    <2>3. [Registry(reg.ok, reg.apps, slugs, reg.by_app_and_org, reg.by_connector_and_org)
               EXCEPT !.by_app_and_org = bindings]
            = Registry(reg.ok, reg.apps, slugs, bindings, reg.by_connector_and_org)
        BY DEF Registry
    <2>4. [Registry(reg.ok, reg.apps, slugs, bindings, reg.by_connector_and_org)
               EXCEPT !.by_connector_and_org = connectors] = good
        BY DEF Registry
    <2> QED
        BY <2>1, <2>2, <2>3, <2>4
<1>2. /\ Shape(good) /\ good.ok = reg.ok /\ good.apps = reg.apps
      /\ good.by_slug = slugs /\ good.by_app_and_org = bindings
      /\ good.by_connector_and_org = connectors
    BY RegistryFields
<1>3. Shape(bad) /\ ~bad.ok
    BY RefusedRegistry
<1>4. (new = good /\ free) \/ new = bad
    BY <1>1 DEF register_tenant, validate_tenant, validate_tenant_binding, AppKey
<1>5. free => SlugsHeld(slugs, ts \cup {t})
    <2>1. /\ DOMAIN slugs = DOMAIN reg.by_slug \cup {t.slug} /\ slugs[t.slug] = t
          /\ \A k \in DOMAIN reg.by_slug : k # t.slug => slugs[k] = reg.by_slug[k]
        BY DEF insert
    <2> HIDE DEF slugs
    <2> QED
        BY <2>1 DEF Holds, SlugsHeld
<1>6. free => BindingsHeld(bindings, ts \cup {t})
    <2>1. /\ DOMAIN bindings = DOMAIN reg.by_app_and_org \cup {AppKey(t)} /\ bindings[AppKey(t)] = t
          /\ \A k \in DOMAIN reg.by_app_and_org : k # AppKey(t) => bindings[k] = reg.by_app_and_org[k]
        BY DEF insert
    <2> HIDE DEF bindings
    <2> QED
        BY <2>1 DEF Holds, BindingsHeld
<1>7. free => ConnectorsHeld(connectors, ts \cup {t})
    <2>1. /\ DOMAIN connectors = DOMAIN reg.by_connector_and_org \cup ConnectorKeys(t)
          /\ \A k \in ConnectorKeys(t) : connectors[k] = t
          /\ \A k \in DOMAIN reg.by_connector_and_org :
                 k \notin ConnectorKeys(t) => connectors[k] = reg.by_connector_and_org[k]
        BY DEF insert
    <2> HIDE DEF connectors
    <2> QED
        BY <2>1 DEF Holds, ConnectorsHeld
<1>8. free => \A u \in ts \cup {t} : u.app_ref \in DOMAIN reg.apps
    BY DEF Holds
<1> HIDE DEF good, bad, slugs, bindings, connectors, new
<1>9. CASE new = bad
    BY <1>3, <1>9 DEF new
<1>10. CASE new = good /\ free
    <2>1. Holds(new, ts \cup {t})
        BY <1>2, <1>5, <1>6, <1>7, <1>8, <1>10 DEF Holds
    <2> QED
        BY <1>2, <1>10, <2>1 DEF new
<1> QED
    BY <1>4, <1>9, <1>10

\* The Apps of a document that is accepted are entries of the document.
LEMMA AppsLoop ==
    ASSUME NEW apps, Len(apps) \in Nat, DOMAIN apps = 1..Len(apps)
    PROVE  LET base == register_apps(apps)
           IN  /\ Shape(base)
               /\ base.ok => Apps(base.apps, ToSet(apps)) /\ Holds(base, {})
<1>1. PICK reg : /\ reg[0] = EmptyRegistry
                 /\ \A i \in 1..Len(apps) : reg[i] = register_app(reg[i - 1], apps[i])
                 /\ register_apps(apps) = reg[Len(apps)]
    BY AppsUnrolled
<1> DEFINE First(n) == {apps[j] : j \in 1..n}
           Good(n) == /\ Shape(reg[n])
                      /\ reg[n].ok => /\ Apps(reg[n].apps, First(n))
                                      /\ reg[n].by_slug = << >>
                                      /\ reg[n].by_app_and_org = << >>
                                      /\ reg[n].by_connector_and_org = << >>
           S == {n \in Nat : n <= Len(apps) => Good(n)}
<1>2. Good(0)
    <2> DEFINE yes == TRUE
    <2>1. EmptyRegistry = Registry(yes, << >>, << >>, << >>, << >>)
        BY Zenon DEF EmptyRegistry, Registry
    <2> HIDE DEF yes
    <2>2. /\ Shape(EmptyRegistry) /\ EmptyRegistry.apps = << >> /\ EmptyRegistry.by_slug = << >>
          /\ EmptyRegistry.by_app_and_org = << >> /\ EmptyRegistry.by_connector_and_org = << >>
        BY <2>1, RegistryFields
    <2>3. Apps(EmptyRegistry.apps, First(0))
        BY <2>2 DEF Apps
    <2> QED
        BY <1>1, <2>2, <2>3
<1>3. ASSUME NEW n \in Nat, n \in S, n + 1 <= Len(apps) PROVE Good(n + 1)
    <2>1. Good(n) /\ n + 1 \in 1..Len(apps) /\ (n + 1) - 1 = n
        BY <1>3
    <2>2. reg[n + 1] = register_app(reg[n], apps[n + 1])
        BY <1>1, <2>1
    <2>3. First(n + 1) = First(n) \cup {apps[n + 1]}
        OBVIOUS
    <2> DEFINE before == reg[n]
               after == reg[n + 1]
               had == First(n)
    <2> HIDE DEF First, had
    <2>4. /\ Shape(after)
          /\ after.ok => /\ before.ok /\ Apps(after.apps, had \cup {apps[n + 1]})
                         /\ after.by_slug = before.by_slug
                         /\ after.by_app_and_org = before.by_app_and_org
                         /\ after.by_connector_and_org = before.by_connector_and_org
        <3>1. Shape(before) /\ (before.ok => Apps(before.apps, had))
            BY <2>1 DEF had
        <3> DEFINE app == apps[n + 1]
                   new == register_app(before, app)
        <3> HIDE DEF before, app
        <3>2. /\ Shape(new)
              /\ new.ok => /\ before.ok /\ Apps(new.apps, had \cup {app})
                           /\ new.by_slug = before.by_slug
                           /\ new.by_app_and_org = before.by_app_and_org
                           /\ new.by_connector_and_org = before.by_connector_and_org
            BY <3>1, RegisterApp
        <3>3. after = new
            BY <2>2 DEF before, app
        <3> QED
            BY <3>2, <3>3 DEF app
    <2> QED
        BY <2>1, <2>3, <2>4 DEF had
<1>4. Len(apps) \in S
    <2> HIDE DEF Good
    <2>1. 0 \in S
        BY <1>2
    <2>2. \A n \in Nat : n \in S => n + 1 \in S
        BY <1>3
    <2> HIDE DEF S
    <2> QED
        BY <2>1, <2>2, SetInduction
<1>5. Good(Len(apps))
    <2> HIDE DEF Good
    <2> QED
        BY <1>4
<1>6. First(Len(apps)) = ToSet(apps)
    BY DEF ToSet
<1> DEFINE base == reg[Len(apps)]
<1>7. Shape(base) /\ (base.ok => Apps(base.apps, ToSet(apps)))
    BY <1>5, <1>6
<1>8. base.ok => Holds(base, {})
    BY <1>5 DEF Holds, SlugsHeld, BindingsHeld, ConnectorsHeld
<1> QED
    BY <1>1, <1>7, <1>8

\* The registry of a document that is accepted holds the document's tenants.
LEMMA TenantsLoop ==
    ASSUME NEW base, Shape(base), base.ok => Holds(base, {}),
           NEW tenants, Len(tenants) \in Nat, DOMAIN tenants = 1..Len(tenants)
    PROVE  LET new == register_tenants(base, tenants)
           IN  new.ok => base.ok /\ Holds(new, ToSet(tenants)) /\ new.apps = base.apps
<1>1. PICK reg : /\ reg[0] = base
                 /\ \A i \in 1..Len(tenants) : reg[i] = register_tenant(reg[i - 1], tenants[i])
                 /\ register_tenants(base, tenants) = reg[Len(tenants)]
    BY TenantsUnrolled
<1> DEFINE First(n) == {tenants[j] : j \in 1..n}
           Good(n) == /\ Shape(reg[n])
                      /\ reg[n].ok => base.ok /\ Holds(reg[n], First(n)) /\ reg[n].apps = base.apps
           S == {n \in Nat : n <= Len(tenants) => Good(n)}
<1>2. Good(0)
    <2>1. First(0) = {}
        OBVIOUS
    <2> QED
        BY <1>1, <2>1
<1>3. ASSUME NEW n \in Nat, n \in S, n + 1 <= Len(tenants) PROVE Good(n + 1)
    <2>1. Good(n) /\ n + 1 \in 1..Len(tenants) /\ (n + 1) - 1 = n
        <3> HIDE DEF Good
        <3> QED
            BY <1>3
    <2>2. reg[n + 1] = register_tenant(reg[n], tenants[n + 1])
        BY <1>1, <2>1
    <2>3. First(n + 1) = First(n) \cup {tenants[n + 1]}
        OBVIOUS
    <2> DEFINE before == reg[n]
               after == reg[n + 1]
               had == First(n)
    <2> HIDE DEF First, had
    <2>4. /\ Shape(after)
          /\ after.ok => /\ before.ok /\ Holds(after, had \cup {tenants[n + 1]})
                         /\ after.apps = before.apps
        <3>1. Shape(before) /\ (before.ok => Holds(before, had))
            BY <2>1 DEF had
        <3> DEFINE t == tenants[n + 1]
                   new == register_tenant(before, t)
        <3> HIDE DEF before, t
        <3>2. Shape(new) /\ (new.ok => before.ok /\ Holds(new, had \cup {t}) /\ new.apps = before.apps)
            BY <3>1, RegisterTenant
        <3>3. after = new
            BY <2>2 DEF before, t
        <3> QED
            BY <3>2, <3>3 DEF t
    <2> QED
        BY <2>1, <2>3, <2>4 DEF had
<1>4. Len(tenants) \in S
    <2> HIDE DEF Good
    <2>1. 0 \in S
        BY <1>2
    <2>2. \A n \in Nat : n \in S => n + 1 \in S
        BY <1>3
    <2> HIDE DEF S
    <2> QED
        BY <2>1, <2>2, SetInduction
<1>5. Good(Len(tenants))
    BY <1>4
<1>6. First(Len(tenants)) = ToSet(tenants)
    BY DEF ToSet
<1> QED
    BY <1>1, <1>5, <1>6

\* from_document: the registry of an accepted document holds its tenants, under all
\* their keys and nothing else, and their Apps are entries of the document.
LEMMA AcceptedDocument ==
    ASSUME NEW d \in Document, from_document(d).ok
    PROVE  /\ Holds(from_document(d), ToSet(d.tenants))
           /\ Apps(from_document(d).apps, ToSet(d.github_apps))
<1> DEFINE base == register_apps(d.github_apps)
           reg == register_tenants(base, d.tenants)
<1>1. /\ Len(d.github_apps) \in Nat /\ DOMAIN d.github_apps = 1..Len(d.github_apps)
      /\ Len(d.tenants) \in Nat /\ DOMAIN d.tenants = 1..Len(d.tenants)
    BY DEF Document
<1>2. reg = from_document(d)
    BY DEF from_document
<1>3. Shape(base) /\ (base.ok => Apps(base.apps, ToSet(d.github_apps)) /\ Holds(base, {}))
    BY <1>1, AppsLoop
<1> HIDE DEF base
<1>4. base.ok /\ Holds(reg, ToSet(d.tenants)) /\ reg.apps = base.apps
    BY <1>1, <1>2, <1>3, TenantsLoop
<1> HIDE DEF reg
<1> QED
    BY <1>2, <1>3, <1>4

\* Whatever a tenancy document says, if it is accepted, every tenant is found under
\* each of its keys, no key of the three indexes finds a tenant that does not have
\* it, and the App of every tenant is defined.
THEOREM FaithfulTheorem ==
    ASSUME NEW d \in Document, from_document(d).ok
    PROVE  Faithful(d, from_document(d))
<1> DEFINE reg == from_document(d)
<1>1. Holds(reg, ToSet(d.tenants)) /\ Apps(reg.apps, ToSet(d.github_apps))
    BY AcceptedDocument
<1> HIDE DEF reg
<1>2. ASSUME NEW t \in ToSet(d.tenants)
      PROVE  /\ by_slug(reg, t.slug) = t
             /\ by_app_and_org(reg, t.app_ref, t.org_name) = t
             /\ \A c \in ToSet(t.connector_ids) : find_for_connector_and_org(reg, c, t.org_name) = t
             /\ \E a \in ToSet(d.github_apps) : a.id = t.app_ref
    <2>1. by_slug(reg, t.slug) = t
        BY <1>1 DEF Holds, SlugsHeld, by_slug, Lookup
    <2>2. by_app_and_org(reg, t.app_ref, t.org_name) = t
        BY <1>1 DEF Holds, BindingsHeld, AppKey, by_app_and_org, Lookup
    <2>3. ASSUME NEW c \in ToSet(t.connector_ids) PROVE find_for_connector_and_org(reg, c, t.org_name) = t
        <3>1. <<c, t.org_name>> \in ConnectorKeys(t)
            BY DEF ConnectorKeys
        <3> QED
            BY <1>1, <3>1 DEF Holds, ConnectorsHeld, find_for_connector_and_org, Lookup
    <2>4. \E a \in ToSet(d.github_apps) : a.id = t.app_ref
        BY <1>1 DEF Holds, Apps
    <2> QED
        BY <2>1, <2>2, <2>3, <2>4
<1>3. \A k \in DOMAIN reg.by_slug : \E t \in ToSet(d.tenants) : reg.by_slug[k] = t /\ k = t.slug
    BY <1>1 DEF Holds, SlugsHeld
<1>4. \A k \in DOMAIN reg.by_app_and_org :
          \E t \in ToSet(d.tenants) : reg.by_app_and_org[k] = t /\ k = <<t.app_ref, t.org_name>>
    BY <1>1 DEF Holds, BindingsHeld, AppKey
<1>5. \A k \in DOMAIN reg.by_connector_and_org :
          \E t \in ToSet(d.tenants) : reg.by_connector_and_org[k] = t /\ k \in ConnectorKeys(t)
    BY <1>1 DEF Holds, ConnectorsHeld
<1> QED
    BY <1>2, <1>3, <1>4, <1>5 DEF Faithful, reg

============================================================================
