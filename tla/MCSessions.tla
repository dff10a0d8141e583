---------------------------- MODULE MCSessions -----------------------------
(***************************************************************************)
(* Two tenants, two connectors, one browser with two tabs.  The            *)
(* organisation of one tenant has the slug of the other for its name.  The *)
(* second document moves an organisation to the other connector; the       *)
(* others must be refused.                                                 *)
(***************************************************************************)
EXTENDS Sessions

TabSymmetry == Permutations(Tabs)

MCLabels == {"app", "app2", "red", "blue"}
MCOrgNames == {"acme", "blue"}
MCBlank == {"", " "}
MCRuns == {"run1", "run2"}
Tenants == [r \in {"run1", "run2"} |-> IF r = "run1" THEN "red" ELSE "blue"]
Organisations == [r \in {"run1", "run2"} |-> IF r = "run1" THEN "blue" ELSE "acme"]

MCApps == <<App("app", TRUE, "secret", TRUE), App("app2", TRUE, "secret2", TRUE)>>

Documents ==
    LET red(cs) == Tenant("red", cs, "app", "blue")
        blue(cs) == Tenant("blue", cs, "app", "acme")
        with(ts) == [github_apps |-> MCApps, tenants |-> ts]
    IN  {with(<<red(<<"gh">>), blue(<<"gh", "gl">>)>>),
         with(<<red(<<"gl">>), blue(<<"gl">>)>>),
         with(<<red(<<"gh">>), Tenant("blue", <<"gh">>, "app", "blue")>>),
         with(<<red(<<"gh">>), Tenant("blue", <<"gh">>, "app2", "blue")>>),
         with(<<red(<<"gh">>), red(<<"gl">>)>>),
         with(<<red(<<"gh", "gh">>)>>),
         with(<<red(<<" ">>)>>),
         with(<<Tenant("red", <<"gh">>, "other", "blue")>>)}

Users ==
    {[groups |-> <<<<"blue">>, <<"acme", "team">>, <<"blue", "team">>>>, connector_id |-> "gh"],
     [groups |-> <<<<"blue">>>>, connector_id |-> "gl"],
     [groups |-> <<<<"acme">>>>, connector_id |-> None]}

----------------------------------------------------------------------------
(* A definition that replaces a constant is evaluated at each use; these   *)
(* only name values that TLC computes once.                                *)

MCTenantOf == Tenants
MCOwnerOf == Organisations
MCDocs == Documents
MCClaims == Users

=============================================================================
