----------------------------- MODULE MCIngress -----------------------------
(***************************************************************************)
(* Two tenants under two Apps, two requests at a time.  The first          *)
(* commit's directory holds a file for each way a trigger can be written   *)
(* and a pipeline refused; the second one has a pull request pipeline and  *)
(* comes from a fork.  The second document has one tenant less and two     *)
(* Apps with the same secret.                                              *)
(***************************************************************************)
EXTENDS GithubProvider

HandlerSymmetry == Permutations(Handlers)

MCLabels == {"app1", "app2", "red", "blue"}
MCOrgNames == {"Red", "Blue"}
MCBlank == {"", " "}

Documents ==
    <<[github_apps |-> <<App("app1", TRUE, "s1", TRUE), App("app2", TRUE, "s2", TRUE)>>,
       tenants |-> <<Tenant("red", <<"gh">>, "app1", "Red"), Tenant("blue", <<"gh">>, "app2", "Blue")>>],
      [github_apps |-> <<App("app1", TRUE, "s1", TRUE), App("app2", TRUE, "s1", TRUE)>>,
       tenants |-> <<Tenant("red", <<"gh">>, "app2", "Red")>>],
      [github_apps |-> <<App("app1", TRUE, "", TRUE)>>, tenants |-> << >>]>>

Red == Account("Red", "Organization")

Payloads ==
    LET push == [NoDelivery EXCEPT !.event = "push", !.secret = "s1", !.repository = Red, !.repo = "app",
                                   !.ref = <<"heads", "main">>, !.sha = "c1"]
        pr == [NoDelivery EXCEPT !.event = "pull_request", !.action = "opened", !.secret = "s1",
                                 !.repository = Red, !.repo = "app", !.ref = <<"heads", "topic">>, !.sha = "c2",
                                 !.head = "Fork", !.base = "main"]
        check_run == [NoDelivery EXCEPT !.event = "check_run", !.action = "rerequested",
                                        !.secret = "s1", !.repository = Red]
        check_suite == [check_run EXCEPT !.event = "check_suite", !.repo = "app", !.sha = "c1"]
    IN  {push,
         [push EXCEPT !.ref = <<"tags", "v1">>],
         [push EXCEPT !.ref = <<"other", "main">>],
         [push EXCEPT !.secret = "s2"],                              \* another App
         [push EXCEPT !.secret = "unknown"],
         [push EXCEPT !.repository = Account("Red", "User")],
         [push EXCEPT !.repository = None, !.organization = "Red"],
         pr, [pr EXCEPT !.action = "closed"], [pr EXCEPT !.head = None],
         check_run, [check_run EXCEPT !.action = "created"],
         check_suite, [check_suite EXCEPT !.action = "completed"], [check_suite EXCEPT !.sha = None],
         [check_suite EXCEPT !.repo = "copy"],                       \* the same commit elsewhere
         [check_suite EXCEPT !.repository = None, !.organization = "Red"],
         [NoDelivery EXCEPT !.event = "installation", !.installation = Red],
         [NoDelivery EXCEPT !.secret = "s1", !.installation = Red]}

MCInstalled == {"app1", "app2"} \X {"Red", "Blue", "Fork"}

----------------------------------------------------------------------------

NoSecrets == [env |-> << >>, files |-> << >>]

Path(segments) == [absolute |-> TRUE, segments |-> segments]

Build == [name |-> "build", after |-> << >>, steps |-> <<"make">>, checkout |-> TRUE,
          quantities |-> << >>, volumes |-> << >>, secrets |-> NoSecrets]

Test == [Build EXCEPT !.name = "test", !.after = <<"build">>, !.checkout = None]

OnPush(push) == [push |-> push, pull_request |-> None]

Pipeline(on, nodes) == [on |-> on, secrets |-> NoSecrets, nodes |-> nodes]

\* A pipeline for every push, of a single node.
Only(node) == Pipeline(OnPush(Null), <<node>>)

Mounts(path) == Only([Build EXCEPT !.volumes = [data |-> path]])

Files ==
    LET filters(branches, tags) == Pipeline(OnPush([branches |-> branches, tags |-> tags]), <<Test, [Build EXCEPT !.checkout = FALSE]>>)
    IN  [ci       |-> [Pipeline(OnPush([branches |-> <<"main">>, tags |-> None]), <<Build, Test>>) EXCEPT
                          !.secrets.files = <<[name |-> "KEY", path |-> [absolute |-> FALSE, segments |-> <<"key">>]]>>,
                          !.nodes[1].secrets.files = <<[name |-> "KEY", path |-> Path(<<"etc", "key">>)]>>,
                          !.nodes[2].secrets.files = <<[name |-> "KEY", path |-> None]>>,
                          !.nodes[1].volumes = [data |-> Path(<<"etc", "data">>)],
                          !.nodes[1].quantities = <<[digits |-> TRUE, suffix |-> "Mi"]>>],
         any_tag  |-> filters(None, Null),
         tag_v2   |-> filters(None, <<"v2">>),
         release  |-> filters(<<"release">>, Null),
         quiet    |-> Pipeline(None, <<Test, Build>>),
         extra    |-> Only(Build),
         notes    |-> Only(Build),
         pr       |-> Pipeline([push |-> None, pull_request |-> Null], <<Build>>),
         pr_rel   |-> Pipeline([push |-> None, pull_request |-> [branches |-> <<"release">>, tags |-> None]], <<Build>>),
         broken   |-> None,
         selfdep  |-> Only([Build EXCEPT !.after = <<"build">>]),
         unknown  |-> Only(Test),
         idle     |-> Only([Build EXCEPT !.steps = << >>]),
         heavy    |-> Only([Build EXCEPT !.quantities = <<[digits |-> TRUE, suffix |-> "MB"]>>]),
         below    |-> Mounts(Path(<<"workspace", "out">>)),
         above    |-> Mounts(Path(<<"etc">>)),
         relative |-> Mounts([absolute |-> FALSE, segments |-> <<"data">>]),
         reserved |-> Only([Build EXCEPT !.volumes = [cache |-> Path(<<"data">>)]]),
         twice    |-> Only([Build EXCEPT !.volumes = [data |-> Path(<<"d">>), more |-> Path(<<"d">>)]]),
         dotted   |-> Only([Build EXCEPT !.secrets.files =
                                <<[name |-> "KEY", path |-> Path(<<"etc", "..", "key">>)]>>]),
         badname  |-> Only([Build EXCEPT !.secrets.env = <<"1KEY">>])]

Commits ==
    LET file(name) == [name |-> name, type |-> "file", is_yaml |-> TRUE]
        names == <<"ci", "any_tag", "tag_v2", "release", "quiet", "pr_rel", "broken", "selfdep",
                   "unknown", "idle", "heavy", "below", "above", "relative", "reserved", "twice",
                   "dotted", "badname">>
    IN  [c1 |-> [i \in DOMAIN names |-> file(names[i])]
                    \o <<[file("extra") EXCEPT !.type = "dir"], [file("notes") EXCEPT !.is_yaml = FALSE]>>,
         c2 |-> <<file("pr"), file("pr_rel"), file("ci")>>]

----------------------------------------------------------------------------
(* A definition that replaces a constant is evaluated at each use; these   *)
(* only name values that TLC computes once.                                *)

MCDocs == Documents
MCDeliveries == Payloads
MCDefinition == Files
MCDirectory == Commits
MCFrames == [c1 |-> <<3, 1, 5>>, c2 |-> <<2, 2>>]

=============================================================================
