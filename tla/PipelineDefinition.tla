------------------------ MODULE PipelineDefinition -------------------------
(***************************************************************************)
(* Pipeline files (pipelines/src/pipeline.rs): what from_yaml accepts, and *)
(* which pushes and pull requests trigger a pipeline.  A file is the tree  *)
(* its YAML denotes: a record in which None is a missing key and Null a    *)
(* key without a value, or None when it does not parse.  Paths are         *)
(* sequences of segments ("/a/b/" is a, b and the empty segment),          *)
(* quantities are split into number and suffix.                            *)
(***************************************************************************)
EXTENDS Integers, Sequences, FiniteSets, SequencesExt

CONSTANTS
    None,          \* a missing key, Option::None
    Null,          \* a key without a value
    VolumeLabels,  \* the strings that are DNS-1123 labels
    SecretNames    \* the strings that are names of at most 30 characters

\* What a file that parses consists of, where its structure matters here.
Filter == {None, Null} \cup Seq(STRING)

Trigger == {None, Null} \cup [branches : Filter, tags : Filter]

MountPath == [absolute : BOOLEAN, segments : Seq(STRING)]

IsFile(yaml) ==
    yaml # None =>
        /\ yaml.on \in {None} \cup [push : Trigger, pull_request : Trigger]
        /\ \A i \in DOMAIN yaml.nodes :
               /\ yaml.nodes[i].steps \in Seq(STRING) /\ yaml.nodes[i].after \in Seq(STRING)
               /\ \A v \in DOMAIN yaml.nodes[i].volumes : yaml.nodes[i].volumes[v] \in MountPath

ASSUME FileAssumption ==
    /\ None # Null
    /\ \A absent \in {None, Null} :
           absent \notin Seq(STRING) /\ absent \notin [branches : Filter, tags : Filter]

----------------------------------------------------------------------------
(* Triggers                                                                *)

\* Mutant: a filter without a value counts as no filter.
deserialize_ref_filter_null(raw) == IF raw = Null THEN None ELSE raw

\* A filter without a value is an empty one.
deserialize_ref_filter(raw) == IF raw = Null THEN << >> ELSE raw

\* A trigger without a value has no filters; a missing one stays missing.
deserialize_trigger(raw) ==
    IF raw = None THEN None
    ELSE IF raw = Null THEN [branches |-> None, tags |-> None]
    ELSE [branches |-> deserialize_ref_filter(raw.branches),
          tags |-> deserialize_ref_filter(raw.tags)]

ref_filter_matches(allowed, candidate) == allowed = << >> \/ candidate \in ToSet(allowed)

refs_match_push(refs, branch, tag) ==
    \/ refs.branches = None /\ refs.tags = None
    \/ branch # None /\ refs.branches # None /\ ref_filter_matches(refs.branches, branch)
    \/ branch = None /\ tag # None /\ refs.tags # None /\ ref_filter_matches(refs.tags, tag)

refs_match_branch_filter(filter, branch) == filter = None \/ ref_filter_matches(filter, branch)

triggered_by_push(p, branch, tag) ==
    /\ p.on # None
    /\ deserialize_trigger(p.on.push) # None
    /\ refs_match_push(deserialize_trigger(p.on.push), branch, tag)

triggered_by_pull_request(p, base) ==
    /\ p.on # None
    /\ deserialize_trigger(p.on.pull_request) # None
    /\ refs_match_branch_filter(deserialize_trigger(p.on.pull_request).branches, base)

----------------------------------------------------------------------------
(* Nodes                                                                   *)

merge_env_secrets(p, n) == ToSet(p.secrets.env) \cup ToSet(n.secrets.env)

\* By name; the last one wins, so a node's own entry replaces the pipeline's.
merge_file_secrets(p, n) ==
    FoldLeft(LAMBDA by_name, file : {f \in by_name : f.name # file.name} \cup {file},
             {}, p.secrets.files \o n.secrets.files)

node_info(p) ==
    [i \in DOMAIN p.nodes |->
        LET n == p.nodes[i]
        IN  [name |-> n.name, steps |-> n.steps, dependencies |-> n.after,
             checkout |-> n.checkout = TRUE, volumes |-> n.volumes,
             env_secrets |-> merge_env_secrets(p, n),
             file_secrets |-> merge_file_secrets(p, n)]]

----------------------------------------------------------------------------
(* Validation                                                              *)

validate_dependencies(p) ==
    \A i \in DOMAIN p.nodes : \A dep \in ToSet(p.nodes[i].after) :
        /\ dep # p.nodes[i].name
        /\ \E j \in DOMAIN p.nodes : p.nodes[j].name = dep

validate_steps_present(p) == \A i \in DOMAIN p.nodes : p.nodes[i].steps # << >>

\* Sign and dot aside, a number and one of the suffixes; "e" stands for an
\* exponent with digits, "e?" for one without.
is_valid_quantity(q) ==
    /\ q.digits
    /\ q.suffix \in {"", "e", "n", "u", "m", "k", "K", "M", "G", "T", "P", "E",
                     "Ki", "Mi", "Gi", "Ti", "Pi", "Ei"}

validate_quantities(p) ==
    \A i \in DOMAIN p.nodes : \A q \in ToSet(p.nodes[i].quantities) : is_valid_quantity(q)

RESERVED_VOLUME_NAMES == {"tube-bin", "workspace", "user-script", "cache"}
RESERVED_MOUNT_PATHS == {<<"shared">>, <<"workspace">>, <<"etc", "conn">>, <<"tmp", "cache">>}

\* The same path, one below it, or one above it.
is_reserved_path(candidate, reserved) ==
    IsPrefix(reserved, candidate) \/ IsStrictPrefix(candidate, reserved)

validate_volumes(p) ==
    \A i \in DOMAIN p.nodes :
        LET volumes == p.nodes[i].volumes
        IN  /\ \A name \in DOMAIN volumes :
                   /\ name \in VolumeLabels \ RESERVED_VOLUME_NAMES
                   /\ volumes[name].absolute
                   /\ \A r \in RESERVED_MOUNT_PATHS : ~is_reserved_path(volumes[name].segments, r)
            /\ \A v, u \in DOMAIN volumes : volumes[v] = volumes[u] => v = u

file_secret_path_violation(path) ==
    ~path.absolute \/ {"", ".."} \cap ToSet(path.segments) # {}

validate_secrets(p) ==
    \A i \in DOMAIN p.nodes :
        LET files == merge_file_secrets(p, p.nodes[i])
        IN  /\ merge_env_secrets(p, p.nodes[i]) \cup {f.name : f \in files} \subseteq SecretNames
            /\ \A f \in files : f.path # None => ~file_secret_path_violation(f.path)

\* Pipeline::from_yaml gives a pipeline.
from_yaml(yaml) ==
    /\ yaml # None
    /\ validate_dependencies(yaml)
    /\ validate_steps_present(yaml)
    /\ validate_quantities(yaml)
    /\ validate_volumes(yaml)
    /\ validate_secrets(yaml)

----------------------------------------------------------------------------
(* Reference definitions, from docs/architecture.md                        *)

\* A filter that is there and does not exclude the ref.
Admitted(filter, ref) == filter # None /\ (filter \in {Null, << >>} \/ ref \in ToSet(filter))

\* The push trigger of the file asks for this push.
WantsPush(yaml, branch, tag) ==
    LET push == IF yaml.on = None THEN None ELSE yaml.on.push
    IN  CASE push = None -> FALSE
          [] push = Null -> TRUE
          [] OTHER -> \/ push.branches = None /\ push.tags = None
                      \/ branch # None /\ Admitted(push.branches, branch)
                      \/ tag # None /\ Admitted(push.tags, tag)

\* The pull_request trigger of the file asks for pull requests into base.
WantsPullRequest(yaml, base) ==
    LET pr == IF yaml.on = None THEN None ELSE yaml.on.pull_request
    IN  CASE pr = None -> FALSE
          [] pr = Null -> TRUE
          [] OTHER -> pr.branches = None \/ Admitted(pr.branches, base)

=============================================================================
