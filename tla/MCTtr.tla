------------------------------- MODULE MCTtr -------------------------------
(* Values of the constants of Ttr for TLC. *)
EXTENDS Ttr

CONSTANTS ex, vpc

API(group, version, kind) ==
    [group |-> group, version |-> version, kind |-> kind,
     namespaced |-> FALSE, managed |-> TRUE]

(* Pools are served in two versions.  Their subresource has no category,   *)
(* and there are managed resources in namespaces, too.                     *)
Discovered ==
    <<API("aws", "v1beta1", "Pool"),
      [API("aws", "v1beta1", "Pool") EXCEPT !.managed = FALSE],
      API("aws", "v1beta2", "Pool"),
      [API("awsm", "v1beta1", "VPC") EXCEPT !.namespaced = TRUE]>>

Filter(group, version, kind, name) ==
    [group |-> group, version |-> version, kind |-> kind, name |-> name]

(* The examples of the command's comment, a version, and a wrong one. *)
Lists ==
    {<<>>,
     <<Filter("aws", "v1beta1", "Pool", {ex})>>,
     <<Filter("", "", "Pool", AllNames), Filter("", "", "VPC", AllNames)>>,
     <<Filter("", "v1beta2", "", {vpc}), Filter("", "", "", {ex, ""})>>,
     <<Filter("gcp", "", "", AllNames), Bad>>}
=============================================================================
