---------------------------- MODULE MCLintFamily ----------------------------
(* Values of the constants of LintFamily for TLC. *)
EXTENDS LintFamily

CONSTANTS aws, ec2

Crd(name, group) == [name |-> name, group |-> group]
Config == Crd(ProviderConfig, aws)
Instance == Crd("instances", ec2)
Vpc == Crd("vpcs", ec2)

(* The CRDs with a directory among them, a subset, and unfit files. *)
SomeDirectories ==
    {<<Instance, Folder, Config, Vpc>>, <<Instance, Vpc>>, <<Instance, Unreadable>>,
     <<Config, NoCRD>>, <<Folder>>}

Object(name, auth) == [crd |-> TRUE, name |-> name, auth |-> auth]
Webhook == [crd |-> FALSE, name |-> "webhook", auth |-> FALSE]
Meta(label, dependsOn) == [provider |-> TRUE, label |-> label, dependsOn |-> dependsOn]
Configuration == [provider |-> FALSE, label |-> FALSE, dependsOn |-> <<>>]

Pkg(objects, meta) == [objects |-> objects, meta |-> meta]

InFamily == Meta(TRUE, <<FamilyRef>>)
Metas ==
    {<<InFamily>>, <<Configuration, InFamily>>, <<Configuration>>,
     <<Meta(FALSE, <<FamilyRef>>)>>, <<Meta(TRUE, <<>>)>>,
     <<Meta(TRUE, <<"other", FamilyRef>>)>>, <<Meta(FALSE, <<>>)>>}

(* Packages that hold both CRDs, or one, or another object, too. *)
Ec2Packages ==
    {Pkg(objects, meta) : meta \in Metas,
        objects \in {<<Object("instances", FALSE), Object("vpcs", FALSE)>>,
                     <<Object("vpcs", FALSE)>>,
                     <<Object("instances", FALSE), Webhook>>,
                     <<Webhook, Object("instances", FALSE), Object("vpcs", FALSE)>>}}

AwsPackages ==
    {Pkg(<<Object(ProviderConfig, auth)>>, <<Meta(label, <<>>)>>) :
        auth \in BOOLEAN, label \in BOOLEAN}

Complete == <<Object("instances", FALSE), Object("vpcs", FALSE)>>

(* Images of one layer, and images with two layers to choose from. *)
ImagesOfEach ==
    [g \in Groups |->
        IF g = aws THEN {{p} : p \in AwsPackages \cup {BadLayer}}
        ELSE {{p} : p \in Ec2Packages \cup {BadLayer}}
             \cup {{Pkg(Complete, <<InFamily>>), BadLayer},
                   {Pkg(Complete, <<InFamily>>), Pkg(Complete, <<Configuration>>)}}]
=============================================================================
