\* Two invocations creating the same name and pushing local source to the
\* same tag, interleaved with each other, the controller and other users.
CONSTANTS
    Clients = {c1, c2}
    Namespaces = {ns1}
    LiveNamespaces = {ns1}
    Names = {n1}
    Tags = {t1}
    Other = Other
    NoWorkload = NoWorkload
    NoTag = NoTag
    NoNamespace = NoNamespace
    NoOne = NoOne
    Inputs = {"flags"}
    LocalKinds <- PushingLocalKinds
    YesFlags = {TRUE}
    DryRunFlags = {FALSE}
    WaitFlags = {TRUE, FALSE}
    TailFlags = {FALSE}
    Failures = FALSE
SPECIFICATION Spec
INVARIANTS
    CreatorsAgree
    SourceIntegrity
PROPERTIES
    AbsSpec
    Termination
