\* One invocation of every flag combination against the controller, other
\* users and other pushers, with every API and I/O call allowed to fail.
CONSTANTS
    Clients = {c1}
    Namespaces = {ns1, ns2}
    LiveNamespaces = {ns1}
    Names = {n1}
    Tags = {t1}
    Other = Other
    NoWorkload = NoWorkload
    NoTag = NoTag
    NoNamespace = NoNamespace
    NoOne = NoOne
    Inputs <- AllInputs
    LocalKinds <- AllLocalKinds
    YesFlags = {TRUE, FALSE}
    DryRunFlags = {TRUE, FALSE}
    WaitFlags = {TRUE, FALSE}
    TailFlags = {TRUE, FALSE}
    Failures = TRUE
SPECIFICATION Spec
INVARIANTS
    TypeOK
    CreatorsAgree
    SourceIntegrity
PROPERTIES
    AbsSafety
