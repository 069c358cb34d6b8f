\* --file with the workload in an existing namespace, while the
\* --namespace default does not exist.
CONSTANTS
    Clients = {c1}
    Namespaces = {ns1, ns2}
    LiveNamespaces = {ns2}
    Names = {n1}
    Tags = {t1}
    Other = Other
    NoWorkload = NoWorkload
    NoTag = NoTag
    NoNamespace = NoNamespace
    NoOne = NoOne
    Inputs = {"file"}
    LocalKinds = {"none"}
    YesFlags = {TRUE}
    DryRunFlags = {FALSE}
    WaitFlags = {TRUE}
    TailFlags = {FALSE}
    Failures = FALSE
SPECIFICATION Spec
INVARIANTS
    NamespaceErrorIsAccurate
