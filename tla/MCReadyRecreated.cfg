\* --wait only: the workload is deleted and re-created by another user
\* while the watch on its name is running.
CONSTANTS
    Clients = {c1}
    Namespaces = {ns1}
    LiveNamespaces = {ns1}
    Names = {n1}
    Tags = {t1}
    Other = Other
    NoWorkload = NoWorkload
    NoTag = NoTag
    NoNamespace = NoNamespace
    NoOne = NoOne
    Inputs = {"flags"}
    LocalKinds = {"none"}
    YesFlags = {TRUE}
    DryRunFlags = {FALSE}
    WaitFlags = {TRUE}
    TailFlags = {FALSE}
    Failures = FALSE
SPECIFICATION Spec
INVARIANTS
    ReadyIsOwnWorkload
