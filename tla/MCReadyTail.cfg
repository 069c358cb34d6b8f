\* --tail: the log tailer returning first ends wait.Race with nil.
CONSTANTS
    Clients = {c1}
    Namespaces = {ns1}
    LiveNamespaces = {ns1}
    Names = {n1}
    Tags = {t1}
    Other = Other
    NoWorkload = NoWorkload
    NoTag = NoTag
    NoNamespace = NoNamespace
    NoOne = NoOne
    Inputs = {"flags"}
    LocalKinds = {"none"}
    YesFlags = {TRUE}
    DryRunFlags = {FALSE}
    WaitFlags = {TRUE}
    TailFlags = {TRUE}
    Failures = FALSE
SPECIFICATION Spec
INVARIANTS
    ReadyIsOwnWorkload
