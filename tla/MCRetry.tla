------------------------------ MODULE MCRetry -------------------------------
\* RetryFramework with the resource types of the controllers.
EXTENDS RetryFramework, TLC

Type(update, retryUpdate, pods) ==
    [hasUpdateFunc |-> update, needsUpdateDuringRetry |-> retryUpdate, pods |-> pods]

\* Pods; egress IPs and multi network policies; nodes and namespaces; network
\* policies and egress firewalls.
AllTypes == {Type(TRUE, FALSE, TRUE), Type(TRUE, TRUE, FALSE),
             Type(TRUE, FALSE, FALSE), Type(FALSE, FALSE, FALSE)}
=============================================================================
