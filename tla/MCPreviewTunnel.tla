--------------------------- MODULE MCPreviewTunnel ---------------------------
(* One preview tunnel on a small instance: two agents, and two viewers of    *)
(* whom one posts a body; the object is hibernated at most once.             *)
EXTENDS PreviewTunnel

CONSTANTS k1, k2

MCConnectHosts == {"preview", "preview-api"}

Idle(k) == conn[k] \in {"none", "refused"}

\* Agents connect in one order, the tunnel ends in runs of one agent, what is
\* hibernated has not ended, and with two agents it serves one request.
Scene ==
    /\ Idle(k1) => Idle(k2)
    /\ expired \/ deleter # "none" => Idle(k2) /\ lives = 0
    /\ expired => deleter = "none"
    /\ lives > 0 /\ ~Idle(k2) => \A v \in Posts : viewer[v].pc \in {"idle", "answered"}

=============================================================================
