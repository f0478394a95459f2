---------------------------- MODULE NodeJoining ----------------------------
(***************************************************************************)
(* What NodeController promises beyond the protection of a joined machine, *)
(* with what each rests on: the Node is a managed resource in the sense of *)
(* ManagedResource, a Node that is said to be up to date runs the flags it *)
(* asks for unless a download failed unseen or a user went back, a machine *)
(* joins no Cluster but the one in the Node's own namespace, and what is   *)
(* as it should be is left alone.                                          *)
(***************************************************************************)
EXTENDS NodeController

-----------------------------------------------------------------------------
(* The Node is a managed resource, with the finalizer for its guard and    *)
(* the unit a join command was sent for as what it guards.                 *)

Lifecycle == INSTANCE ManagedResource WITH
    declared  <- IF ~node.exists THEN "absent" ELSE IF node.deleting THEN "withdrawn" ELSE "live",
    guarded   <- node.fin,
    installed <- Exists(host) /\ host.cfg # NoJoin

\* A Node keeps the promise of ManagedResource: its machine is joined only
\* under the finalizer and uninstalled only once the Node is being deleted, and
\* the Node does not go before that.
KeepsThePromise == Lifecycle!Spec

\* Why: a deletion read once stays true until the worker itself lets go, and the
\* worker uninstalls and releases only what it read one of.
DeletionInv == /\ node.fin \/ node.deleting => node.exists
               /\ cr.deleting => node.exists /\ node.deleting
               /\ pc \in {"delete", "release"} => cr.deleting

-----------------------------------------------------------------------------
(* A verdict of "up to date" is true as long as there is no doubt: no join *)
(* script that failed to download and was taken for run, and no user who   *)
(* went back to flags asked for before.  Then configurations only grow,    *)
(* from what is recorded over what was sent and what the worker read to    *)
(* what users ask for; a verdict finds the two ends equal.                 *)

Sent(h) == h.cfg.cfg

ConfigsGrow == /\ node.ann =< node.cfg /\ cr.ann =< cr.cfg /\ cr.cfg =< node.cfg
               /\ Sent(host) =< node.cfg
               /\ pc # "idle" => node.ann =< cr.cfg /\ Sent(host) =< cr.cfg

\* A unit that is there was sent what is recorded, or something newer; and if
\* nothing newer, no process runs with anything else.
Recorded(h, ann) == ann # NoConfig /\ Exists(h)
                      => /\ ann =< Sent(h)
                         /\ ann = Sent(h) /\ Ready(h) => h.runs.cfg = ann

VerdictInv == /\ ConfigsGrow
              /\ Recorded(host, node.ann) /\ Recorded(host, cr.ann)
              /\ pc = "persist" => Recorded(host, cr.cfg)
              /\ ~Exists(host) => host.state = "down"

\* Unless a download failed unseen (commands.go:156) or a user went back, a Node
\* is reported up to date only while k3s runs on its machine with the flags of
\* the spec the verdict was about (node.go's Observe), whatever else failed.
UpToDateMeansJoined ==
    pc = "observe" /\ Observation(host, cr).upToDate /\ ~doubt => host.runs.cfg = cr.cfg

-----------------------------------------------------------------------------
(* Which Cluster a machine joins.                                          *)

\* The tokens the servers of Cluster n have had, as far as Clusters go.
MintedBy(n) == {[of |-> n, nr |-> i] : i \in 1..minted[n]}

TokensInv == /\ \A n \in Namespaces : {cluster[n].serving, cluster[n].secret} \subseteq MintedBy(n) \cup {NoToken}
             /\ {conn.token, host.cfg.token, host.runs.token} \subseteq MintedBy(Home) \cup {NoToken}

\* Whatever namespace its reference names and whatever Clusters by that name
\* there are elsewhere, a Node's machine joins only with a token of a server of
\* the Cluster in the Node's own namespace.
JoinsItsCluster == host.cfg # NoJoin => host.cfg.token \in MintedBy(Home)

-----------------------------------------------------------------------------
(* A Node that is as its user asked stays so.                              *)

\* Nothing is left to be done for the Node, its unit has no server to look for,
\* and the worker has not begun to do anything either.
Settled == /\ node.exists /\ ~node.deleting /\ node.fin /\ node.resolved /\ nodeIsUpToDate(node)
           /\ Exists(host) /\ Ready(host) /\ (host.runs = NoJoin \/ host.runs.token \in Serving)
           /\ pc = "idle" \/ (pc \in {"connect", "observe"} /\ cr = node)

\* Left alone, the provider leaves a settled Node and its machine alone, whatever
\* becomes of other Clusters (node.go's Observe).
SettledStays == [][Settled /\ UNCHANGED budgets => UNCHANGED <<node, host>> /\ Settled']_vars
=============================================================================
