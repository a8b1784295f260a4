--------------------------- MODULE MCMeshRegistry ---------------------------
EXTENDS MeshRegistry

CONSTANTS service, i1, i2

\* A microservice that registers and renews one instance, enters another with
\* join_mesh, and syncs.  The handlers of the connections it gave up on are
\* the concurrent users of the registry.
AllOperations ==
  service :> {<<"register", i1>>, <<"list", i1>>, <<"join", i2>>}

TwoConnections == service :> 2

ThreeCalls == service :> 3
=============================================================================
