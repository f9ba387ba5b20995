----------------------------- MODULE MCBundles ------------------------------
(***************************************************************************)
(* Two sources.  Bundle `both` brings a raw snapshot of each, `damaged`    *)
(* the same and one more but fails at the second source, `plain` has no    *)
(* raw blobs.                                                              *)
(***************************************************************************)
EXTENDS Bundles, TLC

CONSTANTS p1, p2, s1, s2, x, y, both, damaged, plain

BundleContents ==
    (both :> ((s1 :> {x}) @@ (s2 :> {x}))) @@
    (damaged :> ((s1 :> {x, y}) @@ (s2 :> {y}))) @@
    (plain :> (s1 :> {y}))

BrokenPayloads == {<<damaged, s2>>}

\* One process brings, names and collects raw files, one command after the other;
\* beside it another only takes names away.
OneCollector == (p1 :> {"import", "upload", "replay", "gc", "sync"}) @@ (p2 :> {"purge"})
\* A collector beside an API server.
BesideServer == (p1 :> {"gc"}) @@ (p2 :> {"upload", "replay"})
=============================================================================
