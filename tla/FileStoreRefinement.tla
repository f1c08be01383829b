------------------------- MODULE FileStoreRefinement -------------------------
(***************************************************************************)
(* The files of a key, superseded and live, are the history VersionedStore *)
(* promises, as long as no process dies in the middle of a write.          *)
(***************************************************************************)
EXTENDS FileStore

PublishedVersions(k) == {v \in Versions : Published(k, v)}

\* Version v as the abstract store records it.
Abstracted(k, v) == [claim |-> Stored(k, v).claim, by |-> Stored(k, v).by,
                     base |-> Stored(k, v).base]

History == [k \in Keys |->
              [v \in 1 .. Cardinality(PublishedVersions(k)) |-> Abstracted(k, v)]]

Store == INSTANCE VersionedStore WITH history <- History

\* The filesystem adapter implements a versioned store: locating, superseding
\* and locking are steps the abstract store does not see, and each rename
\* into place adds exactly one version.
ImplementsVersionedStore == Store!Spec

=============================================================================
