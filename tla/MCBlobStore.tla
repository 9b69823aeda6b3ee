----------------------------- MODULE MCBlobStore -----------------------------
(* Small instances of BlobStore for TLC. *)
EXTENDS BlobStore, TLC

CONSTANTS object1, object1_tmp, object1_tmp_tmp

\* One object, whose temporary file is no object.
OneObject == object1 :> object1_tmp

\* Two objects, the second of which has the path of the first one's temporary file.
Nested == object1 :> object1_tmp @@ object1_tmp :> object1_tmp_tmp

\* Bound: once every object is overlapped nothing is promised of any, for ever.
SomeUndisturbed == overlapped # Key

Symmetry == Permutations(Client) \cup Permutations(Val)
=============================================================================
