--------------------------- MODULE MCMetadataStore ---------------------------
(* Instances of MetadataStore for TLC.                                      *)
EXTENDS MetadataStore, TLC

CONSTANTS site, u1, u2

\* u1 is below the site; u2 is not, but begins with the same bytes, like
\* /ns/device2 and metadata published at /ns/device
PathsOfTwo == (u1 :> <<site>>) @@ (u2 :> <<>>)
MarksOfTwo == site :> {u1, u2}
PathOfOne == u1 :> <<site>>
MarksOfOne == site :> {u1}
=============================================================================
