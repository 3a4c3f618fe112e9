---------------------------- MODULE MCImageStore ----------------------------
(* Instances of ImageStore for TLC. *)
EXTENDS ImageStore, TLC

CONSTANT image      \* one of the Contents

\* Any other content is a compressed form of it.
MCUnpacked == [c \in Contents |-> image]

=============================================================================
