----------------------------- MODULE OrphanFiles -----------------------------
(***************************************************************************)
(* The orphan selection of remove_orphan_files (OrphanFiles.kt), the one   *)
(* pure function that decides what a sweep of the warehouse deletes.       *)
(*                                                                         *)
(* A URI is an element of Uris.  What the code computes from its text is   *)
(* given by constants: the identity that makes s3://, s3a:// and s3n://    *)
(* equal, whether the basename is ducklake-*.{parquet,puffin,db}, and      *)
(* which URIs lie inside the directory a URI names.                        *)
(***************************************************************************)
EXTENDS Integers

CONSTANTS
  Uris,       \* object URIs as they are stored in the catalog or listed
  Identity,   \* Identity[u]: u with its S3 scheme alias replaced by s3
  Managed,    \* URIs whose basename is DuckLake-managed residue
  Inside      \* Inside[d]: the identities under directory d (dirUri(d) is a prefix)

ASSUME UriAssumption ==
  /\ Identity \in [Uris -> Uris]
  /\ \A u \in Uris : Identity[Identity[u]] = Identity[u]
  /\ Managed \subseteq Uris
  /\ Inside \in [Uris -> SUBSET Uris]

(* The URIs a listing returns: MinIO names every object s3://bucket/key.   *)
Objects == {u \in Uris : Identity[u] = u}

(* Mutants of Find: paths are compared as text; the comparison with the    *)
(* cutoff is the wrong way round.                                          *)
FindByText(listed, knownPaths, modified, cutoff) ==
  {u \in listed : u \in Managed /\ u \notin knownPaths /\ modified[u] < cutoff}
FindYounger(listed, knownPaths, modified, cutoff) ==
  LET knownIdentities == {Identity[u] : u \in knownPaths}
  IN  {u \in listed :
         /\ u \in Managed
         /\ Identity[u] \notin knownIdentities
         /\ modified[u] > cutoff}

(* find(listed, knownPaths, cutoff): managed, unknown by identity, outside *)
(* every known directory, and strictly older than the cutoff.              *)
Find(listed, knownPaths, modified, cutoff) ==
  LET knownIdentities == {Identity[u] : u \in knownPaths}
  IN  {u \in listed :
         /\ u \in Managed
         /\ Identity[u] \notin knownIdentities
         /\ \A k \in knownIdentities : Identity[u] \notin Inside[k]
         /\ modified[u] < cutoff}
=============================================================================
