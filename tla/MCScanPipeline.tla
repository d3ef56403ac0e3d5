---------------------------- MODULE MCScanPipeline ----------------------------
(* Instances of ScanPipeline for TLC.                                       *)
EXTENDS ScanPipeline, TLC

CONSTANTS s1, s2, s3, f1, f2, w1, w2, d1, d2, p1

OneScope  == [s \in Sboms |-> "api"]
TwoScopes == [s \in Sboms |-> IF s = s3 THEN "web" ELSE "api"]

OwnCve    == [f \in Findings |-> f]
SharedCve == [f \in Findings |-> "cve"]

FullFeed  == [s \in Sboms |-> Findings]
F1Feed    == [s \in Sboms |-> {f1}]

\* Sound where Scope and FirstFeed give every SBOM the same value.
SbomSymmetry   == Permutations(Workers) \cup Permutations(Deleters) \cup Permutations(Sboms)
=============================================================================
