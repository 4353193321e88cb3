------------------------------- MODULE MC_Sync -------------------------------
(* Small instances of Sync for TLC. *)
EXTENDS Sync, TLC

CONSTANTS nav, page, post, a, b, c

\* Four commits: one that edits and adds a page, one that does not check, and
\* one that brings the first page back as it was and removes the other.
McTrees ==
  << (nav :> a) @@ (page :> a) @@ (post :> Absent),
     (nav :> a) @@ (page :> b) @@ (post :> b),
     (nav :> Absent) @@ (page :> c) @@ (post :> b),
     (nav :> b) @@ (page :> a) @@ (post :> Absent) >>
=============================================================================
