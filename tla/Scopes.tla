------------------------------- MODULE Scopes -------------------------------
(***************************************************************************)
(* What a scope claim covers (src/agentco/scope.py): directories of one    *)
(* repository, as segments, and when two claims overlap.                   *)
(***************************************************************************)
EXTENDS Naturals, Sequences, SequencesExt

CONSTANTS Dot, DotDot, Empty \* the segments that are not names

MinSegments == 2

\* normalize_prefix, segments: a path with its doubled slashes and dots gone.
Segments(raw) == SelectSeq(raw, LAMBDA g : g \notin {Empty, Dot})

\* validate_prefix: refused when it climbs out of the repository, and when it
\* names less than MinSegments directories.
ValidPrefix(raw) ==
  /\ \A i \in DOMAIN raw : raw[i] # DotDot
  /\ Len(Segments(raw)) >= MinSegments

\* Scope.parse: at least one prefix, each in its canonical form once.
Parses(raws) == raws # {} /\ \A raw \in raws : ValidPrefix(raw)
Parsed(raws) == {Segments(raw) : raw \in raws}

\* prefixes_overlap: one is a segment-wise prefix of the other.  Mutant: the
\* second of the first only.
PrefixesOverlapBelow(a, b) == IsPrefix(b, a)
PrefixesOverlap(a, b) ==
  LET shorter == IF Len(a) <= Len(b) THEN a ELSE b
      longer  == IF Len(a) <= Len(b) THEN b ELSE a
  IN SubSeq(longer, 1, Len(shorter)) = shorter

\* scopes_intersect: the pairs of directories that collide.
ScopesIntersect(a, b) ==
  IF a.repo # b.repo THEN {}
  ELSE {pair \in a.prefixes \X b.prefixes : PrefixesOverlap(pair[1], pair[2])}

\* find_conflicts: the leases of others that collide with a holder's claim.
FindConflicts(scope, holder, leases) ==
  {l \in leases : l.holder # holder /\ ScopesIntersect(scope, l.scope) # {}}
=============================================================================
