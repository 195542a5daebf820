------------------------------- MODULE Chains -------------------------------
(***************************************************************************)
(* Pinned chains (src/agentco/chains.py): a manifest names, for each       *)
(* procedure a chain can reach, one version and the digest of what that    *)
(* version says; a chain runs under one manifest, and only a person moves  *)
(* it to another.  A run of the chain is filed at the version pinned.      *)
(***************************************************************************)
EXTENDS Library, Sequences

CONSTANTS Engines,     \* who records manifests and files the chain's runs
          MaxAdoptions, MaxManifests \* bounds

VARIABLES manifests, \* those recorded; each maps a procedure to a version and its digest
          current,   \* the manifest the chain runs under, or none
          adoptions, \* its record, in order: from, to and by whom
          adopting,  \* the manifest each person's adoption was computed from
          pinning,   \* what each engine has resolved for the run it files
          ran        \* the chain's last run: what it was filed at

chainVars == <<manifests, current, adoptions, adopting, pinning, ran>>

NoManifest == [a \in {} |-> 0]
NoMove == [to |-> NoManifest]
NoPin  == [manifest |-> NoManifest]
NoRun  == [version |-> 0]

\* store_digest: what the version says, and not its status.
Digest(v) == versions[v].entries

\* Held here and no draft: what a manifest may pin and a run may follow.
Pinnable(v) == v \in DOMAIN versions \ torn /\ versions[v].status # "draft"

\* Every member is held here, fit to run and at this store's digest; the first
\* manifest recorded is the one the chain starts under.
RecordManifest(e, members) ==
  LET m == [a \in DOMAIN members |-> [version |-> members[a], digest |-> Digest(<<a, members[a]>>)]]
  IN  /\ \A a \in DOMAIN members : Pinnable(<<a, members[a]>>)
      /\ m \notin manifests /\ Cardinality(manifests) < MaxManifests
      /\ manifests' = manifests \cup {m}
      /\ current' = IF current = NoManifest THEN m ELSE current
      /\ UNCHANGED <<adoptions, adopting, pinning, ran>>

\* adopt() reads the current manifest to compute what the move changes ...
ReadImpact(w, to) ==
  /\ w \in Persons /\ adopting[w] = NoMove
  /\ to \in manifests \ {current} /\ Len(adoptions) < MaxAdoptions
  /\ adopting' = [adopting EXCEPT ![w] = [from |-> current, to |-> to]]
  /\ UNCHANGED <<manifests, current, adoptions, pinning, ran>>

\* Mutant: the chain is moved wherever it stands.
ThereAnyway(w) == TRUE
StillThere(w) == current = adopting[w].from

\* ... and moves the chain only if it still runs under that one.
Adopt(w) ==
  /\ adopting[w] # NoMove
  /\ adopting' = [adopting EXCEPT ![w] = NoMove]
  /\ IF StillThere(w)
       THEN /\ current' = adopting[w].to
            /\ adoptions' = Append(adoptions, adopting[w])
       ELSE UNCHANGED <<current, adoptions>>
  /\ UNCHANGED <<manifests, pinning, ran>>

\* pin_for_run: no fallback to what is active now.
ResolvePin(e, a) ==
  /\ current # NoManifest /\ a \in DOMAIN current /\ pinning[e] = NoPin
  /\ pinning' = [pinning EXCEPT ![e] = [asop |-> a, manifest |-> current]]
  /\ UNCHANGED <<manifests, current, adoptions, adopting, ran>>

\* _runnable, then the filing; a version withdrawn meanwhile is refused.
RunPinned(e) ==
  LET pin == pinning[e]
      v   == <<pin.asop, pin.manifest[pin.asop].version>>
  IN  /\ pin # NoPin
      /\ pinning' = [pinning EXCEPT ![e] = NoPin]
      /\ IF v \in DOMAIN versions \ torn /\ versions[v].status \notin {"draft", "retired"}
           THEN ran' = [asop |-> pin.asop, version |-> v[2], says |-> Digest(v)]
           ELSE UNCHANGED ran
      /\ UNCHANGED <<manifests, current, adoptions, adopting>>

ChainInit ==
  /\ manifests = {} /\ current = NoManifest /\ adoptions = <<>> /\ ran = NoRun
  /\ adopting = [w \in Persons |-> NoMove] /\ pinning = [e \in Engines |-> NoPin]

ChainNext ==
  \/ \E e \in Engines :
       \/ \E members \in [{Taught} -> 1..MaxVersion[Taught]] : RecordManifest(e, members)
       \/ \E a \in Asops : ResolvePin(e, a)
       \/ RunPinned(e)
  \/ \E w \in Persons : Adopt(w) \/ \E to \in manifests : ReadImpact(w, to)
=============================================================================
