-------------------------- MODULE SpdxNormalization --------------------------
(***************************************************************************)
(* Normalisation of the raw SPDX document of a release, written twice in   *)
(* the source: by the handoff (builder_handoff_v3.py) which writes the     *)
(* normalised document, and by the verifier (build_verification_v3.py)     *)
(* which recomputes it.  An identifier of the normalised document is a     *)
(* digest of the element's content: here it IS the content.  Sorted lists  *)
(* of distinct elements are sets.                                          *)
(*                                                                         *)
(*   raw.name           the document name, replaced in the packages        *)
(*   raw.packages       a sequence of [id, name, checksums, inline]        *)
(*   raw.files          a sequence of [id, path, checksums, inline]        *)
(*   raw.relationships  a sequence of [from, type, to], over identifiers   *)
(*                                                                         *)
(* inline: the body holds a string that is itself an identifier.           *)
(***************************************************************************)
EXTENDS Naturals, FiniteSets, Sequences, Functions

CONSTANTS
    DocumentId,      \* "SPDXRef-DOCUMENT", of every document
    DocumentName,    \* repository@commit, of the request
    FoldPath,        \* casefold: a function on paths
    FoldChecksum,    \* upper-case algorithm, lower-case digest: a function
    Refused          \* the outcome of a raised error

LOCAL SE == INSTANCE SequencesExt

Elements(s) == {s[i] : i \in 1..Len(s)}
Unique(s) == Cardinality(Elements(s)) = Len(s)

FoldAll(checksums) == [i \in 1..Len(checksums) |-> FoldChecksum[checksums[i]]]

PackageBody(raw, package) ==
    <<"Package", IF package.name = raw.name THEN DocumentName ELSE package.name,
      Elements(FoldAll(package.checksums))>>
FileBody(file) == <<"File", file.path, Elements(FoldAll(file.checksums))>>

(* What a release artifact adds: a file of its own that DOCUMENT describes. *)
ArtifactBody(artifact) == <<"Artifact", artifact, {}>>
Describes(artifact) == <<DocumentId, "DESCRIBES", ArtifactBody(artifact)>>

---------------------------------------------------------------------------
(* The handoff: one pass over the document, element by element, keeping    *)
(* the map from old to generated identifiers.                              *)

NormalizeSpdxElement(state, element, body) ==
    IF \/ state = Refused
       \/ element.id \in DOMAIN state
       \/ ~Unique(FoldAll(element.checksums))
       \/ element.inline
       \/ body \in Range(state)
    THEN Refused
    ELSE [id \in DOMAIN state \cup {element.id} |->
             IF id = element.id THEN body ELSE state[id]]

(* Mutant: paths are compared as they are spelled.                         *)
AliasesAsSpelled(file, before, artifacts) ==
    file.path \in artifacts \cup {f.path : f \in before}

Aliases(file, before, artifacts) ==
    FoldPath[file.path] \in {FoldPath[a] : a \in artifacts}
                        \cup {FoldPath[f.path] : f \in before}

IdMap(raw, artifacts) ==
    LET packages == SE!FoldLeft(
            LAMBDA state, package :
                NormalizeSpdxElement(state, package, PackageBody(raw, package)),
            [id \in {DocumentId} |-> DocumentId], raw.packages)
    IN  SE!FoldLeftDomain(
            LAMBDA state, i :
                IF Aliases(raw.files[i], Elements(SubSeq(raw.files, 1, i - 1)),
                           artifacts)
                THEN Refused
                ELSE NormalizeSpdxElement(state, raw.files[i], FileBody(raw.files[i])),
            packages, raw.files)

NormalizedRelationships(raw, ids) ==
    SE!FoldLeft(
        LAMBDA seen, r :
            IF seen = Refused \/ ~({r.from, r.to} \subseteq DOMAIN ids) THEN Refused
            ELSE IF <<ids[r.from], r.type, ids[r.to]>> \in seen THEN Refused
            ELSE seen \cup {<<ids[r.from], r.type, ids[r.to]>>},
        {}, raw.relationships)

NormalizedSpdxDocument(raw, artifacts) ==
    LET ids == IdMap(raw, artifacts)
        related == IF ids = Refused THEN Refused
                   ELSE NormalizedRelationships(raw, ids)
    IN  IF related = Refused THEN Refused
        ELSE [elements |-> (Range(ids) \ {DocumentId})
                               \cup {ArtifactBody(a) : a \in artifacts},
              relationships |-> related \cup {Describes(a) : a \in artifacts}]

(* What the handoff demands of a document before it is attested.           *)
ValidSpdxBinding(document, artifacts) ==
    LET bound == {e \in document.elements : e[1] = "Artifact"}
    IN  /\ \A e \in bound : <<DocumentId, "DESCRIBES", e>> \in document.relationships
        /\ {e[2] : e \in bound} = artifacts

---------------------------------------------------------------------------
(* The verifier, as conditions on the whole document.                      *)

AllElements(raw) == raw.packages \o raw.files
BodyAt(raw, i) ==
    IF i <= Len(raw.packages) THEN PackageBody(raw, raw.packages[i])
    ELSE FileBody(raw.files[i - Len(raw.packages)])

IndependentIds(raw) ==
    [id \in {e.id : e \in Elements(AllElements(raw))} \cup {DocumentId} |->
        IF id = DocumentId THEN DocumentId
        ELSE BodyAt(raw, CHOOSE i \in 1..Len(AllElements(raw)) :
                             AllElements(raw)[i].id = id)]

AcceptedElements(raw) ==
    LET all == AllElements(raw)
        ids == [i \in 1..Len(all) |-> all[i].id]
        bodies == [i \in 1..Len(all) |-> BodyAt(raw, i)]
    IN  /\ Unique(Append(ids, DocumentId)) /\ Unique(bodies)
        /\ \A e \in Elements(all) : ~e.inline /\ Unique(FoldAll(e.checksums))

AcceptedPaths(raw, artifacts) ==
    LET folded == [i \in 1..Len(raw.files) |-> FoldPath[raw.files[i].path]]
    IN  /\ Unique(folded)
        /\ Elements(folded) \cap {FoldPath[a] : a \in artifacts} = {}

IndependentRelationships(raw) ==
    LET ids == IndependentIds(raw)
    IN  [i \in 1..Len(raw.relationships) |->
            LET r == raw.relationships[i] IN <<ids[r.from], r.type, ids[r.to]>>]

IndependentlyNormalizeSpdx(raw, artifacts) ==
    IF /\ AcceptedElements(raw)
       /\ AcceptedPaths(raw, artifacts)
       /\ \A r \in Elements(raw.relationships) :
              {r.from, r.to} \subseteq DOMAIN IndependentIds(raw)
       /\ Unique(IndependentRelationships(raw))
    THEN [elements |-> {BodyAt(raw, i) : i \in 1..Len(AllElements(raw))}
                           \cup {ArtifactBody(a) : a \in artifacts},
          relationships |-> Elements(IndependentRelationships(raw))
                                \cup {Describes(a) : a \in artifacts}]
    ELSE Refused
==============================================================================
