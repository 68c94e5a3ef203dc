------------------------- MODULE MCEvidenceContents -------------------------
(***************************************************************************)
(* The pure algorithms of the evidence pipeline over every small input: a  *)
(* set of inputs and a claim about one of them each.  MCEvidencePipeline   *)
(* checks the claims in its first state, where nothing has happened yet.   *)
(***************************************************************************)
EXTENDS Naturals, FiniteSets, Sequences, TLC

CONSTANTS TraceBound, SpdxBound, SdistBound, WheelBound,
          Document, Refused, NotArchive

Sequences(set, n) == [1..n -> set]
Reversed(s) == [i \in 1..Len(s) |-> s[Len(s) + 1 - i]]

---------------------------------------------------------------------------
(* Inputs: raw traces *)

SyscallLine(name, failed, quoted, writes, unix) ==
    [kind |-> "syscall", name |-> name, failed |-> failed, quoted |-> quoted,
     writes |-> writes, unix |-> unix, host |-> "h", port |-> "1", utf8 |-> TRUE]

PlainLine(kind, name) == [SyscallLine(name, FALSE, "unquoted", FALSE, FALSE)
                             EXCEPT !.kind = kind]

TraceLines ==
    {SyscallLine("openat", FALSE, "p", TRUE, FALSE),
     SyscallLine("openat", TRUE, "p", FALSE, FALSE),
     SyscallLine("mkdir", FALSE, "unquoted", FALSE, FALSE),
     SyscallLine("execve", FALSE, "unquoted", FALSE, FALSE),
     SyscallLine("connect", FALSE, "p", FALSE, TRUE),
     SyscallLine("connect", FALSE, "unquoted", FALSE, FALSE),
     PlainLine("signal", "SIGCHLD"), PlainLine("exit", "exited with 0"),
     PlainLine("other", "noise"),
     [SyscallLine("openat", FALSE, "p", TRUE, FALSE) EXCEPT !.utf8 = FALSE]}

(* One file, or two, with at most TraceBound lines.                        *)
TraceInputs ==
    {<<>>}
    \cup UNION {{name :> lines : lines \in Sequences(TraceLines, n)} :
                   name \in {"strace.1", "strace.log"}, n \in 0..TraceBound}
    \cup UNION {{("strace.1" :> first) @@ ("strace.2" :> second) :
                    first \in Sequences(TraceLines, n[1]),
                    second \in Sequences(TraceLines, n[2])} :
                   n \in {m \in (0..TraceBound) \X (0..TraceBound) : m[1] + m[2] <= TraceBound}}

(* Inputs: SPDX documents *)

Spdx == INSTANCE SpdxNormalization
    WITH DocumentId <- Document, DocumentName <- "repository",
         FoldPath <- [p \in {"p", "P", "dist"} |-> IF p = "P" THEN "p" ELSE p],
         FoldChecksum <- [c \in {"c", "C", "d"} |-> IF c = "C" THEN "c" ELSE c],
         Refused <- Refused

Packages ==
    {[id |-> id, name |-> name, checksums |-> sums, inline |-> FALSE] :
        id \in {"1", "2"}, name \in {"scan", "repository"},
        sums \in {<<>>, <<"c", "d">>}}
    \cup {[id |-> Document, name |-> "x", checksums |-> <<>>, inline |-> FALSE],
          [id |-> "3", name |-> "x", checksums |-> <<>>, inline |-> TRUE],
          [id |-> "3", name |-> "x", checksums |-> <<"c", "C">>, inline |-> FALSE],
          [id |-> "3", name |-> "scan", checksums |-> <<"d", "C">>, inline |-> FALSE]}
SpdxFiles ==
    {[id |-> id, path |-> path, checksums |-> <<>>, inline |-> FALSE] :
        id \in {"2", "4"}, path \in {"p", "P", "dist"}}
SpdxRelationships ==
    [from : {Document, "1"}, type : {"DESCRIBES"}, to : {"1", "2"}]

Documents(n, m, k) ==
    [name : {"scan"}, packages : Sequences(Packages, n), files : Sequences(SpdxFiles, m),
     relationships : Sequences(SpdxRelationships, k)]
ReleaseFiles == {"dist"}

(* Inputs: sdists and wheels *)

Archives == INSTANCE ReleaseArchives
    WITH Fold <- [c \in {"r", "PKG-INFO", "setup.py", "pyproject.toml", "doc", "Doc",
                         "x", "y", "long", "q", "z", "i", "METADATA", "WHEEL",
                         "RECORD", "m", "M", "other", "j"} |->
                     CASE c = "Doc" -> "doc" [] c = "M" -> "m" [] OTHER -> c],
         PathOrder <- <<<<"q", "z">>, <<"r">>, <<"r", "Doc">>, <<"r", "Doc", "y">>,
                        <<"r", "PKG-INFO">>, <<"r", "doc">>, <<"r", "doc", "x">>,
                        <<"r", "long">>, <<"r", "pyproject.toml">>,
                        <<"r", "setup.py">>>>,
         LongPaths <- {<<"r", "long">>},
         DistInfos <- {"i", "j"},
         Descriptors <- {"named"},
         Empty <- "empty",
         NotArchive <- NotArchive

Member(path, type, mode, content) ==
    [path |-> path, type |-> type, mode |-> mode, owner |-> "user",
     mtime |-> 7, content |-> content, pax |-> FALSE]

SdistMembers ==
    {Member(<<"r", "PKG-INFO">>, "file", "0600", "a"),
     Member(<<"r", "setup.py">>, "file", "0700", "a"),
     Member(<<"r", "pyproject.toml">>, "file", "0644", "b"),
     Member(<<"r">>, "directory", "0700", "empty"),
     Member(<<"r", "doc">>, "directory", "0755", "empty"),
     Member(<<"r", "Doc">>, "file", "0644", "b"),
     Member(<<"r", "doc", "x">>, "file", "0644", "a"),
     Member(<<"r", "Doc", "y">>, "file", "0644", "b"),
     Member(<<"r", "long">>, "file", "0644", "a"),
     Member(<<"q", "z">>, "file", "special", "a")}

WheelMembers ==
    {Member(<<"i", "METADATA">>, "file", "0644", "named"),
     Member(<<"i", "WHEEL">>, "file", "0644", "named"),
     Member(<<"i", "RECORD">>, "file", "0644", "rows"),
     Member(<<"m">>, "file", "0644", "a"),
     Member(<<"m">>, "file", "0644", "b"),
     Member(<<"M">>, "file", "0644", "b"),
     Member(<<"other", "j">>, "file", "0644", "a")}

Sdists(n) == [gzip : {7}, members : Sequences(SdistMembers, n)]

(* RECORD has a row for every member but perhaps the last: the right one,  *)
(* one without a digest, or that of the first member again.                *)
RowsFor(members, i) ==
    {[path |-> members[i].path, digest |-> members[i].content],
     [path |-> members[i].path, digest |-> Archives!NoDigest],
     [path |-> members[1].path, digest |-> members[1].content]}

Records(members, n) ==
    {rows \in Sequences(UNION {RowsFor(members, i) : i \in 1..n}, n) :
        \A i \in 1..n : rows[i] \in RowsFor(members, i)}

Wheels(n) ==
    UNION {[members : {members}, record : Records(members, n) \cup Records(members, n - 1)] :
              members \in {s \in Sequences(WheelMembers, n) :
                              \A i, j \in 1..n : s[i] = s[j] => i = j}}

---------------------------------------------------------------------------
(* The two SPDX normalisers, one element by element and one over the whole *)
(* document, refuse the same documents and return the same result, which   *)
(* binds exactly the release's artifacts.                                  *)
SpdxNormalizersAgreeOn(document) ==
    LET normalized == Spdx!NormalizedSpdxDocument(document, ReleaseFiles)
    IN  /\ normalized = Spdx!IndependentlyNormalizeSpdx(document, ReleaseFiles)
        /\ normalized # Refused => Spdx!ValidSpdxBinding(normalized, ReleaseFiles)

SwapId(id) == CASE id = "1" -> "2" [] id = "2" -> "1" [] OTHER -> id
Renamed(elements) == [i \in 1..Len(elements) |->
                         [elements[i] EXCEPT !.id = SwapId(elements[i].id)]]

(* What the scanner may do differently on the same tree, the identifiers   *)
(* it invents and the order it lists things in, leaves no trace in the     *)
(* normalised document.                                                    *)
PresentationIsForgotten(document) ==
    LET again == [document EXCEPT
            !.packages = Reversed(Renamed(document.packages)),
            !.files = Reversed(Renamed(document.files)),
            !.relationships = Reversed([i \in 1..Len(document.relationships) |->
                LET r == document.relationships[i]
                IN  [r EXCEPT !.from = SwapId(r.from), !.to = SwapId(r.to)]])]
    IN  Spdx!NormalizedSpdxDocument(again, ReleaseFiles)
            = Spdx!NormalizedSpdxDocument(document, ReleaseFiles)

Canonical(archive) == Archives!CanonicalizeSdist(archive, "r", 9)

(* The canonical sdist does not depend on the order, owners or times of    *)
(* the raw one, and is its own canonical form.                             *)
SdistIsReproducible(sdist) ==
    /\ Canonical([gzip |-> 8, members |-> Reversed(sdist.members)]) = Canonical(sdist)
    /\ Canonical(sdist) # NotArchive =>
          Canonical(Canonical(sdist)) = Canonical(sdist)

TwoSpellings(archive) ==
    LET parents == UNION {Archives!Prefixes(m.path) : m \in Archives!MembersOf(archive)}
    IN  Cardinality(Archives!FoldedAll(parents)) < Cardinality(parents)

(* The second reader confirms every canonical sdist with the payload the   *)
(* builder reported, but for two kinds of archive the builder accepts and  *)
(* this reader never does: a path too long for a plain tar header, and a   *)
(* parent directory in two spellings.                                      *)
SecondReaderConfirmsOn(sdist) ==
    Canonical(sdist) # NotArchive =>
        (Archives!ValidSdistTransform(sdist, Canonical(sdist), Archives!ReadSdistRecords(sdist), "r", 9)
            <=> /\ ~TwoSpellings(sdist)
                /\ \A m \in Archives!MembersOf(sdist) : m.path \notin {<<"r", "long">>})

OneMemberAway(w) ==
    {[w EXCEPT !.members = Append(@, m)] : m \in WheelMembers \ Archives!MembersOf(w)}
    \cup {[w EXCEPT !.members[i].content = c] : i \in 1..Len(w.members), c \in {"a", "b"}}
    \cup {[w EXCEPT !.members = SubSeq(@, 1, i - 1) \o SubSeq(@, i + 1, Len(@))] :
             i \in 1..Len(w.members)}

(* RECORD commits the wheel: once accepted, no member but RECORD can be    *)
(* added, dropped or altered without being refused.                        *)
RecordCommits(wheel) ==
    Archives!ValidateWheel(wheel, "i") =>
        \A w \in OneMemberAway(wheel) :
            Archives!ValidateWheel(w, "i") =>
                {m \in Archives!MembersOf(w) : m.path # Archives!RecordPath("i")}
                    = {m \in Archives!MembersOf(wheel) : m.path # Archives!RecordPath("i")}
==============================================================================
