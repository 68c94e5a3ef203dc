--------------------------- MODULE ReleaseArchives ---------------------------
(***************************************************************************)
(* The release archives of a Python build: the builder reads the raw sdist *)
(* and writes the canonical one (entrypoint.py), the handoff and the       *)
(* verifier read both again with a reader of their own and check the wheel *)
(* against its RECORD (archive_validation_v3.py).                          *)
(*                                                                         *)
(* A path is a sequence of components.  A sdist is                         *)
(*   gzip     the modification time its gzip header holds                  *)
(*   members  a sequence of [path, type, mode, owner, mtime, content, pax] *)
(* pax: the member is preceded by an extended header.  A directory has the *)
(* content Empty.  A digest is what it digests, and the limits on counts   *)
(* and sizes are left out.                                                 *)
(***************************************************************************)
EXTENDS Naturals, FiniteSets, Sequences

CONSTANTS
    Fold,         \* casefold: a function on the components
    PathOrder,    \* the sequence of the possible paths, in byte order
    LongPaths,    \* the paths no ustar header can hold
    DistInfos,    \* the components named like a wheel's metadata directory
    Descriptors,  \* the contents that name the wheel they are found in
    Empty,        \* the content of a directory
    NotArchive    \* the outcome of a raised error

LOCAL SE == INSTANCE SequencesExt

Root == "root"    \* the numeric owner 0 without names

FoldedPath(path) == [i \in DOMAIN path |-> Fold[path[i]]]
Prefixes(path) == {SubSeq(path, 1, n) : n \in 1..(Len(path) - 1)}
Position(path) == CHOOSE i \in 1..Len(PathOrder) : PathOrder[i] = path

MembersOf(sdist) == {sdist.members[i] : i \in 1..Len(sdist.members)}
FilePaths(members) == {m.path : m \in {n \in members : n.type = "file"}}
FoldedAll(paths) == {FoldedPath(path) : path \in paths}

(* Special bits are refused; an executable file keeps one mode, a plain    *)
(* one the other, a directory always the first.                            *)
CanonicalMemberMode(member) ==
    IF member.type = "directory" \/ member.mode \in {"0755", "0700"}
    THEN "0755" ELSE "0644"

Record(member) ==
    [path |-> member.path, type |-> member.type,
     mode |-> CanonicalMemberMode(member), content |-> member.content]

(* Member i against the members before it, as the reader's running sets    *)
(* tell: no duplicate or alias, no path that is a file and a directory.    *)
MemberAccepted(sdist, i) ==
    LET m == sdist.members[i]
        before == {sdist.members[j] : j \in 1..(i - 1)}
        paths == {b.path : b \in before}
        parents == UNION {Prefixes(path) : path \in paths}
    IN  /\ m.type \in {"file", "directory"}
        /\ FoldedPath(m.path) \notin FoldedAll(paths)
        /\ FoldedAll(Prefixes(m.path)) \cap FoldedAll(FilePaths(before)) = {}
        /\ m.type = "file" => FoldedPath(m.path) \notin FoldedAll(parents)
        /\ m.mode # "special"
        /\ m.type = "directory" => m.content = Empty

SingleRoot(members) == Cardinality({m.path[1] : m \in members}) = 1

(* modern, legacy, or no layout at all *)
SdistLayout(members) ==
    LET top == {m.path[1] : m \in members}
        has(name) == \A r \in top : <<r, name>> \in FilePaths(members)
    IN  IF has("PKG-INFO") /\ has("pyproject.toml") THEN "modern-pyproject"
        ELSE IF has("PKG-INFO") /\ has("setup.py") THEN "legacy-setup-py"
        ELSE NotArchive

Inspection(sdist) ==
    [root |-> sdist.members[1].path[1],
     layout |-> SdistLayout(MembersOf(sdist)),
     payload |-> {Record(m) : m \in MembersOf(sdist)}]

(* What the reader returns beside it: the metadata the writer must fix.    *)
SdistMetadata(sdist) ==
    [owners |-> {m.owner : m \in MembersOf(sdist)},
     mtimes |-> {m.mtime : m \in MembersOf(sdist)}, gzip |-> sdist.gzip]

ReadSdistRecords(sdist) ==
    IF /\ sdist.members # <<>>
       /\ \A i \in 1..Len(sdist.members) : MemberAccepted(sdist, i)
       /\ SingleRoot(MembersOf(sdist))
       /\ SdistLayout(MembersOf(sdist)) # NotArchive
    THEN Inspection(sdist) ELSE NotArchive

WriteCanonicalSdist(payload, epoch) ==
    LET ordered == SE!SetToSortSeq(payload,
            LAMBDA a, b : Position(a.path) < Position(b.path))
    IN  [gzip |-> epoch,
         members |-> [i \in 1..Len(ordered) |->
             [path |-> ordered[i].path, type |-> ordered[i].type,
              mode |-> ordered[i].mode, content |-> ordered[i].content,
              owner |-> Root, mtime |-> epoch,
              pax |-> ordered[i].path \in LongPaths]]]

(* The builder reads back what it wrote and compares.                      *)
CanonicalizeSdist(sdist, name, epoch) ==
    LET inspection == ReadSdistRecords(sdist)
        target == WriteCanonicalSdist(inspection.payload, epoch)
    IN  IF /\ inspection # NotArchive
           /\ inspection.root = name
           /\ ReadSdistRecords(target) = inspection
           /\ SdistMetadata(target)
                = [owners |-> {Root}, mtimes |-> {epoch}, gzip |-> epoch]
        THEN target ELSE NotArchive

---------------------------------------------------------------------------
(* Mutant: the spelling of the parents is not kept.                        *)
RegisterMemberPathOnly(sdist, i) == MemberAccepted(sdist, i)

(* The second reader.  It also keeps the spelling of every parent: two     *)
(* spellings of one parent are refused, whatever the members under it.     *)
RegisterMemberPath(sdist, i) ==
    LET parents == UNION {Prefixes(sdist.members[j].path) : j \in 1..i}
    IN  /\ MemberAccepted(sdist, i)
        /\ Cardinality(FoldedAll(parents)) = Cardinality(parents)

CanonicalMember(member, epoch) ==
    /\ ~member.pax
    /\ member.owner = Root /\ member.mtime = epoch
    /\ member.mode = CanonicalMemberMode(member)

InCanonicalOrder(sdist) ==
    \A i, j \in 1..Len(sdist.members) :
        i < j => Position(sdist.members[i].path) < Position(sdist.members[j].path)

InspectSdist(sdist, canonical, epoch) ==
    IF /\ sdist.members # <<>>
       /\ \A i \in 1..Len(sdist.members) : RegisterMemberPath(sdist, i)
       /\ canonical =>
            /\ \A m \in MembersOf(sdist) : CanonicalMember(m, epoch)
            /\ InCanonicalOrder(sdist)
            /\ sdist.gzip = epoch
       /\ SingleRoot(MembersOf(sdist))
       /\ SdistLayout(MembersOf(sdist)) # NotArchive
    THEN Inspection(sdist) ELSE NotArchive

(* The reported payload against both archives.                             *)
ValidSdistTransform(raw, final, report, name, epoch) ==
    /\ InspectSdist(raw, FALSE, epoch) = report
    /\ InspectSdist(final, TRUE, epoch) = report
    /\ report # NotArchive
    /\ report.root = name

---------------------------------------------------------------------------
(* A wheel: its members, as [path, type, content], and its RECORD, which   *)
(* is the content of one of them: a sequence of [path, digest].            *)

RecordPath(name) == <<name, "RECORD">>
MetadataPaths(name) ==
    {<<name, "METADATA">>, RecordPath(name), <<name, "WHEEL">>}

NoDigest == "no digest"

ValidWheelRecord(wheel, name) ==
    LET rows == wheel.record
        files == {m \in MembersOf(wheel) : m.type = "file"}
    IN  /\ \A i, j \in 1..Len(rows) : rows[i].path = rows[j].path => i = j
        /\ {rows[i].path : i \in 1..Len(rows)} = {f.path : f \in files}
        /\ \A i \in 1..Len(rows), f \in files :
              rows[i].path = f.path =>
                  rows[i].digest = IF f.path = RecordPath(name) THEN NoDigest
                                   ELSE f.content

ValidateWheel(wheel, name) ==
    /\ wheel.members # <<>>
    /\ \A i \in 1..Len(wheel.members) : RegisterMemberPath(wheel, i)
    /\ MetadataPaths(name) \subseteq FilePaths(MembersOf(wheel))
    /\ \A m \in MembersOf(wheel) :
          /\ m.path \in MetadataPaths(name) \ {RecordPath(name)} => m.content \in Descriptors
          /\ (\E i \in 1..Len(m.path) : m.path[i] \in DistInfos) => m.path[1] = name
    /\ ValidWheelRecord(wheel, name)
==============================================================================
