------------------------------ MODULE Bundles -------------------------------
(***************************************************************************)
(* Archives of specifications: one that a client uploads for validation    *)
(* (specification_bundles.py) and one that is fetched from elsewhere       *)
(* (fetcher.py).  The metadata of all entries is checked before anything   *)
(* is written; then the entries are written one by one into a fresh        *)
(* directory, which nothing refused or broken leaves behind.  A fetched    *)
(* archive has been downloaded into this very directory and lies there     *)
(* until its entries are written.  An uploaded archive must hold exactly   *)
(* what its own reana.yaml selects.                                        *)
(*                                                                         *)
(* A path is the sequence of its components.  `flaw` stands for a name     *)
(* that could leave the directory, for encryption and for compression.     *)
(***************************************************************************)
EXTENDS Integers, FiniteSets, Sequences

CONSTANTS
  Name,               \* the components of paths
  MaxFiles, MaxDirectories, MaxDepth,
  MaxBytes,           \* of all files together
  SpecFile,           \* the path reana.yaml
  ArchivePath         \* the path of a downloaded archive: the name in its URL

ASSUME BundlesAssumption ==
  /\ MaxFiles \in Nat /\ MaxDirectories \in Nat /\ MaxDepth \in Nat \ {0}
  /\ MaxBytes \in Nat /\ SpecFile \in Seq(Name) /\ Len(SpecFile) = 1
  /\ ArchivePath \in Seq(Name) /\ Len(ArchivePath) = 1

Member == [path : Seq(Name), kind : {"file", "directory", "link"},
           flaw : {"none", "unsafe", "encrypted", "compressed"}, size : Nat]

VARIABLE bundle       \* one archive and the directory it is written to

NoBundle == [pc |-> "idle", origin |-> "uploaded", entries |-> <<>>,
             next |-> 1, files |-> <<>>, written |-> 0, kept |-> {}]
BundleInit == bundle = NoBundle

Paths(entries) == {entries[k].path : k \in DOMAIN entries}
Above(path) == {SubSeq(path, 1, n) : n \in 1..(Len(path) - 1)}
Directories(entries) == UNION {Above(path) : path \in Paths(entries)}
Files(entries) == {k \in DOMAIN entries : entries[k].kind = "file"}
FilePaths(entries) == {entries[k].path : k \in Files(entries)}
Size(e) == IF e.kind = "file" THEN e.size ELSE 0
Bytes(entries) ==
  LET total[n \in 0..Len(entries)] ==
        IF n = 0 THEN 0 ELSE total[n - 1] + Size(entries[n])
  IN total[Len(entries)]

-----------------------------------------------------------------------------
(* The checks of the metadata                                              *)

\* Only a fetched archive may hold directories and compressed files.
Forbidden(origin, e) ==
  \/ e.flaw = "unsafe" \/ e.kind = "link" \/ Len(e.path) > MaxDepth
  \/ origin = "uploaded" /\ (e.kind # "file" \/ e.flaw # "none")
  \/ origin = "fetched" /\ e.kind = "file" /\ e.flaw = "encrypted"

NestedBelowFileUnchecked(entries) == FALSE
NestedBelowFile(entries) ==
  FilePaths(entries) \cap Directories(entries) # {}

RefusedMetadata(origin, entries) ==
  \/ origin = "uploaded" /\ entries = <<>>
  \/ Len(entries) > MaxFiles
  \/ Cardinality(Directories(entries)) > MaxDirectories
  \/ \E k \in DOMAIN entries : Forbidden(origin, entries[k])
  \/ Cardinality(Paths(entries)) < Len(entries)
  \/ Bytes(entries) > MaxBytes
  \/ NestedBelowFile(entries)

-----------------------------------------------------------------------------
(* One archive                                                             *)

Receive(origin, entries) ==
  /\ bundle.pc = "idle"
  /\ bundle' = [NoBundle EXCEPT !.pc = "received", !.origin = origin,
                                !.entries = entries]

\* shutil.rmtree, and the temporary directory of a launch.
Removed == [bundle EXCEPT !.pc = "refused", !.files = <<>>,
                               !.written = 0, !.kept = {}]

\* preflight_zip_metadata, too, refuses.
RefuseArchive == bundle.pc = "received" /\ bundle' = Removed

ValidateArchive ==
  /\ bundle.pc = "received"
  /\ ~RefusedMetadata(bundle.origin, bundle.entries)
  /\ bundle' = [bundle EXCEPT !.pc = "extracting"]

Entry == bundle.entries[bundle.next]
Extracting == bundle.pc = "extracting" /\ bundle.next <= Len(bundle.entries)

\* An entry that would be, or lie below, the downloaded archive itself.
MeetsArchive(e) ==
  bundle.origin = "fetched" /\ ArchivePath \in Above(e.path) \cup {e.path}

\* Both need directories above; a file also a place where nothing is.
Written == Paths(bundle.files)
Before == SubSeq(bundle.entries, 1, bundle.next - 1)
Blocked(e) == \/ MeetsArchive(e)
              \/ (Above(e.path) \cup {e.path}) \cap Written # {}
              \/ e.kind = "file" /\ e.path \in Paths(Before) \cup Directories(Before)

MakeDirectory ==
  /\ Extracting /\ Entry.kind = "directory" /\ ~Blocked(Entry)
  /\ bundle' = [bundle EXCEPT !.next = @ + 1]

\* What the data come to may not be what the metadata declare: fewer bytes of a
\* fetched file are not noticed.
WriteEntry(bytes) ==
  /\ Extracting /\ Entry.kind = "file" /\ ~Blocked(Entry)
  /\ bundle.origin = "uploaded" => bytes = Entry.size
  /\ bundle.written + bytes <= MaxBytes
  /\ bundle' = [bundle EXCEPT !.next = @ + 1, !.written = @ + bytes,
                  !.files = Append(@, [Entry EXCEPT !.size = bytes])]

\* Something in the way, too much, another size, or an error of the disk or the
\* archive.
ExtractionFails == Extracting /\ bundle' = Removed

Extracted == bundle.pc = "extracting" /\ bundle.next > Len(bundle.entries)

\* gather_validation_members: what reana.yaml selects, or nothing for one that
\* does not load.
SelectMembers(selected) ==
  /\ Extracted /\ bundle.origin = "uploaded" /\ SpecFile \in Written
  /\ IF Written = (IF selected = {} THEN {SpecFile} ELSE selected)
     THEN bundle' = [bundle EXCEPT !.pc = "accepted", !.kept = Written]
     ELSE bundle' = Removed

NoSpecFile ==
  /\ Extracted /\ bundle.origin = "uploaded" /\ SpecFile \notin Written
  /\ bundle' = Removed

\* A fetched archive whose specification is not at the top, and that holds one
\* directory only, is moved out of it; that does not go through when there is
\* something of the directory's own name in it.
Tops(paths) == {path[1] : path \in paths}
AllPaths == Paths(bundle.entries) \cup Directories(bundle.entries)
Wrapped == /\ SpecFile \notin Written /\ Cardinality(Tops(AllPaths)) = 1
           /\ \A path \in Written : Len(path) > 1
SelfNamed == \E path \in AllPaths : Len(path) > 1 /\ path[2] = path[1]

AcceptFetched ==
  /\ Extracted /\ bundle.origin = "fetched" /\ ~(Wrapped /\ SelfNamed)
  /\ bundle' = [bundle EXCEPT !.pc = "accepted",
       !.kept = IF Wrapped THEN {Tail(path) : path \in Written} ELSE Written]

UnwrapFails ==
  /\ Extracted /\ bundle.origin = "fetched" /\ Wrapped /\ SelfNamed
  /\ bundle' = Removed

\* The answer is given; the directory goes with the request.
Done ==
  /\ bundle.pc \in {"accepted", "refused"}
  /\ bundle' = NoBundle

BundleSteps(archives, sizes, selections) ==
  \/ \E origin \in {"uploaded", "fetched"}, entries \in archives :
       Receive(origin, entries)
  \/ RefuseArchive \/ ValidateArchive \/ MakeDirectory
  \/ \E bytes \in sizes : WriteEntry(bytes)
  \/ ExtractionFails
  \/ \E selected \in selections : SelectMembers(selected)
  \/ NoSpecFile \/ AcceptFetched \/ UnwrapFails \/ Done

BundleNext == BundleSteps(Seq(Member), Nat, SUBSET Seq(Name))
BundleSpec == BundleInit /\ [][BundleNext]_bundle

-----------------------------------------------------------------------------
(* No entry of what passes the checks meets another in its way: nothing    *)
(* blocks it but the downloaded archive, whose own name the checks do not  *)
(* look for, and with such an entry a fetched archive is never accepted.   *)
(* Never are more bytes or files written than allowed; what is accepted    *)
(* has every file of the archive once, and an uploaded one what its        *)
(* specification selects; what is refused leaves nothing.                  *)
(* specification_bundles.py 269-440, fetcher.py 506-656.                   *)
ArchiveSound ==
  /\ Extracting /\ Blocked(Entry) => MeetsArchive(Entry)
  /\ Bytes(bundle.files) = bundle.written /\ bundle.written <= MaxBytes
  /\ Len(bundle.files) <= MaxFiles
  /\ bundle.pc = "refused" => bundle.files = <<>> /\ bundle.kept = {}
  /\ bundle.pc = "accepted" =>
       /\ Written = FilePaths(bundle.entries)
       /\ Cardinality(bundle.kept) = Cardinality(Files(bundle.entries))
       /\ bundle.origin = "uploaded" => SpecFile \in bundle.kept
       /\ \A k \in DOMAIN bundle.entries : ~MeetsArchive(bundle.entries[k])
=============================================================================
