------------------------ MODULE SpecificationProofs -------------------------
(***************************************************************************)
(* Proofs about what the server makes of a specification: its archive, the *)
(* verdict on it, the report of its validation and the estimate of what it *)
(* needs, for archives, findings and workflows of any size.  At the end    *)
(* the specification of the API that the runs check is shown to implement  *)
(* those of its parts.                                                     *)
(***************************************************************************)
EXTENDS MCApi, FiniteSetTheorems, WellFoundedInduction, TLAPS

-----------------------------------------------------------------------------
(* Numbers                                                                 *)

\* Sets of numbers have a least member, and bounded ones a greatest.
LEMMA LeastMember ==
  ASSUME NEW T \in SUBSET Nat, T # {}
  PROVE  \E m \in T : \A k \in T : m <= k
<1> DEFINE R == OpToRel(<, Nat)
<1>1. IsWellFoundedOn(R, Nat)
  BY NatLessThanWellFounded
<1>2. \A m, k \in Nat : <<k, m>> \in R <=> k < m
  BY DEF OpToRel
<1> HIDE DEF R
<1>3. PICK m \in T : \A k \in T : <<k, m>> \notin R
  BY <1>1, WFMin
<1>4. \A k \in T : ~(k < m) /\ k \in Nat /\ m \in Nat
  BY <1>2, <1>3
<1>5. \A k \in T : m <= k
  BY <1>4
<1> QED BY <1>5

LEMMA GreatestMember ==
  ASSUME NEW n \in Nat, NEW T \in SUBSET (0..n), T # {}
  PROVE  \E m \in T : \A k \in T : k <= m
<1> DEFINE Bounds == {b \in Nat : \A k \in T : k <= b}
<1>1. n \in Bounds
  OBVIOUS
<1>2. PICK b \in Bounds : \A c \in Bounds : b <= c
  BY <1>1, LeastMember
<1>3. CASE b \in T
  BY <1>3
<1>4. CASE b \notin T
  <2>1. \A k \in T : k \in Nat /\ k <= b /\ k # b
    BY <1>2, <1>4
  <2>2. b \in Nat /\ b # 0
    <3>1. PICK k \in T : TRUE
      OBVIOUS
    <3>2. b \in Nat /\ k \in Nat /\ k <= b /\ k # b
      BY <2>1
    <3> QED BY <3>2
  <2>3. b - 1 \in Bounds
    BY <2>1, <2>2
  <2>4. b <= b - 1
    BY <1>2, <2>3
  <2> QED BY <2>2, <2>4
<1> QED BY <1>3, <1>4


LEMMA CountOf ==
  ASSUME NEW n \in Nat
  PROVE  IsFiniteSet(1..n) /\ Cardinality(1..n) = n
<1>1. PICK a \in Int, b \in Int : a = 1 /\ b = n
  OBVIOUS
<1>2. IsFiniteSet(a..b) /\ Cardinality(a..b) = IF a > b THEN 0 ELSE b - a + 1
  BY FS_Interval
<1> QED BY <1>1, <1>2

\* Induction, for a set: what holds of 0 and of the successor of each number
\* that it holds of, holds of all numbers.
LEMMA NumbersInductive ==
  ASSUME NEW S, 0 \in S, \A n \in Nat : n \in S => n + 1 \in S
  PROVE  \A n \in Nat : n \in S
<1> SUFFICES ASSUME Nat \ S # {} PROVE FALSE
  OBVIOUS
<1> DEFINE T == Nat \ S
<1>1. PICK m \in T : \A k \in T : m <= k
  <2>1. T \in SUBSET Nat /\ T # {}
    OBVIOUS
  <2> HIDE DEF T
  <2> QED BY <2>1, LeastMember
<1>2. m \in Nat /\ m # 0
  OBVIOUS
<1>3. m - 1 \in Nat
  BY <1>2
<1>4. m - 1 \in S
  <2> SUFFICES ASSUME m - 1 \in T PROVE FALSE
    BY <1>3
  <2>1. m <= m - 1
    BY <1>1
  <2> QED BY <1>2, <2>1
<1>5. (m - 1) + 1 \in S
  BY <1>3, <1>4
<1> QED BY <1>2, <1>5

-----------------------------------------------------------------------------
(* Archives                                                                *)

\* The bytes up to an entry, and their sum.
Sums(entries, f) ==
  \A n \in 0..Len(entries) :
    f[n] = IF n = 0 THEN 0 ELSE f[n - 1] + Size(entries[n])

LEMMA SizeIsNatural ==
  ASSUME NEW e \in Member
  PROVE  Size(e) \in Nat
BY DEF Size, Member

LEMMA SumsExist ==
  ASSUME NEW entries \in Seq(Member)
  PROVE  \E f \in [0..Len(entries) -> Nat] : Sums(entries, f)
<1> DEFINE L == Len(entries)
           Up(m, f) == \A n \in 0..m :
                         f[n] = IF n = 0 THEN 0
                           ELSE f[n - 1] + Size(entries[n])
           S == {m \in Nat : m <= L => \E f \in [0..m -> Nat] : Up(m, f)}
<1>1. 0 \in S
  <2> DEFINE f == [n \in 0..0 |-> 0]
  <2>1. f \in [0..0 -> Nat] /\ Up(0, f)
    OBVIOUS
  <2> QED BY <2>1
<1>2. ASSUME NEW m \in Nat, m \in S PROVE m + 1 \in S
  <2> SUFFICES ASSUME m + 1 <= L
               PROVE  \E f \in [0..(m + 1) -> Nat] : Up(m + 1, f)
    <3> HIDE DEF Up
    <3>1. m + 1 \in Nat
      OBVIOUS
    <3> QED BY <3>1
  <2>1. L \in Nat /\ m <= L /\ m + 1 \in 1..L
    OBVIOUS
  <2>2. PICK g \in [0..m -> Nat] : Up(m, g)
    BY <1>2, <2>1
  <2>3. entries[m + 1] \in Member
    BY <2>1
  <2>4. Size(entries[m + 1]) \in Nat
    BY <2>3, SizeIsNatural
  <2> DEFINE f == [n \in 0..(m + 1) |->
                     IF n = m + 1 THEN g[m] + Size(entries[m + 1]) ELSE g[n]]
  <2>5. f \in [0..(m + 1) -> Nat]
    BY <2>2, <2>4
  <2>6. Up(m + 1, f)
    <3> SUFFICES ASSUME NEW n \in 0..(m + 1)
                 PROVE  f[n] = IF n = 0 THEN 0 ELSE f[n - 1] + Size(entries[n])
      OBVIOUS
    <3>1. CASE n = m + 1
      <4>1. f[n] = g[m] + Size(entries[m + 1]) /\ f[n - 1] = g[m]
        BY <3>1
      <4> QED BY <3>1, <4>1
    <3>2. CASE n # m + 1
      <4>1. n \in 0..m /\ f[n] = g[n] /\ (n # 0 => f[n - 1] = g[n - 1])
        BY <3>2
      <4> QED BY <2>2, <4>1
    <3> QED BY <3>1, <3>2
  <2> QED BY <2>5, <2>6
<1> HIDE DEF S
<1>3. \A n \in Nat : n \in S
  BY <1>1, <1>2, NumbersInductive
<1>4. L \in Nat /\ L \in S
  BY <1>3
<1> QED BY <1>4 DEF S, Sums

LEMMA BytesOf ==
  ASSUME NEW entries \in Seq(Member)
  PROVE  \E f \in [0..Len(entries) -> Nat] :
           Sums(entries, f) /\ Bytes(entries) = f[Len(entries)]
<1> DEFINE L == Len(entries)
           Fits(t) == t = [n \in 0..L |->
                           IF n = 0 THEN 0 ELSE t[n - 1] + Size(entries[n])]
           total == CHOOSE t : Fits(t)
<1>1. PICK f \in [0..L -> Nat] : Sums(entries, f)
  BY SumsExist
<1>2. Fits(f)
  BY <1>1 DEF Sums
<1>3. Fits(total)
  <2> HIDE DEF Fits
  <2> QED BY <1>2
<1>4. Bytes(entries) = total[L]
  BY DEF Bytes
<1> HIDE DEF total
<1>5. \A n \in 0..L : total[n] = IF n = 0 THEN 0
                                 ELSE total[n - 1] + Size(entries[n])
  BY <1>3
<1> DEFINE S == {n \in Nat : n <= L => total[n] = f[n]}
<1>6. 0 \in S
  BY <1>1, <1>5 DEF Sums
<1>7. ASSUME NEW n \in Nat, n \in S PROVE n + 1 \in S
  BY <1>1, <1>5, <1>7 DEF Sums
<1> HIDE DEF S
<1>8. \A n \in Nat : n \in S
  BY <1>6, <1>7, NumbersInductive
<1>9. total[L] = f[L]
  BY <1>8 DEF S
<1> QED BY <1>1, <1>4, <1>9

LEMMA BytesOfNone == Bytes(<<>>) = 0
<1>1. <<>> \in Seq(Member) /\ Len(<<>>) = 0
  OBVIOUS
<1>2. PICK f \in [0..Len(<<>>) -> Nat] :
        Sums(<<>>, f) /\ Bytes(<<>>) = f[Len(<<>>)]
  BY <1>1, BytesOf
<1> QED BY <1>1, <1>2 DEF Sums

LEMMA BytesAppended ==
  ASSUME NEW entries \in Seq(Member), NEW e \in Member
  PROVE  Bytes(Append(entries, e)) = Bytes(entries) + Size(e)
<1> DEFINE L == Len(entries)
           longer == Append(entries, e)
<1>1. /\ longer \in Seq(Member) /\ Len(longer) = L + 1 /\ L \in Nat
      /\ \A k \in 1..L : longer[k] = entries[k]
      /\ longer[L + 1] = e
  OBVIOUS
<1>2. PICK f \in [0..L -> Nat] : Sums(entries, f) /\ Bytes(entries) = f[L]
  BY BytesOf
<1> HIDE DEF longer
<1>3. PICK g \in [0..(L + 1) -> Nat] : Sums(longer, g)
             /\ Bytes(longer) = g[L + 1]
  BY <1>1, BytesOf
<1> DEFINE S == {n \in Nat : n <= L => g[n] = f[n]}
<1>4. 0 \in S
  BY <1>1, <1>2, <1>3 DEF Sums
<1>5. ASSUME NEW n \in Nat, n \in S PROVE n + 1 \in S
  <2> SUFFICES ASSUME n + 1 <= L PROVE g[n + 1] = f[n + 1]
    OBVIOUS
  <2>1. g[n] = f[n] /\ n + 1 \in 1..L /\ n + 1 \in 0..(L + 1) /\ n + 1 \in 0..L
    BY <1>1, <1>5
  <2>2. g[n + 1] = g[n] + Size(longer[n + 1])
    <3>1. n + 1 \in 0..Len(longer) /\ n + 1 # 0 /\ (n + 1) - 1 = n
      BY <1>1, <2>1
    <3> QED BY <1>3, <3>1 DEF Sums
  <2>3. f[n + 1] = f[n] + Size(entries[n + 1])
    <3>1. n + 1 \in 0..Len(entries) /\ n + 1 # 0 /\ (n + 1) - 1 = n
      BY <1>1, <2>1
    <3> QED BY <1>2, <3>1 DEF Sums
  <2> QED BY <1>1, <2>1, <2>2, <2>3
<1> HIDE DEF S
<1>6. \A n \in Nat : n \in S
  BY <1>4, <1>5, NumbersInductive
<1>7. g[L] = f[L]
  BY <1>1, <1>6 DEF S
<1>8. g[L + 1] = g[L] + Size(longer[L + 1])
  BY <1>1, <1>3 DEF Sums
<1> QED BY <1>1, <1>2, <1>3, <1>7, <1>8 DEF longer

\* What passes the checks of the metadata.
LEMMA CheckedArchive ==
  ASSUME NEW origin \in {"uploaded", "fetched"}, NEW entries \in Seq(Member),
         ~RefusedMetadata(origin, entries)
  PROVE  /\ Len(entries) <= MaxFiles
         /\ \A j, k \in DOMAIN entries :
              entries[j].path = entries[k].path => j = k
         /\ FilePaths(entries) \cap Directories(entries) = {}
<1> DEFINE n == Len(entries)
           at == [k \in 1..n |-> entries[k].path]
<1>1. n \in Nat /\ DOMAIN entries = 1..n
  OBVIOUS
<1>2. IsFiniteSet(1..n) /\ Cardinality(1..n) = n
  BY <1>1, CountOf
<1>3. at \in Surjection(1..n, Paths(entries))
  BY <1>1 DEF Surjection, Paths
<1>4. /\ IsFiniteSet(Paths(entries))
      /\ Cardinality(Paths(entries)) <= n
      /\ Cardinality(Paths(entries)) = n
           <=> at \in Injection(1..n, Paths(entries))
  BY <1>2, <1>3, FS_Surjection
<1>5. /\ n <= MaxFiles /\ ~(Cardinality(Paths(entries)) < n)
      /\ FilePaths(entries) \cap Directories(entries) = {}
  BY <1>1, BundlesAssumption DEF RefusedMetadata, NestedBelowFile
<1>6. Cardinality(Paths(entries)) = n
  BY <1>1, <1>4, <1>5, FS_CardinalityType
<1>7. at \in Injection(1..n, Paths(entries))
  BY <1>4, <1>6
<1>8. \A j, k \in 1..n : at[j] = at[k] => j = k
  BY <1>7 DEF Injection, IsInjective
<1> QED BY <1>1, <1>5, <1>8

\* The paths of some entries are as many as they.
LEMMA PathsCount ==
  ASSUME NEW entries \in Seq(Member), NEW ks \in SUBSET DOMAIN entries,
         \A j, k \in DOMAIN entries : entries[j].path = entries[k].path
           => j = k
  PROVE  /\ IsFiniteSet(ks)
         /\ IsFiniteSet({entries[k].path : k \in ks})
         /\ Cardinality({entries[k].path : k \in ks}) = Cardinality(ks)
         /\ Cardinality(ks) <= Len(entries)
<1> DEFINE n == Len(entries)
           ps == {entries[k].path : k \in ks}
           at == [k \in ks |-> entries[k].path]
<1>1. n \in Nat /\ DOMAIN entries = 1..n
  OBVIOUS
<1>2. IsFiniteSet(1..n) /\ Cardinality(1..n) = n
  BY <1>1, CountOf
<1>3. IsFiniteSet(ks) /\ Cardinality(ks) <= n
  BY <1>1, <1>2, FS_Subset
<1>4. at \in Surjection(ks, ps)
  BY DEF Surjection
<1>5. at \in Injection(ks, ps)
  BY <1>1 DEF Injection, IsInjective
<1>6. /\ IsFiniteSet(ps)
      /\ Cardinality(ps) = Cardinality(ks) <=> at \in Injection(ks, ps)
  BY <1>3, <1>4, FS_Surjection
<1> QED BY <1>3, <1>5, <1>6

\* Without their common top, different paths stay different.
LEMMA UnwrappedApart ==
  ASSUME NEW p \in Seq(Name), NEW q \in Seq(Name), Len(p) > 1, Len(q) > 1,
         p[1] = q[1], Tail(p) = Tail(q)
  PROVE  p = q
<1>1. /\ Len(Tail(p)) = Len(p) - 1 /\ Len(Tail(q)) = Len(q) - 1
      /\ \A k \in 1..(Len(p) - 1) : Tail(p)[k] = p[k + 1]
      /\ \A k \in 1..(Len(q) - 1) : Tail(q)[k] = q[k + 1]
  OBVIOUS
<1>2. Len(p) = Len(q) /\ Len(p) \in Nat
  BY <1>1
<1>3. ASSUME NEW k \in 1..Len(p) PROVE p[k] = q[k]
  <2>1. CASE k = 1
    BY <2>1
  <2>2. CASE k # 1
    <3>1. k - 1 \in 1..(Len(p) - 1) /\ k = (k - 1) + 1
      BY <1>2, <2>2
    <3> QED BY <1>1, <1>2, <3>1
  <2> QED BY <2>1, <2>2
<1> QED BY <1>2, <1>3

\* The files among the first entries.
FilesBefore(entries, n) == {k \in Files(entries) : k < n}

Bundle ==
  [pc : {"idle", "received", "extracting", "refused", "accepted"},
   origin : {"uploaded", "fetched"}, entries : Seq(Member), next : Nat \ {0},
   files : Seq(Member), written : 0..MaxBytes, kept : SUBSET Seq(Name)]

\* While an archive is written, its checks have been passed, and what there is
\* are the files before the next entry.
ExtractionInv ==
  bundle.pc = "extracting" =>
    /\ ~RefusedMetadata(bundle.origin, bundle.entries)
    /\ bundle.next <= Len(bundle.entries) + 1
    /\ Len(bundle.files)
         = Cardinality(FilesBefore(bundle.entries, bundle.next))
    /\ Written = {bundle.entries[k].path :
                    k \in FilesBefore(bundle.entries, bundle.next)}
    /\ \A k \in DOMAIN bundle.entries :
         k < bundle.next => ~MeetsArchive(bundle.entries[k])

FilesInv ==
  /\ Bytes(bundle.files) = bundle.written
  /\ Len(bundle.files) <= MaxFiles
  /\ bundle.pc \in {"idle", "received", "refused"} => bundle.files = <<>>
  /\ bundle.pc = "received" => bundle.next = 1
  /\ bundle.pc # "accepted" => bundle.kept = {}

AcceptedInv ==
  bundle.pc = "accepted" =>
    /\ Written = FilePaths(bundle.entries)
    /\ Cardinality(bundle.kept) = Cardinality(Files(bundle.entries))
    /\ bundle.origin = "uploaded" => SpecFile \in bundle.kept
    /\ \A k \in DOMAIN bundle.entries : ~MeetsArchive(bundle.entries[k])

BundleInv == bundle \in Bundle /\ ExtractionInv /\ FilesInv /\ AcceptedInv

\* A file that is written is one of a given size.
LEMMA ResizedMember ==
  ASSUME NEW e \in Member, NEW bytes \in Nat
  PROVE  LET w == [e EXCEPT !.size = bytes]
         IN w \in Member /\ w.path = e.path /\ w.kind = e.kind
              /\ w.size = bytes
BY DEF Member

LEMMA NothingBundled ==
  /\ NoBundle \in Bundle /\ NoBundle.pc = "idle" /\ NoBundle.files = <<>>
  /\ NoBundle.written = 0 /\ NoBundle.kept = {} /\ NoBundle.next = 1
<1>1. MaxBytes \in Nat
  BY BundlesAssumption
<1> QED BY <1>1 DEF NoBundle, Bundle

LEMMA EmptyBundle ==
  ASSUME bundle' \in Bundle, bundle'.files = <<>>, bundle'.written = 0,
         bundle'.kept = {}, bundle'.pc \in {"idle", "received", "refused"},
         bundle'.next = 1 \/ bundle'.pc # "received"
  PROVE  BundleInv'
<1>1. MaxFiles \in Nat /\ Len(<<>>) = 0
  BY BundlesAssumption
<1>2. FilesInv'
  BY <1>1, BytesOfNone DEF FilesInv
<1> QED BY <1>2 DEF BundleInv, ExtractionInv, AcceptedInv

LEMMA RemovedBundle ==
  ASSUME BundleInv, bundle' = Removed
  PROVE  BundleInv'
<1> DEFINE nothing == <<>>
           one == [bundle EXCEPT !.pc = "refused"]
           two == [one EXCEPT !.files = nothing]
           three == [two EXCEPT !.written = 0]
           four == [three EXCEPT !.kept = {}]
<1>1. bundle \in Bundle /\ bundle' = four /\ MaxBytes \in Nat
  BY BundlesAssumption DEF BundleInv, Removed
<1>6. nothing \in Seq(Member) /\ nothing = <<>>
  OBVIOUS
<1>7. 0 \in 0..MaxBytes
  BY BundlesAssumption
<1>2. one \in Bundle /\ one.pc = "refused"
  BY <1>1 DEF Bundle
<1> HIDE DEF one, nothing
<1>3. two \in Bundle /\ two.pc = "refused" /\ two.files = <<>>
  BY <1>2, <1>6 DEF Bundle
<1> HIDE DEF two
<1>4. /\ three \in Bundle /\ three.pc = "refused" /\ three.files = <<>>
      /\ three.written = 0
  BY <1>3, <1>7 DEF Bundle
<1> HIDE DEF three
<1>5. /\ four \in Bundle /\ four.pc = "refused" /\ four.files = <<>>
      /\ four.written = 0 /\ four.kept = {}
  BY <1>4 DEF Bundle
<1> HIDE DEF four
<1> QED BY <1>1, <1>5, EmptyBundle

LEMMA ReceivedBundle ==
  ASSUME BundleInv, NEW origin \in {"uploaded", "fetched"},
         NEW entries \in Seq(Member), Receive(origin, entries)
  PROVE  BundleInv'
<1> DEFINE one == [NoBundle EXCEPT !.pc = "received"]
           two == [one EXCEPT !.origin = origin]
           three == [two EXCEPT !.entries = entries]
<1>1. bundle' = three
  BY DEF Receive
<1>0. origin \in {"uploaded", "fetched"} /\ entries \in Seq(Member)
  OBVIOUS
<1>2. /\ one \in Bundle /\ one.pc = "received" /\ one.files = <<>>
      /\ one.written = 0 /\ one.kept = {} /\ one.next = 1
  BY NothingBundled DEF Bundle
<1> HIDE DEF one
<1>3. /\ two \in Bundle /\ two.pc = "received" /\ two.files = <<>>
      /\ two.written = 0 /\ two.kept = {} /\ two.next = 1
  BY <1>0, <1>2 DEF Bundle
<1> HIDE DEF two
<1>4. /\ three \in Bundle /\ three.pc = "received" /\ three.files = <<>>
      /\ three.written = 0 /\ three.kept = {} /\ three.next = 1
  BY <1>0, <1>3 DEF Bundle
<1> HIDE DEF three
<1> QED BY <1>1, <1>4, EmptyBundle

LEMMA ValidatedBundle ==
  ASSUME BundleInv, ValidateArchive
  PROVE  BundleInv'
<1> DEFINE one == [bundle EXCEPT !.pc = "extracting"]
<1>1. bundle \in Bundle /\ bundle' = one /\ FilesInv /\ bundle.pc = "received"
  BY DEF BundleInv, ValidateArchive
<1>2. /\ one \in Bundle /\ one.pc = "extracting" /\ one.files = bundle.files
      /\ one.written = bundle.written /\ one.kept = bundle.kept
      /\ one.next = bundle.next /\ one.entries = bundle.entries
      /\ one.origin = bundle.origin
  BY <1>1 DEF Bundle
<1> HIDE DEF one
<1>3. /\ bundle.next = 1 /\ bundle.files = <<>>
  BY <1>1 DEF FilesInv
<1>4. bundle.entries \in Seq(Member)
  BY <1>1 DEF Bundle
<1>5. FilesBefore(bundle.entries, 1) = {}
  BY <1>4 DEF FilesBefore, Files
<1>6. Cardinality({}) = 0 /\ Len(<<>>) = 0
  BY FS_EmptySet
<1>7. Paths(<<>>) = {}
  BY DEF Paths
<1>8. Len(bundle.entries) \in Nat
  BY <1>4
<1>9. ~RefusedMetadata(bundle.origin, bundle.entries)
  BY DEF ValidateArchive
<1>10. ExtractionInv'
  <2>1. ~RefusedMetadata(bundle.origin, bundle.entries)'
    BY <1>1, <1>2, <1>9 DEF RefusedMetadata, NestedBelowFile
  <2>2. bundle'.next <= Len(bundle'.entries) + 1
    BY <1>1, <1>2, <1>3, <1>8
  <2>3. FilesBefore(bundle'.entries, bundle'.next) = {} /\ bundle'.files = <<>>
    BY <1>1, <1>2, <1>3, <1>5
  <2>4. Written' = {}
    BY <1>7, <2>3 DEF Written
  <2>5. \A k \in DOMAIN bundle'.entries : ~(k < bundle'.next)
    BY <1>1, <1>2, <1>3, <1>4
  <2> QED BY <1>6, <2>1, <2>2, <2>3, <2>4, <2>5 DEF ExtractionInv
<1>11. FilesInv'
  BY <1>1, <1>2 DEF FilesInv
<1> QED BY <1>1, <1>2, <1>10, <1>11 DEF BundleInv, AcceptedInv

\* No entry meets another in its way.
LEMMA NothingInTheWay ==
  ASSUME BundleInv, Extracting
  PROVE  /\ Blocked(Entry) => MeetsArchive(Entry)
         /\ Entry \in Member /\ bundle.next \in DOMAIN bundle.entries
<1> DEFINE entries == bundle.entries
           n == bundle.next
           e == entries[n]
<1>1. /\ bundle \in Bundle /\ ExtractionInv /\ bundle.pc = "extracting"
      /\ n <= Len(entries)
  BY DEF BundleInv, Extracting
<1>2. /\ entries \in Seq(Member) /\ n \in Nat \ {0}
      /\ bundle.origin \in {"uploaded", "fetched"}
  BY <1>1 DEF Bundle
<1>3. n \in DOMAIN entries /\ e \in Member /\ Entry = e
  BY <1>1, <1>2 DEF Entry
<1>4. /\ ~RefusedMetadata(bundle.origin, entries)
      /\ Written = {entries[k].path : k \in FilesBefore(entries, n)}
  BY <1>1 DEF ExtractionInv
<1>5. /\ \A j, k \in DOMAIN entries :
           entries[j].path = entries[k].path => j = k
      /\ FilePaths(entries) \cap Directories(entries) = {}
  BY <1>2, <1>4, CheckedArchive
<1>6. Above(e.path) \subseteq Directories(entries)
        /\ Written \subseteq FilePaths(entries)
  BY <1>3, <1>4 DEF Directories, Paths, FilePaths, FilesBefore
<1>7. e.path \notin Written
  <2> SUFFICES ASSUME NEW k \in FilesBefore(entries, n),
                        entries[k].path = e.path
               PROVE FALSE
    BY <1>4
  <2>1. k \in DOMAIN entries /\ k < n
    BY DEF FilesBefore, Files
  <2>2. k = n
    BY <1>3, <1>5, <2>1
  <2> QED BY <1>2, <2>1, <2>2
<1>8. /\ \A k \in DOMAIN Before : k \in DOMAIN entries /\ k < n
           /\ Before[k] = entries[k]
  BY <1>1, <1>2 DEF Before
<1>9. e.path \notin Paths(Before)
  <2> SUFFICES ASSUME NEW k \in DOMAIN Before, Before[k].path = e.path
               PROVE FALSE
    BY DEF Paths
  <2>1. k \in DOMAIN entries /\ k < n /\ entries[k].path = e.path
    BY <1>8
  <2>2. k = n
    BY <1>3, <1>5, <2>1
  <2> QED BY <1>2, <2>1, <2>2
<1>10. Paths(Before) \subseteq Paths(entries)
  BY <1>8 DEF Paths
<1>11. Directories(Before) \subseteq Directories(entries)
  BY <1>10 DEF Directories
<1>12. e.kind = "file" => e.path \in FilePaths(entries)
  BY <1>3 DEF FilePaths, Files
<1>13. Blocked(e) => MeetsArchive(e)
  <2>1. (Above(e.path) \cup {e.path}) \cap Written = {}
    BY <1>5, <1>6, <1>7
  <2>2. ~(e.kind = "file" /\ e.path \in Paths(Before) \cup Directories(Before))
    BY <1>5, <1>9, <1>11, <1>12
  <2> HIDE DEF e
  <2> QED BY <2>1, <2>2 DEF Blocked
<1> QED BY <1>3, <1>13

\* The entry that is written does not meet the archive, nor does one before it.
LEMMA ArchiveNotMet ==
  ASSUME BundleInv, Extracting, ~Blocked(Entry), bundle'.origin = bundle.origin,
         bundle'.entries = bundle.entries, bundle'.next = bundle.next + 1
  PROVE  \A k \in DOMAIN bundle'.entries :
           k < bundle'.next => ~MeetsArchive(bundle.entries[k])'
<1>1. /\ bundle \in Bundle /\ ExtractionInv /\ bundle.pc = "extracting"
  BY DEF BundleInv, Extracting
<1>2. bundle.next \in Nat /\ bundle.entries \in Seq(Member)
  BY <1>1 DEF Bundle
<1>3. \A k \in DOMAIN bundle.entries :
        k < bundle.next + 1 => k < bundle.next \/ k = bundle.next
  BY <1>2
<1>4. ~MeetsArchive(bundle.entries[bundle.next])
  BY DEF Blocked, Entry
<1>5. \A k \in DOMAIN bundle.entries :
        k < bundle.next + 1 => ~MeetsArchive(bundle.entries[k])
  BY <1>1, <1>3, <1>4 DEF ExtractionInv
<1> QED BY <1>5 DEF MeetsArchive

\* The files before the entry after the next.
LEMMA OneEntryFurther ==
  ASSUME NEW entries \in Seq(Member), NEW n \in DOMAIN entries
  PROVE  LET before == FilesBefore(entries, n)
             after == FilesBefore(entries, n + 1)
         IN /\ IsFiniteSet(before) /\ Cardinality(before) \in Nat
            /\ entries[n].kind # "file" => after = before
            /\ entries[n].kind = "file" =>
                 /\ after = before \cup {n}
                 /\ Cardinality(after) = Cardinality(before) + 1
<1> DEFINE before == FilesBefore(entries, n)
           after == FilesBefore(entries, n + 1)
<1>1. DOMAIN entries = 1..Len(entries) /\ Len(entries) \in Nat /\ n \in Nat
  OBVIOUS
<1>2. IsFiniteSet(before) /\ Cardinality(before) \in Nat
  <2>1. before \in SUBSET (1..Len(entries))
    BY <1>1 DEF FilesBefore, Files
  <2> HIDE DEF before
  <2> QED BY <1>1, <2>1, CountOf, FS_Subset, FS_CardinalityType
<1>3. entries[n].kind # "file" => after = before
  BY <1>1 DEF FilesBefore, Files
<1>4. entries[n].kind = "file" => after = before \cup {n}
  BY <1>1 DEF FilesBefore, Files
<1>5. n \notin before
  BY <1>1 DEF FilesBefore
<1> HIDE DEF before, after
<1>6. Cardinality(before \cup {n}) = Cardinality(before) + 1
  BY <1>2, <1>5, FS_AddElement
<1> QED BY <1>2, <1>3, <1>4, <1>6 DEF before, after

LEMMA DirectoryMade ==
  ASSUME BundleInv, MakeDirectory
  PROVE  BundleInv'
<1> DEFINE n == bundle.next
           one == [bundle EXCEPT !.next = n + 1]
<1>1. /\ bundle \in Bundle /\ bundle' = one /\ ExtractionInv /\ FilesInv
      /\ bundle.pc = "extracting" /\ n <= Len(bundle.entries)
      /\ Extracting /\ Entry.kind = "directory" /\ ~Blocked(Entry)
  BY DEF BundleInv, MakeDirectory, Extracting
<1>2. /\ n \in Nat \ {0} /\ n + 1 \in Nat \ {0}
           /\ bundle.entries \in Seq(Member)
  BY <1>1 DEF Bundle
<1>3. /\ one \in Bundle /\ one.pc = "extracting" /\ one.files = bundle.files
      /\ one.written = bundle.written /\ one.kept = bundle.kept
      /\ one.next = n + 1 /\ one.entries = bundle.entries
      /\ one.origin = bundle.origin
  BY <1>1, <1>2 DEF Bundle
<1> HIDE DEF one
<1>4. n \in DOMAIN bundle.entries /\ bundle.entries[n].kind # "file"
  BY <1>1, NothingInTheWay DEF Entry
<1>5. FilesBefore(bundle.entries, n + 1) = FilesBefore(bundle.entries, n)
  <2>1. PICK entries \in Seq(Member) : entries = bundle.entries
    BY <1>2
  <2>2. PICK m \in DOMAIN entries : m = n
    BY <1>4, <2>1
  <2>3. FilesBefore(entries, m + 1) = FilesBefore(entries, m)
    BY <1>4, <2>1, <2>2, OneEntryFurther
  <2> QED BY <2>1, <2>2, <2>3
<1>6. Written' = Written
  BY <1>1, <1>3 DEF Written
<1>7. ExtractionInv'
  <2>1. ~RefusedMetadata(bundle.origin, bundle.entries)'
    BY <1>1, <1>3 DEF ExtractionInv
  <2>2. /\ Len(bundle.files) = Cardinality(FilesBefore(bundle.entries, n))
        /\ Written
             = {bundle.entries[k].path : k \in FilesBefore(bundle.entries, n)}
    BY <1>1 DEF ExtractionInv
  <2>3. n + 1 <= Len(bundle.entries) + 1
    BY <1>1, <1>2
  <2>4. \A k \in DOMAIN bundle'.entries :
          k < bundle'.next => ~MeetsArchive(bundle.entries[k])'
    BY <1>1, <1>3, ArchiveNotMet
  <2> QED BY <1>1, <1>3, <1>5, <1>6, <2>1, <2>2, <2>3, <2>4
               DEF ExtractionInv
<1>8. FilesInv'
  BY <1>1, <1>3 DEF FilesInv
<1> QED BY <1>1, <1>3, <1>7, <1>8 DEF BundleInv, AcceptedInv

LEMMA PathsAppended ==
  ASSUME NEW entries \in Seq(Member), NEW e \in Member
  PROVE  Paths(Append(entries, e)) = Paths(entries) \cup {e.path}
<1> DEFINE L == Len(entries)
           longer == Append(entries, e)
<1>1. /\ DOMAIN longer = 1..(L + 1) /\ DOMAIN entries = 1..L /\ L \in Nat
      /\ \A k \in 1..L : longer[k] = entries[k]
      /\ longer[L + 1] = e
  OBVIOUS
<1> HIDE DEF longer
<1>2. 1..(L + 1) = (1..L) \cup {L + 1}
  BY <1>1
<1> HIDE DEF L
<1>3. Paths(longer) = Paths(entries) \cup {e.path}
  BY <1>1, <1>2 DEF Paths
<1> QED BY <1>3 DEF longer

LEMMA EntryWritten ==
  ASSUME BundleInv, NEW bytes \in Nat, WriteEntry(bytes)
  PROVE  BundleInv'
<1> DEFINE n == bundle.next
           w == [Entry EXCEPT !.size = bytes]
           files == Append(bundle.files, w)
           written == bundle.written + bytes
           one == [bundle EXCEPT !.next = n + 1]
           two == [one EXCEPT !.written = written]
           three == [two EXCEPT !.files = files]
<1>1. /\ bundle \in Bundle /\ ExtractionInv /\ FilesInv
      /\ bundle.pc = "extracting" /\ n <= Len(bundle.entries)
      /\ Extracting /\ Entry.kind = "file" /\ written <= MaxBytes
      /\ ~Blocked(Entry)
  BY DEF BundleInv, WriteEntry, Extracting
<1>2. bundle' = three
  BY <1>1 DEF WriteEntry
<1>3. /\ n \in Nat \ {0} /\ n + 1 \in Nat \ {0}
           /\ bundle.entries \in Seq(Member)
      /\ bundle.origin \in {"uploaded", "fetched"}
      /\ bundle.files \in Seq(Member) /\ bundle.written \in Nat
  BY <1>1, BundlesAssumption DEF Bundle
<1>4. Entry \in Member /\ n \in DOMAIN bundle.entries
        /\ Entry = bundle.entries[n]
  BY <1>1, NothingInTheWay DEF Entry
<1>5. w \in Member /\ w.path = Entry.path /\ w.kind = "file" /\ w.size = bytes
  BY <1>1, <1>4, ResizedMember
<1> HIDE DEF w
<1>6. files \in Seq(Member) /\ Len(files) = Len(bundle.files) + 1
  BY <1>3, <1>5
<1>7. Bytes(files) = written
  <2>1. Bytes(files) = Bytes(bundle.files) + Size(w)
    BY <1>3, <1>5, BytesAppended
  <2> QED BY <1>1, <1>5, <2>1 DEF FilesInv, Size
<1>8. Paths(files) = Written \cup {Entry.path}
  BY <1>3, <1>5, PathsAppended DEF Written
<1>9. written \in 0..MaxBytes
  BY <1>1, <1>3, BundlesAssumption
<1> HIDE DEF files, written
<1>10. /\ one \in Bundle /\ one.pc = "extracting" /\ one.kept = bundle.kept
       /\ one.next = n + 1 /\ one.entries = bundle.entries
       /\ one.origin = bundle.origin
  BY <1>1, <1>3 DEF Bundle
<1> HIDE DEF one
<1>11. /\ two \in Bundle /\ two.pc = "extracting" /\ two.kept = bundle.kept
       /\ two.next = n + 1 /\ two.entries = bundle.entries
       /\ two.origin = bundle.origin /\ two.written = written
  BY <1>9, <1>10 DEF Bundle
<1> HIDE DEF two
<1>12. /\ three \in Bundle /\ three.pc = "extracting"
            /\ three.kept = bundle.kept
       /\ three.next = n + 1 /\ three.entries = bundle.entries
       /\ three.origin = bundle.origin /\ three.written = written
       /\ three.files = files
  BY <1>6, <1>11 DEF Bundle
<1> HIDE DEF three
<1> DEFINE before == FilesBefore(bundle.entries, n)
           after == FilesBefore(bundle.entries, n + 1)
<1>13. after = before \cup {n} /\ Cardinality(after) = Cardinality(before) + 1
  <2>1. PICK entries \in Seq(Member) : entries = bundle.entries
    BY <1>3
  <2>2. PICK m \in DOMAIN entries : m = n
    BY <1>4, <2>1
  <2>3. entries[m].kind = "file"
    BY <1>1, <1>4, <2>1, <2>2
  <2>4. /\ FilesBefore(entries, m + 1) = FilesBefore(entries, m) \cup {m}
        /\ Cardinality(FilesBefore(entries, m + 1))
             = Cardinality(FilesBefore(entries, m)) + 1
    BY <2>3, OneEntryFurther
  <2> QED BY <2>1, <2>2, <2>4
<1>14. /\ ~RefusedMetadata(bundle.origin, bundle.entries)
       /\ Len(bundle.files) = Cardinality(before)
       /\ Written = {bundle.entries[k].path : k \in before}
  BY <1>1 DEF ExtractionInv
<1> HIDE DEF before
<1>15. Written' = {bundle.entries[k].path : k \in after}
  <2>1. Written' = Written \cup {bundle.entries[n].path}
    BY <1>2, <1>4, <1>8, <1>12 DEF Written
  <2> HIDE DEF after
  <2> QED BY <1>13, <1>14, <2>1
<1>16. Len(files) = Cardinality(after)
  BY <1>6, <1>13, <1>14
<1>17. Len(files) <= MaxFiles
  <2>1. PICK entries \in Seq(Member) : entries = bundle.entries
    BY <1>3
  <2>2. PICK origin \in {"uploaded", "fetched"} : origin = bundle.origin
    BY <1>3
  <2>3. /\ Len(entries) <= MaxFiles
        /\ \A j, k \in DOMAIN entries : entries[j].path = entries[k].path
             => j = k
    BY <1>14, <2>1, <2>2, CheckedArchive
  <2>4. after \in SUBSET DOMAIN entries
    BY <2>1 DEF FilesBefore, Files
  <2> HIDE DEF after
  <2>5. IsFiniteSet(after) /\ Cardinality(after) <= Len(entries)
    BY <2>3, <2>4, PathsCount
  <2>6. Cardinality(after) \in Nat /\ Len(entries) \in Nat /\ MaxFiles \in Nat
    BY <2>5, FS_CardinalityType, BundlesAssumption
  <2> QED BY <1>16, <2>3, <2>5, <2>6
<1>18. ExtractionInv'
  <2>1. ~RefusedMetadata(bundle.origin, bundle.entries)'
    BY <1>2, <1>12, <1>14
  <2>2. n + 1 <= Len(bundle.entries) + 1
    BY <1>1, <1>3
  <2>3. /\ bundle'.next = n + 1 /\ bundle'.entries = bundle.entries
        /\ bundle'.files = files
    BY <1>2, <1>12
  <2>4. FilesBefore(bundle.entries, bundle.next)' = after
    BY <2>3
  <2>5. \A k \in DOMAIN bundle'.entries :
          k < bundle'.next => ~MeetsArchive(bundle.entries[k])'
    BY <1>1, <1>2, <1>12, ArchiveNotMet
  <2> QED BY <1>15, <1>16, <2>1, <2>2, <2>3, <2>4, <2>5 DEF ExtractionInv
<1>19. FilesInv'
  BY <1>1, <1>2, <1>7, <1>12, <1>17 DEF FilesInv
<1> QED BY <1>2, <1>12, <1>18, <1>19 DEF BundleInv, AcceptedInv

\* What is there when the last entry has been written.
LEMMA AllWritten ==
  ASSUME BundleInv, Extracted
  PROVE  /\ Written = FilePaths(bundle.entries)
         /\ Cardinality(Written) = Cardinality(Files(bundle.entries))
         /\ IsFiniteSet(Written) /\ Written \subseteq Seq(Name)
         /\ Written \subseteq Paths(bundle.entries)
         /\ \A k \in DOMAIN bundle.entries : ~MeetsArchive(bundle.entries[k])
<1> DEFINE n == bundle.next
<1>1. /\ bundle \in Bundle /\ ExtractionInv /\ bundle.pc = "extracting"
      /\ n > Len(bundle.entries)
  BY DEF BundleInv, Extracted
<1>2. n \in Nat /\ bundle.entries \in Seq(Member)
      /\ bundle.origin \in {"uploaded", "fetched"}
  BY <1>1 DEF Bundle
<1>3. PICK entries \in Seq(Member) : entries = bundle.entries
  BY <1>2
<1>4. PICK origin \in {"uploaded", "fetched"} : origin = bundle.origin
  BY <1>2
<1>5. FilesBefore(entries, n) = Files(entries)
  BY <1>1, <1>2, <1>3 DEF FilesBefore, Files
<1>6. /\ ~RefusedMetadata(origin, entries)
      /\ Written = {entries[k].path : k \in Files(entries)}
  BY <1>1, <1>3, <1>4, <1>5 DEF ExtractionInv
<1>7. \A j, k \in DOMAIN entries : entries[j].path = entries[k].path => j = k
  BY <1>6, CheckedArchive
<1>8. Files(entries) \in SUBSET DOMAIN entries
  BY DEF Files
<1>9. /\ IsFiniteSet(Written)
      /\ Cardinality(Written) = Cardinality(Files(entries))
  BY <1>6, <1>7, <1>8, PathsCount
<1>10. \A k \in Files(entries) : entries[k].path \in Seq(Name)
         /\ k \in DOMAIN entries
  <2>1. \A k \in DOMAIN entries : entries[k] \in Member
    OBVIOUS
  <2>2. \A e \in Member : e.path \in Seq(Name)
    BY DEF Member
  <2> QED BY <1>8, <2>1, <2>2
<1>11. \A k \in DOMAIN bundle.entries : k < n
  BY <1>1, <1>2
<1>12. \A k \in DOMAIN bundle.entries : ~MeetsArchive(bundle.entries[k])
  BY <1>1, <1>11 DEF ExtractionInv
<1> QED BY <1>3, <1>6, <1>9, <1>10, <1>12 DEF FilePaths, Paths

LEMMA AcceptedBundle ==
  ASSUME BundleInv, Extracted, NEW kept \in SUBSET Seq(Name),
         Cardinality(kept) = Cardinality(Files(bundle.entries)),
         bundle.origin = "uploaded" => SpecFile \in kept,
         bundle' = [bundle EXCEPT !.pc = "accepted", !.kept = kept]
  PROVE  BundleInv'
<1> DEFINE one == [bundle EXCEPT !.pc = "accepted"]
           two == [one EXCEPT !.kept = kept]
<1>1. bundle \in Bundle /\ bundle' = two /\ FilesInv
  BY DEF BundleInv
<1>2. /\ one \in Bundle /\ one.pc = "accepted" /\ one.files = bundle.files
      /\ one.written = bundle.written /\ one.entries = bundle.entries
      /\ one.origin = bundle.origin
  BY <1>1 DEF Bundle
<1> HIDE DEF one
<1>3. /\ two \in Bundle /\ two.pc = "accepted" /\ two.files = bundle.files
      /\ two.written = bundle.written /\ two.entries = bundle.entries
      /\ two.origin = bundle.origin /\ two.kept = kept
  BY <1>2 DEF Bundle
<1> HIDE DEF two
<1>4. FilesInv'
  BY <1>1, <1>3 DEF FilesInv
<1>5. AcceptedInv'
  <2>1. Written' = Written
    BY <1>1, <1>3 DEF Written
  <2>2. Written = FilePaths(bundle.entries)
    BY AllWritten
  <2>3. \A k \in DOMAIN bundle.entries : ~MeetsArchive(bundle.entries[k])'
    BY <1>1, <1>3, AllWritten DEF MeetsArchive
  <2> QED BY <1>1, <1>3, <2>1, <2>2, <2>3 DEF AcceptedInv
<1> QED BY <1>1, <1>3, <1>4, <1>5 DEF BundleInv, ExtractionInv

LEMMA SelectedBundle ==
  ASSUME BundleInv, NEW selected, SelectMembers(selected)
  PROVE  BundleInv'
<1>1. Extracted /\ SpecFile \in Written
  BY DEF SelectMembers
<1>2. /\ Written \subseteq Seq(Name)
      /\ Cardinality(Written) = Cardinality(Files(bundle.entries))
  BY <1>1, AllWritten
<1>3. CASE bundle' = Removed
  BY <1>3, RemovedBundle
<1>4. CASE bundle' = [bundle EXCEPT !.pc = "accepted", !.kept = Written]
  <2>1. PICK kept \in SUBSET Seq(Name) : kept = Written
    BY <1>2
  <2>2. /\ bundle' = [bundle EXCEPT !.pc = "accepted", !.kept = kept]
        /\ SpecFile \in kept
        /\ Cardinality(kept) = Cardinality(Files(bundle.entries))
    BY <1>1, <1>2, <1>4, <2>1
  <2> QED BY <1>1, <2>2, AcceptedBundle
<1> QED BY <1>3, <1>4 DEF SelectMembers

\* The directories and the paths of an archive are finitely many.
LEMMA ImageFinite ==
  ASSUME NEW S, IsFiniteSet(S), NEW f, DOMAIN f = S,
         f = [x \in S |-> f[x]]
  PROVE  IsFiniteSet({f[x] : x \in S})
<1>1. f \in Surjection(S, {f[x] : x \in S})
  BY DEF Surjection
<1> QED BY <1>1, FS_Surjection

LEMMA TopsFinite ==
  ASSUME NEW entries \in Seq(Member)
  PROVE  IsFiniteSet(Tops(Paths(entries) \cup Directories(entries)))
<1> DEFINE P == Paths(entries)
           A == {Above(path) : path \in P}
           All == P \cup UNION A
<1>1. IsFiniteSet(P)
  <2> DEFINE f == [k \in 1..Len(entries) |-> entries[k].path]
  <2>1. IsFiniteSet(1..Len(entries))
    BY CountOf
  <2>2. IsFiniteSet({f[k] : k \in 1..Len(entries)})
    <3> HIDE DEF P
    <3> QED BY <2>1, ImageFinite
  <2>3. P = {f[k] : k \in 1..Len(entries)}
    BY DEF Paths
  <2> QED BY <2>2, <2>3
<1>2. \A path \in P : Len(path) \in Nat
  <2>1. \A k \in DOMAIN entries : entries[k] \in Member
    OBVIOUS
  <2>2. \A e \in Member : Len(e.path) \in Nat
    BY DEF Member
  <2> QED BY <2>1, <2>2 DEF Paths
<1> HIDE DEF P
<1>3. ASSUME NEW path \in P PROVE IsFiniteSet(Above(path))
  <2> DEFINE f == [n \in 1..(Len(path) - 1) |-> SubSeq(path, 1, n)]
  <2>1. IsFiniteSet(1..(Len(path) - 1))
    <3>1. PICK a \in Int, b \in Int : a = 1 /\ b = Len(path) - 1
      BY <1>2
    <3> QED BY <3>1, FS_Interval
  <2>2. IsFiniteSet({f[n] : n \in 1..(Len(path) - 1)})
    BY <2>1, ImageFinite
  <2>3. Above(path) = {f[n] : n \in 1..(Len(path) - 1)}
    BY DEF Above
  <2> QED BY <2>2, <2>3
<1>4. IsFiniteSet(A)
  <2> DEFINE f == [path \in P |-> Above(path)]
  <2>1. IsFiniteSet({f[path] : path \in P})
    BY <1>1, ImageFinite
  <2> QED BY <2>1
<1>5. IsFiniteSet(UNION A)
  BY <1>3, <1>4, FS_UNION
<1> HIDE DEF A
<1>6. IsFiniteSet(All)
  BY <1>1, <1>5, FS_Union
<1> HIDE DEF All
<1>7. IsFiniteSet({path[1] : path \in All})
  <2> DEFINE f == [path \in All |-> path[1]]
  <2>1. IsFiniteSet({f[path] : path \in All})
    BY <1>6, ImageFinite
  <2> QED BY <2>1
<1> QED BY <1>7 DEF All, A, P, Tops, Directories

LEMMA FetchedBundle ==
  ASSUME BundleInv, AcceptFetched
  PROVE  BundleInv'
<1>1. Extracted /\ bundle.origin = "fetched"
  BY DEF AcceptFetched
<1>2. /\ Written \subseteq Seq(Name) /\ IsFiniteSet(Written)
      /\ Cardinality(Written) = Cardinality(Files(bundle.entries))
      /\ Written \subseteq Paths(bundle.entries)
  BY <1>1, AllWritten
<1> DEFINE inner == {Tail(path) : path \in Written}
           new == IF Wrapped THEN inner ELSE Written
<1>3. Wrapped => inner \subseteq Seq(Name)
        /\ Cardinality(inner) = Cardinality(Written)
  <2> SUFFICES ASSUME Wrapped
               PROVE  inner \subseteq Seq(Name)
                        /\ Cardinality(inner) = Cardinality(Written)
    OBVIOUS
  <2>1. \A path \in Written : Len(path) > 1 /\ path \in Seq(Name)
    BY <1>2 DEF Wrapped
  <2>2. \A p, q \in Written : p[1] = q[1]
    <3>1. Cardinality(Tops(AllPaths)) = 1
      BY DEF Wrapped
    <3>2. \A p \in Written : p[1] \in Tops(AllPaths)
      BY <1>2 DEF Tops, AllPaths
    <3>3. IsFiniteSet(Tops(AllPaths))
      <4>1. PICK entries \in Seq(Member) : entries = bundle.entries
        BY DEF BundleInv, Bundle
      <4> QED BY <4>1, TopsFinite DEF AllPaths
    <3>4. \E x : Tops(AllPaths) = {x}
      BY <3>1, <3>3, FS_Singleton
    <3> QED BY <3>2, <3>4
  <2>3. \A p, q \in Written : Tail(p) = Tail(q) => p = q
    BY <2>1, <2>2, UnwrappedApart
  <2> DEFINE cut == [path \in Written |-> Tail(path)]
  <2>4. cut \in Surjection(Written, inner)
    BY DEF Surjection
  <2>5. cut \in Injection(Written, inner)
    BY <2>3 DEF Injection, IsInjective
  <2>6. Cardinality(inner) = Cardinality(Written)
          <=> cut \in Injection(Written, inner)
    <3> HIDE DEF cut, inner
    <3> QED BY <1>2, <2>4, FS_Surjection
  <2>7. \A p \in Written : Tail(p) \in Seq(Name)
    BY <2>1
  <2> QED BY <2>5, <2>6, <2>7
<1>4. new \in SUBSET Seq(Name) /\ Cardinality(new) = Cardinality(Written)
  BY <1>2, <1>3
<1>5. bundle' = [bundle EXCEPT !.pc = "accepted", !.kept = new]
  BY DEF AcceptFetched
<1> HIDE DEF new
<1>6. PICK kept \in SUBSET Seq(Name) : kept = new
  BY <1>4
<1>7. /\ bundle' = [bundle EXCEPT !.pc = "accepted", !.kept = kept]
      /\ Cardinality(kept) = Cardinality(Files(bundle.entries))
  BY <1>2, <1>4, <1>5, <1>6
<1> QED BY <1>1, <1>7, AcceptedBundle

LEMMA BundleStep ==
  ASSUME BundleInv, [BundleNext]_bundle
  PROVE  BundleInv'
<1>1. ASSUME NEW origin \in {"uploaded", "fetched"},
               NEW entries \in Seq(Member),
             Receive(origin, entries)
      PROVE  BundleInv'
  BY <1>1, ReceivedBundle
<1>2. CASE RefuseArchive \/ ExtractionFails \/ NoSpecFile \/ UnwrapFails
  BY <1>2, RemovedBundle
       DEF RefuseArchive, ExtractionFails, NoSpecFile, UnwrapFails
<1>3. CASE ValidateArchive
  BY <1>3, ValidatedBundle
<1>4. CASE MakeDirectory
  BY <1>4, DirectoryMade
<1>5. ASSUME NEW bytes \in Nat, WriteEntry(bytes) PROVE BundleInv'
  BY <1>5, EntryWritten
<1>6. ASSUME NEW selected, SelectMembers(selected) PROVE BundleInv'
  BY <1>6, SelectedBundle
<1>7. CASE AcceptFetched
  BY <1>7, FetchedBundle
<1>8. CASE Done
  BY <1>8, NothingBundled, EmptyBundle DEF Done
<1>9. CASE UNCHANGED bundle
  BY <1>9 DEF BundleInv, ExtractionInv, FilesInv, AcceptedInv, Written,
                  MeetsArchive
<1> QED BY <1>1, <1>2, <1>3, <1>4, <1>5, <1>6, <1>7, <1>8, <1>9
        DEF BundleNext, BundleSteps

LEMMA BundleInvariance == BundleSpec => []BundleInv
<1>1. BundleInit => BundleInv
  <2> SUFFICES ASSUME BundleInit PROVE BundleInv
    OBVIOUS
  <2>1. MaxFiles \in Nat /\ Len(<<>>) = 0
    BY BundlesAssumption
  <2>2. bundle = NoBundle
    BY DEF BundleInit
  <2>3. FilesInv
    BY <2>1, <2>2, NothingBundled, BytesOfNone DEF FilesInv
  <2> QED BY <2>2, <2>3, NothingBundled
               DEF BundleInv, ExtractionInv, AcceptedInv
<1>2. BundleInv /\ [BundleNext]_bundle => BundleInv'
  BY BundleStep
<1> QED BY <1>1, <1>2, PTL DEF BundleSpec

\* The theorem of the archives, for entries in any number, order and depth:
\* none meets another in its way, and one that meets the downloaded archive itself
\* keeps it from being accepted; no bound is exceeded, and what is accepted is every
\* file of the archive once.
THEOREM ArchivesAreSound == BundleSpec => []ArchiveSound
<1>1. BundleInv => ArchiveSound
  <2> SUFFICES ASSUME BundleInv PROVE ArchiveSound
    OBVIOUS
  <2>1. Extracting /\ Blocked(Entry) => MeetsArchive(Entry)
    BY NothingInTheWay
  <2>2. bundle.written <= MaxBytes
    BY BundlesAssumption DEF BundleInv, Bundle
  <2> QED BY <2>1, <2>2 DEF BundleInv, FilesInv, AcceptedInv, ArchiveSound
<1> QED BY <1>1, BundleInvariance, PTL

-----------------------------------------------------------------------------
(* Reports                                                                 *)

LEMMA RoomIsNatural ==
  ASSUME NEW n \in Nat
  PROVE  Room(n) \in Nat /\ (n <= MaxEntries => n + Room(n) = MaxEntries)
BY ReportsAssumption DEF Room

LEMMA KeptIsShort ==
  ASSUME NEW r \in Report
  PROVE  /\ IsFiniteSet(Short(r)) /\ IsFiniteSet(Kept(r))
         /\ Kept(r) \subseteq Short(r) /\ Short(r) \subseteq 1..Len(r.overlong)
         /\ Cardinality(Kept(r)) \in Nat
         /\ Cardinality(Kept(r)) <= Room(r.errors + r.warnings)
         /\ Cardinality(Kept(r)) <= Len(r.overlong)
         /\ Cardinality(Kept(r)) = Len(r.overlong) <=> ~Stopped(r) /\ ~Omits(r)
<1> DEFINE n == Len(r.overlong)
           room == Room(r.errors + r.warnings)
<1>1. /\ r.overlong \in Seq(BOOLEAN) /\ r.errors \in Nat /\ r.warnings \in Nat
      /\ n \in Nat /\ DOMAIN r.overlong = 1..n /\ room \in Nat
  BY RoomIsNatural DEF Report
<1>2. Short(r) \subseteq 1..n /\ Kept(r) \subseteq Short(r)
  BY <1>1 DEF Short, Kept
<1>3. IsFiniteSet(1..n) /\ Cardinality(1..n) = n
  BY <1>1, CountOf
<1>4. IsFiniteSet(Short(r)) /\ Cardinality(Short(r)) <= n
  BY <1>2, <1>3, FS_Subset
<1>5. /\ IsFiniteSet(Kept(r)) /\ Cardinality(Kept(r)) \in Nat
      /\ Cardinality(Kept(r)) <= n
  BY <1>2, <1>3, FS_Subset, FS_CardinalityType
<1>6. Cardinality(Kept(r)) <= room
  <2>1. CASE Kept(r) = {}
    BY <1>1, <2>1, FS_EmptySet
  <2>2. CASE Kept(r) # {}
    <3>1. PICK m \in Kept(r) : \A k \in Kept(r) : k <= m
      <4>1. Kept(r) \in SUBSET (0..n)
        BY <1>1, <1>2
      <4> QED BY <1>1, <2>2, <4>1, GreatestMember
    <3> DEFINE upTo == {j \in Short(r) : j <= m}
    <3>2. Kept(r) \subseteq upTo /\ upTo \subseteq Short(r)
      BY <1>2, <3>1
    <3>3. Cardinality(upTo) <= room
      BY <3>1 DEF Kept
    <3> HIDE DEF upTo
    <3>4. IsFiniteSet(upTo)
      BY <1>4, <3>2, FS_Subset
    <3>5. Cardinality(upTo) \in Nat
            /\ Cardinality(Kept(r)) <= Cardinality(upTo)
      BY <3>2, <3>4, FS_Subset, FS_CardinalityType
    <3> QED BY <1>1, <1>5, <3>3, <3>5
  <2> QED BY <2>1, <2>2
<1>7. Cardinality(Kept(r)) = n <=> ~Stopped(r) /\ ~Omits(r)
  <2>1. Cardinality(Kept(r)) = n <=> Kept(r) = 1..n
    BY <1>2, <1>3, FS_Subset
  <2>2. Kept(r) = 1..n => ~Stopped(r) /\ ~Omits(r)
    BY <1>1, <1>2 DEF Stopped, Omits, Short
  <2>3. ~Stopped(r) /\ ~Omits(r) => Kept(r) = 1..n
    <3> SUFFICES ASSUME Kept(r) = Short(r), ~Omits(r) PROVE Short(r) = 1..n
      BY DEF Stopped
    <3>1. \A k \in 1..n : ~r.overlong[k]
      BY <1>1 DEF Omits
    <3> QED BY <1>1, <3>1 DEF Short
  <2> QED BY <2>1, <2>2, <2>3
<1> QED BY <1>2, <1>4, <1>5, <1>6, <1>7

LEMMA AddedFits ==
  ASSUME NEW r \in Report
  PROVE  LET kept == Cardinality(Kept(r))
             tags == Cardinality({k \in Short(r) : r.tagged[k]})
         IN /\ tags \in Nat /\ Added(r).wanted \in Nat /\ Added(r).fits \in Nat
            /\ Added(r).fits <= Added(r).wanted
            /\ r.errors + r.warnings + kept + Added(r).fits <= MaxEntries
            /\ ~Stopped(r) /\ ~Omits(r) => Added(r).wanted = tags
<1> DEFINE kept == Cardinality(Kept(r))
           tags == Cardinality({k \in Short(r) : r.tagged[k]})
           own == Cardinality({k \in Kept(r) : r.tagged[k]})
           used == r.errors + r.warnings + kept
           wanted == (IF Omits(r) THEN 1 ELSE 0) + own
<1>1. /\ r.errors \in Nat /\ r.warnings \in Nat
      /\ r.errors + r.warnings <= MaxEntries
  BY DEF Report
<1>2. /\ IsFiniteSet(Short(r)) /\ IsFiniteSet(Kept(r)) /\ kept \in Nat
      /\ kept <= Room(r.errors + r.warnings)
  BY KeptIsShort
<1>3. tags \in Nat /\ own \in Nat
  BY <1>2, FS_Subset, FS_CardinalityType
<1>4. used \in Nat /\ used <= MaxEntries
  BY <1>1, <1>2, RoomIsNatural, ReportsAssumption
<1>5. Room(used) \in Nat /\ used + Room(used) = MaxEntries
  BY <1>4, RoomIsNatural
<1>6. Added(r).wanted = wanted /\ Added(r).fits = Least(wanted, Room(used))
  BY DEF Added
<1>7. ~Stopped(r) /\ ~Omits(r) => wanted = tags
  BY <1>3 DEF Stopped
<1> HIDE DEF own, tags
<1>8. wanted \in Nat
  BY <1>3
<1> HIDE DEF wanted, used
<1>9. /\ Added(r).wanted \in Nat /\ Added(r).fits \in Nat
      /\ Added(r).fits <= Added(r).wanted
      /\ used + Added(r).fits <= MaxEntries
  BY <1>4, <1>5, <1>6, <1>8, ReportsAssumption DEF Least
<1> QED BY <1>3, <1>6, <1>7, <1>9 DEF tags, used

\* The theorem of the reports, for findings and environments in any number: all
\* errors are kept, the bound is only exceeded by errors and the marker, and
\* the report is marked exactly if something is missing.
THEOREM ReportsAreBounded == \A r \in Report : ReportSound(r)
<1> SUFFICES ASSUME NEW r \in Report PROVE ReportSound(r)
  OBVIOUS
<1> DEFINE E == r.errors
           W == r.warnings
           L == Len(r.overlong)
           kept == Cardinality(Kept(r))
           new == Added(r).fits
           tags == Cardinality({k \in Short(r) : r.tagged[k]})
           lost == Stopped(r) \/ Omits(r)
           total == E + W + kept + new
           over == IF Truncated(r) /\ total >= MaxEntries
                   THEN total - MaxEntries + 1 ELSE 0
           fromNew == Least(over, new)
           fromKept == Least(over - fromNew, kept)
           fromOld == Least(over - fromNew - fromKept, W)
           out == _add_bounded_environments(r)
<1>1. /\ E \in Nat /\ W \in Nat /\ L \in Nat /\ r.marked \in BOOLEAN
      /\ E + W <= MaxEntries /\ MaxEntries \in Nat
  BY ReportsAssumption DEF Report
<1>2. kept \in Nat /\ kept <= L /\ (kept = L <=> ~lost)
  BY KeptIsShort
<1>3. /\ tags \in Nat /\ new \in Nat /\ Added(r).wanted \in Nat
      /\ new <= Added(r).wanted /\ total <= MaxEntries
      /\ ~lost => Added(r).wanted = tags
  BY AddedFits
<1>4. Truncated(r) <=> r.marked \/ lost \/ new < Added(r).wanted
  BY DEF Truncated
<1>5. /\ out.errors = E /\ out.warnings = W - fromOld
      /\ out.added = new - fromNew /\ out.environments = kept - fromKept
      /\ out.marked = Truncated(r)
      /\ out.environmentsTruncated = (lost \/ fromKept > 0)
  BY DEF _add_bounded_environments
<1> HIDE DEF E, W, L, kept, new, tags, lost, out
<1>6. over \in Nat /\ (~Truncated(r) => over = 0)
  BY <1>1, <1>2, <1>3
<1>7. /\ over <= 1 /\ (Truncated(r) => total + 1 <= MaxEntries + over)
  BY <1>1, <1>2, <1>3
<1> HIDE DEF over
<1>8. /\ fromNew \in Nat /\ fromNew <= new /\ fromNew <= over
      /\ fromNew = over \/ fromNew = new
  BY <1>3, <1>6 DEF Least
<1> HIDE DEF fromNew
<1>9. /\ fromKept \in Nat /\ fromKept <= kept /\ fromNew + fromKept <= over
      /\ fromNew + fromKept = over \/ fromKept = kept
  BY <1>2, <1>6, <1>8 DEF Least
<1> HIDE DEF fromKept
<1>10. /\ fromOld \in Nat /\ fromOld <= W
       /\ fromNew + fromKept + fromOld <= over
       /\ fromNew + fromKept + fromOld = over \/ fromOld = W
  BY <1>1, <1>6, <1>8, <1>9 DEF Least
<1>11. fromOld > 0 => fromNew = new /\ fromKept = kept
  BY <1>2, <1>3, <1>6, <1>8, <1>9, <1>10
<1> HIDE DEF fromOld
<1> DEFINE entries == out.errors + out.warnings + out.added + out.environments
                        + (IF out.marked THEN 1 ELSE 0)
           missing == L - out.environments
<1>12. entries <= MaxEntries \/ entries <= E + 1
  <2>1. CASE Truncated(r)
    <3>1. entries = total + 1 - (fromNew + fromKept + fromOld)
      BY <1>1, <1>2, <1>3, <1>5, <1>8, <1>9, <1>10, <2>1
    <3>2. CASE fromNew + fromKept + fromOld = over
      BY <1>1, <1>2, <1>3, <1>6, <1>7, <2>1, <3>1, <3>2
    <3>3. CASE fromNew + fromKept + fromOld # over
      <4>1. fromOld = W /\ fromKept = kept /\ fromNew = new
        BY <1>1, <1>2, <1>3, <1>6, <1>8, <1>9, <1>10, <3>3
      <4> QED BY <1>1, <1>2, <1>3, <3>1, <4>1
    <3> QED BY <3>2, <3>3
  <2>2. CASE ~Truncated(r)
    BY <1>1, <1>2, <1>3, <1>5, <1>8, <1>9, <1>10, <2>2
  <2> QED BY <2>1, <2>2
<1>13. missing = (L - kept) + fromKept
         /\ (missing > 0 <=> lost \/ fromKept > 0)
  BY <1>1, <1>2, <1>5, <1>9
<1>14. out.marked <=> \/ r.marked \/ missing > 0 \/ out.warnings < W
                      \/ out.added < tags
  <2>1. CASE Truncated(r)
    BY <1>3, <1>4, <1>5, <1>8, <1>13, <2>1
  <2>2. CASE ~Truncated(r)
    <3>1. over = 0 /\ fromNew = 0 /\ fromKept = 0 /\ fromOld = 0
      BY <1>6, <1>8, <1>9, <1>10, <2>2
    <3>2. ~lost /\ new = tags /\ ~r.marked
      BY <1>3, <1>4, <2>2
    <3> QED BY <1>1, <1>3, <1>5, <1>13, <2>2, <3>1, <3>2
  <2> QED BY <2>1, <2>2
<1>15. out.warnings < W => out.added = 0 /\ out.environments = 0
  BY <1>1, <1>2, <1>3, <1>5, <1>8, <1>9, <1>10, <1>11
<1>16. out.environmentsTruncated <=> missing > 0
  BY <1>5, <1>13
<1> QED BY <1>5, <1>12, <1>14, <1>15, <1>16
        DEF ReportSound, E, W, L, tags, out

-----------------------------------------------------------------------------
(* Loads                                                                   *)

\* The theorem of the loads: whatever comes back from the sandbox, "valid" is
\* the server's own verdict on a candidate, and outages and faults of the
\* specification are never taken for each other.
THEOREM LoadsAreSound == \A l \in Load : LoadSound(l)
<1> SUFFICES ASSUME NEW l \in Load PROVE LoadSound(l)
  OBVIOUS
<1>1. /\ l.reached \in {"no", "refused", "malformed", "yes"}
      /\ l.exit \in {"loaded", "loadError", "internal", "other"}
      /\ l.internal \in BOOLEAN /\ l.candidate \in BOOLEAN /\ l.valid \in BOOLEAN
  BY DEF Load
<1> DEFINE verdict == ValidateInSandbox(l)
<1>2. verdict = IF \/ l.reached # "yes" \/ l.internal
                    \/ l.exit \notin {"loaded", "loadError"}
                    \/ l.candidate # (l.exit = "loaded")
                 THEN "outage"
                 ELSE IF ~l.candidate THEN "unloadable"
                 ELSE IF l.valid THEN "valid" ELSE "invalid"
  BY <1>1 DEF ValidateInSandbox, _authoritative_report
<1> HIDE DEF verdict
<1>3. CASE verdict = "outage"
  BY <1>3 DEF LoadSound, CodeOfLoad, CodeOfReport, verdict
<1>4. CASE verdict = "unloadable"
  BY <1>1, <1>2, <1>4 DEF LoadSound, CodeOfLoad, CodeOfReport, verdict
<1>5. CASE verdict = "valid"
  BY <1>1, <1>2, <1>5 DEF LoadSound, CodeOfLoad, CodeOfReport, verdict
<1>6. CASE verdict = "invalid"
  BY <1>1, <1>2, <1>6 DEF LoadSound, CodeOfLoad, CodeOfReport, verdict
<1> QED BY <1>2, <1>3, <1>4, <1>5, <1>6

-----------------------------------------------------------------------------
(* Functions that are defined by recursion                                 *)

\* G[k] gives the value at k of a function on D, from the values of the function
\* at what has a smaller rank.
Determines(D, V, rank, bound, G) ==
  /\ V # {} /\ bound \in Nat
  /\ rank \in [D -> Nat] /\ \A k \in D : rank[k] < bound
  /\ G \in [D -> [[D -> V] -> V]]
  /\ \A k \in D : \A g, h \in [D -> V] :
       (\A c \in D : rank[c] < rank[k] => g[c] = h[c]) => G[k][g] = G[k][h]

LEMMA RecursiveFunctionExists ==
  ASSUME NEW D, NEW V, NEW rank, NEW bound, NEW G,
         Determines(D, V, rank, bound, G)
  PROVE  \E f \in [D -> V] : \A k \in D : f[k] = G[k][f]
<1> USE DEF Determines
<1> PICK v \in V : TRUE
  OBVIOUS
<1> DEFINE Up(n, f) == \A k \in D : rank[k] < n => f[k] = G[k][f]
           S == {n \in Nat : \E f \in [D -> V] : Up(n, f)}
<1>1. 0 \in S
  <2>1. [k \in D |-> v] \in [D -> V] /\ Up(0, [k \in D |-> v])
    OBVIOUS
  <2> QED BY <2>1
<1>2. ASSUME NEW n \in Nat, n \in S PROVE n + 1 \in S
  <2>1. PICK g \in [D -> V] : Up(n, g)
    BY <1>2
  <2> DEFINE f == [k \in D |-> IF rank[k] = n THEN G[k][g] ELSE g[k]]
  <2>2. f \in [D -> V]
    OBVIOUS
  <2>3. ASSUME NEW k \in D, rank[k] < n + 1 PROVE f[k] = G[k][f]
    <3>1. \A c \in D : rank[c] < rank[k] => f[c] = g[c]
      BY <2>3
    <3> HIDE DEF f
    <3>2. G[k][f] = G[k][g]
      BY <2>2, <3>1
    <3>3. CASE rank[k] = n
      BY <3>2, <3>3 DEF f
    <3>4. CASE rank[k] # n
      <4>1. rank[k] < n
        <5> DEFINE r == rank[k]
        <5>1. r \in Nat /\ r < n + 1 /\ r # n
          BY <2>3, <3>4
        <5> HIDE DEF r
        <5>2. r < n
          BY <5>1
        <5> QED BY <5>2 DEF r
      <4>2. g[k] = G[k][g]
        BY <2>1, <4>1
      <4>3. f[k] = g[k]
        BY <3>4 DEF f
      <4> QED BY <3>2, <4>2, <4>3
    <3> QED BY <3>3, <3>4
  <2> HIDE DEF f
  <2>4. Up(n + 1, f)
    BY <2>3
  <2> QED BY <2>2, <2>4
<1> HIDE DEF S
<1>3. bound \in S
  BY <1>1, <1>2, NumbersInductive
<1> QED BY <1>3 DEF S

-----------------------------------------------------------------------------
(* What an estimate is made of                                             *)

USE EstimatesAssumption

Complexity == SUBSET [jobs : Nat, memory : Nat]

LEMMA AsksMemory ==
  ASSUME NEW step \in SpecStep
  PROVE  _get_memory_limit(step) \in Nat
BY DEF SpecStep, _get_memory_limit

LEMMA OwnComplexity ==
  ASSUME NEW step \in SpecStep, NEW declared
  PROVE  /\ Own(step, declared) \in Complexity
         /\ \A c \in Own(step, declared) :
              /\ c.memory = _get_memory_limit(step)
              /\ c.jobs # 0 => c.jobs = 1 /\ Backend(declared) = "kubernetes"
BY AsksMemory DEF Own, Asks, Complexity, _get_number_of_jobs

LEMMA TimesComplexity ==
  ASSUME NEW complexity \in Complexity, NEW n \in Nat
  PROVE  /\ Times(complexity, n) \in Complexity
         /\ \A c \in Times(complexity, n) : \E d \in complexity :
              c.memory = d.memory /\ (d.jobs = 0 => c.jobs = 0)
<1>1. ASSUME NEW d \in complexity
      PROVE  d.jobs * n \in Nat /\ d.memory \in Nat /\ (d.jobs = 0 => d.jobs * n = 0)
  <2>1. d \in [jobs : Nat, memory : Nat]
    BY DEF Complexity
  <2>2. d.jobs \in Nat /\ d.memory \in Nat
    BY <2>1
  <2> QED BY <2>2
<1>2. ASSUME NEW c \in Times(complexity, n)
      PROVE  \E d \in complexity : c = [jobs |-> d.jobs * n, memory |-> d.memory]
  BY DEF Times, Asks
<1> QED BY <1>1, <1>2 DEF Complexity

LEMMA CalculatedComplexity ==
  ASSUME NEW D, NEW steps \in SUBSET D, NEW of \in [D -> Complexity]
  PROVE  _calculate_complexity(of, steps) \in Complexity
BY DEF _calculate_complexity, Complexity

\* It depends on nothing but the steps it is calculated of.
LEMMA CalculatedAlike ==
  ASSUME NEW steps, NEW g, NEW h, \A c \in steps : g[c] = h[c]
  PROVE  _calculate_complexity(g, steps) = _calculate_complexity(h, steps)
BY DEF _calculate_complexity

\* The steps inside another come after it.
LEMMA InnerComeLater ==
  ASSUME NEW steps \in Seq(SpecStep),
         \A k \in DOMAIN steps : steps[k].within < k,
         NEW k \in DOMAIN steps
  PROVE  /\ Initial(steps, k) \subseteq Inner(steps, k)
         /\ \A c \in Inner(steps, k) : c \in DOMAIN steps /\ k < c
<1>1. \A c \in Inner(steps, k) : c \in DOMAIN steps /\ k < c
  <2> SUFFICES ASSUME NEW c \in DOMAIN steps, steps[c].within = k PROVE k < c
    BY DEF Inner
  <2> QED OBVIOUS
<1> QED BY <1>1 DEF Initial


-----------------------------------------------------------------------------
(* Yadage                                                                  *)

\* One stage, given those inside it.
StageFrom(stages, of, k) ==
  LET stage == stages[k]
      inner == Initial(stages, k)
      base == IF inner = {} THEN Own(stage, LastOf(stage.declared))
              ELSE _calculate_complexity(of, inner)
  IN IF stage.scatter < 0 THEN base ELSE Times(base, stage.scatter)

Numbered(steps) ==
  /\ steps \in Seq(SpecStep) /\ Len(steps) \in Nat
  /\ DOMAIN steps = 1..Len(steps)
  /\ \A k \in DOMAIN steps : steps[k] \in SpecStep /\ steps[k].within < k

LEMMA StepsAreNumbered ==
  ASSUME NEW w \in Workflow
  PROVE  Numbered(w.steps)
<1>1. w.steps \in Seq(SpecStep) /\ \A k \in DOMAIN w.steps : w.steps[k].within < k
  BY DEF Workflow
<1> QED BY <1>1 DEF Numbered

\* How far a step is from the end: what is inside it is nearer.
LEMMA InnerAreNearer ==
  ASSUME NEW steps, Numbered(steps)
  PROVE  \E rank \in [DOMAIN steps -> Nat] :
           /\ \A k \in DOMAIN steps : rank[k] < Len(steps) + 1
           /\ \A k \in DOMAIN steps : \A c \in Inner(steps, k) :
                c \in DOMAIN steps /\ rank[c] < rank[k]
<1> DEFINE N == Len(steps)
           rank == [k \in DOMAIN steps |-> N - k]
<1>1. N \in Nat /\ DOMAIN steps = 1..N
  BY DEF Numbered
<1>2. rank \in [DOMAIN steps -> Nat] /\ \A k \in DOMAIN steps : rank[k] < N + 1
  BY <1>1
<1>3. ASSUME NEW k \in DOMAIN steps, NEW c \in Inner(steps, k)
      PROVE  c \in DOMAIN steps /\ rank[c] < rank[k]
  <2>1. c \in DOMAIN steps /\ k < c
    BY InnerComeLater DEF Numbered
  <2> QED BY <1>1, <2>1
<1> HIDE DEF rank
<1> QED BY <1>2, <1>3

LEMMA StageFromInner ==
  ASSUME NEW stages, Numbered(stages), NEW k \in DOMAIN stages,
         NEW g \in [DOMAIN stages -> Complexity]
  PROVE  /\ StageFrom(stages, g, k) \in Complexity
         /\ \A h \in [DOMAIN stages -> Complexity] :
              (\A c \in Inner(stages, k) : g[c] = h[c]) =>
                StageFrom(stages, g, k) = StageFrom(stages, h, k)
<1>1. stages[k] \in SpecStep
  BY DEF Numbered
<1> DEFINE inner == Initial(stages, k)
           own == Own(stages[k], LastOf(stages[k].declared))
<1>2. inner \subseteq Inner(stages, k) /\ inner \subseteq DOMAIN stages
  BY DEF Initial, Inner
<1>3. own \in Complexity /\ _calculate_complexity(g, inner) \in Complexity
  BY <1>1, <1>2, OwnComplexity, CalculatedComplexity
<1>4. stages[k].scatter < 0 \/ stages[k].scatter \in Nat
  BY <1>1 DEF SpecStep
<1>5. ASSUME NEW h \in [DOMAIN stages -> Complexity],
             \A c \in Inner(stages, k) : g[c] = h[c]
      PROVE  _calculate_complexity(g, inner) = _calculate_complexity(h, inner)
  <2>1. \A c \in inner : g[c] = h[c]
    BY <1>2, <1>5
  <2> HIDE DEF inner
  <2> QED BY <2>1, CalculatedAlike
<1>6. StageFrom(stages, g, k) \in Complexity
  BY <1>3, <1>4, TimesComplexity DEF StageFrom
<1> QED BY <1>5, <1>6 DEF StageFrom

LEMMA StageComplexityIs ==
  ASSUME NEW stages, Numbered(stages)
  PROVE  \A k \in DOMAIN stages :
           StageComplexity(stages)[k] =
             StageFrom(stages, StageComplexity(stages), k)
<1> DEFINE D == DOMAIN stages
           G == [k \in D |->
                  [g \in [D -> Complexity] |-> StageFrom(stages, g, k)]]
           Fits(t) == t = [k \in D |-> StageFrom(stages, t, k)]
<1>1. PICK rank \in [D -> Nat] :
        /\ \A k \in D : rank[k] < Len(stages) + 1
        /\ \A k \in D : \A c \in Inner(stages, k) :
             c \in D /\ rank[c] < rank[k]
  BY InnerAreNearer
<1>2. G \in [D -> [[D -> Complexity] -> Complexity]]
  BY StageFromInner
<1>3. ASSUME NEW k \in D, NEW g \in [D -> Complexity], NEW h \in [D -> Complexity]
      PROVE  (\A c \in D : rank[c] < rank[k] => g[c] = h[c]) => G[k][g] = G[k][h]
  <2> SUFFICES ASSUME \A c \in D : rank[c] < rank[k] => g[c] = h[c]
               PROVE  G[k][g] = G[k][h]
    OBVIOUS
  <2>1. \A c \in Inner(stages, k) : g[c] = h[c]
    BY <1>1
  <2>2. StageFrom(stages, g, k) = StageFrom(stages, h, k)
    BY <2>1, StageFromInner
  <2> QED BY <2>2
<1>4. Determines(D, Complexity, rank, Len(stages) + 1, G)
  <2>1. {} \in Complexity /\ Len(stages) + 1 \in Nat
    BY DEF Complexity, Numbered
  <2> HIDE DEF G, D
  <2> QED BY <1>1, <1>2, <1>3, <2>1 DEF Determines
<1> HIDE DEF G, D
<1>5. PICK f \in [D -> Complexity] : \A k \in D : f[k] = G[k][f]
  BY <1>4, RecursiveFunctionExists
<1>6. Fits(f)
  BY <1>5 DEF G, D
<1> DEFINE of == CHOOSE t : Fits(t)
<1>7. StageComplexity(stages) = of
  BY DEF StageComplexity, StageFrom, D
<1>8. Fits(of)
  <2> HIDE DEF Fits
  <2> QED BY <1>6
<1> HIDE DEF of
<1> QED BY <1>7, <1>8 DEF D


-----------------------------------------------------------------------------
(* What fits a workflow: no jobs where the backends promise none, and      *)
(* memory between what two of its steps ask for.                           *)

Calm(w) == "kubernetes" \notin compute_backends(w) /\ ~Hidden(w)
Fitting(w) ==
  {c \in [jobs : Nat, memory : Nat] :
     c.jobs # 0 => /\ ~Calm(w)
                   /\ \E m, n \in Asked(w) : m <= c.memory /\ c.memory <= n}

LEMMA AskedIsNatural ==
  ASSUME NEW w \in Workflow
  PROVE  /\ Asked(w) \subseteq Nat
         /\ \A k \in DOMAIN w.steps : _get_memory_limit(w.steps[k]) \in Asked(w)
<1>1. \A k \in DOMAIN w.steps : _get_memory_limit(w.steps[k]) \in Nat
  BY StepsAreNumbered, AsksMemory DEF Numbered
<1> QED BY <1>1 DEF Asked

\* A step that is looked at itself.
LEMMA OwnFits ==
  ASSUME NEW w \in Workflow, NEW k \in DOMAIN w.steps, NEW declared,
         Calm(w) => Backend(declared) # "kubernetes"
  PROVE  Own(w.steps[k], declared) \subseteq Fitting(w)
<1> SUFFICES ASSUME NEW c \in Own(w.steps[k], declared)
             PROVE  c \in Fitting(w)
  OBVIOUS
<1>1. w.steps[k] \in SpecStep
  BY StepsAreNumbered DEF Numbered
<1>2. c.memory = _get_memory_limit(w.steps[k]) /\ (c.jobs # 0 => ~Calm(w))
  BY <1>1, OwnComplexity
<1>3. c \in [jobs : Nat, memory : Nat]
  BY <1>1, OwnComplexity DEF Complexity
<1>4. c.memory \in Asked(w) /\ c.memory \in Nat
  BY <1>2, AskedIsNatural
<1>5. c.memory <= c.memory
  BY <1>4
<1> QED BY <1>2, <1>3, <1>4, <1>5 DEF Fitting

LEMMA TimesFits ==
  ASSUME NEW w, NEW complexity \in SUBSET Fitting(w), NEW n \in Nat
  PROVE  Times(complexity, n) \subseteq Fitting(w)
<1>1. complexity \in Complexity
  BY DEF Fitting, Complexity
<1> SUFFICES ASSUME NEW c \in Times(complexity, n)
             PROVE  c \in Fitting(w)
  OBVIOUS
<1>2. c \in [jobs : Nat, memory : Nat]
  BY <1>1, TimesComplexity DEF Complexity
<1>3. PICK d \in complexity : c.memory = d.memory /\ (d.jobs = 0 => c.jobs = 0)
  BY <1>1, TimesComplexity
<1>4. d \in Fitting(w)
  OBVIOUS
<1> QED BY <1>2, <1>3, <1>4 DEF Fitting

LEMMA CalculatedFits ==
  ASSUME NEW w, NEW of, NEW steps, \A k \in steps : of[k] \subseteq Fitting(w)
  PROVE  _calculate_complexity(of, steps) \subseteq Fitting(w)
BY DEF _calculate_complexity

\* What holds of a step if it does of those inside it, holds of all.
LEMMA FromInside ==
  ASSUME NEW steps, Numbered(steps), NEW S,
         \A k \in DOMAIN steps : (\A c \in Inner(steps, k) : c \in S) => k \in S
  PROVE  \A k \in DOMAIN steps : k \in S
<1> DEFINE T == DOMAIN steps \ S
<1> SUFFICES ASSUME T # {} PROVE FALSE
  OBVIOUS
<1>1. Len(steps) \in Nat /\ T \in SUBSET (0..Len(steps))
  BY DEF Numbered
<1>2. PICK m \in T : \A k \in T : k <= m
  <2> HIDE DEF T
  <2> QED BY <1>1, GreatestMember
<1>3. ASSUME NEW c \in Inner(steps, m) PROVE c \in S
  <2>1. c \in DOMAIN steps /\ m < c
    BY InnerComeLater DEF Numbered
  <2>2. c \in Nat /\ m \in Nat /\ ~(c <= m)
    BY <1>1, <2>1
  <2> QED BY <1>2, <2>1, <2>2
<1> QED BY <1>3

\* What the workflow is estimated to start fits it.
LEMMA StagesFit ==
  ASSUME NEW w \in Workflow, w.type = "yadage"
  PROVE  YadageComplexity(w.steps) \subseteq Fitting(w)
<1> DEFINE stages == w.steps
           of == StageComplexity(stages)
           S == {k \in DOMAIN stages : of[k] \subseteq Fitting(w)}
<1>1. Numbered(stages)
  BY StepsAreNumbered
<1>2. ASSUME NEW k \in DOMAIN stages, \A c \in Inner(stages, k) : c \in S
      PROVE  k \in S
  <2> DEFINE inner == Initial(stages, k)
             own == Own(stages[k], LastOf(stages[k].declared))
             base == IF inner = {} THEN own ELSE _calculate_complexity(of, inner)
  <2>1. ASSUME inner = {}, Calm(w)
        PROVE  Backend(LastOf(stages[k].declared)) # "kubernetes"
    <3>1. Inner(stages, k) = {}
      BY <2>1 DEF Calm, Hidden
    <3>2. k \in Leaves(stages)
      BY <3>1 DEF Leaves
    <3>3. Backend(LastOf(stages[k].declared)) \in compute_backends(w)
      BY <3>2 DEF compute_backends, YadageBackends, Collected
    <3> QED BY <2>1, <3>3 DEF Calm
  <2>2. inner = {} => own \subseteq Fitting(w)
    BY <2>1, OwnFits
  <2>3. _calculate_complexity(of, inner) \subseteq Fitting(w)
    <3>1. \A c \in inner : of[c] \subseteq Fitting(w)
      BY <1>2 DEF Initial
    <3> HIDE DEF inner, of
    <3> QED BY <3>1, CalculatedFits
  <2>4. base \subseteq Fitting(w)
    BY <2>2, <2>3
  <2>5. stages[k].scatter < 0 \/ stages[k].scatter \in Nat
    BY <1>1 DEF Numbered, SpecStep
  <2>6. of[k] = IF stages[k].scatter < 0 THEN base
                ELSE Times(base, stages[k].scatter)
    BY <1>1, StageComplexityIs DEF StageFrom
  <2> HIDE DEF base, of
  <2>7. of[k] \subseteq Fitting(w)
    BY <2>4, <2>5, <2>6, TimesFits
  <2> QED BY <2>7
<1>3. \A k \in DOMAIN stages : k \in S
  <2> HIDE DEF S
  <2> QED BY <1>1, <1>2, FromInside
<1>4. \A k \in Initial(stages, 0) : of[k] \subseteq Fitting(w)
  BY <1>3 DEF Initial, Inner
<1> HIDE DEF of
<1>5. _calculate_complexity(of, Initial(stages, 0)) \subseteq Fitting(w)
  BY <1>4, CalculatedFits
<1> QED BY <1>5 DEF of, YadageComplexity


-----------------------------------------------------------------------------
(* CWL                                                                     *)

\* One step, given those inside it.
CwlStepFrom(steps, of, k) ==
  LET step == steps[k]
      own == Own(step, FirstOf(step.declared))
      base == IF Inner(steps, k) = {} THEN own
              ELSE _calculate_complexity(of, Initial(steps, k))
  IN CASE step.scatter = -1 -> base
       [] step.scatter = 0 -> own
       [] OTHER -> Times(base, step.scatter)

LEMMA CwlStepFromIs ==
  ASSUME NEW steps, NEW of, NEW k
  PROVE  CwlStepFrom(steps, of, k) =
           LET own == Own(steps[k], FirstOf(steps[k].declared))
               base == IF Inner(steps, k) = {} THEN own
                       ELSE _calculate_complexity(of, Initial(steps, k))
           IN IF steps[k].scatter = -1 THEN base
              ELSE IF steps[k].scatter = 0 THEN own
              ELSE Times(base, steps[k].scatter)
<1>1. CASE steps[k].scatter = -1
  BY <1>1 DEF CwlStepFrom
<1>2. CASE steps[k].scatter = 0
  BY <1>2 DEF CwlStepFrom
<1>3. CASE steps[k].scatter # -1 /\ steps[k].scatter # 0
  BY <1>3 DEF CwlStepFrom
<1> QED BY <1>1, <1>2, <1>3

LEMMA CwlStepFromInner ==
  ASSUME NEW steps, Numbered(steps), NEW k \in DOMAIN steps,
         NEW g \in [DOMAIN steps -> Complexity]
  PROVE  /\ CwlStepFrom(steps, g, k) \in Complexity
         /\ \A h \in [DOMAIN steps -> Complexity] :
              (\A c \in Inner(steps, k) : g[c] = h[c]) =>
                CwlStepFrom(steps, g, k) = CwlStepFrom(steps, h, k)
<1>1. steps[k] \in SpecStep
  BY DEF Numbered
<1> DEFINE inner == Initial(steps, k)
           own == Own(steps[k], FirstOf(steps[k].declared))
<1>2. inner \subseteq Inner(steps, k) /\ inner \subseteq DOMAIN steps
  BY DEF Initial, Inner
<1>3. own \in Complexity /\ _calculate_complexity(g, inner) \in Complexity
  BY <1>1, <1>2, OwnComplexity, CalculatedComplexity
<1>4. steps[k].scatter = -1 \/ steps[k].scatter \in Nat
  BY <1>1 DEF SpecStep
<1>5. ASSUME NEW h \in [DOMAIN steps -> Complexity],
             \A c \in Inner(steps, k) : g[c] = h[c]
      PROVE  _calculate_complexity(g, inner) = _calculate_complexity(h, inner)
  <2>1. \A c \in inner : g[c] = h[c]
    BY <1>2, <1>5
  <2> HIDE DEF inner
  <2> QED BY <2>1, CalculatedAlike
<1>6. CwlStepFrom(steps, g, k) \in Complexity
  BY <1>3, <1>4, TimesComplexity, CwlStepFromIs
<1> QED BY <1>5, <1>6, CwlStepFromIs

LEMMA CwlStepComplexityIs ==
  ASSUME NEW steps, Numbered(steps)
  PROVE  \A k \in DOMAIN steps :
           CwlStepComplexity(steps)[k] =
             CwlStepFrom(steps, CwlStepComplexity(steps), k)
<1> DEFINE D == DOMAIN steps
           G == [k \in D |->
                  [g \in [D -> Complexity] |-> CwlStepFrom(steps, g, k)]]
           Fits(t) == t = [k \in D |-> CwlStepFrom(steps, t, k)]
<1>1. PICK rank \in [D -> Nat] :
        /\ \A k \in D : rank[k] < Len(steps) + 1
        /\ \A k \in D : \A c \in Inner(steps, k) :
             c \in D /\ rank[c] < rank[k]
  BY InnerAreNearer
<1>2. G \in [D -> [[D -> Complexity] -> Complexity]]
  BY CwlStepFromInner
<1>3. ASSUME NEW k \in D, NEW g \in [D -> Complexity], NEW h \in [D -> Complexity]
      PROVE  (\A c \in D : rank[c] < rank[k] => g[c] = h[c]) => G[k][g] = G[k][h]
  <2> SUFFICES ASSUME \A c \in D : rank[c] < rank[k] => g[c] = h[c]
               PROVE  G[k][g] = G[k][h]
    OBVIOUS
  <2>1. \A c \in Inner(steps, k) : g[c] = h[c]
    BY <1>1
  <2>2. CwlStepFrom(steps, g, k) = CwlStepFrom(steps, h, k)
    BY <2>1, CwlStepFromInner
  <2> QED BY <2>2
<1>4. Determines(D, Complexity, rank, Len(steps) + 1, G)
  <2>1. {} \in Complexity /\ Len(steps) + 1 \in Nat
    BY DEF Complexity, Numbered
  <2> HIDE DEF G, D
  <2> QED BY <1>1, <1>2, <1>3, <2>1 DEF Determines
<1> HIDE DEF G, D
<1>5. PICK f \in [D -> Complexity] : \A k \in D : f[k] = G[k][f]
  BY <1>4, RecursiveFunctionExists
<1>6. Fits(f)
  BY <1>5 DEF G, D
<1> DEFINE of == CHOOSE t : Fits(t)
<1>7. CwlStepComplexity(steps) = of
  BY DEF CwlStepComplexity, CwlStepFrom, D
<1>8. Fits(of)
  <2> HIDE DEF Fits
  <2> QED BY <1>6
<1> HIDE DEF of
<1> QED BY <1>7, <1>8 DEF D

\* All hints of a step, given those of what it is within.
LEMMA AllHintsAre ==
  ASSUME NEW steps, Numbered(steps), NEW hints \in Hints
  PROVE  /\ AllHints(steps, hints)[0] = hints
         /\ \A k \in DOMAIN steps :
              AllHints(steps, hints)[k] =
                AllHints(steps, hints)[steps[k].within]
                  \o steps[k].declared \o steps[k].tool
<1> DEFINE N == Len(steps)
           D == 0..N
           From(g, k) == IF k = 0 THEN hints
                         ELSE g[steps[k].within]
                                \o steps[k].declared \o steps[k].tool
           G == [k \in D |-> [g \in [D -> Hints] |-> From(g, k)]]
           rank == [k \in D |-> k]
           Fits(t) == t = [k \in D |-> From(t, k)]
<1>1. N \in Nat /\ DOMAIN steps = 1..N
  BY DEF Numbered
<1>2. ASSUME NEW k \in D, k # 0
      PROVE  /\ k \in DOMAIN steps
             /\ steps[k].within \in D /\ steps[k].within < k
             /\ steps[k].declared \in Hints /\ steps[k].tool \in Hints
  <2>1. k \in DOMAIN steps
    BY <1>1, <1>2
  <2>2. steps[k] \in SpecStep /\ steps[k].within < k
    BY <2>1 DEF Numbered
  <2>3. steps[k].within \in Nat
    BY <2>2 DEF SpecStep
  <2> QED BY <1>1, <2>1, <2>2, <2>3 DEF SpecStep
<1>3. ASSUME NEW k \in D, NEW g \in [D -> Hints]
      PROVE  From(g, k) \in Hints
  <2>1. CASE k = 0
    BY <2>1
  <2>2. CASE k # 0
    <3>1. g[steps[k].within] \in Hints
      BY <1>2, <2>2
    <3>2. \A x, y, z \in Hints : x \o y \o z \in Hints
      BY DEF Hints
    <3> QED BY <1>2, <2>2, <3>1, <3>2
  <2> QED BY <2>1, <2>2
<1>4. G \in [D -> [[D -> Hints] -> Hints]]
  <2> HIDE DEF From
  <2> QED BY <1>3
<1>5. ASSUME NEW k \in D, NEW g \in [D -> Hints], NEW h \in [D -> Hints]
      PROVE  (\A c \in D : rank[c] < rank[k] => g[c] = h[c]) => G[k][g] = G[k][h]
  <2> SUFFICES ASSUME \A c \in D : c < k => g[c] = h[c]
               PROVE  From(g, k) = From(h, k)
    OBVIOUS
  <2> QED BY <1>2
<1>6. Determines(D, Hints, rank, N + 1, G)
  <2>1. N + 1 \in Nat /\ hints \in Hints
    BY <1>1
  <2>2. rank \in [D -> Nat] /\ \A k \in D : rank[k] < N + 1
    BY <1>1
  <2> HIDE DEF G, D, rank
  <2> QED BY <1>4, <1>5, <2>1, <2>2 DEF Determines
<1> HIDE DEF G, D
<1>7. PICK f \in [D -> Hints] : \A k \in D : f[k] = G[k][f]
  BY <1>6, RecursiveFunctionExists
<1>8. Fits(f)
  BY <1>7 DEF G, D
<1> DEFINE given == CHOOSE t : Fits(t)
<1>9. AllHints(steps, hints) = given
  BY DEF AllHints, D
<1>10. Fits(given)
  <2> HIDE DEF Fits
  <2> QED BY <1>8
<1> HIDE DEF given
<1>11. \A k \in D : given[k] = From(given, k)
  BY <1>10
<1>12. 0 \in D /\ \A k \in DOMAIN steps : k \in D /\ k # 0
  BY <1>1 DEF D
<1> QED BY <1>9, <1>11, <1>12


\* Where nothing is hidden there are no hints from outside.
LEMMA NoHintsFromOutside ==
  ASSUME NEW w \in Workflow, w.type = "cwl", ~Hidden(w),
         NEW k \in DOMAIN w.steps
  PROVE  AllHints(w.steps, w.hints)[k] = w.steps[k].declared
<1> DEFINE steps == w.steps
           N == Len(steps)
           given == AllHints(steps, w.hints)
           HasInner(j) == Inner(steps, j) # {}
<1>1. Numbered(steps) /\ w.hints \in Hints /\ w.hints = <<>>
  BY StepsAreNumbered DEF Workflow, Hidden
<1>2. N \in Nat /\ DOMAIN steps = 1..N
  BY <1>1 DEF Numbered
<1>3. /\ given[0] = <<>>
      /\ \A j \in DOMAIN steps :
           given[j] = given[steps[j].within] \o steps[j].declared \o steps[j].tool
  BY <1>1, AllHintsAre
<1> HIDE DEF given
<1>4. ASSUME NEW j \in DOMAIN steps
      PROVE  /\ steps[j].tool = <<>> /\ steps[j].declared \in Hints
             /\ HasInner(j) => steps[j].declared = <<>>
             /\ steps[j].within \in 0..N /\ steps[j].within < j
             /\ steps[j].within # 0 =>
                  steps[j].within \in DOMAIN steps /\ HasInner(steps[j].within)
  <2>1. steps[j] \in SpecStep /\ steps[j].within < j
    BY <1>1 DEF Numbered
  <2>2. steps[j].within \in Nat /\ steps[j].declared \in Hints
    BY <2>1 DEF SpecStep
  <2>3. j \in Inner(steps, steps[j].within)
    BY DEF Inner
  <2>4. steps[j].tool = <<>> /\ (HasInner(j) => steps[j].declared = <<>>)
    BY DEF Hidden
  <2>5. steps[j].within \in 0..N
    BY <1>2, <2>1, <2>2
  <2> QED BY <1>2, <2>1, <2>2, <2>3, <2>4, <2>5
<1>5. \A x \in Hints : <<>> \o x \o <<>> = x /\ <<>> \in Hints
  BY DEF Hints
<1> DEFINE T == {j \in DOMAIN steps : HasInner(j) /\ given[j] # <<>>}
<1>6. T = {}
  <2> SUFFICES ASSUME T # {} PROVE FALSE
    OBVIOUS
  <2>1. T \in SUBSET Nat
    BY <1>2
  <2>2. PICK j \in T : \A i \in T : j <= i
    <3> HIDE DEF T
    <3> QED BY <2>1, LeastMember
  <2> DEFINE i == steps[j].within
  <2>3. i \in 0..N /\ i < j /\ j \in Nat
    BY <1>2, <1>4
  <2>4. i # 0 => i \in DOMAIN steps /\ HasInner(i)
    BY <1>4
  <2>5. i \notin T
    BY <2>2, <2>3
  <2>6. given[i] = <<>>
    BY <1>3, <2>4, <2>5
  <2>7. given[j] = <<>>
    BY <1>3, <1>4, <1>5, <2>6
  <2> QED BY <2>7
<1>7. given[steps[k].within] = <<>>
  BY <1>3, <1>4, <1>6
<1> QED BY <1>3, <1>4, <1>5, <1>7 DEF given

\* A step that holds no other, where the backends promise no jobs.
LEMMA CalmLeaf ==
  ASSUME NEW w \in Workflow, w.type = "cwl", Calm(w),
         NEW k \in DOMAIN w.steps, Inner(w.steps, k) = {}
  PROVE  Backend(FirstOf(w.steps[k].declared)) # "kubernetes"
<1>1. w.steps[k].job /\ k \in Leaves(w.steps)
  BY DEF Calm, Hidden, Leaves
<1>2. Backend(FirstOf(AllHints(w.steps, w.hints)[k])) \in CwlBackends(w.steps, w.hints)
  BY <1>1 DEF CwlBackends, Collected
<1>3. CwlBackends(w.steps, w.hints) = compute_backends(w)
  BY DEF compute_backends
<1> QED BY <1>2, <1>3, NoHintsFromOutside DEF Calm

\* The steps that are parsed are those of the workflow, or all side by side.
Parsed(w, parsed) ==
  /\ Numbered(parsed) /\ DOMAIN parsed = DOMAIN w.steps
  /\ \A k \in DOMAIN parsed :
       /\ parsed[k].scatter = w.steps[k].scatter
       /\ Own(parsed[k], FirstOf(parsed[k].declared)) =
            Own(w.steps[k], FirstOf(w.steps[k].declared))
       /\ Calm(w) /\ w.packed => Inner(w.steps, k) = {}
       /\ ~w.packed => Inner(parsed, k) = Inner(w.steps, k)

LEMMA ParsedSteps ==
  ASSUME NEW w \in Workflow, w.type = "cwl", NEW parsed,
         w.packed => parsed = Unpacked(w.steps),
         ~w.packed => parsed = w.steps
  PROVE  Parsed(w, parsed)
<1> USE DEF Parsed
<1> DEFINE steps == w.steps
<1>1. Numbered(steps)
  BY StepsAreNumbered
<1>2. CASE ~w.packed
  BY <1>1, <1>2
<1>3. CASE w.packed
  <2>1. parsed = [k \in DOMAIN steps |-> [steps[k] EXCEPT !.within = 0]]
    BY <1>3 DEF Unpacked
  <2>2. Len(steps) \in Nat /\ DOMAIN steps = 1..Len(steps)
    BY <1>1 DEF Numbered
  <2>3. ASSUME NEW k \in DOMAIN steps
        PROVE  /\ parsed[k] \in SpecStep /\ parsed[k].within < k
               /\ parsed[k].declared = steps[k].declared
               /\ parsed[k].scatter = steps[k].scatter
               /\ parsed[k].memory = steps[k].memory
    <3>1. steps[k] \in SpecStep /\ parsed[k] = [steps[k] EXCEPT !.within = 0]
      BY <1>1, <2>1 DEF Numbered
    <3>2. k \in Nat /\ 0 < k
      BY <2>2
    <3> QED BY <3>1, <3>2 DEF SpecStep
  <2>4. DOMAIN parsed = 1..Len(steps)
    BY <2>1, <2>2
  <2>5. parsed \in Seq(SpecStep) /\ Len(parsed) = Len(steps)
    <3>1. parsed \in [1..Len(steps) -> SpecStep]
      BY <2>1, <2>2, <2>3
    <3> QED BY <2>2, <3>1
  <2>6. Numbered(parsed)
    BY <2>2, <2>3, <2>4, <2>5 DEF Numbered
  <2>7. \A k \in DOMAIN steps : Calm(w) => Inner(steps, k) = {}
    BY <1>3 DEF Calm, Hidden
  <2> QED BY <1>3, <2>2, <2>3, <2>4, <2>6, <2>7 DEF _get_memory_limit, Own
<1> QED BY <1>2, <1>3

LEMMA CwlFits ==
  ASSUME NEW w \in Workflow, w.type = "cwl"
  PROVE  CwlComplexity(w.steps, w.packed) \subseteq Fitting(w)
<1> DEFINE steps == IF w.packed THEN Unpacked(w.steps) ELSE w.steps
           of == CwlStepComplexity(steps)
           S == {k \in DOMAIN steps : of[k] \subseteq Fitting(w)}
<1>0. Parsed(w, steps)
  BY ParsedSteps
<1>1. /\ Numbered(steps) /\ DOMAIN steps = DOMAIN w.steps
      /\ \A k \in DOMAIN steps :
           /\ steps[k].scatter = w.steps[k].scatter
           /\ Own(steps[k], FirstOf(steps[k].declared)) =
                Own(w.steps[k], FirstOf(w.steps[k].declared))
           /\ Calm(w) /\ w.packed => Inner(w.steps, k) = {}
           /\ ~w.packed => Inner(steps, k) = Inner(w.steps, k)
  <2> HIDE DEF steps
  <2> QED BY <1>0 DEF Parsed
<1> HIDE DEF steps
<1>2. ASSUME NEW k \in DOMAIN steps, \A c \in Inner(steps, k) : c \in S
      PROVE  k \in S
  <2> DEFINE inner == Initial(steps, k)
             own == Own(steps[k], FirstOf(steps[k].declared))
             base == IF Inner(steps, k) = {} THEN own
                     ELSE _calculate_complexity(of, inner)
             scatter == steps[k].scatter
  <2>1. ASSUME Inner(steps, k) = {} \/ scatter = 0
        PROVE  own \subseteq Fitting(w)
    <3>1. Calm(w) => Inner(w.steps, k) = {}
      BY <1>1, <2>1 DEF Calm, Hidden
    <3>2. Calm(w) => Backend(FirstOf(w.steps[k].declared)) # "kubernetes"
      BY <1>1, <3>1, CalmLeaf
    <3> QED BY <1>1, <3>2, OwnFits
  <2>2. _calculate_complexity(of, inner) \subseteq Fitting(w)
    <3>1. \A c \in inner : of[c] \subseteq Fitting(w)
      BY <1>2 DEF Initial
    <3> HIDE DEF inner, of
    <3> QED BY <3>1, CalculatedFits
  <2>3. base \subseteq Fitting(w)
    BY <2>1, <2>2
  <2>4. scatter = -1 \/ scatter \in Nat
    BY <1>1 DEF Numbered, SpecStep
  <2>5. of[k] = IF scatter = -1 THEN base
                ELSE IF scatter = 0 THEN own ELSE Times(base, scatter)
    BY <1>1, CwlStepComplexityIs, CwlStepFromIs
  <2> HIDE DEF base, of, own, scatter
  <2>6. of[k] \subseteq Fitting(w)
    BY <2>1, <2>3, <2>4, <2>5, TimesFits
  <2> QED BY <2>6
<1>3. \A k \in DOMAIN steps : k \in S
  <2> HIDE DEF S
  <2> QED BY <1>1, <1>2, FromInside
<1>4. \A k \in Initial(steps, 0) : of[k] \subseteq Fitting(w)
  BY <1>3 DEF Initial, Inner
<1> HIDE DEF of
<1>5. _calculate_complexity(of, Initial(steps, 0)) \subseteq Fitting(w)
  BY <1>4, CalculatedFits
<1> QED BY <1>5 DEF of, steps, CwlComplexity


-----------------------------------------------------------------------------
(* Snakemake                                                               *)

LEMMA Product ==
  ASSUME NEW a \in Nat, NEW b \in Nat, NEW j \in Nat
  PROVE  /\ a * j \in Nat /\ a * (j + 1) = a * j + a /\ a * 0 = 0
         /\ a <= b => a * j <= b * j
<1>1. a * j \in Nat /\ a * (j + 1) = a * j + a /\ a * 0 = 0
  OBVIOUS
<1>2. ASSUME a <= b PROVE a * j <= b * j
  <2>1. PICK d \in Nat : b = a + d
    <3>1. b - a \in Nat /\ b = a + (b - a)
      BY <1>2
    <3> QED BY <3>1
  <2>2. d * j \in Nat
    OBVIOUS
  <2>3. b * j = a * j + d * j
    BY <2>1
  <2> QED BY <1>1, <2>2, <2>3
<1> QED BY <1>1, <1>2

LEMMA Quotient ==
  ASSUME NEW a \in Nat, NEW j \in Nat \ {0}
  PROVE  /\ a \div j \in Nat
         /\ \A m \in Nat : m * j <= a => m <= a \div j
         /\ \A m \in Nat : a <= m * j => a \div j <= m
<1> DEFINE q == a \div j
<1>1. q \in Nat /\ q * j <= a /\ a < (q + 1) * j
  OBVIOUS
<1> HIDE DEF q
<1>2. ASSUME NEW m \in Nat, m * j <= a PROVE m <= q
  <2> SUFFICES ASSUME q + 1 <= m PROVE FALSE
    BY <1>1
  <2>1. (q + 1) * j <= m * j /\ m * j \in Nat /\ (q + 1) * j \in Nat
    BY <1>1, Product
  <2> QED BY <1>1, <1>2, <2>1
<1>3. ASSUME NEW m \in Nat, a <= m * j PROVE q <= m
  <2> SUFFICES ASSUME m + 1 <= q PROVE FALSE
    BY <1>1
  <2>1. (m + 1) * j <= q * j /\ (m + 1) * j = m * j + j
    BY <1>1, Product
  <2>2. m * j \in Nat /\ q * j \in Nat /\ j > 0
    BY <1>1, Product
  <2> QED BY <1>1, <1>3, <2>1, <2>2
<1>4. q \in Nat /\ (\A m \in Nat : m * j <= a => m <= q)
        /\ (\A m \in Nat : a <= m * j => q <= m)
  BY <1>1, <1>2, <1>3
<1> QED BY <1>4 DEF q

\* A mean of one more.
LEMMA MeanWithOneMore ==
  ASSUME NEW A \in SUBSET Nat, NEW x \in A, NEW j \in Nat, NEW s \in Nat,
         IF j = 0 THEN s = 0 ELSE \E m, n \in A : m * j <= s /\ s <= n * j
  PROVE  \E m, n \in A : m * (j + 1) <= s + x /\ s + x <= n * (j + 1)
<1>1. CASE j = 0
  <2>1. x * (j + 1) = s + x
    BY <1>1
  <2> QED BY <2>1
<1>2. CASE j # 0
  <2>1. PICK m \in A, n \in A : m * j <= s /\ s <= n * j
    BY <1>2
  <2>2. PICK k \in A : k <= m /\ k <= x
    <3>1. m <= x \/ x <= m
      OBVIOUS
    <3>2. m <= m /\ x <= x
      OBVIOUS
    <3> QED BY <3>1, <3>2
  <2>3. PICK l \in A : n <= l /\ x <= l
    <3>1. n <= x \/ x <= n
      OBVIOUS
    <3>2. n <= n /\ x <= x
      OBVIOUS
    <3> QED BY <3>1, <3>2
  <2>4. k * j <= m * j /\ n * j <= l * j
    BY <2>2, <2>3, Product
  <2>5. k * (j + 1) = k * j + k /\ l * (j + 1) = l * j + l
    BY Product
  <2>6. k * j \in Nat /\ m * j \in Nat /\ n * j \in Nat /\ l * j \in Nat
    BY Product
  <2>7. k * (j + 1) <= s + x /\ s + x <= l * (j + 1)
    BY <2>1, <2>2, <2>3, <2>4, <2>5, <2>6
  <2> QED BY <2>7
<1> QED BY <1>1, <1>2

\* The jobs of a group and their memory.
LEMMA TogetherBetween ==
  ASSUME NEW w \in Workflow, NEW group \in SUBSET (DOMAIN w.steps)
  PROVE  LET all == Together(w.steps, group) IN
         /\ all.jobs \in Nat /\ all.memory \in Nat
         /\ all.jobs # 0 => group # {}
         /\ IF all.jobs = 0 THEN all.memory = 0
            ELSE \E m, n \in Asked(w) :
                   m * all.jobs <= all.memory /\ all.memory <= n * all.jobs
<1> DEFINE steps == w.steps
           N == Len(steps)
           D == 0..N
           Total == [jobs : Nat, memory : Nat]
           From(g, n) ==
             IF n = 0 THEN Asks(0, 0)
             ELSE IF n \in group
             THEN Asks(g[n - 1].jobs + 1,
                       g[n - 1].memory + _get_memory_limit(steps[n]))
             ELSE g[n - 1]
           G == [n \in D |-> [g \in [D -> Total] |-> From(g, n)]]
           rank == [n \in D |-> n]
           Fits(t) == t = [n \in D |-> From(t, n)]
           Fair(a) ==
             /\ a \in Total
             /\ a.jobs # 0 => group # {}
             /\ IF a.jobs = 0 THEN a.memory = 0
                ELSE \E m, n \in Asked(w) :
                       m * a.jobs <= a.memory /\ a.memory <= n * a.jobs
<1>1. N \in Nat /\ DOMAIN steps = 1..N
  BY StepsAreNumbered DEF Numbered
<1>2. Asked(w) \in SUBSET Nat
      /\ \A n \in DOMAIN steps : _get_memory_limit(steps[n]) \in Asked(w)
  BY AskedIsNatural
<1>3. \A n \in D : n # 0 => n - 1 \in D /\ n - 1 < n /\ n \in DOMAIN steps
  BY <1>1
<1>4. ASSUME NEW n \in D, NEW g \in [D -> Total]
      PROVE  From(g, n) \in Total
  <2>1. CASE n = 0
    BY <2>1 DEF Asks
  <2>2. CASE n # 0
    <3>1. g[n - 1] \in Total /\ _get_memory_limit(steps[n]) \in Nat
      BY <1>2, <1>3, <2>2
    <3>2. g[n - 1].jobs \in Nat /\ g[n - 1].memory \in Nat
      BY <3>1
    <3> QED BY <2>2, <3>1, <3>2 DEF Asks
  <2> QED BY <2>1, <2>2
<1>5. G \in [D -> [[D -> Total] -> Total]]
  <2> HIDE DEF From, Total
  <2> QED BY <1>4
<1>6. ASSUME NEW n \in D, NEW g \in [D -> Total], NEW h \in [D -> Total]
      PROVE  (\A c \in D : rank[c] < rank[n] => g[c] = h[c]) => G[n][g] = G[n][h]
  <2> SUFFICES ASSUME \A c \in D : c < n => g[c] = h[c]
               PROVE  From(g, n) = From(h, n)
    OBVIOUS
  <2>1. n # 0 => g[n - 1] = h[n - 1]
    BY <1>3
  <2> QED BY <2>1
<1>7. Determines(D, Total, rank, N + 1, G)
  <2>1. N + 1 \in Nat /\ Total # {}
    <3>1. Asks(0, 0) \in Total
      BY DEF Asks
    <3> QED BY <1>1, <3>1
  <2>2. rank \in [D -> Nat] /\ \A n \in D : rank[n] < N + 1
    BY <1>1
  <2> HIDE DEF G, D, rank, Total
  <2> QED BY <1>5, <1>6, <2>1, <2>2 DEF Determines
<1> HIDE DEF G, D, Total
<1>8. PICK f \in [D -> Total] : \A n \in D : f[n] = G[n][f]
  BY <1>7, RecursiveFunctionExists
<1>9. Fits(f)
  BY <1>8 DEF G, D
<1> DEFINE sum == CHOOSE t : Fits(t)
<1>10. Together(steps, group) = sum[N]
  BY DEF Together, D
<1>11. Fits(sum)
  <2> HIDE DEF Fits
  <2> QED BY <1>9
<1> HIDE DEF sum
<1>12. \A n \in D : sum[n] = From(sum, n)
  BY <1>11
<1> HIDE DEF Fits
<1> DEFINE S == {n \in Nat : n <= N => Fair(sum[n])}
<1>13. 0 \in S
  <2>1. 0 \in D
    BY <1>1 DEF D
  <2>2. sum[0] = Asks(0, 0)
    BY <1>12, <2>1
  <2> QED BY <2>2 DEF Asks, Total
<1>14. ASSUME NEW n \in Nat, n \in S PROVE n + 1 \in S
  <2> SUFFICES ASSUME n + 1 <= N PROVE Fair(sum[n + 1])
    OBVIOUS
  <2> DEFINE a == sum[n]
             x == _get_memory_limit(steps[n + 1])
  <2>1. n + 1 \in D /\ n + 1 # 0 /\ (n + 1) - 1 = n /\ n + 1 \in DOMAIN steps
    BY <1>1 DEF D
  <2>2. n <= N
    BY <1>1
  <2>3. Fair(a)
    BY <1>14, <2>2
  <2>4. sum[n + 1] = IF n + 1 \in group THEN Asks(a.jobs + 1, a.memory + x) ELSE a
    BY <1>12, <2>1
  <2>5. x \in Asked(w) /\ x \in Nat /\ a.jobs \in Nat /\ a.memory \in Nat
    BY <1>2, <2>1, <2>3 DEF Total
  <2> HIDE DEF a, x
  <2>6. ASSUME n + 1 \in group
        PROVE  Fair(Asks(a.jobs + 1, a.memory + x))
    <3>1. \E k, l \in Asked(w) : /\ k * (a.jobs + 1) <= a.memory + x
                                 /\ a.memory + x <= l * (a.jobs + 1)
      BY <1>2, <2>3, <2>5, MeanWithOneMore
    <3> DEFINE b == Asks(a.jobs + 1, a.memory + x)
    <3>2. b.jobs = a.jobs + 1 /\ b.memory = a.memory + x /\ b \in Total
      BY <2>5 DEF Asks, Total
    <3>3. b.jobs # 0
      BY <2>5, <3>2
    <3> HIDE DEF b
    <3>4. Fair(b)
      BY <2>6, <3>1, <3>2, <3>3
    <3> QED BY <3>4 DEF b
  <2> HIDE DEF Fair
  <2> QED BY <2>3, <2>4, <2>6
<1> HIDE DEF S
<1>15. N \in S
  BY <1>1, <1>13, <1>14, NumbersInductive
<1>16. Fair(sum[N])
  BY <1>1, <1>15 DEF S
<1> QED BY <1>10, <1>16 DEF Total


\* Of finitely many numbers one is the first that none exceeds.
LEMMA FirstGreatest ==
  ASSUME NEW n \in Nat, NEW J \in SUBSET (1..n), J # {}, NEW f \in [J -> Nat]
  PROVE  \E j \in J : \A i \in J : f[i] <= f[j] /\ (i < j => f[i] < f[j])
<1> DEFINE First(K, g, j) == \A i \in K : g[i] <= g[j] /\ (i < j => g[i] < g[j])
           S == {m \in Nat : \A K \in SUBSET (1..m) : K # {} =>
                   \A g \in [K -> Nat] : \E j \in K : First(K, g, j)}
<1>1. 0 \in S
  <2>1. 1..0 = {}
    OBVIOUS
  <2> QED BY <2>1
<1>2. ASSUME NEW m \in Nat, m \in S PROVE m + 1 \in S
  <2> SUFFICES ASSUME NEW K \in SUBSET (1..(m + 1)), K # {}, NEW g \in [K -> Nat]
               PROVE  \E j \in K : First(K, g, j)
    OBVIOUS
  <2> DEFINE L == K \ {m + 1}
             h == [i \in L |-> g[i]]
  <2>1. L \in SUBSET (1..m) /\ h \in [L -> Nat]
    OBVIOUS
  <2>2. CASE L = {}
    <3>1. K = {m + 1} /\ g[m + 1] \in Nat
      BY <2>2
    <3>2. First(K, g, m + 1)
      BY <3>1
    <3> QED BY <3>1, <3>2
  <2>3. CASE L # {}
    <3>1. PICK j \in L : First(L, h, j)
      BY <1>2, <2>1, <2>3
    <3>2. \A i \in L : /\ i \in Nat /\ j \in Nat /\ i < m + 1
                       /\ g[i] \in Nat /\ g[j] \in Nat
                       /\ g[i] <= g[j] /\ (i < j => g[i] < g[j])
      BY <2>1, <3>1
    <3>3. CASE m + 1 \notin K
      <4>1. First(K, g, j)
        BY <3>2, <3>3
      <4> QED BY <4>1
    <3>4. CASE m + 1 \in K /\ g[m + 1] <= g[j]
      <4>1. First(K, g, j)
        BY <3>2, <3>4
      <4> QED BY <4>1
    <3>5. CASE m + 1 \in K /\ ~(g[m + 1] <= g[j])
      <4>1. g[m + 1] \in Nat
        BY <3>5
      <4>2. \A i \in L : g[i] < g[m + 1]
        BY <3>2, <3>5, <4>1
      <4>3. First(K, g, m + 1)
        BY <3>2, <4>1, <4>2
      <4> QED BY <3>5, <4>3
    <3> QED BY <3>3, <3>4, <3>5
  <2> QED BY <2>2, <2>3
<1> HIDE DEF S
<1>3. n \in S
  BY <1>1, <1>2, NumbersInductive
<1> QED BY <1>3 DEF S

\* The complexity of a group: none or a mean over Kubernetes jobs.
LEMMA GroupFits ==
  ASSUME NEW w \in Workflow, w.type = "snakemake",
         NEW group \in SUBSET (DOMAIN w.steps)
  PROVE  GroupComplexity(w.steps, group) \in Fitting(w)
<1> DEFINE here == OnKubernetes(w.steps, group)
           all == Together(w.steps, here)
           c == GroupComplexity(w.steps, group)
<1>1. here \in SUBSET (DOMAIN w.steps)
  BY DEF OnKubernetes
<1>2. /\ all.jobs \in Nat /\ all.memory \in Nat
      /\ all.jobs # 0 => here # {}
      /\ IF all.jobs = 0 THEN all.memory = 0
         ELSE \E m, n \in Asked(w) :
                m * all.jobs <= all.memory /\ all.memory <= n * all.jobs
  <2> HIDE DEF here
  <2> QED BY <1>1, TogetherBetween
<1>3. c = Asks(all.jobs, IF all.jobs = 0 THEN 0 ELSE all.memory \div all.jobs)
  BY DEF GroupComplexity
<1>4. ASSUME here # {} PROVE ~Calm(w)
  <2>1. PICK d \in group : Backend(FirstOf(w.steps[d].declared)) = "kubernetes"
    BY <1>4 DEF OnKubernetes, _get_number_of_jobs
  <2>2. "kubernetes" \in FlatBackends(w.steps)
    BY <2>1 DEF FlatBackends, Collected
  <2>3. compute_backends(w) = FlatBackends(w.steps)
    BY DEF compute_backends
  <2> QED BY <2>2, <2>3 DEF Calm
<1> HIDE DEF here, all
<1>5. CASE all.jobs = 0
  BY <1>3, <1>5 DEF Fitting, Asks
<1>6. CASE all.jobs # 0
  <2> DEFINE q == all.memory \div all.jobs
  <2>1. PICK m \in Asked(w), n \in Asked(w) :
          m * all.jobs <= all.memory /\ all.memory <= n * all.jobs
    BY <1>2, <1>6
  <2>2. m \in Nat /\ n \in Nat
    BY AskedIsNatural
  <2>3. q \in Nat /\ m <= q /\ q <= n
    BY <1>2, <1>6, <2>1, <2>2, Quotient
  <2>4. c.jobs = all.jobs /\ c.memory = q /\ c \in [jobs : Nat, memory : Nat]
    BY <1>2, <1>3, <1>6, <2>3 DEF Asks
  <2> HIDE DEF q, c
  <2> QED BY <1>2, <1>4, <1>6, <2>1, <2>3, <2>4 DEF Fitting, c
<1> QED BY <1>5, <1>6

LEMMA GroupsFit ==
  ASSUME NEW w \in Workflow, w.type = "snakemake"
  PROVE  SnakemakeComplexity(w.steps, w.needs) \subseteq Fitting(w)
<1> DEFINE groups == _filter_repeated_dependencies(w.needs)
           of(j) == GroupComplexity(w.steps, groups[j])
           waiting == {j \in DOMAIN groups : groups[j] # {}}
           Heaviest(j) == \A i \in waiting :
                            /\ Weight(of(i)) <= Weight(of(j))
                            /\ i < j => Weight(of(i)) < Weight(of(j))
           heaviest == CHOOSE j \in waiting : Heaviest(j)
<1>1. /\ w.needs \in Seq(SUBSET Nat)
      /\ \A j \in DOMAIN w.needs : w.needs[j] \subseteq DOMAIN w.steps
  BY DEF Workflow
<1>2. /\ DOMAIN groups = DOMAIN w.needs
      /\ \A j \in DOMAIN groups : groups[j] \in SUBSET (DOMAIN w.steps)
  BY <1>1 DEF _filter_repeated_dependencies
<1> HIDE DEF groups
<1>3. \A j \in waiting : of(j) \in Fitting(w)
  BY <1>2, GroupFits
<1>4. ASSUME waiting # {} PROVE heaviest \in waiting
  <2> DEFINE f == [j \in waiting |-> Weight(of(j))]
  <2>1. Len(w.needs) \in Nat /\ waiting \in SUBSET (1..Len(w.needs))
    BY <1>1, <1>2
  <2>2. ASSUME NEW j \in waiting PROVE Weight(of(j)) \in Nat
    <3>1. of(j) \in [jobs : Nat, memory : Nat]
      BY <1>3 DEF Fitting
    <3>2. of(j).jobs \in Nat /\ of(j).memory \in Nat
      BY <3>1
    <3> HIDE DEF of
    <3> QED BY <3>2 DEF Weight
  <2>3. f \in [waiting -> Nat]
    BY <2>2
  <2> HIDE DEF waiting, of
  <2>4. PICK j \in waiting : \A i \in waiting : f[i] <= f[j] /\ (i < j => f[i] < f[j])
    <3> HIDE DEF f
    <3> QED BY <1>4, <2>1, <2>3, FirstGreatest
  <2>5. Heaviest(j)
    BY <2>4
  <2> HIDE DEF Heaviest
  <2> QED BY <2>5
<1>5. SnakemakeComplexity(w.steps, w.needs) =
        IF waiting = {} THEN {} ELSE {of(heaviest)}
  BY DEF SnakemakeComplexity, groups
<1> HIDE DEF heaviest, waiting, of
<1> QED BY <1>3, <1>4, <1>5

-----------------------------------------------------------------------------
(* What is decided                                                         *)

LEMMA EstimateFits ==
  ASSUME NEW w \in Workflow
  PROVE  estimate_complexity(w) \subseteq Fitting(w)
<1>1. CASE w.type = "serial"
  <2>1. estimate_complexity(w) = SerialComplexity(w.steps)
    BY <1>1 DEF estimate_complexity
  <2>2. CASE w.steps = <<>>
    BY <2>1, <2>2 DEF SerialComplexity
  <2>3. CASE w.steps # <<>>
    <3>1. 1 \in DOMAIN w.steps
      BY <2>3, StepsAreNumbered DEF Numbered
    <3>2. Backend(FirstOf(w.steps[1].declared)) \in FlatBackends(w.steps)
      BY <3>1 DEF FlatBackends, Collected
    <3>3. compute_backends(w) = FlatBackends(w.steps)
      BY <1>1 DEF compute_backends
    <3>4. Calm(w) => Backend(FirstOf(w.steps[1].declared)) # "kubernetes"
      BY <3>2, <3>3 DEF Calm
    <3>5. Own(w.steps[1], FirstOf(w.steps[1].declared)) \subseteq Fitting(w)
      BY <3>1, <3>4, OwnFits
    <3> QED BY <2>1, <2>3, <3>5 DEF SerialComplexity
  <2> QED BY <2>2, <2>3
<1>2. CASE w.type = "yadage"
  BY <1>2, StagesFit DEF estimate_complexity
<1>3. CASE w.type = "cwl"
  BY <1>3, CwlFits DEF estimate_complexity
<1>4. CASE w.type = "tool"
  BY <1>4 DEF estimate_complexity
<1>5. CASE w.type = "snakemake"
  BY <1>5, GroupsFit DEF estimate_complexity
<1>6. w.type \in {"serial", "yadage", "cwl", "tool", "snakemake"}
  BY DEF Workflow
<1> QED BY <1>1, <1>2, <1>3, <1>4, <1>5, <1>6

(* A workflow none of whose steps runs on Kubernetes is neither refused for *)
(* its memory nor made to wait, unless its backends are hidden; one is      *)
(* refused only for a step that asks for too much, and waits for what lies  *)
(* between two of its steps: of all types, with any steps inside each other *)
(* to any depth.  complexity.py 23-614.                                     *)
THEOREM EstimatesAreSound == \A w \in Workflow : EstimatesSound(w)
<1> SUFFICES ASSUME NEW w \in Workflow PROVE EstimatesSound(w)
  OBVIOUS
<1> DEFINE complexity == estimate_complexity(w)
           memories == Memories(complexity)
           least == get_workflow_min_job_memory(complexity)
<1>1. ASSUME NEW x \in memories
      PROVE  /\ x \in Nat /\ ~Calm(w)
             /\ \E m, n \in Asked(w) : m <= x /\ x <= n
  <2>1. PICK c \in complexity : c.jobs > 0 /\ x = c.memory
    BY DEF Memories
  <2>2. c \in Fitting(w)
    BY EstimateFits
  <2>3. c.jobs \in Nat /\ c.memory \in Nat
    BY <2>2 DEF Fitting
  <2>4. c.jobs # 0
    BY <2>1, <2>3
  <2> QED BY <2>1, <2>2, <2>3, <2>4 DEF Fitting
<1>2. memories = {} => least = 0
  BY DEF get_workflow_min_job_memory
<1>3. ASSUME memories # {} PROVE least \in memories
  <2>1. memories \in SUBSET Nat
    BY <1>1
  <2> DEFINE Lowest(m) == \A n \in memories : m <= n
  <2>2. PICK m \in memories : Lowest(m)
    <3> HIDE DEF memories
    <3> QED BY <1>3, <2>1, LeastMember
  <2>3. least = CHOOSE k \in memories : Lowest(k)
    BY <1>3 DEF get_workflow_min_job_memory
  <2> HIDE DEF memories, Lowest, least
  <2> QED BY <2>2, <2>3
<1>4. ExceedsUserMemory(complexity) => \E x \in memories : x > UserMemory
  BY DEF ExceedsUserMemory
<1> HIDE DEF complexity, memories, least
<1>5. Calm(w) => least = 0 /\ ~ExceedsUserMemory(complexity)
  BY <1>1, <1>2, <1>4
<1>6. ASSUME ExceedsUserMemory(complexity)
      PROVE  \E m \in Asked(w) : m > UserMemory
  <2>1. PICK x \in memories : x > UserMemory
    BY <1>4, <1>6
  <2>2. PICK n \in Asked(w) : x <= n /\ x \in Nat
    BY <1>1
  <2>3. n \in Nat
    BY AskedIsNatural
  <2>4. n > UserMemory
    BY <2>1, <2>2, <2>3
  <2> QED BY <2>4
<1>7. least # 0 => \E m, n \in Asked(w) : m <= least /\ least <= n
  BY <1>1, <1>2, <1>3
<1> QED BY <1>5, <1>6, <1>7 DEF EstimatesSound, Calm, complexity, least

-----------------------------------------------------------------------------
(* The composition                                                         *)

USE MCInputs

LEMMA RequestSteps ==
  ASSUME Requests
  PROVE  EndpointsNext
<1>1. ASSUME NEW c \in Client, NEW a \in Arrivals(c)
      PROVE  a.name \in DOMAIN Handler /\ a.who \in Person /\ a.id \in Identifier
  <2>1. Locking \cup Finding \subseteq DOMAIN Handler
    BY DEF Locking, Finding
  <2>2. {Bare, w1} \subseteq Identifier /\ "owner" \in Person
    BY DEF Identifier, Person
  <2> HIDE DEF Handler
  <2> QED BY <2>1, <2>2 DEF Arrivals
<1> QED BY <1>1 DEF Requests, EndpointsNext

LEMMA QuotaSteps ==
  ASSUME \/ Changes(LimitRequests) \/ Changes(PeriodRequests)
         \/ ChangeSteps(a1, LoweredLimits) \/ Uploads \/ DefaultSteps
  PROVE  QuotaNext
<1>1. ASSUME NEW a \in Admin, NEW asked \in SUBSET ChangeRequests,
             ChangeSteps(a, asked)
      PROVE  QuotaNext
  BY <1>1 DEF ChangeSteps, QuotaNext
<1>2. ASSUME NEW c \in Uploader, UploadSteps(c, {u1}, 1..2)
      PROVE  QuotaNext
  BY <1>2 DEF UploadSteps, QuotaNext
<1> QED BY <1>1, <1>2 DEF Changes, Uploads, QuotaNext

LEMMA ArchiveSteps ==
  ASSUME Archiving
  PROVE  BundleNext
BY DEF Archiving, BundleNext, BundleSteps

\* What is not in focus stands still, and what is takes steps of its own
\* specification.
LEMMA ApiSteps ==
  ASSUME [ApiNext]_apiVars
  PROVE  /\ [EndpointsNext]_endpointVars /\ [LoginNext]_loginVars
         /\ [QuotaNext]_quotaVars /\ [BundleNext]_bundle
         /\ UNCHANGED <<focus, input>>
<1>1. CASE UNCHANGED apiVars
  BY <1>1 DEF apiVars
<1>2. CASE ApiNext
  BY <1>2, RequestSteps, QuotaSteps, ArchiveSteps DEF ApiNext
<1> QED BY <1>1, <1>2

\* Every behaviour that the run checks is one of the endpoints, of a browser, of
\* the quotas and of an archive: what is proved of each of them holds of the
\* run, whose inputs are among those that the theorems are about.
THEOREM ApiImplements ==
  ApiSpec => EndpointsSpec /\ LoginSpec /\ QuotaSpec /\ BundleSpec
<1>1. ApiInit => EndpointsInit /\ LoginInit /\ QuotaInit /\ BundleInit
  BY DEF ApiInit
<1>2. [ApiNext]_apiVars =>
        /\ [EndpointsNext]_endpointVars /\ [LoginNext]_loginVars
        /\ [QuotaNext]_quotaVars /\ [BundleNext]_bundle
  BY ApiSteps
<1> QED BY <1>1, <1>2, PTL
        DEF ApiSpec, EndpointsSpec, LoginSpec, QuotaSpec, BundleSpec

\* Whatever a specification is sent in, found to be or estimated at: its archive
\* is written whole or not at all, and within the bounds, the verdict on it is the
\* server's, the report on it is within its bound and its estimate is that of its
\* steps.
THEOREM SpecificationsAreSound == ApiSpec => []SpecificationsSound
<1> DEFINE Inputs == /\ focus = "load" => input \in Load
                     /\ focus = "report" => input \in Report
                     /\ focus = "estimate" => input \in Workflow
<1>1. ApiInit => Inputs
  BY DEF ApiInit
<1>2. Inputs /\ [ApiNext]_apiVars => Inputs'
  BY ApiSteps
<1>3. Inputs /\ ArchiveSound => SpecificationsSound
  BY LoadsAreSound, ReportsAreBounded, EstimatesAreSound DEF SpecificationsSound
<1>4. ApiSpec => []Inputs
  BY <1>1, <1>2, PTL DEF ApiSpec
<1> QED BY <1>3, <1>4, ApiImplements, ArchivesAreSound, PTL
=============================================================================
