---------------------------- MODULE ReleaseOrder ----------------------------
(***************************************************************************)
(* How the update check compares releases (update.go): semantic versions   *)
(* by their three numbers and then by their prerelease identifiers.        *)
(*                                                                         *)
(* A version is what its text says, without the "v" in front: its name     *)
(* ("numbers" for a dotted text), its numbers, its prerelease identifiers, *)
(* and its build metadata.  An identifier of digits is its value, another  *)
(* one its place in the order of bytes.                                    *)
(***************************************************************************)
EXTENDS Integers, Sequences, FiniteSetsExt

CONSTANT MaxInt   \* largest number strconv.Atoi accepts

Identifiers == [numeric : BOOLEAN, value : Nat]
Versions == [name : STRING, core : Seq(Nat), prerelease : Seq(Identifiers),
             build : STRING]

IsDevelopmentVersion(v) == v.name \in {"", "dev", "latest", "(devel)"}

ParsesAsSemantic(v) == /\ v.name = "numbers"
                       /\ Len(v.core) = 3
                       /\ \A i \in 1..3 : v.core[i] <= MaxInt

CompareInts(a, b) == IF a < b THEN -1 ELSE IF a > b THEN 1 ELSE 0

\* Mutant: identifiers of digits and others are compared alike.
CompareIdentifiersByValue(a, b) == CompareInts(a.value, b.value)

CompareIdentifiers(a, b) ==
  IF a.numeric # b.numeric THEN (IF a.numeric THEN -1 ELSE 1)
                           ELSE CompareInts(a.value, b.value)

\* The places at which two sequences of identifiers differ.
Differences(a, b) ==
  {i \in 1..Min({Len(a), Len(b)}) : CompareIdentifiers(a[i], b[i]) # 0}

ComparePrerelease(a, b) ==
  IF a = <<>> \/ b = <<>> THEN CompareInts(Len(b), Len(a))
  ELSE IF Differences(a, b) = {} THEN CompareInts(Len(a), Len(b))
  ELSE LET i == Min(Differences(a, b)) IN CompareIdentifiers(a[i], b[i])

CompareSemanticVersions(a, b) ==
  LET different == {i \in 1..3 : a.core[i] # b.core[i]}
  IN  IF different = {} THEN ComparePrerelease(a.prerelease, b.prerelease)
      ELSE CompareInts(a.core[Min(different)], b.core[Min(different)])

CompareReleaseVersions(current, latest) ==
  IF IsDevelopmentVersion(current) THEN "development"
  ELSE IF ~ParsesAsSemantic(current) \/ ~ParsesAsSemantic(latest)
       THEN IF current = latest THEN "current" ELSE "unknown"
  ELSE CASE CompareSemanticVersions(current, latest) = 0 -> "current"
         [] CompareSemanticVersions(current, latest) = -1 -> "behind"
         [] OTHER -> "ahead"

-----------------------------------------------------------------------------
(***************************************************************************)
(* Precedence as the standard of semantic versions has it, for versions of *)
(* at most Longest identifiers below Largest: the sort key is a tuple of   *)
(* fixed length in which a missing identifier is less than any other, a    *)
(* numeric one less than the rest, and a release more than all its         *)
(* prereleases.                                                            *)
(***************************************************************************)
SortKey(v, longest, largest) ==
  v.core \o <<IF v.prerelease = <<>> THEN 1 ELSE 0>> \o
  [i \in 1..longest |->
     IF i > Len(v.prerelease) THEN 0
     ELSE 1 + v.prerelease[i].value +
          IF v.prerelease[i].numeric THEN 0 ELSE largest]

Precedes(key, other) ==
  \E i \in DOMAIN key : /\ key[i] < other[i]
                        /\ \A j \in 1..(i - 1) : key[j] = other[j]
=============================================================================
