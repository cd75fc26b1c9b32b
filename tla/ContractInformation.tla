------------------------- MODULE ContractInformation -------------------------
(***************************************************************************)
(* How the verification plugin (hardhat-verify) finds out what a deployed  *)
(* contract was compiled from: the artifact whose runtime code is the      *)
(* deployed one up to link references, immutables and metadata, and the    *)
(* address of each library the contract was linked with.                   *)
(*                                                                         *)
(* Code is a sequence of cells.  A cell is an opcode, or a whole address   *)
(* or immutable: what matters is which cells are masked before two codes   *)
(* are compared, not how many bytes each has.  The metadata section is     *)
(* apart from the cells, and only says which compiler it names.            *)
(***************************************************************************)
EXTENDS Integers, FiniteSets, Sequences, SequencesExt

CONSTANTS Artifacts,     \* sequence of the local artifacts, in scan order
          Compilers,     \* the versions a hardhat config may list (0.m.p is 100m + p)
          Deployments,   \* what may be on chain: an artifact deployed in some way
          UserInputs     \* the dictionaries of libraries a user may give, as sequences

VARIABLES compilers,     \* the versions the config lists
          deployed,      \* the contract on chain
          wanted,        \* the fully qualified names the user gave: at most one
          userLibraries, \* the entries of the libraries module, in its order
          pc,            \* "versions" "named" "scan" "normalize" "link" "done" "error"
          i,             \* index of the loop that runs
          matches,       \* artifacts whose code matches, in scan order
          normalized,    \* the user's libraries by fully qualified name
          libraries,     \* the links to submit
          error          \* the error that ended the task
vars == <<compilers, deployed, wanted, userLibraries, pc, i, matches, normalized, libraries, error>>

Zero == "00"
Push20 == "73"
OvmFind == "ovm-find"
OvmReplace == "ovm-replace"

(* An artifact: its name, whether its build info is on disk, its compiler,
   runtime code, the libraries linked into the runtime code with their places,
   the places of immutables, and the libraries linked only into the creation
   code (undetectable). *)
Detectable(a) == DOMAIN a.links
AllLibraries(a) == Detectable(a) \union a.creationOnly

(* inferCompilerVersion: the version the metadata names, or the range of the
   compilers that write none. *)
Satisfies(version, metadata) ==
  CASE metadata.form = "named"     -> version = metadata.solc
    [] metadata.form = "unnamed"   -> version \in 407..508
    [] metadata.form = "unreadable" -> version < 407

IsOvm(code) == \E p \in DOMAIN code : code[p] = OvmReplace

LibraryOffsets(a) == UNION {a.links[l] : l \in Detectable(a)}
ImmutableOffsets(a) == a.immutables

(* The places that are filled when the contract is deployed. *)
Places(a) == LibraryOffsets(a) \union ImmutableOffsets(a)

(* A library starts with PUSH20 of its own address, zero in the artifact. *)
CallProtectionOffsets(code, a) ==
  {p \in {2} : /\ Len(code) >= 2 /\ code[1] = Push20
               /\ Len(a.code) >= 2 /\ a.code[1] = Push20 /\ a.code[2] = Zero}

Nullified(code, a) ==
  LET masked == Places(a) \union CallProtectionOffsets(code, a)
  IN  [p \in DOMAIN code |-> IF p \in masked THEN Zero ELSE code[p]]

(* The find and replace a build for the OVM needs. *)
Reference(code, a) ==
  [p \in DOMAIN a.code |->
     IF IsOvm(code) /\ a.code[p] = OvmFind THEN OvmReplace ELSE a.code[p]]

Compare(code, a) ==
  LET reference == Reference(code, a)
  IN  /\ Len(code) = Len(reference) \/ IsOvm(code)
      /\ Nullified(code, a) = Nullified(reference, a)

(* What compilers write: code begins with an opcode, and with PUSH20 of zero in
   a library only; no local build writes the code the OVM's compiler does. *)
ArtifactsAssumption ==
  /\ Artifacts \in Seq(Range(Artifacts))
  /\ \A k, n \in DOMAIN Artifacts : Artifacts[k].name = Artifacts[n].name => k = n
  /\ \A a \in Range(Artifacts) :
       /\ a.code # <<>> /\ a.code \in Seq(Range(a.code)) /\ ~IsOvm(a.code)
       /\ IsFiniteSet(AllLibraries(a)) /\ a.creationOnly \intersect Detectable(a) = {}
       /\ \A l \in Detectable(a) : \E p \in a.links[l] : \A q \in a.links[l] : p <= q
       /\ Places(a) \subseteq (DOMAIN a.code) \ {1}
       /\ a.code[1] = Push20 => Len(a.code) >= 2 /\ a.code[2] = Zero /\ 2 \notin Places(a)

(* What is on chain: the code of its artifact with its places filled, a link
   with the library's address, and a library with its own after PUSH20. *)
DeployedFrom(d, a) ==
  /\ d.code \in Seq(Range(d.code)) /\ Len(d.code) = Len(a.code)
  /\ \A p \in DOMAIN a.code \ Places(a) :
       d.code[p] = Reference(d.code, a)[p] \/ (p = 2 /\ a.code[1] = Push20)
  /\ \A l \in Detectable(a) : \A p \in a.links[l] : d.code[p] = d.linked[l]

DeploymentsAssumption ==
  /\ \A d \in Deployments, a \in Range(Artifacts) : d.of = a.name => DeployedFrom(d, a)
  /\ \A u \in UserInputs :
       /\ u \in Seq(Range(u))
       /\ \A entry \in Range(u) :
            entry.address \in [valid : BOOLEAN, of : {entry.address.of}, lower : BOOLEAN]

MatchingVersions == {v \in compilers : Satisfies(v, deployed.metadata)}

(* The compiler of the build is one that may have written this code. *)
VersionFits(a) == a.solc \in MatchingVersions \/ IsOvm(deployed.code)

IsMatch(a) == a.buildInfo /\ VersionFits(a) /\ Compare(deployed.code, a)

Fail(name) ==
  /\ pc' = "error"
  /\ error' = name
  /\ UNCHANGED <<compilers, deployed, wanted, userLibraries, i, matches, normalized, libraries>>

Init ==
  /\ compilers \in Compilers
  /\ deployed \in Deployments
  /\ wanted \in {{}} \union {{Artifacts[k].name} : k \in DOMAIN Artifacts} \union {{"absent"}}
  /\ userLibraries \in UserInputs
  /\ pc = "versions" /\ i = 1 /\ matches = <<>>
  /\ normalized = <<>> /\ libraries = <<>> /\ error = "none"

(* getCompilerVersions: Etherscan takes no compiler older than 0.4.11. *)
Supported == \A v \in compilers : v >= 411

MatchVersions ==
  /\ pc = "versions"
  /\ \/ ~Supported /\ Fail("EtherscanVersionNotSupported")
     \/ /\ Supported /\ MatchingVersions = {} /\ ~IsOvm(deployed.code)
        /\ Fail("CompilerVersionsMismatch")
     \/ /\ Supported /\ (MatchingVersions # {} \/ IsOvm(deployed.code))
        /\ pc' = IF wanted = {} THEN "scan" ELSE "named"
        /\ UNCHANGED <<compilers, deployed, wanted, userLibraries, i, matches, normalized, libraries, error>>

(* The user named the contract. *)
LookupNamed ==
  /\ pc = "named"
  /\ \/ /\ \A a \in Range(Artifacts) : a.name \notin wanted
        /\ Fail("ContractNotFound")
     \/ \E a \in Range(Artifacts) :
          /\ a.name \in wanted
          /\ \/ ~a.buildInfo /\ Fail("BuildInfoNotFound")
             \/ a.buildInfo /\ ~VersionFits(a) /\ Fail("BuildInfoCompilerVersionMismatch")
             \/ /\ a.buildInfo /\ VersionFits(a) /\ ~Compare(deployed.code, a)
                /\ Fail("DeployedBytecodeMismatch")
             \/ /\ IsMatch(a)
                /\ matches' = <<a>> /\ pc' = "normalize" /\ i' = 1
                /\ UNCHANGED <<compilers, deployed, wanted, userLibraries, normalized, libraries, error>>

(* lookupMatchingBytecode, one artifact a step. *)
ScanArtifact ==
  /\ pc = "scan" /\ i <= Len(Artifacts)
  /\ matches' = IF IsMatch(Artifacts[i]) THEN Append(matches, Artifacts[i]) ELSE matches
  /\ i' = i + 1
  /\ UNCHANGED <<compilers, deployed, wanted, userLibraries, pc, normalized, libraries, error>>

ScanEnd ==
  /\ pc = "scan" /\ i > Len(Artifacts)
  /\ \/ Len(matches) = 0 /\ Fail("DeployedBytecodeMismatch")
     \/ Len(matches) > 1 /\ Fail("DeployedBytecodeMultipleMatches")
     \/ /\ Len(matches) = 1
        /\ pc' = "normalize" /\ i' = 1
        /\ UNCHANGED <<compilers, deployed, wanted, userLibraries, matches, normalized, libraries, error>>

(* A key is a library's name, or source and name; source "" is the former. *)
LookupLibrary(key, a) ==
  {l \in AllLibraries(a) : l.name = key.name /\ key.source \in {"", l.source}}

NormalizeLibrary ==
  /\ pc = "normalize" /\ i <= Len(userLibraries)
  /\ LET entry == userLibraries[i]
         found == LookupLibrary(entry.key, matches[1])
     IN  \/ ~entry.address.valid /\ Fail("InvalidLibraryAddress")
         \/ entry.address.valid /\ found = {} /\ Fail("LibraryNotFound")
         \/ entry.address.valid /\ Cardinality(found) > 1 /\ Fail("LibraryMultipleMatches")
         \/ /\ entry.address.valid /\ Cardinality(found) = 1
            /\ \E l \in found :
                 \/ l \in DOMAIN normalized /\ Fail("DuplicatedLibrary")
                 \/ /\ l \notin DOMAIN normalized
                    /\ normalized' = [n \in DOMAIN normalized \union {l} |->
                                       IF n = l THEN entry.address ELSE normalized[n]]
                    /\ i' = i + 1
                    /\ UNCHANGED <<compilers, deployed, wanted, userLibraries, pc, matches, libraries, error>>

NormalizeEnd ==
  /\ pc = "normalize" /\ i > Len(userLibraries)
  /\ pc' = "link"
  /\ UNCHANGED <<compilers, deployed, wanted, userLibraries, i, matches, normalized, libraries, error>>

ToLowerCase(address) == [address EXCEPT !.lower = TRUE]

(* The address at the first place the library is linked at, written in lower case. *)
AddressesFromBytecode(a) ==
  [l \in Detectable(a) |->
     LET first == CHOOSE p \in a.links[l] : \A q \in a.links[l] : p <= q
     IN  [valid |-> TRUE, of |-> deployed.code[first], lower |-> TRUE]]

MutConflictsCaseSensitive(detected) ==
  {l \in DOMAIN normalized \intersect DOMAIN detected : normalized[l] # detected[l]}

Conflicts(detected) ==
  {l \in DOMAIN normalized \intersect DOMAIN detected :
     ToLowerCase(normalized[l]) # detected[l]}

(* What is detected is written over what the user gave. *)
MergeLibraries(detected) ==
  [l \in DOMAIN normalized \union DOMAIN detected |->
     IF l \in DOMAIN detected THEN detected[l] ELSE normalized[l]]

MutLinkLibrariesIncomplete ==
  /\ pc = "link"
  /\ LET detected == AddressesFromBytecode(matches[1])
     IN  \/ Conflicts(detected) # {} /\ Fail("LibraryAddressesMismatch")
         \/ /\ Conflicts(detected) = {}
            /\ libraries' = MergeLibraries(detected) /\ pc' = "done"
            /\ UNCHANGED <<compilers, deployed, wanted, userLibraries, i, matches, normalized, error>>

LinkLibraries ==
  /\ pc = "link"
  /\ LET detected == AddressesFromBytecode(matches[1])
         merged == MergeLibraries(detected)
     IN  \/ Conflicts(detected) # {} /\ Fail("LibraryAddressesMismatch")
         \/ /\ Conflicts(detected) = {}
            /\ \/ /\ Cardinality(DOMAIN merged) < Cardinality(AllLibraries(matches[1]))
                  /\ Fail("MissingLibraries")
               \/ /\ Cardinality(DOMAIN merged) >= Cardinality(AllLibraries(matches[1]))
                  /\ libraries' = merged /\ pc' = "done"
                  /\ UNCHANGED <<compilers, deployed, wanted, userLibraries, i, matches, normalized, error>>

Terminating == pc \in {"done", "error"} /\ UNCHANGED vars

Next == \/ MatchVersions \/ LookupNamed \/ ScanArtifact \/ ScanEnd
        \/ NormalizeLibrary \/ NormalizeEnd \/ LinkLibraries \/ Terminating

Spec == Init /\ [][Next]_vars

-----------------------------------------------------------------------------
Errors == {"EtherscanVersionNotSupported", "CompilerVersionsMismatch", "ContractNotFound",
           "BuildInfoNotFound", "BuildInfoCompilerVersionMismatch", "DeployedBytecodeMismatch",
           "DeployedBytecodeMultipleMatches", "InvalidLibraryAddress", "LibraryNotFound",
           "LibraryMultipleMatches", "DuplicatedLibrary", "LibraryAddressesMismatch",
           "MissingLibraries"}

(* Types of the state; an error and only an error stops the task early. *)
TypeOK ==
  /\ pc \in {"versions", "named", "scan", "normalize", "link", "done", "error"}
  /\ error \in Errors \union {"none"} /\ (error = "none") = (pc # "error")
  /\ i \in 1..(Len(Artifacts) + Len(userLibraries) + 1)
  /\ IsInjective(matches) /\ \A a \in Range(matches) : a \in Range(Artifacts)
  /\ pc \in {"normalize", "link", "done"} => Len(matches) = 1
  /\ \A l \in DOMAIN normalized : normalized[l].valid

(* The artifact the contract on chain was really compiled from, when the
   search can see it: built, by a compiler the config lists and the metadata
   admits, or for the OVM. *)
Local == {a \in Range(Artifacts) : a.name = deployed.of /\ a.buildInfo /\ VersionFits(a)}

(* With no name given, what is found is the source of the contract: an
   artifact that happens to look alike (a shorter one, one with other
   immutables, a copy) is never taken in its stead.  And the links submitted
   name every library of the contract, each detectable one at the address the
   deployed code really calls, and the others where the user said. *)
InformationIsTrue ==
  /\ pc = "done" /\ wanted = {} /\ Local # {} => matches[1].name = deployed.of
  /\ pc = "done" /\ matches[1].name = deployed.of =>
       /\ DOMAIN libraries = AllLibraries(matches[1])
       /\ \A l \in Detectable(matches[1]) : libraries[l].of = deployed.linked[l]
       /\ \A l \in matches[1].creationOnly :
            \E k \in DOMAIN userLibraries :
              /\ userLibraries[k].address = libraries[l]
              /\ userLibraries[k].key.name = l.name

(* b cannot be told from a: they differ only where b has immutables or links,
   or has by chance the very value that fills a place of a. *)
LooksLike(b, a) ==
  /\ Len(b.code) = Len(a.code)
  /\ \A p \in DOMAIN b.code :
       \/ b.code[p] = a.code[p] \/ p \in Places(b)
       \/ p \in Places(a) /\ Reference(deployed.code, b)[p] = deployed.code[p]

(* A request is sound when the config is supported, the source is local and
   nothing local looks like it, and the user's dictionary gives each library it
   names at the address it was linked at, once, and leaves out no undetectable one. *)
SoundRequest ==
  /\ Supported
  /\ \E a \in Local :
    LET Given(k) == LookupLibrary(userLibraries[k].key, a)
    IN  /\ wanted = {a.name} \/ (wanted = {} /\ \A b \in Range(Artifacts) \ {a} : ~LooksLike(b, a))
        /\ \A k \in DOMAIN userLibraries :
             /\ userLibraries[k].address.valid
             /\ Cardinality(Given(k)) = 1
             /\ \A l \in Given(k) \intersect Detectable(a) :
                  userLibraries[k].address.of = deployed.linked[l]
             /\ \A n \in DOMAIN userLibraries \ {k} : Given(n) # Given(k)
        /\ a.creationOnly \subseteq UNION {Given(k) : k \in DOMAIN userLibraries}

(* A sound request is never refused, in whatever case the addresses are
   written and whatever the contract was linked with. *)
SoundIsAccepted == pc = "error" => ~SoundRequest
=============================================================================
