--------------------------------- MODULE Purls ---------------------------------
(***************************************************************************)
(* What a package URL names for each of the services that are asked about  *)
(* it: the GitHub repository it comes from and its key in each package     *)
(* registry.  A purl is [type, path, version]: the path is the sequence of *)
(* its decoded segments, and the version may be None.  Qualifiers and      *)
(* subpaths, which every function here cuts off, are left out.             *)
(***************************************************************************)
EXTENDS Sequences, Naturals

CONSTANTS
  None,          \* no repository, no key, no version
  Redirect,      \* Go module path |-> the repository it redirects to
  MajorSuffixes, \* the last segments of a Go module path of the form vN
  Unknown,       \* the version "unknown"
  Newest,        \* the other words PyPI takes for no version: "*", "latest"
  Unexpanded,    \* versions with a property left in them: "${project.version}"
  DevVersions,   \* Composer versions that name a branch: "dev-main", "1.x-dev"
  OwnVersions,   \* what Yarn gives packages of the project itself as version
  Properties     \* Maven groups that are an unexpanded ${project...}

NoPURL == [type |-> "", path |-> <<>>, version |-> None]

Registries == <<"npm", "nuget", "depsdev", "packagist", "pypi">>
RegistryNames == {"npm", "nuget", "depsdev", "packagist", "pypi"}

-----------------------------------------------------------------------------
(* GitHub.                                                                 *)

\* splitOwnerRepo: the first two segments.
OwnerAndRepo(path) == IF Len(path) < 2 THEN None ELSE SubSeq(path, 1, 2)

\* The prefixes of a module path that redirect, its major version cut off
\* when the whole path has none.
Redirecting(path) ==
  LET prefixes(p) == {n \in 1..Len(p) : SubSeq(p, 1, n) \in DOMAIN Redirect}
      cut == IF Len(path) >= 2 /\ path[Len(path)] \in MajorSuffixes
             THEN SubSeq(path, 1, Len(path) - 1) ELSE path
  IN IF prefixes(path) # {} THEN prefixes(path) ELSE prefixes(cut)

\* ExtractGitHubRepo.  The prefixes of the table do not overlap, so that the
\* order in which Go visits it does not matter.
ExtractGitHubRepo(purl) ==
  IF purl.type = "golang" /\ Len(purl.path) > 0 /\ purl.path[1] = "github.com" THEN OwnerAndRepo(Tail(purl.path))
  ELSE IF purl.type = "github" THEN OwnerAndRepo(purl.path)
  ELSE IF purl.type = "golang" /\ Redirecting(purl.path) # {} THEN
         Redirect[SubSeq(purl.path, 1, CHOOSE n \in Redirecting(purl.path) : TRUE)]
  ELSE None

-----------------------------------------------------------------------------
(* Registries.  A key is [name, version]; a version of None stands for the *)
(* newest release.                                                         *)

Key(purl, version) == [name |-> <<purl.type, purl.path>>, version |-> version]

\* validVersion of deps.dev, and what PyPI makes of a version; npm, NuGet and
\* Packagist ask for whatever it says.
DepsDevVersion(version) == IF version \in {Unknown} \cup Unexpanded THEN None ELSE version
PyPIVersion(version) == IF version \in {Unknown} \cup Newest THEN None ELSE version

Systems == {"maven", "pypi", "npm", "golang", "cargo", "nuget"}

\* The Extract... function of each resolver: the key, or None for purls the
\* resolver does not handle.  Names are valid ones for their type.
Extract(registry, purl) ==
  CASE registry = "npm" /\ purl.type = "npm" -> Key(purl, purl.version)
    [] registry = "nuget" /\ purl.type = "nuget" -> Key(purl, purl.version)
    [] registry = "depsdev" /\ purl.type \in Systems -> Key(purl, DepsDevVersion(purl.version))
    [] registry = "packagist" /\ purl.type = "composer" -> Key(purl, purl.version)
    [] registry = "pypi" /\ purl.type = "pypi" /\ purl.version \notin Unexpanded ->
         Key(purl, PyPIVersion(purl.version))
    [] OTHER -> None

\* The ecosystems some resolver looks up.
Covered == Systems \cup {"github", "composer"}

\* isFirstPartyPURL: a Yarn workspace package, or a Maven module of the
\* building project itself.
FirstPartyPURL(purl) ==
  \/ purl.type = "npm" /\ purl.version \in OwnVersions
  \/ purl.type = "maven" /\ purl.path[1] \in Properties
================================================================================
