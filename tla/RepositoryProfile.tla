-------------------------- MODULE RepositoryProfile --------------------------
(***************************************************************************)
(* What is read from an extracted workspace before a pack is chosen: the   *)
(* profile of analyzers/repository_profiler.py, the dependency entries of  *)
(* analyzers/manifest_parser.py, and the second reading of the manifests   *)
(* by the node parse_dependencies.                                         *)
(*                                                                         *)
(* A file is a record of its path, the language of its extension, its      *)
(* place (under an excluded directory, under a hidden one, or neither),    *)
(* the kind of manifest it is, the declarations in it, what is wrong with  *)
(* them, and the code patterns it contains.                                *)
(***************************************************************************)
EXTENDS PackSelection

Places == {"plain", "excluded", "hidden"}

(* "line": an entry without a package name, the others are kept; "toml":   *)
(* the file does not parse and yields nothing.                             *)
Flaws == {"none", "line", "toml"}

IsFile(file) ==
    /\ file.place \in Places
    /\ file.manifest \in {"", "requirements", "Requirements", "pyproject", "setup"}
    /\ file.flaw \in Flaws
    /\ file.flaw = "toml" => file.manifest = "pyproject"
    /\ \A d \in file.declares : IsSpecifier(d.spec)

-----------------------------------------------------------------------------
(* parse_requirements_txt and parse_pyproject_toml; setup.py and setup.cfg *)
(* are noted and not parsed.  "Requirements" stands for a requirements     *)
(* file whose name is not all in lower case.                               *)
RequirementsEntries(file) ==
    {[package |-> d.package, constraint |-> Classify(d.spec), path |-> file.path] :
        d \in file.declares}

PyprojectEntries(file) == IF file.flaw = "toml" THEN {} ELSE RequirementsEntries(file)

Entries(file) ==
    CASE file.manifest \in {"requirements", "Requirements"} -> RequirementsEntries(file)
      [] file.manifest = "pyproject" -> PyprojectEntries(file)
      [] OTHER -> {}

(* Files under excluded directories are left out of everything.            *)
Visited(files) == {f \in files : f.place # "excluded"}

(* profile_repository keeps the entries of a manifest in which others      *)
(* could not be read.  The patterns are no part of the profile: the        *)
(* engine searches the workspace itself, and passes over hidden paths but  *)
(* not over excluded ones.                                                 *)
ProfileOf(files) ==
    [languages |-> {f.language : f \in Visited(files)} \ {""},
     manifests |-> {[path |-> f.path, error |-> f.flaw # "none"] :
                        f \in {g \in Visited(files) : g.manifest # ""}},
     dependencies |-> UNION {Entries(f) : f \in Visited(files)},
     patterns |-> UNION {{<<f.language, p>> : p \in f.patterns} :
                            f \in {g \in files : g.place # "hidden"}}]

(* Variant: every manifest of the workspace is read, excluded or not.      *)
ParseEveryManifest(files, profile) == UNION {Entries(f) : f \in files}

(* parse_dependencies reads the manifests of the profile again, except     *)
(* those with an error, and minds the case of their names.                 *)
ParseDependencies(files, profile) ==
    UNION {Entries(f) : f \in {g \in files :
        /\ g.manifest # "Requirements"
        /\ \E m \in profile.manifests : m.path = g.path /\ ~m.error}}

=============================================================================
