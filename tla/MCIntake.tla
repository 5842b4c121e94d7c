------------------------------- MODULE MCIntake -------------------------------
(* Instances of Intake for TLC: the two packs of migration_packs with their *)
(* signals, and a repository with commits of every kind of archive.        *)
EXTENDS Intake

CONSTANTS v1, mixed, v2, bulky, heavy, linked, torn

-----------------------------------------------------------------------------
(* migration_packs/*/applicability.yaml.                                   *)

Manifest(package, test, bound, status, confidence) ==
    [source |-> "manifest", package |-> package, test |-> test, bound |-> bound,
     status |-> status, confidence |-> confidence, required |-> FALSE, absence |-> ""]

Present(package) ==
    [Manifest(package, "", None, "", Whole) EXCEPT
        !.required = TRUE, !.absence = "NOT_APPLICABLE"]

Language(status, confidence) ==
    [source |-> "code", test |-> "language", language |-> "python", pattern |-> "",
     status |-> status, confidence |-> confidence]

Pattern(pattern, status, confidence) ==
    [Language(status, confidence) EXCEPT !.test = "pattern", !.pattern = pattern]

DjangoSignals == <<
    Present("django"),
    Manifest("django", "exact", <<3>>, "SUPPORTED", 9900),
    Manifest("django", "upper_lt", <<4>>, "SUPPORTED", 9700),
    Manifest("django", "exact", <<4>>, "NOT_APPLICABLE", 9900),
    Manifest("django", "lower_gte", <<4>>, "NOT_APPLICABLE", 9900),
    Manifest("django", "unpinned", None, "PROBABLE_NEEDS_REVIEW", 5000),
    Language("SUPPORTED", 5000),
    Pattern("CONN_MAX_AGE", "SUPPORTED", 7000),
    Pattern("CSRF_TRUSTED_ORIGINS", "NOT_APPLICABLE", 6000) >>

PydanticSignals == <<
    Present("pydantic"),
    Manifest("pydantic", "exact", <<1>>, "SUPPORTED", 9900),
    Manifest("pydantic", "upper_lt", <<2>>, "SUPPORTED", 9800),
    Manifest("pydantic", "exact", <<2>>, "NOT_APPLICABLE", 9900),
    Manifest("pydantic", "lower_gte", <<2>>, "NOT_APPLICABLE", 9900),
    Manifest("pydantic", "unpinned", None, "PROBABLE_NEEDS_REVIEW", 6000),
    Language("SUPPORTED", 5000),
    Pattern("validator", "SUPPORTED", 9000),
    Pattern("orm_mode", "SUPPORTED", 9500),
    Pattern("model_config", "NOT_APPLICABLE", 9000),
    Pattern("pydantic.v1", "PROBABLE_NEEDS_REVIEW", 8500) >>

Installed(id, package, target, signals) ==
    [id |-> id, package |-> package, target |-> target, signals |-> signals,
     notApplicable |-> 9000, supported |-> 9000, default |-> "PROBABLE_NEEDS_REVIEW",
     valid |-> RequiredYaml, cited |-> {"guide"}, sources |-> {"guide"},
     prompts |-> RequiredPrompts]

Django   == Installed("django-v3-to-v4", "django", 4, DjangoSignals)
Pydantic == Installed("pydantic-v1-to-v2", "pydantic", 2, PydanticSignals)

MCInstallations ==
    {<<Django, Pydantic>>,
     <<[Django EXCEPT !.cited = {"guide", "notes"}], Pydantic>>}

MCRequests == {"", "pydantic-v1-to-v2", "flask-v1-to-v2"}

-----------------------------------------------------------------------------
(* The commits.                                                            *)

Clause(op, version) == [op |-> op, version |-> version]

Needs(package, spec) == [package |-> package, spec |-> spec]

File(path, language, manifest, declares, patterns) ==
    [path |-> path, kind |-> "file", size |-> 1, depth |-> 2, safe |-> TRUE,
     language |-> language, place |-> "plain", manifest |-> manifest,
     declares |-> declares, flaw |-> "none", patterns |-> patterns]

Requirements(declares) == File("requirements", "", "requirements", declares, {})

Code(patterns) == File("app", "python", "", {}, patterns)

MCTree == [c \in Commits |->
    CASE c = v1 ->
            << Requirements({Needs("pydantic", <<Clause("==", <<1, 10>>)>>),
                             Needs("django", <<Clause(">=", <<3>>), Clause("<=", <<3, 2>>)>>)}),
               Code({"orm_mode", "CONN_MAX_AGE"}) >>
      [] c = mixed ->
            << [Code({}) EXCEPT !.kind = "dir", !.path = "docs"],
               [Requirements({Needs("pydantic", <<Clause(">=", <<2, 0>>), Clause("<", <<3>>)>>),
                              Needs("django", <<>>)}) EXCEPT !.path = "dev"],
               [File("old", "", "Requirements",
                     {Needs("pydantic", <<Clause("==", <<1, 9>>)>>)}, {}) EXCEPT !.flaw = "line"],
               [File("vendored", "python", "requirements",
                     {Needs("pydantic", <<>>)}, {"validator"}) EXCEPT !.place = "excluded"] >>
      [] c = v2 ->
            << Requirements({Needs("pydantic", <<Clause(">=", <<2, 0>>)>>)}),
               [Code({}) EXCEPT !.path = "main"] >>
      [] c = heavy ->
            << Requirements({}), [Code({}) EXCEPT !.size = 3] >>
      [] c = linked ->
            << Requirements({}), [Code({}) EXCEPT !.kind = "link", !.path = "latest"] >>
      [] OTHER -> << Requirements({}) >>]

MCWeight == [c \in Commits |-> IF c = bulky THEN 2 ELSE 1]

=============================================================================
