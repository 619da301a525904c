------------------------------- MODULE Bundles -------------------------------
(***************************************************************************)
(* How a directory becomes a bundle of modules, read from disk or embedded *)
(* (guestpy-core, bundle.rs; guestpy-macros, bundle.rs), and the native    *)
(* modules it claims on either backend.                                    *)
(*                                                                         *)
(* A dotted name is the sequence of its components.  A path is a record of *)
(* its directories, the file's stem and its extensions, those between the  *)
(* dots; a file is a path and its contents.                                *)
(***************************************************************************)
EXTENDS Naturals, Sequences, FiniteSets, SequencesExt

CONSTANTS
    Identifiers,            \* the components that are names of Python modules
    ExtensionSuffixes       \* the extensions of CPython's native modules, as sequences

Path(dir, stem, tags) == [dir |-> dir, stem |-> stem, tags |-> tags]
File(path, contents) == [path |-> path, contents |-> contents]

Paths == [dir: Seq(STRING), stem: STRING, tags: Seq(STRING)]
Files == [path: Paths, contents: STRING]

LibraryExtensions == {"so", "pyd", "dylib"}

\* importlib's EXTENSION_SUFFIXES are those of shared libraries.
ASSUME SuffixesAssumption ==
    \A s \in ExtensionSuffixes : s \in Seq(STRING) /\ s # <<>> /\ Last(s) \in LibraryExtensions

Init_py == "__init__"
IsPython(path) == path.tags # <<>> /\ Last(path.tags) = "py"
IsIdentifiers(names) == \A i \in DOMAIN names : names[i] \in Identifiers

\* A stem with extensions left to it has a dot in it and is no identifier.
Plain(path, left) == IsIdentifiers(Append(path.dir, path.stem)) /\ left = <<>>

Dotted(path) == IF path.stem = Init_py THEN path.dir ELSE Append(path.dir, path.stem)
Origin(dotted, package) ==
    IF package THEN Path(dotted, Init_py, <<"py">>) ELSE Path(Front(dotted), Last(dotted), <<"py">>)

-----------------------------------------------------------------------------
\* BundleBuilder: modules and files are functions from names and from paths.
Empty == [modules |-> <<>>, files |-> <<>>, data |-> {}, failed |-> FALSE]
Put(f, x, y) == [z \in DOMAIN f \cup {x} |-> IF z = x THEN y ELSE f[z]]

\* insert_module.
InsertModule(builder, dotted, source, package) ==
    IF builder.failed \/ dotted = <<>> \/ ~IsIdentifiers(dotted) THEN [builder EXCEPT !.failed = TRUE]
    ELSE [builder EXCEPT
             !.files = Put(@, Origin(dotted, package), source),
             !.modules = Put(@, dotted, [source |-> source, package |-> package,
                                         origin |-> Origin(dotted, package)])]

\* insert_entry: a Python file is a module, and every file is kept.
InsertEntry(builder, file) ==
    LET path == file.path
        kept == [builder EXCEPT !.files = Put(@, path, file.contents)]
    IN IF ~IsPython(path) THEN [kept EXCEPT !.data = @ \cup {path}]
       ELSE IF ~Plain(path, Front(path.tags)) \/ file.contents = "not utf-8"
       THEN [kept EXCEPT !.failed = TRUE]
       ELSE InsertModule(kept, Dotted(path), file.contents, path.stem = Init_py)

\* The builder after each number of entries; the first error is the end.
Reading(entries) ==
    LET read[n \in 0..Len(entries)] ==
            IF n = 0 THEN Empty
            ELSE IF read[n - 1].failed THEN read[n - 1]
            ELSE InsertEntry(read[n - 1], entries[n])
    IN read
Read(entries) == Reading(entries)[Len(entries)]

\* build: every module's parents are in it, and are packages.
Parents(dotted) == {SubSeq(dotted, 1, n) : n \in 1..(Len(dotted) - 1)}

Builds(builder) ==
    /\ ~builder.failed
    /\ \A dotted \in DOMAIN builder.modules : \A parent \in Parents(dotted) :
           parent \in DOMAIN builder.modules /\ builder.modules[parent].package

-----------------------------------------------------------------------------
\* A tree is a set of files, paths relative to the directory, whose own name is name.
IsPackage(tree) == \E file \in tree : file.path = Path(<<>>, Init_py, <<"py">>)
Below(prefix, file) == [file EXCEPT !.path.dir = prefix \o @]

\* from_dir reads the files of a directory before those of its directories.
InDirOrder(entries) ==
    \A i, j \in DOMAIN entries :
        i < j => ~(entries[j].path.dir # entries[i].path.dir
                      /\ IsPrefix(entries[j].path.dir, entries[i].path.dir))

FromDir(name, entries) ==
    LET prefix == IF IsPackage(ToSet(entries)) THEN <<name>> ELSE <<>>
    IN Read([i \in DOMAIN entries |-> Below(prefix, entries[i])])

\* Slip: the prefix is for the files of the directory itself only.
FromEmbeddedFlat(name, entries) ==
    LET prefix == IF IsPackage(ToSet(entries)) THEN <<name>> ELSE <<>>
    IN Read([i \in DOMAIN entries |->
                IF entries[i].path.dir = <<>> THEN Below(prefix, entries[i]) ELSE entries[i]])

\* from_embedded takes the entries in the order in which they were embedded.
FromEmbedded(name, entries) ==
    LET prefix == IF IsPackage(ToSet(entries)) THEN <<name>> ELSE <<>>
    IN Read([i \in DOMAIN entries |-> Below(prefix, entries[i])])

-----------------------------------------------------------------------------
\* Native modules: claim of core, for backends that load none, and the two kinds of CPython.
Ending(path) == path.tags # <<>> /\ Last(path.tags) \in LibraryExtensions

Claimed(path) ==
    IF Ending(path) /\ IsIdentifiers(Append(path.dir, path.stem))
    THEN {Append(path.dir, path.stem)} ELSE {}

\* compatible_name looks for the longest suffix only.
CompatibleName(path) ==
    LET fitting == {s \in ExtensionSuffixes : IsSuffix(s, path.tags)}
        longest == CHOOSE s \in fitting : \A t \in fitting : Len(t) <= Len(s)
    IN IF fitting # {} /\ Plain(path, SubSeq(path.tags, 1, Len(path.tags) - Len(longest)))
       THEN {Append(path.dir, path.stem)} ELSE {}

IncompatibleName(path) == Claimed(path)

\* The names of a bundle's prepared extensions.
CPythonClaims(builder) ==
    UNION {IF CompatibleName(p) # {} THEN CompatibleName(p) ELSE IncompatibleName(p) :
               p \in DOMAIN builder.files}
RustPythonClaims(builder) == UNION {Claimed(p) : p \in DOMAIN builder.files}

=============================================================================
