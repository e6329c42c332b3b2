------------------------------ MODULE Generation ------------------------------
(***************************************************************************)
(* Incremental generation: generate() of the command line tool, with the   *)
(* directory an algorithm caches its work in.                              *)
(*                                                                         *)
(* A run builds the parser of the grammar it read, reusing the cached      *)
(* productions when their stamp is the text of its rules, writes the       *)
(* generated files that a manifest of content hashes does not call         *)
(* unchanged, removes the files it no longer generates, and then saves the *)
(* manifest, the cache and the hashes of the rules, one after another.     *)
(* The user edits the grammar and deletes generated files; a run can be    *)
(* killed, or give up on an exception, between any two steps, and the disk *)
(* keeps what was written so far.                                          *)
(*                                                                         *)
(* The text of a rule is not the whole rule: operator<< leaves out its     *)
(* features (actions, expressions of its data block, bound fail blocks)    *)
(* and those of its members but for counters (fail markers, dynamic        *)
(* patterns), and fail blocks and Python declarations are no part of any   *)
(* rule.  Two grammars may thus have one text (Text).  A grammar that has  *)
(* declarations, fail blocks or rules with features (Acting) takes nothing *)
(* over, but what it builds is saved like any other.                       *)
(*                                                                         *)
(* A content stands for its hash: two contents of one file whose hashes    *)
(* collide are outside this model, and so is a close that loses buffered   *)
(* output without reporting it.                                            *)
(***************************************************************************)
EXTENDS Integers, FiniteSets

CONSTANTS
    Grammars,      \* the grammars the user edits back and forth between
    Paths,         \* the files a grammar may be generated into
    Contents,      \* what a generated file may hold
    Texts,         \* what the dump of a grammar's rules may read
    Text,          \* Text[g]: the dump of the rules of grammar g
    Acting,        \* the grammars with Python declarations, fail blocks or rules with features
    Output,        \* Output[g][h][p]: the content of file p generated from the tree of
                   \* grammar g and the productions of grammar h
    Absent,        \* no such file, or no such line in the manifest
    Damaged,       \* a file cut short, or a hash that has lost digits
    MaxCrashes     \* bound: runs cut short in one behaviour

ASSUME OutputAssumption ==
    /\ Output \in [Grammars -> [Grammars -> [Paths -> Contents \cup {Absent}]]]
    /\ Absent \notin Contents \cup Grammars \cup Paths
    /\ Damaged \notin Contents \cup {Absent}

ASSUME TextAssumption ==
    /\ Text \in [Grammars -> Texts]
    /\ Absent \notin Texts
    /\ Acting \subseteq Grammars

ASSUME CrashAssumption == MaxCrashes \in Nat

VARIABLES
    grammar,      \* the grammar in the source files
    files,        \* the generated files on disk
    manifest,     \* .codegen-manifest: a hash per path, and whether every line of it parses
    data,         \* the published snapshot of the algorithm's cache
    ruleHashes,   \* whether every line of the file rule-hashes parses
    pc,           \* where the running generator is
    source,       \* the grammar the run has read
    product,      \* the grammar whose productions it generates from
    previous,     \* the hashes of the manifest it has loaded
    pending,      \* the files it has still to look at
    open,         \* the file it is writing
    staged,       \* the snapshot it writes beside the published one
    aside,        \* the old snapshot, while the new one takes its place
    touched,      \* the files it has opened for writing
    cut,          \* history: what the runs were generating that were cut short before their
                  \* manifest was saved, until a run that generates the same has finished
    lost,         \* history: files cut short as a run restored what the manifest lists
    settled,      \* history: what the last run generated, if it finished, without files deleted since
    crashes       \* runs cut short so far

disk == <<files, manifest, data, ruleHashes>>
loaded == <<source, product, previous>>
history == <<cut, lost, settled, crashes>>
vars == <<grammar, disk, pc, loaded, pending, open, staged, aside, touched, history>>

-----------------------------------------------------------------------------
(* The disk                                                                *)

\* The two entries the LL algorithm keeps in its metadata: the text of the
\* grammar and the records of the productions, named by the grammar they are of.
Entries == {"grammar", "productions"}

NoSnapshot == [e \in Entries |-> Absent]

NoFiles == [p \in Paths |-> Absent]

\* What saveKeyHashMap can leave when it is cut short: some of the lines, the
\* last of which may have lost digits of its number (Damaged), or all of them,
\* and then the file cannot be loaded.
Torn(hash) ==
    [hash : {h \in [Paths -> Contents \cup {Absent, Damaged}] :
                \A p \in Paths :
                    \/ h[p] \in {hash[p], Absent}
                    \/ /\ h[p] = Damaged
                       /\ hash[p] # Absent
                       /\ \A q \in Paths \ {p} : h[q] # Damaged},
     readable : BOOLEAN]

\* The productions a build takes over from a snapshot, if its grammar has no
\* actions, the stamp is the text of its rules and the records can be read; its
\* own otherwise.
Restored(snapshot, g) ==
    IF /\ g \notin Acting
       /\ snapshot["grammar"] = Text[g]
       /\ snapshot["productions"] \in Grammars
    THEN snapshot["productions"] ELSE g

\* What a build leaves for the next one, whatever grammar it was: the text of the
\* rules it has read and the productions it generates from, new or taken over.
Entry(e) == IF e = "grammar" THEN Text[source] ELSE product

\* What the run generates: types and lexer from the tree, functions from the productions.
Generated == Output[source][product]

Expected == {p \in Paths : Generated[p] # Absent}

-----------------------------------------------------------------------------
(* A run                                                                   *)

\* Metadata and rule hashes are loaded, the grammar is built, the manifest is
\* loaded: nothing is written.  A line without a number ends the run there.
Start ==
    /\ pc = "idle"
    /\ ruleHashes
    /\ manifest.readable
    /\ source' = grammar
    /\ product' = Restored(data, grammar)
    /\ previous' = manifest.hash
    /\ pending' = Expected'
    /\ touched' = {}
    /\ pc' = "files"
    /\ UNCHANGED <<grammar, disk, open, staged, aside, history>>

\* A fault: a file whose hash is listed is taken to be there.
UnchangedByHash(p) == previous[p] = Generated[p]

\* The hash in the manifest is that of the new content and the file exists:
\* writeGeneratedFiles leaves the file and its time stamp alone.
Unchanged(p) ==
    /\ previous[p] = Generated[p]
    /\ files[p] # Absent

Skip(p) ==
    /\ pc = "files"
    /\ p \in pending
    /\ Unchanged(p)
    /\ pending' = pending \ {p}
    /\ UNCHANGED <<grammar, disk, pc, loaded, open, staged, aside, touched, history>>

\* Another file is truncated as it is opened...
Open(p) ==
    /\ pc = "files"
    /\ p \in pending
    /\ ~Unchanged(p)
    /\ files' = [files EXCEPT ![p] = Damaged]
    /\ open' = p
    /\ touched' = touched \cup {p}
    /\ pc' = "writing"
    /\ UNCHANGED <<grammar, manifest, data, ruleHashes, loaded, pending, staged, aside, history>>

\* ...and written.
Close ==
    /\ pc = "writing"
    /\ files' = [files EXCEPT ![open] = Generated[open]]
    /\ pending' = pending \ {open}
    /\ lost' = lost \ {open}
    /\ pc' = "files"
    /\ UNCHANGED <<grammar, manifest, data, ruleHashes, loaded, open, staged, aside,
                   touched, cut, settled, crashes>>

\* The files the manifest lists and this run does not produce.
Stale == {p \in Paths : previous[p] # Absent /\ p \notin Expected /\ files[p] # Absent}

Prune(p) ==
    /\ pc = "files"
    /\ pending = {}
    /\ p \in Stale
    /\ files' = [files EXCEPT ![p] = Absent]
    /\ lost' = lost \ {p}
    /\ UNCHANGED <<grammar, manifest, data, ruleHashes, pc, loaded, pending, open, staged,
                   aside, touched, cut, settled, crashes>>

\* The manifest is truncated...
OpenManifest ==
    /\ pc = "files"
    /\ pending = {}
    /\ Stale = {}
    /\ manifest' = [hash |-> NoFiles, readable |-> TRUE]
    /\ pc' = "manifest"
    /\ UNCHANGED <<grammar, files, data, ruleHashes, loaded, pending, open, staged, aside,
                   touched, history>>

\* A fault: only the files that were written are listed.
CloseManifestOfWritten ==
    /\ pc = "manifest"
    /\ manifest' = [hash |-> [p \in Paths |-> IF p \in touched THEN Generated[p] ELSE Absent],
                    readable |-> TRUE]
    /\ pc' = "staging"
    /\ UNCHANGED <<grammar, files, data, ruleHashes, loaded, pending, open, staged, aside,
                   touched, history>>

\* ...and gets a line for every file of this run, written now or not.
CloseManifest ==
    /\ pc = "manifest"
    /\ manifest' = [hash |-> Generated, readable |-> TRUE]
    /\ pc' = "staging"
    /\ UNCHANGED <<grammar, files, data, ruleHashes, loaded, pending, open, staged, aside,
                   touched, history>>

\* A fault: the entries are written where the next run looks for them.
StageInPlace(e) ==
    /\ pc = "staging"
    /\ staged[e] = Absent
    /\ staged' = [staged EXCEPT ![e] = Entry(e)]
    /\ data' = [data EXCEPT ![e] = staged'[e]]
    /\ UNCHANGED <<grammar, files, manifest, ruleHashes, pc, loaded, pending, open, aside,
                   touched, history>>

\* A fault: an entry that was cut short is published as it is.
StageTorn(e) ==
    /\ pc = "staging"
    /\ staged[e] = Absent
    /\ staged' = [staged EXCEPT ![e] = Damaged]
    /\ UNCHANGED <<grammar, disk, pc, loaded, pending, open, aside, touched, history>>

\* saveMetadata: the entries go to a directory of their own, ...
Stage(e) ==
    /\ pc = "staging"
    /\ staged[e] = Absent
    /\ staged' = [staged EXCEPT ![e] = Entry(e)]
    /\ UNCHANGED <<grammar, disk, pc, loaded, pending, open, aside, touched, history>>

\* ...the published snapshot, if there is one, is renamed away, ...
SetAside ==
    /\ pc = "staging"
    /\ \A e \in Entries : staged[e] # Absent
    /\ aside' = data
    /\ data' = NoSnapshot
    /\ pc' = "publishing"
    /\ UNCHANGED <<grammar, files, manifest, ruleHashes, loaded, pending, open, staged,
                   touched, history>>

\* ...the new one is renamed into its place and the old one removed.
Publish ==
    /\ pc = "publishing"
    /\ data' = staged
    /\ staged' = NoSnapshot
    /\ aside' = NoSnapshot
    /\ pc' = "rules"
    /\ UNCHANGED <<grammar, files, manifest, ruleHashes, loaded, pending, open, touched, history>>

\* The rule hashes are written and the run is over.
Finish ==
    /\ pc = "rules"
    /\ ruleHashes' = TRUE
    /\ cut' = cut \ {Generated}
    /\ settled' = Generated
    /\ pc' = "idle"
    /\ UNCHANGED <<grammar, files, manifest, data, loaded, pending, open, staged, aside,
                   touched, lost, crashes>>

-----------------------------------------------------------------------------
(* What can go wrong, and the user                                         *)

CutShort ==
    /\ pc # "idle"
    /\ crashes < MaxCrashes
    /\ crashes' = crashes + 1
    /\ cut' = IF pc \in {"files", "writing", "manifest"} THEN cut \cup {Generated} ELSE cut
    /\ settled' = NoFiles
    /\ lost' = IF pc = "writing" /\ previous[open] = Generated[open]
               THEN lost \cup {open} ELSE lost
    /\ staged' = NoSnapshot
    /\ aside' = NoSnapshot
    /\ pc' = "idle"
    /\ UNCHANGED <<grammar, files, loaded, pending, open, touched>>

\* The process is killed: a directory it was staging, or has set aside, stays
\* on disk under a name nobody looks up, and a file it was writing is torn.
Crash ==
    /\ CutShort
    /\ data' = data
    /\ manifest' \in IF pc = "manifest" THEN Torn(Generated) ELSE {manifest}
    /\ ruleHashes' \in IF pc = "rules" THEN BOOLEAN ELSE {ruleHashes}

\* The new snapshot cannot be renamed into place: the old one is put back and
\* the exception ends the run.
PublishFails ==
    /\ pc = "publishing"
    /\ CutShort
    /\ data' = aside
    /\ UNCHANGED <<manifest, ruleHashes>>

Edit ==
    /\ grammar' \in Grammars
    /\ UNCHANGED <<disk, pc, loaded, pending, open, staged, aside, touched, history>>

DeleteFile(p) ==
    /\ pc = "idle"
    /\ files[p] # Absent
    /\ files' = [files EXCEPT ![p] = Absent]
    /\ lost' = lost \ {p}
    /\ settled' = [settled EXCEPT ![p] = Absent]
    /\ UNCHANGED <<grammar, manifest, data, ruleHashes, pc, loaded, pending, open, staged,
                   aside, touched, cut, crashes>>

-----------------------------------------------------------------------------
Init ==
    /\ grammar \in Grammars
    /\ files = NoFiles
    /\ manifest = [hash |-> NoFiles, readable |-> TRUE]
    /\ data = NoSnapshot
    /\ ruleHashes = TRUE
    /\ pc = "idle"
    /\ source = grammar
    /\ product = grammar
    /\ previous = NoFiles
    /\ pending = {}
    /\ open = Absent
    /\ staged = NoSnapshot
    /\ aside = NoSnapshot
    /\ touched = {}
    /\ cut = {}
    /\ lost = {}
    /\ settled = NoFiles
    /\ crashes = 0

\* The steps of a run that nothing disturbs.
Progress ==
    \/ Start
    \/ \E p \in Paths : Skip(p) \/ Open(p) \/ Prune(p)
    \/ Close
    \/ OpenManifest
    \/ CloseManifest
    \/ \E e \in Entries : Stage(e)
    \/ SetAside
    \/ Publish
    \/ Finish

Next ==
    \/ Progress
    \/ Crash
    \/ PublishFails
    \/ Edit
    \/ \E p \in Paths : DeleteFile(p)

Spec == Init /\ [][Next]_vars

-----------------------------------------------------------------------------
(* Properties                                                              *)

Hashes == Contents \cup {Absent, Damaged}
Snapshots ==
    {snapshot \in [Entries -> Texts \cup Grammars \cup {Absent}] :
        /\ snapshot["grammar"] \in Texts \cup {Absent}
        /\ snapshot["productions"] \in Grammars \cup {Absent}}

TypeOK ==
    /\ grammar \in Grammars
    /\ files \in [Paths -> Hashes]
    /\ manifest \in [hash : [Paths -> Hashes], readable : BOOLEAN]
    /\ data \in Snapshots
    /\ ruleHashes \in BOOLEAN
    /\ pc \in {"idle", "files", "writing", "manifest", "staging", "publishing", "rules"}
    /\ source \in Grammars
    /\ product \in Grammars
    /\ previous \in [Paths -> Hashes]
    /\ pending \in SUBSET Paths
    /\ open \in Paths \cup {Absent}
    /\ pc = "writing" => open \in Paths
    /\ staged \in Snapshots
    /\ aside \in Snapshots
    /\ touched \in SUBSET Paths
    /\ cut \in SUBSET [Paths -> Hashes]
    /\ lost \in SUBSET Paths
    /\ settled \in [Paths -> Hashes]
    /\ crashes \in 0 .. MaxCrashes

\* What the cache may do to a run, whatever was interrupted before: the productions
\* a run generates from are of a grammar whose rules read as those of the grammar it
\* has read, and of that very grammar if it has actions.  No published snapshot
\* pairs the stamp of one text with the records of another, which is why
\* saveMetadata publishes a directory at once.  That they are of the grammar it has
\* read is more than the stamp can tell (FinishedRunIsExact).
RecordsAreOfTheText ==
    pc # "idle" =>
        /\ Text[product] = Text[source]
        /\ source \in Acting => product = source

\* The exact meaning of the manifest: with every run finished or, after one was
\* cut short before it saved its manifest, with a run that generates the same finished since, the files are
\* those this run generates, each with its content, and no other.  Only a file that
\* was cut short while it was restored (it was deleted, and the manifest lists the
\* content to restore) stays as it is.
RetryRepairs ==
    pc = "rules" /\ cut \subseteq {Generated} =>
        \A p \in Paths \ lost : files[p] = Generated[p]

\* A build system that looks at time stamps rebuilds nothing in vain: a run
\* that follows a finished one opens no file that it would write again as it is.
UnchangedFilesKeepTheirTime ==
    pc # "idle" => \A p \in touched : settled[p] # Generated[p]

\* What main.cpp says of writeGeneratedFiles, that the files it skips are unchanged
\* and those no longer produced are gone, and c_binding.cpp of the cache, that all
\* productions are invalid after any change: a finished run leaves the files of the
\* grammar it has read.
FinishedRunIsExact == pc = "rules" => files = Output[source][source]
=============================================================================
