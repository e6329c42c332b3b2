--------------------------- MODULE GenerationProofs ---------------------------
(***************************************************************************)
(* What Generation promises, for every set of grammars and files.          *)
(*                                                                         *)
(* The manifest is the only memory a run has of the files, and a run that  *)
(* was cut short leaves it behind the files.  The inductive invariant says *)
(* how far: a file that is not what the manifest lists is excused by a run *)
(* that was cut short and was generating that file with another content,   *)
(* or was cut short as it was restored.  A finished run that generates the *)
(* same finds the difference, because it compares that content with the    *)
(* same line of the manifest, and repairs the file.                        *)
(***************************************************************************)
EXTENDS Generation, TLAPS

-----------------------------------------------------------------------------
(* The inductive invariant                                                 *)

\* A cached stamp comes with the records of a grammar with that text.
Whole(snapshot) ==
    snapshot["grammar"] # Absent =>
        /\ snapshot["productions"] \in Grammars
        /\ Text[snapshot["productions"]] = snapshot["grammar"]

SnapshotsAreWhole ==
    /\ Whole(data)
    /\ Whole(aside)
    /\ RecordsAreOfTheText
    /\ pc \notin {"staging", "publishing"} => \A e \in Entries : staged[e] = Absent
    /\ \A e \in Entries : staged[e] \in {Absent, Entry(e)}
    /\ pc = "publishing" => \A e \in Entries : staged[e] = Entry(e)

Excused(p, hash) ==
    \/ p \in lost
    \/ \E generated \in cut : generated[p] # hash[p]

\* File p is what a manifest with these hashes says of it, or there is an excuse.
Trusted(p, hash) ==
    files[p] # Absent /\ files[p] # hash[p] => Excused(p, hash)

\* While files are compared and written: which of them are done, and how.
Writing ==
    /\ manifest.hash = previous
    /\ pending \subseteq Expected
    /\ touched \subseteq Expected
    /\ pc = "writing" => open \in pending /\ open \in touched
    /\ \A p \in touched : p \in pending => pc = "writing" /\ p = open
    /\ \A p \in touched \ pending : files[p] = Generated[p]
    /\ \A p \in Paths \ touched : Trusted(p, previous)
    /\ \A p \in Expected \ pending :
          p \notin touched => previous[p] = Generated[p] /\ files[p] # Absent

\* Once they are all written.
Written ==
    /\ \A p \in Paths : Trusted(p, Generated)
    /\ \A p \in Expected : files[p] # Absent

FilesAreAccountedFor ==
    /\ pc = "idle" => \A p \in Paths : Trusted(p, manifest.hash)
    /\ pc \in {"files", "writing"} => Writing
    /\ pc \in {"manifest", "staging", "publishing", "rules"} => Written
    /\ pc \in {"staging", "publishing", "rules"} => manifest.hash = Generated

\* What the last run generated is listed, and there unless it is being removed.
TimesAreKept ==
    /\ pc = "idle" =>
          \A p \in Paths : settled[p] # Absent =>
              manifest.hash[p] = settled[p] /\ files[p] # Absent
    /\ pc \in {"files", "writing"} =>
          \A p \in Expected : settled[p] # Absent =>
              previous[p] = settled[p] /\ files[p] # Absent
    /\ UnchangedFilesKeepTheirTime

IInv ==
    /\ TypeOK
    /\ SnapshotsAreWhole
    /\ FilesAreAccountedFor
    /\ TimesAreKept

-----------------------------------------------------------------------------
(* Types                                                                   *)

LEMMA RestoredType ==
    ASSUME NEW snapshot, NEW g \in Grammars
    PROVE  Restored(snapshot, g) \in Grammars
BY DEF Restored

LEMMA NoSnapshotType == NoSnapshot \in Snapshots
BY DEF NoSnapshot, Snapshots, Entries

\* What a run generates gives every file a content, or none.
LEMMA GeneratedType ==
    ASSUME TypeOK
    PROVE  Generated \in [Paths -> Contents \cup {Absent}]
BY OutputAssumption DEF Generated, TypeOK

LEMMA TypeStep == TypeOK /\ [Next]_vars => TypeOK'
<1> SUFFICES ASSUME TypeOK, [Next]_vars PROVE TypeOK'
  OBVIOUS
<1>a. Generated \in [Paths -> Contents \cup {Absent}]
  BY GeneratedType
<1>b. Generated \in [Paths -> Hashes]
  BY <1>a DEF Hashes
<1> USE OutputAssumption, CrashAssumption DEF TypeOK
<1>1. CASE Start
  <2>1. product' \in Grammars
    BY <1>1, RestoredType DEF Start
  <2>2. pending' \in SUBSET Paths
    BY <1>1 DEF Start, Expected
  <2> QED BY <1>1, <2>1, <2>2 DEF Start, disk, history
<1>2. ASSUME NEW p \in Paths, Skip(p) PROVE TypeOK'
  BY <1>2 DEF Skip, disk, loaded, history
<1>3. ASSUME NEW p \in Paths, Open(p) PROVE TypeOK'
  BY <1>3 DEF Open, loaded, history, Hashes
<1>4. CASE Close
  <2>1. files' \in [Paths -> Hashes]
    BY <1>4, <1>b DEF Close
  <2>2. pending' \in SUBSET Paths /\ lost' \in SUBSET Paths
    BY <1>4 DEF Close
  <2> QED BY <1>4, <2>1, <2>2 DEF Close, loaded
<1>5. ASSUME NEW p \in Paths, Prune(p) PROVE TypeOK'
  BY <1>5 DEF Prune, loaded, Hashes
<1>6. CASE OpenManifest
  BY <1>6 DEF OpenManifest, loaded, history, Hashes, NoFiles
<1>7. CASE CloseManifest
  BY <1>7, <1>b DEF CloseManifest, loaded, history
<1>8. ASSUME NEW e \in Entries, Stage(e) PROVE TypeOK'
  <2>1. Entry(e) \in Texts \cup Grammars
        /\ (e = "grammar" => Entry(e) \in Texts) /\ (e = "productions" => Entry(e) \in Grammars)
    BY TextAssumption DEF Entry, Entries
  <2>2. staged' \in Snapshots
    BY <1>8, <2>1 DEF Stage, Snapshots, Entries
  <2> QED BY <1>8, <2>2 DEF Stage, disk, loaded, history
<1>9. CASE SetAside
  BY <1>9, NoSnapshotType DEF SetAside, loaded, history
<1>10. CASE Publish
  BY <1>10, NoSnapshotType DEF Publish, loaded, history
<1>11. CASE Finish
  BY <1>11, <1>b DEF Finish, loaded
<1>12. CASE Crash
  <2>1. Torn(Generated) \subseteq [hash : [Paths -> Hashes], readable : BOOLEAN]
    BY DEF Torn, Hashes
  <2>2. manifest' \in [hash : [Paths -> Hashes], readable : BOOLEAN]
    BY <1>12, <2>1 DEF Crash
  <2>3. NoFiles \in [Paths -> Hashes]
    BY DEF NoFiles, Hashes
  <2> QED BY <1>12, <1>b, <2>2, <2>3, NoSnapshotType DEF Crash, CutShort, loaded
<1>13. CASE PublishFails
  <2>1. NoFiles \in [Paths -> Hashes]
    BY DEF NoFiles, Hashes
  <2> QED BY <1>13, <1>b, <2>1, NoSnapshotType DEF PublishFails, CutShort, loaded
<1>14. CASE Edit
  BY <1>14 DEF Edit, disk, loaded, history
<1>15. ASSUME NEW p \in Paths, DeleteFile(p) PROVE TypeOK'
  BY <1>15 DEF DeleteFile, loaded, Hashes
<1>16. CASE UNCHANGED vars
  BY <1>16 DEF vars, disk, loaded, history
<1> QED BY <1>1, <1>2, <1>3, <1>4, <1>5, <1>6, <1>7, <1>8, <1>9, <1>10, <1>11, <1>12,
           <1>13, <1>14, <1>15, <1>16 DEF Next, Progress

-----------------------------------------------------------------------------
(* The cache                                                               *)

\* A run that starts from a whole snapshot builds a grammar that reads like the one
\* it has read, and that one itself if it has actions.
LEMMA RestoredHasTheText ==
    ASSUME NEW snapshot, Whole(snapshot), NEW g \in Grammars
    PROVE  /\ Text[Restored(snapshot, g)] = Text[g]
           /\ g \in Acting => Restored(snapshot, g) = g
BY TextAssumption DEF Whole, Restored

LEMMA SnapshotStep == TypeOK /\ SnapshotsAreWhole /\ [Next]_vars => SnapshotsAreWhole'
<1> SUFFICES ASSUME TypeOK, SnapshotsAreWhole, [Next]_vars PROVE SnapshotsAreWhole'
  OBVIOUS
<1>a. /\ grammar \in Grammars /\ source \in Grammars /\ product \in Grammars
      /\ Absent \notin Grammars /\ Absent \notin Texts /\ Text[source] \in Texts
      /\ staged \in Snapshots
  BY OutputAssumption, TextAssumption DEF TypeOK
<1>b. \A e \in Entries : Entry(e) # Absent
  BY <1>a DEF Entry
<1> USE DEF SnapshotsAreWhole, RecordsAreOfTheText
<1>1. CASE Start
  <2>1. Text[product'] = Text[source'] /\ (source' \in Acting => product' = source')
    BY <1>1, <1>a, RestoredHasTheText DEF Start
  <2> QED BY <1>1, <2>1 DEF Start, disk, Whole
<1>2. ASSUME NEW p \in Paths, Skip(p) PROVE SnapshotsAreWhole'
  BY <1>2 DEF Skip, disk, loaded, Whole
<1>3. ASSUME NEW p \in Paths, Open(p) PROVE SnapshotsAreWhole'
  BY <1>3 DEF Open, loaded, Whole
<1>4. CASE Close
  BY <1>4 DEF Close, loaded, Whole
<1>5. ASSUME NEW p \in Paths, Prune(p) PROVE SnapshotsAreWhole'
  BY <1>5 DEF Prune, loaded, Whole
<1>6. CASE OpenManifest
  BY <1>6 DEF OpenManifest, loaded, Whole
<1>7. CASE CloseManifest
  BY <1>7 DEF CloseManifest, loaded, Whole
<1>8. ASSUME NEW e \in Entries, Stage(e) PROVE SnapshotsAreWhole'
  <2>1. \A x \in Entries : staged'[x] \in {Absent, Entry(x)'}
    BY <1>8, <1>a DEF Stage, loaded, Snapshots, Entry
  <2> QED BY <1>8, <2>1 DEF Stage, disk, loaded, Whole
<1>9. CASE SetAside
  <2>1. \A e \in Entries : staged'[e] = Entry(e)'
    BY <1>9, <1>b DEF SetAside, loaded, Entry
  <2>2. Whole(data') /\ Whole(aside')
    BY <1>9 DEF SetAside, Whole, NoSnapshot, Entries
  <2> QED BY <1>9, <2>1, <2>2 DEF SetAside, loaded
<1>10. CASE Publish
  <2>1. staged["grammar"] = Text[source] /\ staged["productions"] = product
    BY <1>10 DEF Publish, Entries, Entry
  <2>2. Whole(data') /\ Whole(aside')
    BY <1>10, <1>a, <2>1 DEF Publish, Whole, NoSnapshot, Entries
  <2> QED BY <1>10, <2>2 DEF Publish, loaded, NoSnapshot
<1>11. CASE Finish
  BY <1>11 DEF Finish, loaded, Whole
<1>12. CASE Crash
  <2>1. Whole(aside')
    BY <1>12 DEF Crash, CutShort, Whole, NoSnapshot, Entries
  <2> QED BY <1>12, <2>1 DEF Crash, CutShort, Whole, NoSnapshot, loaded
<1>13. CASE PublishFails
  <2>1. Whole(aside')
    BY <1>13 DEF PublishFails, CutShort, Whole, NoSnapshot, Entries
  <2> QED BY <1>13, <2>1 DEF PublishFails, CutShort, Whole, NoSnapshot, loaded
<1>14. CASE Edit
  BY <1>14 DEF Edit, disk, loaded, Whole, Entry
<1>15. ASSUME NEW p \in Paths, DeleteFile(p) PROVE SnapshotsAreWhole'
  BY <1>15 DEF DeleteFile, loaded, Whole
<1>16. CASE UNCHANGED vars
  BY <1>16 DEF vars, disk, loaded, Whole, Entry
<1> QED BY <1>1, <1>2, <1>3, <1>4, <1>5, <1>6, <1>7, <1>8, <1>9, <1>10, <1>11, <1>12,
           <1>13, <1>14, <1>15, <1>16 DEF Next, Progress

-----------------------------------------------------------------------------
(* The files                                                               *)

\* When nothing is left to write or to remove, the files are accounted for by
\* what this run generates.
LEMMA AllWritten ==
    ASSUME TypeOK, Writing, pc = "files", pending = {}, Stale = {}
    PROVE  Written
<1>1. ASSUME NEW p \in Expected PROVE files[p] # Absent /\ Trusted(p, Generated)
  <2>1. CASE p \in touched
    BY <1>1, <2>1, OutputAssumption DEF Writing, Trusted, Expected
  <2>2. CASE p \notin touched
    BY <1>1, <2>2 DEF Writing, Trusted, Excused, Expected
  <2> QED BY <2>1, <2>2
<1>2. ASSUME NEW p \in Paths \ Expected PROVE Trusted(p, Generated)
  <2>1. Generated[p] = Absent
    BY <1>2 DEF Expected
  <2>2. files[p] # Absent => previous[p] = Absent
    BY <1>2 DEF Stale
  <2>3. Trusted(p, previous)
    BY <1>2 DEF Writing
  <2> QED BY <2>1, <2>2, <2>3 DEF Trusted, Excused
<1> QED BY <1>1, <1>2 DEF Written

LEMMA FilesStep ==
    TypeOK /\ SnapshotsAreWhole /\ FilesAreAccountedFor /\ [Next]_vars => FilesAreAccountedFor'
<1> SUFFICES ASSUME TypeOK, SnapshotsAreWhole, FilesAreAccountedFor, [Next]_vars
             PROVE  FilesAreAccountedFor'
  OBVIOUS
<1>a. /\ pc = "idle" => \A p \in Paths : Trusted(p, manifest.hash)
      /\ pc \in {"files", "writing"} => Writing
      /\ pc \in {"manifest", "staging", "publishing", "rules"} => Written
      /\ pc \in {"staging", "publishing", "rules"} => manifest.hash = Generated
  BY DEF FilesAreAccountedFor
<1>b. Damaged # Absent
  BY OutputAssumption
<1>1. CASE Start
  <2>1. pc' = "files" /\ files' = files /\ touched' = {} /\ previous' = manifest.hash
        /\ manifest' = manifest /\ cut' = cut /\ lost' = lost /\ pending' = Expected'
    BY <1>1 DEF Start, disk, history
  <2>2. \A p \in Paths : Trusted(p, manifest.hash)
    BY <1>1, <1>a DEF Start
  <2> QED BY <2>1, <2>2 DEF FilesAreAccountedFor, Writing, Trusted, Excused, Expected
<1>2. ASSUME NEW p \in Paths, Skip(p) PROVE FilesAreAccountedFor'
  <2>1. pc = "files" /\ p \in pending /\ previous[p] = Generated[p] /\ files[p] # Absent
        /\ pending' = pending \ {p}
        /\ UNCHANGED <<files, manifest, pc, Generated, previous, open, touched, cut, lost>>
    BY <1>2 DEF Skip, Unchanged, disk, loaded, Generated, history
  <2>2. Writing
    BY <1>a, <2>1
  <2>3. Writing'
    BY <2>1, <2>2 DEF Writing, Trusted, Excused, Expected
  <2> QED BY <2>1, <2>3 DEF FilesAreAccountedFor
<1>3. ASSUME NEW p \in Paths, Open(p) PROVE FilesAreAccountedFor'
  <2>1. pc = "files" /\ pc' = "writing" /\ p \in pending /\ open' = p
        /\ files' = [files EXCEPT ![p] = Damaged] /\ touched' = touched \cup {p}
        /\ UNCHANGED <<manifest, Generated, previous, pending, cut, lost>>
    BY <1>3 DEF Open, loaded, Generated, history
  <2>2. Writing
    BY <1>a, <2>1
  <2>3. \A q \in Paths : q # p => files'[q] = files[q]
    BY <2>1 DEF TypeOK
  <2>4. Writing'
    <3>1. \A q \in Paths \ touched' : Trusted(q, previous)'
      BY <2>1, <2>2, <2>3 DEF Writing, Trusted, Excused
    <3>2. \A q \in touched' \ pending' : files'[q] = Generated'[q]
      BY <2>1, <2>2, <2>3 DEF Writing, Expected
    <3>3. \A q \in Expected' \ pending' :
              q \notin touched' => previous'[q] = Generated'[q] /\ files'[q] # Absent
      BY <2>1, <2>2, <2>3 DEF Writing, Expected
    <3>4. \A q \in touched' : q \in pending' => pc' = "writing" /\ q = open'
      BY <2>1, <2>2 DEF Writing
    <3> QED BY <2>1, <2>2, <3>1, <3>2, <3>3, <3>4 DEF Writing, Expected
  <2> QED BY <2>1, <2>4 DEF FilesAreAccountedFor
<1>4. CASE Close
  <2>1. pc = "writing" /\ pc' = "files" /\ pending' = pending \ {open} /\ lost' = lost \ {open}
        /\ files' = [files EXCEPT ![open] = Generated[open]]
        /\ UNCHANGED <<manifest, Generated, previous, open, touched, cut>>
    BY <1>4 DEF Close, loaded, Generated
  <2>2. Writing
    BY <1>a, <2>1
  <2>3. open \in Paths /\ files'[open] = Generated[open]
        /\ \A q \in Paths : q # open => files'[q] = files[q]
    BY <2>1 DEF TypeOK
  <2>4. Writing'
    <3>1. \A q \in Paths \ touched' : Trusted(q, previous)'
      BY <2>1, <2>2, <2>3 DEF Writing, Trusted, Excused
    <3>2. \A q \in touched' \ pending' : files'[q] = Generated'[q]
      BY <2>1, <2>2, <2>3 DEF Writing, Expected
    <3>3. \A q \in Expected' \ pending' :
              q \notin touched' => previous'[q] = Generated'[q] /\ files'[q] # Absent
      BY <2>1, <2>2, <2>3 DEF Writing, Expected
    <3>4. \A q \in touched' : q \in pending' => pc' = "writing" /\ q = open'
      BY <2>1, <2>2 DEF Writing
    <3> QED BY <2>1, <2>2, <3>1, <3>2, <3>3, <3>4 DEF Writing, Expected
  <2> QED BY <2>1, <2>4 DEF FilesAreAccountedFor
<1>5. ASSUME NEW p \in Paths, Prune(p) PROVE FilesAreAccountedFor'
  <2>1. pc = "files" /\ p \notin Expected /\ lost' = lost \ {p}
        /\ files' = [files EXCEPT ![p] = Absent]
        /\ UNCHANGED <<manifest, pc, Generated, previous, pending, open, touched, cut>>
    BY <1>5 DEF Prune, loaded, Generated, Stale
  <2>2. Writing
    BY <1>a, <2>1
  <2>3. files'[p] = Absent /\ \A q \in Paths : q # p => files'[q] = files[q]
    BY <2>1 DEF TypeOK
  <2>4. Writing'
    <3>1. \A q \in Paths \ touched' : Trusted(q, previous)'
      BY <2>1, <2>2, <2>3 DEF Writing, Trusted, Excused
    <3>2. \A q \in touched' \ pending' : files'[q] = Generated'[q]
      BY <2>1, <2>2, <2>3 DEF Writing, Expected
    <3>3. \A q \in Expected' \ pending' :
              q \notin touched' => previous'[q] = Generated'[q] /\ files'[q] # Absent
      BY <2>1, <2>2, <2>3 DEF Writing, Expected
    <3> QED BY <2>1, <2>2, <3>1, <3>2, <3>3 DEF Writing, Expected
  <2> QED BY <2>1, <2>4 DEF FilesAreAccountedFor
<1>6. CASE OpenManifest
  <2>1. pc' = "manifest" /\ UNCHANGED <<files, Generated, cut, lost>>
    BY <1>6 DEF OpenManifest, loaded, Generated, history
  <2>2. Written
    BY <1>6, <1>a, AllWritten DEF OpenManifest
  <2> QED BY <2>1, <2>2 DEF FilesAreAccountedFor, Written, Trusted, Excused, Expected
<1>7. CASE CloseManifest
  <2>1. pc = "manifest" /\ pc' = "staging" /\ manifest'.hash = Generated
        /\ UNCHANGED <<files, Generated, cut, lost>>
    BY <1>7 DEF CloseManifest, loaded, Generated, history
  <2>2. Written
    BY <2>1, <1>a
  <2> QED BY <2>1, <2>2 DEF FilesAreAccountedFor, Written, Trusted, Excused, Expected
<1>8. ASSUME NEW e \in Entries, Stage(e) PROVE FilesAreAccountedFor'
  <2>1. pc = "staging" /\ UNCHANGED <<pc, manifest, files, Generated, cut, lost>>
    BY <1>8 DEF Stage, disk, loaded, Generated, history
  <2>2. Written
    BY <2>1, <1>a
  <2> QED BY <2>1, <2>2, <1>a DEF FilesAreAccountedFor, Written, Trusted, Excused, Expected
<1>9. CASE SetAside
  <2>1. pc = "staging" /\ pc' = "publishing" /\ UNCHANGED <<manifest, files, Generated, cut, lost>>
    BY <1>9 DEF SetAside, loaded, Generated, history
  <2>2. Written
    BY <2>1, <1>a
  <2> QED BY <2>1, <2>2, <1>a DEF FilesAreAccountedFor, Written, Trusted, Excused, Expected
<1>10. CASE Publish
  <2>1. pc = "publishing" /\ pc' = "rules" /\ UNCHANGED <<manifest, files, Generated, cut, lost>>
    BY <1>10 DEF Publish, loaded, Generated, history
  <2>2. Written
    BY <2>1, <1>a
  <2> QED BY <2>1, <2>2, <1>a DEF FilesAreAccountedFor, Written, Trusted, Excused, Expected
<1>11. CASE Finish
  <2>1. pc = "rules" /\ pc' = "idle" /\ cut' = cut \ {Generated}
        /\ UNCHANGED <<manifest, files, lost>>
    BY <1>11 DEF Finish
  <2>2. Written /\ manifest.hash = Generated
    BY <2>1, <1>a
  \* What this run generates excuses nothing: the file would be as it generates it.
  <2>3. ASSUME NEW p \in Paths PROVE Trusted(p, manifest.hash)'
    <3>1. Trusted(p, Generated)
      BY <2>2 DEF Written
    <3> QED BY <2>1, <2>2, <3>1 DEF Trusted, Excused
  <2> QED BY <2>1, <2>3 DEF FilesAreAccountedFor
<1>12. ASSUME CutShort, manifest' = manifest, pc # "manifest" PROVE FilesAreAccountedFor'
  <2>1. pc # "idle" /\ pc' = "idle" /\ files' = files /\ cut \subseteq cut'
        /\ (pc \in {"files", "writing"} => Generated \in cut')
        /\ lost \subseteq lost'
        /\ (pc = "writing" /\ previous[open] = Generated[open] => open \in lost')
    BY <1>12 DEF CutShort
  <2>3. CASE pc \in {"files", "writing"}
    <3>1. Writing
      BY <2>3, <1>a
    <3>2. ASSUME NEW p \in Paths PROVE Trusted(p, manifest.hash)'
      <4>1. CASE p \notin touched
        BY <1>12, <2>1, <3>1, <4>1 DEF Writing, Trusted, Excused
      <4>2. CASE p \in touched /\ p \notin pending
        BY <1>12, <2>1, <2>3, <3>1, <4>2 DEF Writing, Trusted, Excused
      <4>3. CASE p \in touched /\ p \in pending
        BY <1>12, <2>1, <2>3, <3>1, <4>3 DEF Writing, Trusted, Excused
      <4> QED BY <4>1, <4>2, <4>3
    <3> QED BY <2>1, <3>2 DEF FilesAreAccountedFor
  <2>4. CASE pc \in {"staging", "publishing", "rules"}
    BY <1>12, <2>1, <2>4, <1>a DEF FilesAreAccountedFor, Written, Trusted, Excused
  <2> QED BY <1>12, <2>1, <2>3, <2>4 DEF TypeOK
\* A torn manifest: a line that is missing or wrong differs from what the run that
\* was cut short generates, which excuses the file.
<1>13. ASSUME Crash, pc = "manifest" PROVE FilesAreAccountedFor'
  <2>1. pc' = "idle" /\ files' = files /\ cut' = cut \cup {Generated} /\ lost' = lost
    BY <1>13 DEF Crash, CutShort
  <2>2. Written
    BY <1>13, <1>a
  <2>3. ASSUME NEW p \in Paths PROVE manifest'.hash[p] \in {Generated[p], Absent, Damaged}
    BY <1>13 DEF Crash, Torn
  <2>4. ASSUME NEW p \in Paths PROVE Trusted(p, manifest.hash)'
    <3>1. Trusted(p, Generated)
      BY <2>2 DEF Written
    <3>2. CASE manifest'.hash[p] = Generated[p]
      BY <2>1, <3>1, <3>2 DEF Trusted, Excused
    <3>3. CASE manifest'.hash[p] # Generated[p]
      BY <2>1, <3>3 DEF Trusted, Excused
    <3> QED BY <3>2, <3>3
  <2> QED BY <2>1, <2>4 DEF FilesAreAccountedFor
<1>14. CASE Crash
  <2>1. CASE pc = "manifest"
    BY <1>13, <1>14, <2>1
  <2>2. CASE pc # "manifest"
    BY <1>12, <1>14, <2>2 DEF Crash
  <2> QED BY <2>1, <2>2
<1>15. CASE PublishFails
  BY <1>12, <1>15 DEF PublishFails
<1>16. ASSUME UNCHANGED <<files, manifest, pc, Generated, previous, pending, open, touched, cut, lost>>
       PROVE  FilesAreAccountedFor'
  BY <1>16 DEF FilesAreAccountedFor, Writing, Written, Trusted, Excused, Expected
<1>17. CASE Edit
  BY <1>16, <1>17 DEF Edit, disk, loaded, Generated, history
<1>18. ASSUME NEW p \in Paths, DeleteFile(p) PROVE FilesAreAccountedFor'
  <2>1. pc = "idle" /\ pc' = "idle" /\ manifest' = manifest /\ cut' = cut /\ lost' = lost \ {p}
        /\ files' = [files EXCEPT ![p] = Absent]
    BY <1>18 DEF DeleteFile
  <2>2. files'[p] = Absent /\ \A q \in Paths : q # p => files'[q] = files[q]
    BY <2>1 DEF TypeOK
  <2>3. \A q \in Paths : Trusted(q, manifest.hash)'
    BY <2>1, <2>2, <1>a DEF Trusted, Excused
  <2> QED BY <2>1, <2>3 DEF FilesAreAccountedFor
<1>19. CASE UNCHANGED vars
  BY <1>16, <1>19 DEF vars, disk, loaded, Generated, history
<1> QED BY <1>1, <1>2, <1>3, <1>4, <1>5, <1>6, <1>7, <1>8, <1>9, <1>10, <1>11, <1>14,
           <1>15, <1>17, <1>18, <1>19 DEF Next, Progress

-----------------------------------------------------------------------------
(* Time stamps                                                             *)

\* An open file is one that differs from the manifest, and the manifest lists what
\* the last run generated.
LEMMA TimesStep ==
    TypeOK /\ SnapshotsAreWhole /\ FilesAreAccountedFor /\ TimesAreKept /\ [Next]_vars
        => TimesAreKept'
<1> SUFFICES ASSUME TypeOK, SnapshotsAreWhole, FilesAreAccountedFor, TimesAreKept, [Next]_vars
             PROVE  TimesAreKept'
  OBVIOUS
<1>a. /\ pc = "idle" =>
             \A p \in Paths : settled[p] # Absent =>
                 manifest.hash[p] = settled[p] /\ files[p] # Absent
      /\ pc \in {"files", "writing"} =>
             \A p \in Expected : settled[p] # Absent =>
                 previous[p] = settled[p] /\ files[p] # Absent
      /\ pc # "idle" => \A p \in touched : settled[p] # Generated[p]
  BY DEF TimesAreKept, UnchangedFilesKeepTheirTime
<1>b. Damaged # Absent
  BY OutputAssumption
<1> USE DEF TimesAreKept, UnchangedFilesKeepTheirTime
<1>1. CASE Start
  <2>1. pc = "idle" /\ pc' = "files" /\ files' = files /\ touched' = {}
        /\ previous' = manifest.hash /\ settled' = settled
    BY <1>1 DEF Start, disk, history
  <2> QED BY <2>1, <1>a DEF Expected
<1>2. ASSUME NEW p \in Paths, Skip(p) PROVE TimesAreKept'
  BY <1>2, <1>a DEF Skip, disk, loaded, Generated, history, Expected
<1>3. ASSUME NEW p \in Paths, Open(p) PROVE TimesAreKept'
  <2>1. pc = "files" /\ pc' = "writing" /\ p \in pending /\ ~Unchanged(p)
        /\ files' = [files EXCEPT ![p] = Damaged] /\ touched' = touched \cup {p}
        /\ UNCHANGED <<Generated, previous, settled>>
    BY <1>3 DEF Open, loaded, Generated, history
  <2>2. p \in Expected
    BY <2>1 DEF FilesAreAccountedFor, Writing
  <2>3. settled[p] # Generated[p]
    BY <2>1, <2>2, <1>a DEF Unchanged, Expected
  <2>4. files'[p] = Damaged /\ \A q \in Paths : q # p => files'[q] = files[q]
    BY <2>1 DEF TypeOK
  <2> QED BY <2>1, <2>3, <2>4, <1>a, <1>b DEF Expected
<1>4. CASE Close
  <2>1. pc = "writing" /\ pc' = "files" /\ files' = [files EXCEPT ![open] = Generated[open]]
        /\ UNCHANGED <<Generated, previous, touched, settled>>
    BY <1>4 DEF Close, loaded, Generated
  <2>2. open \in Paths /\ files'[open] = Generated[open]
        /\ \A q \in Paths : q # open => files'[q] = files[q]
    BY <2>1 DEF TypeOK
  <2> QED BY <2>1, <2>2, <1>a DEF Expected
<1>5. ASSUME NEW p \in Paths, Prune(p) PROVE TimesAreKept'
  <2>1. pc = "files" /\ p \notin Expected /\ files' = [files EXCEPT ![p] = Absent]
        /\ UNCHANGED <<pc, Generated, previous, touched, settled>>
    BY <1>5 DEF Prune, loaded, Generated, Stale
  <2>2. \A q \in Paths : q # p => files'[q] = files[q]
    BY <2>1 DEF TypeOK
  <2> QED BY <2>1, <2>2, <1>a DEF Expected
<1>6. CASE OpenManifest
  BY <1>6, <1>a DEF OpenManifest, loaded, Generated, history
<1>7. CASE CloseManifest
  BY <1>7, <1>a DEF CloseManifest, loaded, Generated, history
<1>8. ASSUME NEW e \in Entries, Stage(e) PROVE TimesAreKept'
  BY <1>8, <1>a DEF Stage, loaded, Generated, history
<1>9. CASE SetAside
  BY <1>9, <1>a DEF SetAside, loaded, Generated, history
<1>10. CASE Publish
  BY <1>10, <1>a DEF Publish, loaded, Generated, history
<1>11. CASE Finish
  <2>1. pc = "rules" /\ pc' = "idle" /\ settled' = Generated /\ UNCHANGED <<files, manifest>>
    BY <1>11 DEF Finish
  <2>2. Written /\ manifest.hash = Generated
    BY <2>1 DEF FilesAreAccountedFor
  <2> QED BY <2>1, <2>2 DEF Written, Expected
<1>12. CASE CutShort
  BY <1>12 DEF CutShort, NoFiles, Expected
<1>13. CASE Edit
  BY <1>13, <1>a DEF Edit, disk, loaded, Generated, history, Expected
<1>14. ASSUME NEW p \in Paths, DeleteFile(p) PROVE TimesAreKept'
  <2>1. pc = "idle" /\ pc' = "idle" /\ manifest' = manifest
        /\ files' = [files EXCEPT ![p] = Absent] /\ settled' = [settled EXCEPT ![p] = Absent]
    BY <1>14 DEF DeleteFile
  <2>2. settled'[p] = Absent
        /\ \A q \in Paths : q # p => files'[q] = files[q] /\ settled'[q] = settled[q]
    BY <2>1 DEF TypeOK
  <2> QED BY <2>1, <2>2, <1>a
<1>15. CASE UNCHANGED vars
  BY <1>15, <1>a DEF vars, disk, loaded, Generated, history, Expected
<1> QED BY <1>1, <1>2, <1>3, <1>4, <1>5, <1>6, <1>7, <1>8, <1>9, <1>10, <1>11, <1>12,
           <1>13, <1>14, <1>15 DEF Next, Progress, Crash, PublishFails

-----------------------------------------------------------------------------
(* The invariant                                                           *)

LEMMA Initially == Init => IInv
<1> SUFFICES ASSUME Init PROVE IInv
  OBVIOUS
<1>1. TypeOK
  BY CrashAssumption, NoSnapshotType DEF Init, TypeOK, NoFiles, Hashes
<1>2. SnapshotsAreWhole
  BY DEF Init, SnapshotsAreWhole, RecordsAreOfTheText, Whole, NoSnapshot, Entries
<1>3. FilesAreAccountedFor
  BY DEF Init, FilesAreAccountedFor, Trusted, NoFiles
<1>4. TimesAreKept
  BY DEF Init, TimesAreKept, UnchangedFilesKeepTheirTime, NoFiles
<1> QED BY <1>1, <1>2, <1>3, <1>4 DEF IInv

LEMMA Invariance == Spec => []IInv
<1>1. IInv /\ [Next]_vars => IInv'
  BY TypeStep, SnapshotStep, FilesStep, TimesStep DEF IInv
<1> QED BY Initially, <1>1, PTL DEF Spec

\* Every variable of a run keeps its type, for any grammars, files and contents and
\* any number of crashes.
THEOREM TypeCorrect == Spec => []TypeOK
<1>1. IInv => TypeOK
  BY DEF IInv
<1> QED BY <1>1, Invariance, PTL

\* A snapshot is published whole, so its stamp tells the truth about the text of its
\* records, however many runs were cut short at whatever step: what a run takes over
\* is of a grammar that reads like its own, and a grammar with actions takes over
\* nothing.
THEOREM RecordsOfTheText == Spec => []RecordsAreOfTheText
<1>1. IInv => RecordsAreOfTheText
  BY DEF IInv, SnapshotsAreWhole
<1> QED BY <1>1, Invariance, PTL

\* What a crash did to the generated files is repaired by a run that generates the
\* same: only a file that was being restored when the run was cut short stays damaged.
THEOREM RunningAgainRepairs == Spec => []RetryRepairs
<1>1. IInv => RetryRepairs
  <2> SUFFICES ASSUME IInv, pc = "rules", cut \subseteq {Generated}, NEW p \in Paths \ lost
               PROVE  files[p] = Generated[p]
    BY DEF RetryRepairs
  <2>1. /\ Trusted(p, Generated)
        /\ Generated[p] # Absent => files[p] # Absent
    BY DEF IInv, FilesAreAccountedFor, Written, Expected
  <2>2. ~Excused(p, Generated)
    BY DEF Excused
  <2> QED BY <2>1, <2>2 DEF Trusted
<1> QED BY <1>1, Invariance, PTL

\* The cache cannot be mistaken in grammars with actions, and in those no other
\* grammar reads like.
ToldApart(g) == g \in Acting \/ \A h \in Grammars : Text[h] = Text[g] => h = g

\* How far the promise of an exact parser goes: a finished run of a grammar that the
\* cache cannot mistake for another leaves the files of that grammar, if no run
\* that was generating something else was cut short before it.
THEOREM ExactWhereToldApart ==
    Spec => [](pc = "rules" /\ ToldApart(source) /\ cut \subseteq {Generated} =>
                   \A p \in Paths \ lost : files[p] = Output[source][source][p])
<1>1. IInv /\ RetryRepairs =>
          (pc = "rules" /\ ToldApart(source) /\ cut \subseteq {Generated} =>
               \A p \in Paths \ lost : files[p] = Output[source][source][p])
  <2> SUFFICES ASSUME IInv, RetryRepairs, pc = "rules", ToldApart(source), cut \subseteq {Generated},
                      NEW p \in Paths \ lost
               PROVE  files[p] = Output[source][source][p]
    OBVIOUS
  <2>1. product = source
    BY DEF IInv, TypeOK, SnapshotsAreWhole, RecordsAreOfTheText, ToldApart
  <2> QED BY <2>1 DEF RetryRepairs, Generated
<1> QED BY <1>1, Invariance, RunningAgainRepairs, PTL

\* A run after a finished one opens no file for a content the file already holds, so
\* a build that goes by time stamps compiles nothing in vain.
THEOREM TimesKept == Spec => []UnchangedFilesKeepTheirTime
<1>1. IInv => UnchangedFilesKeepTheirTime
  BY DEF IInv, TimesAreKept
<1> QED BY <1>1, Invariance, PTL
=============================================================================
