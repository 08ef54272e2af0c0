----------------------------- MODULE MigrateImports ----------------------------
(***************************************************************************)
(* scripts/migrate-imports.js: list the Solidity files below some paths,   *)
(* then replace the import paths that have moved, file by file.  A step is *)
(* the listing of one entry, the reading of one file, and the opening, a   *)
(* chunk and the end of writing one.  The process may be stopped between   *)
(* any two of them and be started again, with the same or other paths.     *)
(***************************************************************************)
EXTENDS Integers, FiniteSets, SequencesExt

CONSTANTS
    Files,          \* the Solidity files
    Directories,
    Children,       \* the files and directories in each directory
    Paths,          \* the paths of contracts within a package
    PathUpdates,    \* pathUpdates: a sequence of pairs <<old, new>>
    Contents,       \* what a file may hold: sequences of imports
    Arguments,      \* the command lines: sequences of paths
    MaxRuns         \* bound on the times the script is started

\* An import of a path from one of the two packages.
Packages == {"contracts", "contracts-upgradeable"}
OldPaths == {PathUpdates[i][1] : i \in DOMAIN PathUpdates}
NewPaths == {PathUpdates[i][2] : i \in DOMAIN PathUpdates}

\* No path that a contract moved to is one that it moved from, and the old
\* paths, the keys of an object, are distinct.
ASSUME PathsAssumption ==
    /\ PathUpdates \in Seq(Paths \X Paths)
    /\ \A i, j \in DOMAIN PathUpdates :
          PathUpdates[i][1] = PathUpdates[j][1] => i = j
    /\ OldPaths \cap NewPaths = {}

ASSUME FilesAssumption ==
    /\ Files \cap Directories = {}
    /\ Children \in [Directories -> SUBSET (Files \cup Directories)]
    /\ \A d \in Directories : IsFiniteSet(Children[d])
    /\ \A text \in Contents : text \in Seq(Packages \X Paths)
    /\ \A paths \in Arguments : paths \in Seq(Files \cup Directories)

VARIABLES
    source,         \* the contents of the files
    pc,
    queue, files,   \* of listFilesRecursively, and the files it found
    content,        \* what updateFile has read of the first of them
    updatedFiles,
    runs            \* how often the script was started

\* History: the contents at first and when the script was last started, and the
\* files it was stopped in the middle of writing.
VARIABLES original, before, cut

history == <<original, before, cut>>
vars == <<source, pc, queue, files, content, updatedFiles, runs, history>>

Init ==
    /\ source \in [Files -> Contents]
    /\ pc = "idle" /\ runs = 0
    /\ queue = << >> /\ files = << >> /\ content = << >>
    /\ updatedFiles = << >>
    /\ original = source /\ before = source /\ cut = {}

Start(paths) ==
    /\ pc \in {"idle", "done"} /\ runs < MaxRuns
    /\ runs' = runs + 1
    /\ before' = source
    /\ pc' = "list"
    /\ queue' = paths
    /\ files' = << >> /\ content' = << >> /\ updatedFiles' = << >>
    /\ UNCHANGED <<source, original, cut>>

-------------------------------------------------------------------------------
(* listFilesRecursively, breadth first.                                    *)

ListFile ==
    /\ pc = "list" /\ queue # << >> /\ Head(queue) \in Files
    /\ queue' = Tail(queue)
    /\ files' = Append(files, Head(queue))
    /\ UNCHANGED <<source, pc, content, updatedFiles, runs, history>>

\* Wrong form: the entries take the place of what is still in the queue.
ListDirectoryOnly ==
    /\ pc = "list" /\ queue # << >> /\ Head(queue) \in Directories
    /\ \E names \in SetToSeqs(Children[Head(queue)]) : queue' = names
    /\ UNCHANGED <<source, pc, files, content, updatedFiles, runs, history>>

ListDirectory ==
    /\ pc = "list" /\ queue # << >> /\ Head(queue) \in Directories
    /\ \E names \in SetToSeqs(Children[Head(queue)]) : queue' = Tail(queue) \o names
    /\ UNCHANGED <<source, pc, files, content, updatedFiles, runs, history>>

Listed ==
    /\ pc = "list" /\ queue = << >>
    /\ pc' = "read"
    /\ UNCHANGED <<source, queue, files, content, updatedFiles, runs, history>>

-------------------------------------------------------------------------------
(* updateFile and updateImportPaths.                                       *)

\* String.prototype.replace with a string replaces its first occurrence.
replace(text, old, new) ==
    IF old \in ToSet(text)
    THEN [text EXCEPT ![SelectInSeq(text, LAMBDA import : import = old)] = new]
    ELSE text

\* Wrong form: the paths of the upgradeable package are left alone.
replacePlain(text, update) ==
    replace(text, <<"contracts", update[1]>>, <<"contracts", update[2]>>)

\* One pass of the loop: one moved path in both packages.
replaceBoth(text, update) ==
    replace(replace(text, <<"contracts", update[1]>>, <<"contracts", update[2]>>),
            <<"contracts-upgradeable", update[1]>>,
            <<"contracts-upgradeable", update[2]>>)

\* The text after the first n passes of the loop.
updateImportPaths(text) ==
    LET after[n \in 0 .. Len(PathUpdates)] ==
            IF n = 0 THEN text ELSE replaceBoth(after[n - 1], PathUpdates[n])
    IN  after[Len(PathUpdates)]

ReadFile ==
    /\ pc = "read" /\ files # << >>
    /\ content' = source[Head(files)]
    /\ pc' = "write"
    /\ UNCHANGED <<source, queue, files, updatedFiles, runs, history>>

\* Wrong form: a file that is looked at is reported as updated.
KeepFileReported ==
    /\ pc = "write" /\ updateImportPaths(content) = content
    /\ updatedFiles' = Append(updatedFiles, Head(files))
    /\ files' = Tail(files) /\ content' = << >> /\ pc' = "read"
    /\ UNCHANGED <<source, queue, runs, history>>

\* The text has not changed: nothing is written.
KeepFile ==
    /\ pc = "write" /\ updateImportPaths(content) = content
    /\ files' = Tail(files) /\ content' = << >> /\ pc' = "read"
    /\ UNCHANGED <<source, queue, updatedFiles, runs, history>>

\* fs.writeFile opens the file, which empties it,
OpenFile ==
    /\ pc = "write" /\ updateImportPaths(content) # content
    /\ source' = [source EXCEPT ![Head(files)] = << >>]
    /\ pc' = "writing"
    /\ UNCHANGED <<queue, files, content, updatedFiles, runs, history>>

\* and writes the text in chunks; an import that is not complete is not one.
WriteChunk ==
    /\ pc = "writing"
    /\ LET text == updateImportPaths(content)
       IN  \E n \in Len(source[Head(files)]) + 1 .. Len(text) :
              source' = [source EXCEPT ![Head(files)] = SubSeq(text, 1, n)]
    /\ UNCHANGED <<pc, queue, files, content, updatedFiles, runs, history>>

\* Wrong form: the write is not awaited and ends with the process.
WriteFileUnawaited ==
    /\ pc = "writing"
    /\ updatedFiles' = Append(updatedFiles, Head(files))
    /\ files' = Tail(files) /\ content' = << >> /\ pc' = "read"
    /\ UNCHANGED <<source, queue, runs, history>>

\* The promise of fs.writeFile is fulfilled: the file is reported.
WriteFile ==
    /\ pc = "writing" /\ source[Head(files)] = updateImportPaths(content)
    /\ updatedFiles' = Append(updatedFiles, Head(files))
    /\ files' = Tail(files) /\ content' = << >> /\ pc' = "read"
    /\ UNCHANGED <<source, queue, runs, history>>

Finish ==
    /\ pc = "read" /\ files = << >>
    /\ pc' = "done"
    /\ UNCHANGED <<source, queue, files, content, updatedFiles, runs, history>>

\* The process is stopped.
Stop ==
    /\ pc \notin {"idle", "done"} /\ runs < MaxRuns
    /\ pc' = "idle"
    /\ queue' = << >> /\ files' = << >> /\ content' = << >> /\ updatedFiles' = << >>
    /\ cut' = IF pc = "writing" THEN cut \cup {Head(files)} ELSE cut
    /\ UNCHANGED <<source, runs, original, before>>

Script ==
    \/ ListFile \/ ListDirectory \/ Listed
    \/ ReadFile \/ KeepFile \/ OpenFile \/ WriteChunk \/ WriteFile
    \/ Finish

Next == Script \/ Stop \/ \E paths \in Arguments : Start(paths)

Spec == Init /\ [][Next]_vars

\* The script goes on when it is not stopped, and is started again.
FairSpec ==
    Spec /\ WF_vars(Script) /\ WF_vars(pc = "idle" /\ \E paths \in Arguments : Start(paths))

-------------------------------------------------------------------------------

Moved(import) ==
    IF import[2] \in OldPaths
    THEN <<import[1], PathUpdates[CHOOSE i \in DOMAIN PathUpdates :
                                     PathUpdates[i][1] = import[2]][2]>>
    ELSE import

\* The files that may be short of imports: those a stop has cut off and the one
\* that is being written.
Unfinished == cut \cup (IF pc = "writing" THEN {Head(files)} ELSE {})

\* No import of an old path stands twice in the text.  replace sees the first
\* occurrence only, so of two equal imports a run moves one.
OldOnce(text) ==
    \A i, j \in DOMAIN text : text[i] = text[j] /\ text[i][2] \in OldPaths => i = j

Migrated(text) == \A i \in DOMAIN text : text[i][2] \notin OldPaths

\* A file never holds anything but its own first imports, in their order, each as
\* it was at first or at the path it moved to, and it holds all of them unless
\* it is being written or a stop cut its writing off (then what was not yet
\* written is lost): no other stop, restart or second visit costs an import.
NothingElseChanges ==
    \A f \in Files :
       /\ \A i \in DOMAIN source[f] :
             /\ i \in DOMAIN original[f]
             /\ source[f][i] \in {original[f][i], Moved(original[f][i])}
       /\ f \notin Unfinished => Len(source[f]) = Len(original[f])

\* "The package includes a script that will migrate import statements
\* automatically": of the files that named no old path twice at first, none
\* imports an old path when a run ends.
ImportsMigrated ==
    pc = "done" => \A f \in Files : OldOnce(original[f]) => Migrated(source[f])

\* The files reported are those whose text has changed since the start, also
\* when the paths given overlap and a file is listed twice; a file that named
\* no old path twice is reported once.
ReportIsRight ==
    pc = "done" =>
       /\ ToSet(updatedFiles) = {f \in Files : source[f] # before[f]}
       /\ \A i, j \in DOMAIN updatedFiles :
             updatedFiles[i] = updatedFiles[j] /\ OldOnce(before[updatedFiles[i]]) => i = j

\* However often the script is stopped, in the middle of a write too, a run that
\* is not stopped completes what was left.
MigratedInTheEnd ==
    <>[] (\A f \in Files : OldOnce(original[f]) => Migrated(source[f]))
===============================================================================
