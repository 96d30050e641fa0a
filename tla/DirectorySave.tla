---------------------------- MODULE DirectorySave ----------------------------
(***************************************************************************)
(* The simple database's text file (src/db/plugins/simple/DirectorySave.cxx):*)
(* directory_save() writes a directory tree as lines, recursively, and     *)
(* directory_load() with directory_load_subdir() reads them back into a    *)
(* fresh root, one ReadLine() per step.                                    *)
(*                                                                         *)
(* A directory is a record of its mtime, its device, whether it is a mount *)
(* point, its children (a function from names to directories), its songs  *)
(* and its playlists.  A line is a record [k, arg]: the prefix it starts   *)
(* with and what follows it.  song_save()/song_load() and the playlist     *)
(* vector's save and load (SongSave.cxx, PlaylistDatabase.cxx, not in this *)
(* repository) are one line each.  A path is the sequence of names from    *)
(* the root.                                                               *)
(*                                                                         *)
(* The file the loader reads may be cut short: it holds the first `cut`    *)
(* lines of what was written (a copy or a write that did not finish).      *)
(***************************************************************************)
EXTENDS Integers, Sequences, SequencesExt, Functions, TLC

CONSTANTS
    Names,      \* directory names
    Songs,      \* song names
    Playlists,  \* playlist names
    Mtimes,     \* modification times, 0 meaning unknown
    Devices,    \* device numbers, DEVICE_INARCHIVE and DEVICE_CONTAINER among them
    DEVICE_INARCHIVE, DEVICE_CONTAINER,
    MaxDepth,   \* bound on the depth of the saved tree below the root
    MaxDirs     \* bound on the number of directories below the root

VARIABLES
    saved,      \* the tree directory_save() was given
    file,       \* the lines it wrote
    cut,        \* how many of them the file holds when it is loaded
    pos,        \* the index of the next line ReadLine() returns
    stack,      \* paths of the directories being loaded, the root first
    mode,       \* "header" (directory_load_subdir's loop) or "body" (directory_load's)
    loaded,     \* the tree built so far: a function from paths to directories
    status      \* "loading", "ok" or "error"

vars == <<saved, file, cut, pos, stack, mode, loaded, status>>

NoType == "none"

\* A directory as the loader builds it: the attributes it reads.
Dir(mtime, device, songs, playlists) ==
    [mtime |-> mtime, device |-> device, songs |-> songs, playlists |-> playlists]

EmptyDir == Dir(0, 0, {}, {})

\* The number of directories below t.
RECURSIVE Below(_)
Below(t) == FoldFunction(LAMBDA c, acc : 1 + Below(c) + acc, 0, t.kids)

\* The trees of depth at most d with at most n directories below their
\* root.  A mount point's children and songs belong to the mounted
\* database, so in this tree it has none.
RECURSIVE Trees(_, _)
Trees(d, n) ==
    LET Kids == IF d = 0 \/ n = 0 THEN {<<>>}
                ELSE {k \in UNION {[D -> Trees(d - 1, n - Cardinality(D))] :
                                     D \in {D \in SUBSET Names :
                                              Cardinality(D) <= n}} :
                        FoldFunction(LAMBDA c, acc : 1 + Below(c) + acc, 0, k)
                            <= n}
    IN  {[mtime |-> m, device |-> v, mount |-> FALSE, kids |-> k,
          songs |-> s, playlists |-> p] :
            m \in Mtimes, v \in Devices, k \in Kids,
            s \in SUBSET Songs, p \in SUBSET Playlists}
        \cup {[mtime |-> m, device |-> v, mount |-> TRUE, kids |-> <<>>,
               songs |-> {}, playlists |-> {}] : m \in Mtimes, v \in Devices}

\* A root directory: no mtime, no device, never a mount point.
Roots ==
    {t \in Trees(MaxDepth, MaxDirs) : t.mtime = 0 /\ t.device = 0 /\ ~t.mount}

\* A line: the prefix it starts with (DIRECTORY_DIR and the others, lines
\* 35-39, and the song and playlist prefixes) and the text after it.
Line(k, arg) == [k |-> k, arg |-> arg]

EOF == Line("eof", "none")

DeviceToTypeString(device) ==
    CASE device = DEVICE_INARCHIVE -> "archive"
      [] device = DEVICE_CONTAINER -> "container"
      [] OTHER                     -> NoType

\* A mutant: a "container" line is read back as an archive.
ParseTypeStringNoContainer(type) ==
    IF type \in {"archive", "container"} THEN DEVICE_INARCHIVE ELSE 0

ParseTypeString(type) ==
    CASE type = "archive"   -> DEVICE_INARCHIVE
      [] type = "container" -> DEVICE_CONTAINER
      [] OTHER              -> 0

\* A mutant: the header is written with the mtime after the begin line.
HeaderMtimeLast(t, path) ==
    (IF DeviceToTypeString(t.device) # NoType
     THEN <<Line("type", DeviceToTypeString(t.device))>> ELSE <<>>)
    \o <<Line("begin", path)>>
    \o (IF t.mtime # 0 THEN <<Line("mtime", t.mtime)>> ELSE <<>>)

\* The lines before a subdirectory's contents: type, mtime, begin.
Header(t, path) ==
    (IF DeviceToTypeString(t.device) # NoType
     THEN <<Line("type", DeviceToTypeString(t.device))>> ELSE <<>>)
    \o (IF t.mtime # 0 THEN <<Line("mtime", t.mtime)>> ELSE <<>>)
    \o <<Line("begin", path)>>

\* directory_save(): a child is listed by name, and its contents follow
\* unless it is a mount point; then the songs, the playlists, and the end
\* line.  The root has neither header nor end line.
RECURSIVE directory_save(_, _)
directory_save(t, path) ==
    LET names == SetToSeq(DOMAIN t.kids)
        Child(i) ==
            LET c == t.kids[names[i]]
            IN  <<Line("dir", names[i])>>
                \o (IF c.mount THEN <<>>
                    ELSE directory_save(c, Append(path, names[i])))
    IN  (IF path = <<>> THEN <<>> ELSE Header(t, path))
        \o FlattenSeq([i \in 1..Len(names) |-> Child(i)])
        \o [i \in 1..Cardinality(t.songs) |-> Line("song", SetToSeq(t.songs)[i])]
        \o [i \in 1..Cardinality(t.playlists) |->
               Line("playlist", SetToSeq(t.playlists)[i])]
        \o (IF path = <<>> THEN <<>> ELSE <<Line("end", path)>>)

(***************************************************************************)
(* The loader.                                                             *)
(***************************************************************************)

\* The line ReadLine() returns next; at the end of what the file holds it
\* keeps returning nullptr.
Cur == IF pos <= cut THEN file[pos] ELSE EOF

Next1 == IF pos <= cut THEN pos + 1 ELSE pos

Top == stack[Len(stack)]

\* The directories whose loading has begun and not ended, but the root.
Pending == {stack[i] : i \in 2..Len(stack)}

\* Directory::Delete() of a directory removes it and everything below it.
Delete(paths) ==
    RestrictDomain(loaded, LAMBDA q : ~\E p \in paths : IsPrefix(p, q))

\* A mutant: the catch block rethrows without deleting the directory.
ThrowNoDelete ==
    /\ status' = "error"
    /\ UNCHANGED <<pos, stack, mode, loaded>>

\* An exception leaves directory_load(): the catch block of each pending
\* directory_load_subdir() deletes its directory and rethrows (lines
\* 136-138).  stack and mode are left as they were, telling where it failed.
Throw ==
    /\ status' = "error"
    /\ loaded' = Delete(Pending)
    /\ UNCHANGED <<pos, stack, mode>>

Init ==
    /\ saved \in Roots
    /\ file = directory_save(saved, <<>>)
    /\ cut \in 0..Len(file)
    /\ pos = 1
    /\ stack = <<<<>>>>
    /\ mode = "body"
    /\ loaded = (<<>> :> EmptyDir)
    /\ status = "loading"

\* A mutant: ParseLine() without its type branch.
ParseLineNoType(l) == l.k = "mtime"

\* ParseLine() (lines 100-112) accepts an mtime or a type line ...
ParseLine(l) == l.k \in {"mtime", "type"}

\* ... and stores its value in the directory.
ParseInto(d, l) ==
    IF l.k = "mtime" THEN [d EXCEPT !.mtime = l.arg]
    ELSE [d EXCEPT !.device = ParseTypeString(l.arg)]

\* directory_load_subdir()'s loop (lines 123-133) reading a line
\* ParseLine() accepts, or the begin line that ends the header and calls
\* directory_load() (line 135).
LoadHeaderLine ==
    /\ status = "loading" /\ mode = "header"
    /\ ParseLine(Cur) \/ Cur.k = "begin"
    /\ pos' = Next1
    /\ loaded' = IF ParseLine(Cur) THEN [loaded EXCEPT ![Top] = ParseInto(@, Cur)]
                 ELSE loaded
    /\ mode' = IF Cur.k = "begin" THEN "body" ELSE mode
    /\ UNCHANGED <<saved, file, cut, stack, status>>

\* The end of the file inside a header: "Unexpected end of file" (line 126).
UnexpectedEof ==
    /\ status = "loading" /\ mode = "header" /\ Cur.k = "eof"
    /\ Throw
    /\ UNCHANGED <<saved, file, cut>>

\* Any other line in a header is "Malformed line" (line 132).  The same
\* error for a line directory_load() knows no prefix of (line 169) is not
\* modelled: directory_save() never writes one in a body.
Malformed ==
    /\ status = "loading" /\ mode = "header"
    /\ ~ParseLine(Cur) /\ Cur.k \notin {"begin", "eof"}
    /\ Throw
    /\ UNCHANGED <<saved, file, cut>>

\* A mutant: the end line is left for the caller to read again.
LoadEndKeepsLine ==
    /\ status = "loading" /\ mode = "body" /\ Cur.k \in {"eof", "end"}
    /\ stack' = SubSeq(stack, 1, Len(stack) - 1)
    /\ status' = IF Len(stack) = 1 THEN "ok" ELSE status
    /\ UNCHANGED <<saved, file, cut, pos, mode, loaded>>

\* directory_load()'s loop ends at the end of the file or at an end line
\* (lines 149-150); the directory_load_subdir() that called it returns
\* (line 141), and the root's load ends.
LoadEnd ==
    /\ status = "loading" /\ mode = "body" /\ Cur.k \in {"eof", "end"}
    /\ pos' = Next1
    /\ stack' = SubSeq(stack, 1, Len(stack) - 1)
    /\ status' = IF Len(stack) = 1 THEN "ok" ELSE status
    /\ UNCHANGED <<saved, file, cut, mode, loaded>>

\* A mutant: the contents are loaded into the parent (directory_load()
\* called with parent instead of *directory at line 135).
LoadSubdirIntoParent ==
    /\ status = "loading" /\ mode = "body" /\ Cur.k = "dir"
    /\ LET child == Append(Top, Cur.arg)
       IN  IF child \in DOMAIN loaded
           THEN Throw
           ELSE /\ pos' = Next1
                /\ loaded' = loaded @@ (child :> EmptyDir)
                /\ stack' = Append(stack, Top)
                /\ mode' = "header"
                /\ UNCHANGED status
    /\ UNCHANGED <<saved, file, cut>>

\* A directory line: directory_load_subdir() (lines 115-120) refuses a
\* duplicate name and creates the child, then reads its header.
LoadSubdir ==
    /\ status = "loading" /\ mode = "body" /\ Cur.k = "dir"
    /\ LET child == Append(Top, Cur.arg)
       IN  IF child \in DOMAIN loaded
           THEN Throw
           ELSE /\ pos' = Next1
                /\ loaded' = loaded @@ (child :> EmptyDir)
                /\ stack' = Append(stack, child)
                /\ mode' = "header"
                /\ UNCHANGED status
    /\ UNCHANGED <<saved, file, cut>>

\* A song line (lines 154-164): a duplicate is refused, otherwise
\* song_load() reads the song and it is added to the directory.
LoadSong ==
    /\ status = "loading" /\ mode = "body" /\ Cur.k = "song"
    /\ IF Cur.arg \in loaded[Top].songs
       THEN Throw
       ELSE /\ pos' = Next1
            /\ loaded' = [loaded EXCEPT ![Top].songs = @ \cup {Cur.arg}]
            /\ UNCHANGED <<stack, mode, status>>
    /\ UNCHANGED <<saved, file, cut>>

\* A playlist line (lines 165-167): playlist_metadata_load() adds it.
LoadPlaylist ==
    /\ status = "loading" /\ mode = "body" /\ Cur.k = "playlist"
    /\ pos' = Next1
    /\ loaded' = [loaded EXCEPT ![Top].playlists = @ \cup {Cur.arg}]
    /\ UNCHANGED <<saved, file, cut, stack, mode, status>>

Next ==
    \/ LoadHeaderLine \/ UnexpectedEof \/ Malformed \/ LoadEnd
    \/ LoadSubdir \/ LoadSong \/ LoadPlaylist

\* Loading is one sequential call: it goes on until it returns or throws.
Spec == Init /\ [][Next]_vars /\ WF_vars(Next)

(***************************************************************************)
(* Properties.                                                             *)
(***************************************************************************)

TypeOK ==
    /\ saved \in Roots
    /\ cut \in 0..Len(file)
    /\ pos \in 1..cut + 1
    /\ stack \in Seq(Seq(Names)) /\ Len(stack) <= MaxDepth + 1
    /\ mode \in {"header", "body"}
    /\ \A q \in DOMAIN loaded :
          /\ q \in Seq(Names) /\ Len(q) <= MaxDepth
          /\ loaded[q] \in [mtime : Mtimes, device : Devices,
                            songs : SUBSET Songs, playlists : SUBSET Playlists]
    /\ status \in {"loading", "ok", "error"}

\* The paths of the directories of t, and the directory at a path.
RECURSIVE PathsOf(_)
PathsOf(t) ==
    {<<>>} \cup UNION {{<<n>> \o q : q \in PathsOf(t.kids[n])} : n \in DOMAIN t.kids}

RECURSIVE NodeAt(_, _)
NodeAt(t, q) == IF q = <<>> THEN t ELSE NodeAt(t.kids[Head(q)], Tail(q))

\* What a directory of the saved tree should load back as: a mount point
\* as an empty directory to mount on again, any other directory with its
\* mtime, songs and playlists, and its device if that is one of the two
\* the file records (other device numbers are found again by the update).
Reloaded(t) ==
    IF t.mount THEN EmptyDir
    ELSE Dir(t.mtime,
             IF t.device \in {DEVICE_INARCHIVE, DEVICE_CONTAINER} THEN t.device ELSE 0,
             t.songs, t.playlists)

Expected == [q \in PathsOf(saved) |-> Reloaded(NodeAt(saved, q))]

\* The whole file was read.
Complete == cut = Len(file)

\* A load of the whole file that returns normally rebuilds the saved tree:
\* directory_save() and directory_load() agree on every prefix, on the
\* nesting of begin and end lines, and on the type strings.
LoadIsFaithful == status = "ok" /\ Complete => loaded = Expected

\* The file holds the end line of the directory at q (the root has none:
\* for it, the whole file).
Ended(q) ==
    IF q = <<>> THEN Complete
    ELSE \E i \in 1..cut : file[i] = Line("end", q)

\* A file cut short after any line loads without an error when the cut is
\* in a body (directory_load() takes the end of the file for an end line at
\* every level, line 149), and what it loads is part of the saved tree:
\* every directory has its saved header, holds only saved songs and
\* playlists, and is complete if its end line was read.  What is lost is
\* only the tail of the directories open at the cut, and nothing tells the
\* caller.
CutLoadKeepsWhatWasRead ==
    status = "ok" =>
        \A q \in DOMAIN loaded :
            /\ q \in DOMAIN Expected
            /\ loaded[q].mtime = Expected[q].mtime
            /\ loaded[q].device = Expected[q].device
            /\ loaded[q].songs \subseteq Expected[q].songs
            /\ loaded[q].playlists \subseteq Expected[q].playlists
            /\ Ended(q) => loaded[q] = Expected[q]

\* The loader only rejects what directory_save() wrote at a mount point,
\* a directory line with no header after it, and a file cut inside a
\* header.  Every other directory's header parses, whatever its mtime and
\* type.
LoadFailsOnlyAtMount ==
    status = "error" =>
        mode = "header" /\ (NodeAt(saved, Top).mount \/ Cur.k = "eof")

\* A failed load leaves behind only directories it read completely: the
\* catch block in directory_load_subdir() deletes every directory whose
\* loading the exception interrupted, with what was already added to it.
FailedLoadKeepsOnlyCompleteDirs ==
    status = "error" =>
        \A q \in DOMAIN loaded \ {<<>>} :
            q \in DOMAIN Expected /\ loaded[q] = Expected[q]

\* What directory_save() writes, directory_load() reads: a file saved from
\* any tree, mount points included, loads without an error.  The save
\* skips a mount point's contents on purpose (line 87), so the mount
\* point is meant to come back as an empty directory.
SavedFileLoads == Complete => status # "error"

=============================================================================
