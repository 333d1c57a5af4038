---------------------------- MODULE WorkspaceFiles ----------------------------
(***************************************************************************)
(* The files of one workspace: BuiltinShell's file tools, which run one at *)
(* a time under the runtime's executionMutex (WorkspaceRuntimes), and the  *)
(* editor of WorkspaceFileController, which takes no lock at all.  Both    *)
(* truncate a file when they open it and write it afterwards.              *)
(*                                                                         *)
(* A path is the sequence of its names.  A file is a sequence of lines of  *)
(* one length, so a write from offset 0 covers as many lines as it has.    *)
(***************************************************************************)
EXTENDS Integers, Sequences, FiniteSets, SequencesExt

CONSTANTS
    Names,          \* names of files and directories
    Texts,          \* what a line may hold
    Paths,          \* paths that may exist, <<>> the workspace's root
    Hidden,         \* paths isPathSafe refuses
    Ignored,        \* names isIgnored skips
    Editors,        \* HTTP threads of the editor
    Trees,          \* what the workspace may hold at first
    Contents,       \* what tools and users write
    Patches,        \* patches the model may send
    MaxTools,       \* bound: tool calls
    Text(_)         \* bytes of a line as UTF-8: "valid", "invalid", "nul"

ASSUME PathsAssumption ==
    /\ Paths \subseteq Seq(Names)
    /\ <<>> \in Paths /\ \A p \in Paths : p # <<>> => Front(p) \in Paths

VARIABLES
    tree,           \* what is at each path
    currentDir,     \* BuiltinShell::currentDir_
    tool,           \* the tool call that is between two of its steps
    calls,          \* tool calls so far
    editor,         \* each editor's page and request
    asked           \* observer: the last tool call and the paths it named

filesVars == <<tree, currentDir, tool, calls, editor, asked>>

\* Bytes of a line: its text, and whether a byte order mark precedes it.
Lines == [bom : BOOLEAN, text : Texts]
Plain(text) == [bom |-> FALSE, text |-> text]
Blank == Plain("")

Absent == [kind |-> "absent", lines |-> <<>>]
Dir == [kind |-> "dir", lines |-> <<>>]
File(lines) == [kind |-> "file", lines |-> lines]
Entries == [kind : {"absent", "dir", "file"}, lines : Seq(Lines)]
PatchLines == [sign : {"-", "+", "@", "other"}, text : Texts]

ASSUME LinesAssumption ==
    /\ {"", "replaced"} \subseteq Texts
    /\ Contents \subseteq Seq(Lines) /\ Patches \subseteq Seq(PatchLines)

\* What is there at first is a tree: whatever exists lies in a directory.
ASSUME TreesAssumption ==
    \A t \in Trees :
        /\ t \in [Paths -> Entries]
        /\ \A p \in Paths \ {<<>>} : t[p].kind # "absent" => t[Front(p)].kind = "dir"

IsDir(p) == p \in Paths /\ tree[p].kind = "dir"
IsFile(p) == p \in Paths /\ tree[p].kind = "file"
Exists(p) == tree[p].kind # "absent"
Under(p, q) == IsPrefix(p, q)
Within(p) == {q \in Paths : Under(p, q) /\ Exists(q)}
IsPathSafe(p) == p \notin Hidden

NoTool == [op |-> "none", path |-> <<>>, lines |-> <<>>]
Page == [pc |-> "closed", path |-> <<>>, bytes |-> <<>>, encoding |-> "utf-8",
         lines |-> <<>>, edited |-> FALSE, at |-> <<>>, gone |-> FALSE, alone |-> TRUE]

FilesInit ==
    /\ tree \in Trees
    /\ currentDir = <<>>
    /\ tool = NoTool /\ calls = 0
    /\ asked = [op |-> "none", path |-> <<>>, to |-> <<>>]
    /\ editor = [e \in Editors |-> Page]

----------------------------------------------------------------------------
(* Listing and patching.                                                    *)

\* The entries of a directory that are shown.
Children(p) == {q \in Paths : q # <<>> /\ Front(q) = p /\ Exists(q) /\ Last(q) \notin Ignored}

\* listFilesRecursive: the entries of a directory, and below it to a depth.
Listing(p, depth) ==
    LET below[n \in 0 .. depth] ==
          [q \in Paths |->
             IF n = 0 THEN {}
             ELSE Children(q) \cup UNION {below[n - 1][r] : r \in Children(q)}]
    IN  IF IsDir(p) THEN below[depth][p] ELSE {}

\* Mutant: "-" takes the line at the cursor, whatever it is.
PatchBlindly(s, line) ==
    [at |-> s.at + 1,
     lines |-> IF line.sign = "-" /\ s.at <= Len(s.lines)
               THEN [s.lines EXCEPT ![s.at] = Blank] ELSE s.lines]

\* applySinglePatch: "-" blanks the first such line from the cursor on, "+"
\* inserts at the cursor unless that is past the end, "@@" is passed over, and
\* anything else moves the cursor on.
PatchLine(s, line) ==
    LET found == {i \in s.at .. Len(s.lines) : s.lines[i] = Plain(line.text)} IN
    CASE line.sign = "-" ->
           [at |-> s.at + 1,
            lines |-> IF found = {} THEN s.lines
                      ELSE [s.lines EXCEPT ![Min(found)] = Blank]]
      [] line.sign = "+" ->
           IF s.at <= Len(s.lines)
           THEN [at |-> s.at + 2, lines |-> InsertAt(s.lines, s.at, Plain(line.text))]
           ELSE [s EXCEPT !.at = @ + 1]
      [] line.sign = "@" -> s
      [] line.sign = "other" -> [s EXCEPT !.at = @ + 1]

Patched(lines, patch) ==
    LET after[n \in 0 .. Len(patch)] ==
          IF n = 0 THEN [at |-> 1, lines |-> lines] ELSE PatchLine(after[n - 1], patch[n])
    IN  after[Len(patch)].lines

\* The lines of a file that are not among some.
Without(lines, some) ==
    LET kept[n \in 0 .. Len(lines)] ==
          IF n = 0 THEN <<>>
          ELSE IF lines[n] \in some THEN kept[n - 1] ELSE Append(kept[n - 1], lines[n])
    IN  kept[Len(lines)]

\* The lines that are not empty are written back.
ApplyPatch(lines, patch) == Without(Patched(lines, patch), {Blank})

----------------------------------------------------------------------------
(* The file tools.  A tool whose path is not safe, or that the file system  *)
(* refuses, answers an error and changes nothing.                           *)

Idle == tool.op = "none" /\ calls < MaxTools
Asks(op, p, d) ==
    calls' = calls + 1 /\ asked' = [op |-> op, path |-> p, to |-> d]

\* Editors that have a file open keep the file, not its name.
OpenAt(e, p) == editor[e].pc = "writing" /\ ~editor[e].gone /\ editor[e].at = p
Unlinked(gone) ==
    editor' = [e \in Editors |->
                 IF \E p \in gone : OpenAt(e, p)
                 THEN [editor[e] EXCEPT !.gone = TRUE, !.alone = FALSE] ELSE editor[e]]
\* Somebody else wrote the file an editor is saving.
Touched(p) ==
    editor' = [e \in Editors |->
                 IF OpenAt(e, p) THEN [editor[e] EXCEPT !.alone = FALSE] ELSE editor[e]]

\* Opening for writing truncates; then the lines are written from offset 0.
CanOpen(p) == p # <<>> /\ ~IsDir(p) /\ IsDir(Front(p))

Truncate(p) == tree' = [tree EXCEPT ![p] = File(<<>>)]
Overwrite(old, new) == new \o SubSeq(old, Len(new) + 1, Len(old))

\* file.write opens, then writes; a write that fails is answered as a success.
WriteFile(p, lines) ==
    /\ Idle /\ IsPathSafe(p) /\ CanOpen(p) /\ Asks("write", p, p)
    /\ Truncate(p) /\ Touched(p)
    /\ tool' = [op |-> "write", path |-> p, lines |-> lines]
    /\ UNCHANGED currentDir

\* file.apply_patch reads the whole file first ...
ReadForPatch(p, patch) ==
    /\ Idle /\ IsPathSafe(p) /\ IsFile(p) /\ Asks("patch", p, p)
    /\ tool' = [op |-> "patch", path |-> p, lines |-> ApplyPatch(tree[p].lines, patch)]
    /\ UNCHANGED <<tree, currentDir, editor>>

\* ... and opens it again to write; nobody looks whether it is the same file.
OpenForPatch ==
    /\ tool.op = "patch"
    /\ IF CanOpen(tool.path)
       THEN Truncate(tool.path) /\ Touched(tool.path) /\ tool' = [tool EXCEPT !.op = "write"]
       ELSE tool' = NoTool /\ UNCHANGED <<tree, editor>>
    /\ UNCHANGED <<currentDir, calls, asked>>

FinishWrite ==
    LET p == tool.path IN
    /\ tool.op = "write"
    /\ \/ /\ tree' = [tree EXCEPT ![p] = File(Overwrite(@.lines, tool.lines))]
          /\ Touched(p)
       \/ UNCHANGED <<tree, editor>>
    /\ tool' = NoTool
    /\ UNCHANGED <<currentDir, calls, asked>>

\* file.mkdir: create_directories.
MakeDirectory(p) ==
    /\ Idle /\ IsPathSafe(p) /\ Asks("mkdir", p, p)
    /\ \A q \in Paths : Under(q, p) => ~IsFile(q)
    /\ tree' = [q \in Paths |-> IF Under(q, p) THEN Dir ELSE tree[q]]
    /\ UNCHANGED <<currentDir, tool, editor>>

\* Mutant: remove_all in place of remove.
RemoveDirectoryAll(p) ==
    /\ Idle /\ IsPathSafe(p) /\ IsDir(p) /\ Asks("rmdir", p, p)
    /\ tree' = [q \in Paths |-> IF Under(p, q) THEN Absent ELSE tree[q]]
    /\ Unlinked(Within(p))
    /\ UNCHANGED <<currentDir, tool>>

\* file.rmdir: only an empty directory goes.
RemoveDirectory(p) ==
    /\ Idle /\ IsPathSafe(p) /\ IsDir(p) /\ Asks("rmdir", p, p)
    /\ Within(p) = {p}
    /\ tree' = [tree EXCEPT ![p] = Absent]
    /\ UNCHANGED <<currentDir, tool, editor>>

\* file.remove: remove_all; the empty path is the workspace itself.
RemoveFile(p) ==
    /\ Idle /\ IsPathSafe(p) /\ Exists(p) /\ Asks("remove", p, p)
    /\ tree' = [q \in Paths |-> IF Under(p, q) THEN Absent ELSE tree[q]]
    /\ Unlinked(Within(p))
    /\ UNCHANGED <<currentDir, tool>>

\* Where q comes to lie when s becomes d.
Rebased(q, s, d) == d \o SubSeq(q, Len(s) + 1, Len(q))
Fits(s, d) == \A q \in Within(s) : Rebased(q, s, d) \in Paths
ParentIsDir(p) == p = <<>> \/ IsDir(Front(p))

\* file.copy of a file: into a directory, or over or beside another file.
CopyFile(s, d) ==
    LET to == IF IsDir(d) THEN Append(d, Last(s)) ELSE d IN
    /\ Idle /\ IsPathSafe(s) /\ IsPathSafe(d) /\ IsFile(s) /\ Asks("copy", s, d)
    /\ to \in Paths /\ to # s /\ ~IsDir(to) /\ ParentIsDir(to)
    /\ tree' = [tree EXCEPT ![to] = tree[s]]
    /\ Touched(to)
    /\ UNCHANGED <<currentDir, tool>>

\* file.copy of a directory, merged into the destination: it stops at the first
\* entry that is a file on one side and a directory on the other, and what was
\* copied stays.
CopyDirectory(s, d) ==
    LET from(q) == Rebased(q, d, s)
        clash(q) == \/ IsFile(q) /\ IsDir(from(q))
                    \/ IsDir(q) /\ IsFile(from(q))
        wanted == {Rebased(q, s, d) : q \in Within(s)}
    IN
    /\ Idle /\ IsPathSafe(s) /\ IsPathSafe(d) /\ IsDir(s) /\ Asks("copy", s, d)
    /\ ~Under(s, d) /\ Fits(s, d) /\ ParentIsDir(d)
    /\ \E done \in SUBSET {q \in wanted : ~clash(q)} :
         /\ (\A q \in wanted : ~clash(q)) => done = wanted
         /\ \A q \in done : q = d \/ Front(q) \in done
         /\ tree' = [q \in Paths |-> IF q \in done /\ ~IsDir(q) THEN tree[from(q)] ELSE tree[q]]
         /\ editor' = [e \in Editors |->
                         IF \E q \in done : IsFile(from(q)) /\ OpenAt(e, q)
                         THEN [editor[e] EXCEPT !.alone = FALSE] ELSE editor[e]]
    /\ UNCHANGED <<currentDir, tool>>

\* file.move: rename, which replaces a file by a file and an empty directory
\* by a directory.
MoveFile(s, d) ==
    /\ Idle /\ IsPathSafe(s) /\ IsPathSafe(d) /\ Exists(s) /\ Asks("move", s, d)
    /\ s # d /\ ~Under(s, d) /\ Fits(s, d) /\ ParentIsDir(d)
    /\ Exists(d) => tree[d].kind = tree[s].kind /\ Within(d) = {d}
    /\ tree' = [q \in Paths |->
                  IF Under(d, q) /\ Rebased(q, d, s) \in Paths THEN tree[Rebased(q, d, s)]
                  ELSE IF Under(s, q) THEN Absent ELSE tree[q]]
    /\ editor' = [e \in Editors |->
                    IF OpenAt(e, d) THEN [editor[e] EXCEPT !.gone = TRUE, !.alone = FALSE]
                    ELSE IF \E q \in Within(s) : OpenAt(e, q)
                    THEN [editor[e] EXCEPT !.at = Rebased(@, s, d), !.alone = FALSE]
                    ELSE editor[e]]
    /\ UNCHANGED <<currentDir, tool>>

\* cd is remembered for pwd; no other tool looks at it.
ChangeDirectory(p) ==
    /\ Idle /\ IsPathSafe(p) /\ IsDir(p) /\ Asks("cd", p, p)
    /\ currentDir' = p
    /\ UNCHANGED <<tree, tool, editor>>

Tool ==
    \/ \E p \in Paths :
         \/ \E lines \in Contents : WriteFile(p, lines)
         \/ \E patch \in Patches : ReadForPatch(p, patch)
         \/ MakeDirectory(p) \/ RemoveDirectory(p) \/ RemoveFile(p) \/ ChangeDirectory(p)
         \/ \E d \in Paths : CopyFile(p, d) \/ CopyDirectory(p, d) \/ MoveFile(p, d)
    \/ OpenForPatch \/ FinishWrite

----------------------------------------------------------------------------
(* The editor.                                                              *)

SetPage(e, page) == editor' = [editor EXCEPT ![e] = page]

IsBinaryFile(lines) == \E i \in DOMAIN lines : Text(lines[i].text) = "nul"
IsValidUtf8(lines) == \A i \in DOMAIN lines : Text(lines[i].text) = "valid"
HasBom(lines) == lines # <<>> /\ lines[1].bom
WithBom(lines, bom) == IF lines = <<>> THEN lines ELSE [lines EXCEPT ![1].bom = bom]

\* getFileContent: the encoding, and the text with what is not valid replaced.
EncodingOf(lines) ==
    IF HasBom(lines) THEN "utf-8-bom" ELSE IF IsValidUtf8(lines) THEN "utf-8" ELSE "system"
Normalized(lines) ==
    [i \in DOMAIN lines |-> IF Text(lines[i].text) = "valid" THEN lines[i]
                            ELSE [lines[i] EXCEPT !.text = "replaced"]]

\* encode_for_save on POSIX: there is no way back to the system encoding.
CanEncode(lines, encoding) == IsValidUtf8(lines) /\ encoding # "system"

Encoded(lines, encoding) == WithBom(lines, encoding = "utf-8-bom")

GetFileContent(e, p) ==
    LET lines == tree[p].lines IN
    /\ editor[e].pc \in {"closed", "open"}
    /\ IsPathSafe(p) /\ IsFile(p) /\ ~IsBinaryFile(lines)
    /\ SetPage(e, [Page EXCEPT !.pc = "open", !.path = p, !.bytes = lines,
                               !.encoding = EncodingOf(lines),
                               !.lines = WithBom(Normalized(lines), FALSE)])
    /\ UNCHANGED <<tree, currentDir, tool, calls, asked>>

Edit(e, lines) ==
    /\ editor[e].pc = "open" /\ ~editor[e].edited
    /\ SetPage(e, [editor[e] EXCEPT !.lines = lines, !.edited = TRUE])
    /\ UNCHANGED <<tree, currentDir, tool, calls, asked>>

\* saveFileContent looks at the file that is there now; what the page was read
\* from is not compared.
SaveBegin(e) ==
    LET p == editor[e].path IN
    /\ editor[e].pc = "open"
    /\ IsFile(p) /\ ~IsBinaryFile(tree[p].lines)
    /\ CanEncode(editor[e].lines, editor[e].encoding)
    /\ SetPage(e, [editor[e] EXCEPT !.pc = "opening"])
    /\ UNCHANGED <<tree, currentDir, tool, calls, asked>>

\* Mutant: the file is opened without truncating it.
SaveOpenInPlace(e) ==
    LET p == editor[e].path IN
    /\ editor[e].pc = "opening" /\ CanOpen(p)
    /\ SetPage(e, [editor[e] EXCEPT !.pc = "writing", !.at = p, !.gone = FALSE,
                     !.alone = tool.path # p \/ tool.op # "write"])
    /\ UNCHANGED <<tree, currentDir, tool, calls, asked>>

\* The file is opened by its name, and made again if it is gone.
SaveOpen(e) ==
    LET p == editor[e].path IN
    /\ editor[e].pc = "opening"
    /\ IF CanOpen(p)
       THEN /\ Truncate(p)
            /\ editor' = [f \in Editors |->
                 IF f = e
                 THEN [editor[e] EXCEPT !.pc = "writing", !.at = p, !.gone = FALSE,
                         !.alone = (tool.op # "write" \/ tool.path # p)
                                   /\ \A g \in Editors : ~OpenAt(g, p)]
                 ELSE IF OpenAt(f, p) THEN [editor[f] EXCEPT !.alone = FALSE] ELSE editor[f]]
       ELSE SetPage(e, [editor[e] EXCEPT !.pc = "refused"]) /\ UNCHANGED tree
    /\ UNCHANGED <<currentDir, tool, calls, asked>>

\* The write, checked: on failure the file stays as the opening left it.
SaveWrite(e) ==
    LET p == editor[e].at
        bytes == Encoded(editor[e].lines, editor[e].encoding) IN
    /\ editor[e].pc = "writing"
    /\ \/ /\ tree' = IF editor[e].gone THEN tree
                     ELSE [tree EXCEPT ![p] = File(Overwrite(@.lines, bytes))]
          /\ editor' = [f \in Editors |->
               IF f = e THEN [editor[e] EXCEPT !.pc = "saved"]
               ELSE IF ~editor[e].gone /\ OpenAt(f, p)
               THEN [editor[f] EXCEPT !.alone = FALSE] ELSE editor[f]]
       \/ SetPage(e, [editor[e] EXCEPT !.pc = "refused"]) /\ UNCHANGED tree
    /\ UNCHANGED <<currentDir, tool, calls, asked>>

\* The page goes on with what it saved.
Answered(e) ==
    /\ editor[e].pc \in {"saved", "refused"}
    /\ SetPage(e, Page)
    /\ UNCHANGED <<tree, currentDir, tool, calls, asked>>

Editor(e) ==
    \/ \E p \in Paths : GetFileContent(e, p)
    \/ \E lines \in Contents : Edit(e, lines)
    \/ SaveBegin(e) \/ SaveOpen(e) \/ SaveWrite(e) \/ Answered(e)

FilesNext == Tool \/ \E e \in Editors : Editor(e)

FilesSpec == FilesInit /\ [][FilesNext]_filesVars

----------------------------------------------------------------------------
(* Properties.                                                              *)

\* A tree: what exists lies in a directory (unless the root itself was
\* removed), and a page that saves knows where.
FilesTypeOK ==
    /\ \A p \in Paths : tree[p].kind \in {"absent", "dir", "file"}
    /\ \A p \in Paths \ {<<>>} : Exists(p) => IsDir(Front(p))
    /\ currentDir \in Paths
    /\ \A e \in Editors : editor[e].at \in Paths /\ editor[e].path \in Paths

\* A listing shows exactly what is in reach: everything below the directory,
\* to the depth, that no ignored directory hides.
ListingIsExact ==
    \A p \in Paths, depth \in 1 .. 3 :
        IsDir(p) =>
            Listing(p, depth) =
                {q \in Within(p) \ {p} :
                    /\ Len(q) - Len(p) <= depth
                    /\ \A i \in Len(p) + 1 .. Len(q) : q[i] \notin Ignored}

\* A patch leaves every line alone that it does not name: the others are all
\* there, in their order (blank ones apart, which applySinglePatch drops).
PatchKeepsRest ==
    \A p \in Paths, patch \in Patches :
        LET named == {Plain(patch[i].text) : i \in {j \in DOMAIN patch : patch[j].sign \in {"-", "+"}}}
            rest(lines) == Without(lines, named \cup {Blank})
        IN  IsFile(p) => rest(ApplyPatch(tree[p].lines, patch)) = rest(tree[p].lines)

\* A file goes only by a file.remove of it or of a directory above it, or by a
\* file.move that takes it along and brings it to its new place unchanged: no
\* other tool, no failing one and no save loses a file.
FilesSurvive ==
    [][\A p \in Paths :
         IsFile(p) /\ ~IsFile(p)' =>
             /\ Under(asked'.path, p)
             /\ \/ asked'.op = "remove"
                \/ /\ asked'.op = "move"
                   /\ tree'[Rebased(p, asked'.path, asked'.to)] = tree[p]]_filesVars

\* A save answered with success, with no other writer of that file between its
\* opening and its end, left exactly the text of the page in it.
SavedIsSaved ==
    [][\A e \in Editors :
         editor[e].pc = "writing" /\ editor'[e].pc = "saved" /\ editor[e].alone =>
             tree'[editor[e].at] =
                 File(Encoded(editor[e].lines, editor[e].encoding))]_filesVars

\* A page that was opened and saved without an edit leaves the bytes as they
\* were, or the save is refused: no encoding is lost on the way (a file with a
\* byte order mark and invalid text after it apart).
RoundTrip ==
    \A e \in Editors :
        /\ editor[e].pc \in {"opening", "writing"} /\ ~editor[e].edited
        /\ HasBom(editor[e].bytes) => IsValidUtf8(editor[e].bytes)
        => Encoded(editor[e].lines, editor[e].encoding) = editor[e].bytes

\* Listing, patching and the editor's encodings do to every tree what they are
\* for, whatever the tools and saves before have left.
EditsAreExact == FilesTypeOK /\ ListingIsExact /\ PatchKeepsRest /\ RoundTrip
=============================================================================
