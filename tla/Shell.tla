------------------------------- MODULE Shell -------------------------------
(***************************************************************************)
(* The command line (main.c, commands.c): lines of a command and its       *)
(* arguments, taken one after the other; paths as strings of characters,   *)
(* made absolute, split at the last slash and put together again with a    *)
(* bounded length; redirection with ">".                                   *)
(*                                                                         *)
(* The tree below the commands is what its functions answer: the paths of  *)
(* directories and of files. A creation or a removal may be refused for    *)
(* reasons Namespace models (slots, inodes, listings).                     *)
(***************************************************************************)
EXTENDS Integers, Sequences, SequencesExt

CONSTANTS
    Char,       \* the characters
    Typed,      \* the arguments that are typed: non-empty sequences of characters
    PathMax     \* characters of a path the table can hold (31)

ASSUME ShellAssumption ==
    /\ PathMax \in Nat \ {0}
    /\ "/" \in Char
    /\ Typed \subseteq Seq(Char) \ {<<>>}

VARIABLES
    dirs, files,    \* the paths in the table, by type
    twice,          \* the directories that have more than one entry
    cur_path,       \* the current directory
    cmd,            \* the command of the line under way
    first,          \* no argument of it has been taken yet (i == 1)
    cur_output,     \* has the command something to say, or to write?
    \* history
    written,        \* the files this line wrote into
    literal,        \* was an absolute path typed that is not in normal form?
    cut,            \* was a path stored shorter than it was?
    spread          \* did this mkdir find no inode, and name several slots?

table    == <<dirs, files, twice>>
lineVars == <<cmd, first, cur_output, written, spread>>
vars     == <<table, cur_path, lineVars, literal, cut>>

Root    == <<"/">>
Command == {"ls", "mkdir", "cd", "rm", "rmdir", "echo", "cat", "touch"}
Idle    == cmd = "none"

-----------------------------------------------------------------------------
(* Paths.                                                                  *)

\* The part of s from index k to the next slash.
Word(s, k) ==
    LET ends == {j \in k .. Len(s) : s[j] = "/"}
    IN SubSeq(s, k, IF ends = {} THEN Len(s) ELSE Min(ends) - 1)

\* A name starts where a slash, or nothing, comes before it.
Starts(s, k) == s[k] # "/" /\ (k = 1 \/ s[k - 1] = "/")

\* str_process: the names of s, in order.
str_process(s) ==
    FoldLeftDomain(LAMBDA argv, k :
        IF Starts(s, k) THEN Append(argv, Word(s, k)) ELSE argv, <<>>, s)

LastSlash(s) == Max({k \in DOMAIN s : s[k] = "/"} \cup {0})

\* Mutant: the slash that is cut off may be the first.
StepUpTooFar(path, name) ==
    CASE name = <<".">>      -> path
      [] name = <<".", ".">> -> SubSeq(path, 1, LastSlash(path) - 1)
      [] OTHER -> (IF Last(path) = "/" THEN path ELSE path \o Root) \o name

\* One name of a relative path: ".." cuts at the last slash, but keeps the
\* first one.
Step(path, name) ==
    CASE name = <<".">>      -> path
      [] name = <<".", ".">> ->
             SubSeq(path, 1, IF LastSlash(path) = 1 THEN 1 ELSE LastSlash(path) - 1)
      [] OTHER -> (IF Last(path) = "/" THEN path ELSE path \o Root) \o name

\* An absolute path is taken as it is.
rel_to_abs(s) ==
    IF s[1] = "/" THEN s ELSE FoldLeft(Step, cur_path, str_process(s))

\* The directory and the name mkdir, touch and rmdir find in a path.
Pwd(path)  == SubSeq(path, 1, IF LastSlash(path) = 1 THEN 1 ELSE LastSlash(path) - 1)
Name(path) == SubSeq(path, LastSlash(path) + 1, Len(path))

\* Mutant: "/" gets a second slash.
JoinAlways(pwd, name) == pwd \o Root \o name

Join(pwd, name) == IF pwd = Root THEN Root \o name ELSE pwd \o Root \o name

\* Mutant: the bound is that of the field, zero byte included.
StoredUncut(pwd, name) == SubSeq(Join(pwd, name), 1, Min({PathMax + 1, Len(Join(pwd, name))}))

\* snprintf into a field of PathMax characters and a zero byte.
Stored(pwd, name) == SubSeq(Join(pwd, name), 1, Min({PathMax, Len(Join(pwd, name))}))

-----------------------------------------------------------------------------
(* What the table answers.                                                 *)

\* list_dir: what is left, up to a slash, of every path that starts with the
\* characters of dir, after one more character except below "/".
list_dir(dir) ==
    LET skip == IF dir = Root THEN 1 ELSE Len(dir) + 1
    IN {Word(q, skip + 1) : q \in {r \in dirs \cup files : IsPrefix(dir, r)}} \ {<<>>}

search_dir(pwd, name) ==
    /\ name = <<>> \/ (\E x \in list_dir(pwd) : \E k \in 0 .. Len(x) - Len(name) :
           SubSeq(x, k + 1, k + Len(name)) = name)
    /\ pwd \in dirs

Init ==
    /\ dirs = {Root}
    /\ files = {}
    /\ twice = {}
    /\ cur_path = Root
    /\ cmd = "none"
    /\ first = TRUE
    /\ cur_output = FALSE
    /\ written = {}
    /\ literal = FALSE
    /\ cut = FALSE
    /\ spread = FALSE

-----------------------------------------------------------------------------
(* Normal form.                                                            *)

Spell(names) ==
    IF names = <<>> THEN Root
    ELSE FoldLeft(LAMBDA path, name : path \o Root \o name, <<>>, names)

Names(path) == str_process(path)
Normal(path) ==
    /\ path = Spell(Names(path))
    /\ \A n \in DOMAIN Names(path) : Names(path)[n] \notin {<<".">>, <<".", ".">>}

\* Where a relative path leads, on names instead of characters.
Walk(names, name) ==
    CASE name = <<".">>      -> names
      [] name = <<".", ".">> -> SubSeq(names, 1, Len(names) - 1)
      [] OTHER               -> Append(names, name)

-----------------------------------------------------------------------------
(* A line: Start, then arguments, then its end.                            *)

\* ls has the listing of the current directory to say before any argument.
Start(c) ==
    /\ Idle
    /\ cmd' = c
    /\ first' = TRUE
    /\ cur_output' = (c = "ls")
    /\ written' = {}
    /\ UNCHANGED <<table, cur_path, literal, cut, spread>>

EndLine == cmd' = "none" /\ first' = TRUE /\ cur_output' = FALSE /\ spread' = FALSE

\* The end of the line; cd without arguments goes home.
Finish ==
    /\ ~Idle
    /\ EndLine
    /\ cur_path' = IF cmd = "cd" /\ first THEN Root ELSE cur_path
    /\ UNCHANGED <<table, written, literal, cut>>

\* Note an absolute path that is not in normal form.
Note(s) == literal' = (literal \/ (s[1] = "/" /\ ~Normal(s)))

\* Mutant: the line goes on after the redirection.
RedirectWithoutBreak(s) ==
    LET target == rel_to_abs(s)
        says   == cur_output \/ (first /\ cmd \notin {"ls", "cd"})
    IN /\ ~Idle
       /\ written' = IF says /\ target \in files THEN written \cup {target} ELSE written
       /\ first' = FALSE
       /\ Note(s)
       /\ UNCHANGED <<table, cur_path, cmd, cur_output, cut, spread>>

\* "> file": the output goes into the file, when there is any and the file
\* exists, and the rest of the line is dropped. As the first argument it makes
\* the output "wrong format", and cd goes home after the path was resolved.
Redirect(s) ==
    LET target == rel_to_abs(s)
        says   == cur_output \/ (first /\ cmd \notin {"ls", "cd"})
    IN /\ ~Idle
       /\ written' = IF says /\ target \in files THEN written \cup {target} ELSE written
       /\ cur_path' = IF cmd = "cd" /\ first THEN Root ELSE cur_path
       /\ EndLine
       /\ Note(s)
       /\ UNCHANGED <<table, cut>>

\* ">" at the end of the line.
RedirectNowhere ==
    /\ ~Idle
    /\ EndLine
    /\ UNCHANGED <<table, cur_path, written, literal, cut>>

\* One argument of the command; says: did it add to the output?
Argument(s, says) ==
    /\ first' = FALSE
    /\ cur_output' = (cur_output \/ says)
    /\ Note(s)
    /\ UNCHANGED <<cmd, written>>

\* A path is stored, shortened when the table cannot hold it.
Cut(path) == cut' = (cut \/ Len(path) > PathMax)

\* A directory gets an entry: the first slot without a name, or, when there is
\* no free inode, every one of several such slots.
create_dir(new) ==
    /\ dirs' = dirs \cup {new}
    /\ \/ spread' = FALSE /\ twice' = twice \cup ({new} \cap dirs)
       \/ spread' = TRUE  /\ twice' = twice \cup {new}

\* Mutant: the path is not looked up.
mkdirAnyway(s) ==
    LET path == rel_to_abs(s)
    IN /\ cmd = "mkdir"
       /\ create_dir(Stored(Pwd(path), Name(path)))
       /\ Cut(path)
       /\ Argument(s, FALSE)
       /\ UNCHANGED <<files, cur_path>>

\* The length of the path is not checked: the check of create_dir has no
\* effect.
mkdir1(s) ==
    LET path == rel_to_abs(s)
    IN /\ cmd = "mkdir"
       /\ \/ /\ path \notin dirs
             /\ ~search_dir(Pwd(path), Name(path))
             /\ create_dir(Stored(Pwd(path), Name(path)))
             /\ Cut(path)
          \/ spread' = FALSE /\ UNCHANGED <<dirs, twice, cut>>
       /\ Argument(s, FALSE)
       /\ UNCHANGED <<files, cur_path>>

\* create_file refuses a path that is too long by its own count, one or two
\* characters more than the table holds, and looks the stored name up again.
touch(s) ==
    LET path == rel_to_abs(s)
        new  == Stored(Pwd(path), Name(path))
    IN /\ cmd = "touch"
       /\ \/ /\ path \notin files
             /\ Len(Pwd(path)) + Len(Name(path)) <= PathMax + 1
             /\ new \notin files
             /\ files' = files \cup {new}
             /\ Cut(path)
          \/ UNCHANGED <<files, cut>>
       /\ Argument(s, FALSE)
       /\ UNCHANGED <<dirs, twice, cur_path, spread>>

rm(s) ==
    LET path == rel_to_abs(s)
    IN /\ cmd = "rm"
       /\ files' = IF Last(path) = "/" THEN files ELSE files \ {path}
       /\ Argument(s, path \notin files)
       /\ UNCHANGED <<dirs, twice, cur_path, cut, spread>>

\* delete_dir takes the first entry of the path only.
rmdir1(s) ==
    LET path == rel_to_abs(s)
        dir  == Join(Pwd(path), Name(path))
    IN /\ cmd = "rmdir"
       /\ \/ /\ {path, dir} \subseteq dirs
             /\ list_dir(dir) = {}
             /\ \/ dir \notin twice /\ dirs' = dirs \ {dir} /\ twice' = twice
                \/ dir \in twice /\ dirs' = dirs /\ twice' \in {twice, twice \ {dir}}
          \/ UNCHANGED <<dirs, twice>>
       /\ Argument(s, path \notin dirs)
       /\ UNCHANGED <<files, cur_path, cut, spread>>

\* Mutant: the directory need not exist.
cdAnywhere(s) ==
    /\ cmd = "cd"
    /\ cur_path' = IF first THEN rel_to_abs(s) ELSE cur_path
    /\ Argument(s, FALSE)
    /\ UNCHANGED <<table, cut, spread>>

\* Only the first argument counts.
cd(s) ==
    /\ cmd = "cd"
    /\ cur_path' = IF first /\ rel_to_abs(s) \in dirs THEN rel_to_abs(s) ELSE cur_path
    /\ Argument(s, first /\ rel_to_abs(s) \notin dirs)
    /\ UNCHANGED <<table, cut, spread>>

\* ls, cat and echo only add to the output; echo of "" adds nothing.
Say(s) ==
    /\ cmd \in {"ls", "cat", "echo"}
    /\ Argument(s, cmd # "echo" \/ ~first \/ s # <<"\"", "\"">>)
    /\ UNCHANGED <<table, cur_path, cut, spread>>

Next ==
    \/ \E c \in Command : Start(c)
    \/ \E s \in Typed :
           mkdir1(s) \/ touch(s) \/ rm(s) \/ rmdir1(s) \/ cd(s) \/ Say(s) \/ Redirect(s)
    \/ RedirectNowhere
    \/ Finish

Spec == Init /\ [][Next]_vars

-----------------------------------------------------------------------------
(* Properties.                                                             *)

TypeOK ==
    /\ \A p \in dirs \cup files \cup written \cup {cur_path} : Len(p) \in 1 .. PathMax
    /\ cmd \in Command \cup {"none"}
    /\ twice \subseteq dirs
    /\ {first, cur_output, literal, cut, spread} \subseteq BOOLEAN

\* A relative path leads where walking its names one by one leads, from every
\* directory a session can get into (str_process, rel_to_abs): ".." past the
\* root, repeated slashes and slashes at the end included.
RelativeLeadsThere ==
    ~literal /\ ~cut =>
        \A s \in Typed : s[1] # "/" =>
            rel_to_abs(s) = Spell(FoldLeft(Walk, Names(cur_path), str_process(s)))

\* The paths of the table and the current directory stay in normal form, so
\* that comparing strings compares paths, unless an absolute path was typed
\* otherwise or a path was cut.
TableNormal ==
    ~literal /\ ~cut => \A p \in dirs \cup files \cup {cur_path} : Normal(p)

\* A directory gets a second entry only where mkdir looks for another path than
\* it stores (directories_and_files.c:135, :151), when the path is cut at
\* PathMax characters, or when it starts with two slashes and the root, in which
\* search_dir would find it, was removed; or where no inode is free and every
\* slot without a name gets the path (:145-160).
SecondEntryHasCause ==
    [][~(twice' \subseteq twice) => cut' \/ (literal' /\ Root \notin dirs) \/ spread']_vars

\* A session falls out of its directory only by an rmdir of that directory, or
\* by going home to a root that is not there (commands.c:183, :187, :203).
PwdLostOnlyByRmdir ==
    [][(cur_path \in dirs /\ cur_path' \notin dirs') =>
           \/ cmd = "rmdir" /\ cur_path' = cur_path
           \/ cmd = "cd" /\ cur_path' = Root]_vars

\* A line writes into one file at most, the first one named after ">".
WritesOneFile == \A p, q \in written : p = q
=============================================================================
