----------------------------- MODULE Directory ------------------------------
(***************************************************************************)
(* What the shell of file_system.c promises: a set of named entries below  *)
(* a root, each at a path of directory names, and a working directory in   *)
(* which entries are made and removed.  A file and a directory may share a *)
(* name.  Nothing here knows of nodes, arrays or stacks.                   *)
(***************************************************************************)
EXTENDS Sequences, SequencesExt

CONSTANT Names          \* the names an entry may have

VARIABLES
    entries,            \* the entries: path (ending in its own name), directory flag
    cwd                 \* the working directory's path, <<>> at the root

dirVars == <<entries, cwd>>

Entry(path, dir) == [path |-> path, directory |-> dir]

\* What disappears with an entry: itself and, below a directory, everything.
With(e) == {e} \cup
    {f \in entries : e.directory /\ e.path # f.path /\ IsPrefix(e.path, f.path)}

Make(e) ==
    /\ Front(e.path) = cwd /\ e \notin entries
    /\ entries' = entries \cup {e} /\ UNCHANGED cwd

\* A directory goes only when no file has its name.
Delete(name) ==
    \E e \in entries :
        /\ e.path = Append(cwd, name)
        /\ e.directory => Entry(e.path, FALSE) \notin entries
        /\ entries' = entries \ With(e) /\ UNCHANGED cwd

Enter(name) ==
    /\ Entry(Append(cwd, name), TRUE) \in entries
    /\ cwd' = Append(cwd, name) /\ UNCHANGED entries

Leave == cwd # <<>> /\ cwd' = Front(cwd) /\ UNCHANGED entries

Close == entries' = {} /\ cwd' = <<>>

Init == entries = {} /\ cwd = <<>>

Next ==
    \/ \E name \in Names :
          \/ \E dir \in BOOLEAN : Make(Entry(Append(cwd, name), dir))
          \/ Delete(name)
          \/ Enter(name)
    \/ Leave
    \/ Close

Spec == Init /\ [][Next]_dirVars
============================================================================
