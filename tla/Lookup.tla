------------------------------- MODULE Lookup -------------------------------
(***************************************************************************)
(* search_list, by which the parser tells a command from a word: it counts *)
(* the entries of the directories in PATH, allocates a list, fills it in a *)
(* second pass over the same directories, and searches it.  Meanwhile other *)
(* processes create, change and remove files.                              *)
(***************************************************************************)
EXTENDS Naturals, Sequences, FiniteSets

CONSTANTS
    Path,       \* the directories in PATH, in order
    Here,       \* the directory of the commands that are named by a path
    Names,      \* the names of files
    StartFiles, \* what may be in the directories at first
    MaxChanges  \* bound: changes made by other processes

Dirs == {Path[k] : k \in DOMAIN Path}
Places == Dirs \cup {Here}
Kinds == {"absent", "plain", "program", "directory"}

ASSUME PathAssumption ==
    /\ Path \in Seq(Dirs) /\ Here \notin Dirs
    /\ \A j, k \in DOMAIN Path : Path[j] = Path[k] => j = k
ASSUME FilesAssumption ==
    /\ IsFiniteSet(Names) /\ MaxChanges \in Nat
    /\ StartFiles \subseteq [Places -> [Names -> Kinds]]

VARIABLES
    file,      \* file[d][n]: what is called n in directory d
    changes,   \* how often another process changed that
    pass,      \* the pass search_list is in: "count", "fill", "search", or "none"
    dir,       \* the directory it comes to next
    slots,     \* the entries counted; then the length of the list
    filled,    \* how many slots of the list are written
    listed,    \* the names in them
    missed     \* history: files created in a directory between its two passes

lookVars == <<file, changes, pass, dir, slots, filled, listed, missed>>

LookTypeOK ==
    /\ file \in [Places -> [Names -> Kinds]]
    /\ changes \in 0..MaxChanges
    /\ pass \in {"count", "fill", "search", "none"}
    /\ dir \in 1..(Len(Path) + 1)
    /\ slots \in Nat /\ filled \in Nat /\ listed \subseteq Names /\ missed \in Nat

Idle == pass = "none" /\ dir = 1 /\ slots = 0 /\ filled = 0 /\ listed = {} /\ missed = 0

\* The first pass has been in directory d, and the second has not.
Between(d) == \E k \in DOMAIN Path : /\ Path[k] = d
                                    /\ \/ pass = "count" /\ k < dir
                                       \/ pass = "fill"  /\ k >= dir

\* Another process changes, creates or removes a file.
Change(d, n, kind) ==
    /\ changes < MaxChanges /\ kind # file[d][n]
    /\ file' = [file EXCEPT ![d][n] = kind]
    /\ changes' = changes + 1
    /\ missed' = IF file[d][n] = "absent" /\ Between(d) THEN missed + 1 ELSE missed
    /\ UNCHANGED <<pass, dir, slots, filled, listed>>

\* Every entry counts, whatever it is: readdir.
Entries(d) == {n \in Names : file[d][n] # "absent"}
IsProgram(d, n) == file[d][n] = "program"

Scan ==
    /\ pass' = "count" /\ dir' = 1 /\ slots' = 0 /\ filled' = 0 /\ listed' = {} /\ missed' = 0
    /\ UNCHANGED <<file, changes>>

CountDirEntries ==
    /\ pass = "count" /\ dir <= Len(Path)
    /\ slots' = slots + Cardinality(Entries(Path[dir])) /\ dir' = dir + 1
    /\ UNCHANGED <<file, changes, pass, filled, listed, missed>>

\* command_list_malloc: one slot more than there were entries.
NoSlotForEnd(counted) == counted
Slots(counted) == counted + 1
CommandListMalloc ==
    /\ pass = "count" /\ dir > Len(Path)
    /\ slots' = Slots(slots) /\ pass' = "fill" /\ dir' = 1
    /\ UNCHANGED <<file, changes, filled, listed, missed>>

PopulateFromFirstSlot ==
    /\ pass = "fill" /\ dir <= Len(Path)
    /\ filled' = Cardinality(Entries(Path[dir]))
    /\ listed' = Entries(Path[dir])
    /\ dir' = dir + 1
    /\ UNCHANGED <<file, changes, pass, slots, missed>>
PopulateListFromDir ==
    /\ pass = "fill" /\ dir <= Len(Path)
    /\ filled' = filled + Cardinality(Entries(Path[dir]))
    /\ listed' = listed \cup Entries(Path[dir])
    /\ dir' = dir + 1
    /\ UNCHANGED <<file, changes, pass, slots, missed>>

\* populate_command_list ends the list with NULL.
EndList ==
    /\ pass = "fill" /\ dir > Len(Path)
    /\ pass' = "search" /\ filled' = filled + 1
    /\ UNCHANGED <<file, changes, dir, slots, listed, missed>>

Overrun == pass \in {"fill", "search"} /\ filled > slots

Forget ==
    /\ pass' = "none" /\ dir' = 1 /\ slots' = 0 /\ filled' = 0 /\ listed' = {}
    /\ missed' = 0
    /\ UNCHANGED <<file, changes>>

LookStep == CountDirEntries \/ CommandListMalloc \/ PopulateListFromDir \/ EndList

-----------------------------------------------------------------------------
\* The list is long enough, its end included, for what is in the directories all the
\* time, whatever is removed and wherever else files are created: the second pass
\* writes behind the list at most as many entries as files were created in a directory
\* after it was counted and before it was listed.  So many it may write.
ListFits == pass \in {"fill", "search"} => filled <= slots + missed
=============================================================================
