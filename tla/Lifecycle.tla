---- MODULE Lifecycle ----
(***************************************************************************)
(* How a named memory comes into being, is attached to and goes away: the  *)
(* constructors of segmented_managed_memory (create_only, open_only and    *)
(* open_or_create), the file operations of detail/platform.hpp under them  *)
(* and the destructors, run by several processes on one name. Every system *)
(* call and every store or load of the segment table is a step of its own. *)
(* Both platform layers are modelled: what open, unlink and mmap do on     *)
(* POSIX, and CreateFile, CreateFileMapping and DeleteFile on Windows.     *)
(* Growth is in SegmentManager; here the memory has sub-segment 0 only.    *)
(***************************************************************************)
EXTENDS Naturals, FiniteSets

CONSTANTS
  Proc,
  Platform,          \* the builds considered: "posix", "windows" or both
  Modes,             \* Modes[p]: the constructors process p may use
  kMinSegmentSize,   \* what an opener maps first
  InitialSize,       \* size of sub-segment 0, the same for all creators
  VirtualSize,       \* on Windows the size of every file: 1 TB, sparse
  MayFail,           \* whether ftruncate and mmap may fail
  MayCrash,          \* whether a process may be killed
  Cleaners,          \* the processes that may call shm_remove
  MaxStarts,         \* bound: constructor calls per process
  None

ASSUME LifecycleAssumption ==
  /\ IsFiniteSet(Proc)
  /\ Modes \in [Proc -> SUBSET {"create_only", "open_only", "open_or_create"}]
  /\ Platform \subseteq {"posix", "windows"} /\ Cleaners \subseteq Proc
  /\ {kMinSegmentSize, InitialSize, VirtualSize} \subseteq Nat \ {0}
  /\ kMinSegmentSize <= InitialSize
  /\ MayFail \in BOOLEAN /\ MayCrash \in BOOLEAN /\ MaxStarts \in Nat
  /\ None \notin Nat

VARIABLES
  os,       \* the platform of this build
  dir,      \* the file the name leads to, or None
  made,     \* number of files created so far; they are numbered 1..made
  file,     \* file[f]: size, and the contents: how often a heap has been
            \* built in it, and of the table magic, count and size0
  pc,       \* pc[p]: program point
  mode,     \* mode[p]: the constructor p is in
  map,      \* map[p]: the file p has mapped as sub-segment 0, or None
  mapped,   \* mapped[p]: how much of it
  owner,    \* owner[p]: is_creator of its sub-segment 0
  checked,  \* checked[p]: history: the file whose magic p has read or written
  starts    \* starts[p]: constructor calls p may still make

procVars == <<mode, map, mapped, owner, checked, starts>>
vars == <<os, dir, made, file, pc, procVars>>

NewFile == [size |-> 0, heap |-> 0, magic |-> FALSE, count |-> 0, size0 |-> 0]

Init ==
  /\ os \in Platform
  /\ dir = None
  /\ made = 0
  /\ file = [f \in 1..0 |-> NewFile]
  /\ pc = [p \in Proc |-> "out"]
  /\ mode = [p \in Proc |-> None]
  /\ map = [p \in Proc |-> None]
  /\ mapped = [p \in Proc |-> 0]
  /\ owner = [p \in Proc |-> FALSE]
  /\ checked = [p \in Proc |-> None]
  /\ starts = [p \in Proc |-> MaxStarts]

Posix == os = "posix"
At(p, a) == pc[p] = a
GoTo(p, a) == pc' = [pc EXCEPT ![p] = a]

----------------------------------------------------------------------------
(* The constructors.                                                       *)

Start(p, m) ==
  /\ At(p, "out") /\ m \in Modes[p] /\ starts[p] > 0
  /\ starts' = [starts EXCEPT ![p] = @ - 1]
  /\ mode' = [mode EXCEPT ![p] = m]
  /\ GoTo(p, IF m = "create_only" THEN "unlink" ELSE "open")
  /\ UNCHANGED <<dir, made, file, map, mapped, owner, checked>>

\* Process p has nothing mapped any more, and goes to a.
Unmap(p, a) ==
  /\ map' = [map EXCEPT ![p] = None]
  /\ mapped' = [mapped EXCEPT ![p] = 0]
  /\ checked' = [checked EXCEPT ![p] = None]
  /\ mode' = [mode EXCEPT ![p] = None]
  /\ GoTo(p, a)
  /\ UNCHANGED starts

\* An exception leaves the constructor, and what it had mapped is unmapped;
\* open_or_create catches what opening throws and creates.
Throw(p, opening) ==
  /\ Unmap(p, IF opening /\ mode[p] = "open_or_create" THEN "unlink" ELSE "out")
  /\ UNCHANGED owner

----------------------------------------------------------------------------
(* shm_create, add_segment_shm and init_segment_table.                     *)

\* POSIX: a stale file of a previous run is unlinked, and any other one too.
Unlink(p) ==
  /\ Posix /\ At(p, "unlink")
  /\ dir' = None
  /\ GoTo(p, "create")
  /\ UNCHANGED <<made, file, procVars>>

\* A new file under the name. (map[p] stands for its descriptor until mmap.)
FreshFile(p) ==
  /\ made' = made + 1
  /\ dir' = made'
  /\ file' = [f \in 1..made' |-> IF f = made' THEN NewFile ELSE file[f]]
  /\ map' = [map EXCEPT ![p] = made']

\* Mutant: open without O_EXCL takes the file of another creator.
Excl_NoExcl(p) ==
  /\ Posix /\ At(p, "create")
  /\ \/ dir = None /\ FreshFile(p)
     \/ /\ dir # None
        /\ map' = [map EXCEPT ![p] = dir]
        /\ UNCHANGED <<dir, made, file>>
  /\ GoTo(p, "trunc")
  /\ UNCHANGED <<mode, mapped, owner, checked, starts>>

\* POSIX: open with O_CREAT | O_EXCL.
Excl(p) ==
  /\ Posix /\ At(p, "create") /\ dir = None
  /\ FreshFile(p)
  /\ GoTo(p, "trunc")
  /\ UNCHANGED <<mode, mapped, owner, checked, starts>>

Exists(p) ==
  /\ Posix /\ At(p, "create") /\ dir # None
  /\ Throw(p, FALSE)
  /\ UNCHANGED <<dir, made, file>>

\* Windows: whether somebody has a view of file f mapped.
Viewed(f) == \E q \in Proc : map[q] = f /\ mapped[q] > 0

\* Windows: CreateFile with CREATE_ALWAYS makes the file, or empties the one
\* that is there ...
CreateAlways(p) ==
  /\ ~Posix /\ At(p, "unlink")
  /\ \/ dir = None /\ FreshFile(p)
     \/ /\ dir # None /\ ~Viewed(dir)
        /\ file' = [file EXCEPT ![dir] = NewFile]
        /\ map' = [map EXCEPT ![p] = dir]
        /\ UNCHANGED <<dir, made>>
  /\ GoTo(p, "trunc")
  /\ UNCHANGED <<mode, mapped, owner, checked, starts>>

\* ... which the system refuses while a view of it is mapped.
CreateRefused(p) ==
  /\ ~Posix /\ At(p, "unlink") /\ dir # None /\ Viewed(dir)
  /\ Throw(p, FALSE)
  /\ UNCHANGED <<dir, made, file>>

\* Mutant: the result of ftruncate is not looked at.
Trunc_Unchecked(p) ==
  /\ Posix /\ At(p, "trunc")
  /\ \E n \in {InitialSize} \cup (IF MayFail THEN {0} ELSE {}) :
       file' = [file EXCEPT ![map[p]].size = n]
  /\ GoTo(p, "mmap")
  /\ UNCHANGED <<dir, made, procVars>>

\* POSIX: ftruncate.
Trunc(p) ==
  /\ Posix /\ At(p, "trunc")
  /\ file' = [file EXCEPT ![map[p]].size = InitialSize]
  /\ GoTo(p, "mmap")
  /\ UNCHANGED <<dir, made, procVars>>

\* Windows: SetEndOfFile, the result of which is not looked at.
SetEnd(p) ==
  /\ ~Posix /\ At(p, "trunc")
  /\ \/ file' = [file EXCEPT ![map[p]].size = VirtualSize]
     \/ MayFail /\ UNCHANGED file
  /\ GoTo(p, "mmap")
  /\ UNCHANGED <<dir, made, procVars>>

\* mmap takes any file, and faults are met later; a view of Windows must lie
\* in the file when it is made, and keeps it from shrinking.
CanMap(f, size) == Posix \/ size <= file[f].size

\* mmap, or CreateFileMapping and MapViewOfFile.
Mmap(p) ==
  /\ At(p, "mmap") /\ CanMap(map[p], InitialSize)
  /\ mapped' = [mapped EXCEPT ![p] = InitialSize]
  /\ owner' = [owner EXCEPT ![p] = TRUE]
  /\ checked' = [checked EXCEPT ![p] = map[p]]
  /\ GoTo(p, "heap")
  /\ UNCHANGED <<dir, made, file, mode, map, starts>>

\* Mutant: a failed creation leaves the name behind.
CreateFails_NoUnlink(p) ==
  /\ Posix /\ MayFail /\ pc[p] \in {"trunc", "mmap"}
  /\ Throw(p, FALSE)
  /\ UNCHANGED <<dir, made, file>>

\* POSIX: ftruncate or mmap fails, and the name is unlinked.
CreateFails(p) ==
  /\ Posix /\ MayFail /\ pc[p] \in {"trunc", "mmap"}
  /\ dir' = None
  /\ Throw(p, FALSE)
  /\ UNCHANGED <<made, file>>

\* Windows: the view cannot be made, and the file stays.
ViewFails(p) ==
  /\ ~Posix /\ At(p, "mmap") /\ (MayFail \/ ~CanMap(map[p], InitialSize))
  /\ Throw(p, FALSE)
  /\ UNCHANGED <<dir, made, file>>

\* Boost's segment_manager is constructed in sub-segment 0.
Heap(p) ==
  /\ At(p, "heap")
  /\ file' = [file EXCEPT ![map[p]].heap = @ + 1]
  /\ GoTo(p, "magic")
  /\ UNCHANGED <<dir, made, procVars>>

\* init_segment_table: magic (and version and capacity, which nobody reads),
\* then count, then the entry of sub-segment 0.
Magic(p) ==
  /\ At(p, "magic")
  /\ file' = [file EXCEPT ![map[p]].magic = TRUE]
  /\ GoTo(p, "count")
  /\ UNCHANGED <<dir, made, procVars>>

Count(p) ==
  /\ At(p, "count")
  /\ file' = [file EXCEPT ![map[p]].count = 1]
  /\ GoTo(p, "entry")
  /\ UNCHANGED <<dir, made, procVars>>

Entry(p) ==
  /\ At(p, "entry")
  /\ file' = [file EXCEPT ![map[p]].size0 = InitialSize]
  /\ GoTo(p, "attached")
  /\ UNCHANGED <<dir, made, procVars>>

----------------------------------------------------------------------------
(* open_all_segments                                                       *)

Open(p) ==
  /\ At(p, "open") /\ dir # None
  /\ CanMap(dir, kMinSegmentSize)
  /\ map' = [map EXCEPT ![p] = dir]
  /\ mapped' = [mapped EXCEPT ![p] = kMinSegmentSize]
  /\ owner' = [owner EXCEPT ![p] = FALSE]
  /\ GoTo(p, "check")
  /\ UNCHANGED <<dir, made, file, mode, checked, starts>>

\* The name is missing, or (here and when it is opened again) the file cannot
\* be mapped.
OpenFails(p) ==
  /\ \/ pc[p] \in {"open", "reopen"} /\ (dir = None \/ MayFail)
     \/ At(p, "open") /\ dir # None /\ ~CanMap(dir, kMinSegmentSize)
     \/ At(p, "reopen") /\ dir # None /\ ~CanMap(dir, file[map[p]].size0)
  /\ Throw(p, TRUE)
  /\ UNCHANGED <<dir, made, file>>

\* Mutant: the magic number is not looked at.
Check_NoMagic(p) ==
  /\ At(p, "check") /\ file[map[p]].size > 0
  /\ checked' = [checked EXCEPT ![p] = map[p]]
  /\ GoTo(p, "size")
  /\ UNCHANGED <<dir, made, file, mode, map, mapped, owner, starts>>

Check(p) ==
  /\ At(p, "check") /\ file[map[p]].size > 0 /\ file[map[p]].magic
  /\ checked' = [checked EXCEPT ![p] = map[p]]
  /\ GoTo(p, "size")
  /\ UNCHANGED <<dir, made, file, mode, map, mapped, owner, starts>>

BadMagic(p) ==
  /\ At(p, "check") /\ file[map[p]].size > 0 /\ ~file[map[p]].magic
  /\ Throw(p, TRUE)
  /\ UNCHANGED <<dir, made, file>>

\* A file that has no size yet can be mapped, but not read: SIGBUS.
Fault(p) ==
  /\ pc[p] \in {"check", "rest"} /\ file[map[p]].size = 0
  /\ Unmap(p, "faulted")
  /\ UNCHANGED <<dir, made, file, owner>>

\* The size of sub-segment 0 decides whether it is mapped again.
ReadSize(p) ==
  /\ At(p, "size")
  /\ GoTo(p, IF file[map[p]].size0 > kMinSegmentSize THEN "reopen" ELSE "rest")
  /\ UNCHANGED <<dir, made, file, procVars>>

\* The file is opened by its name once more.
Reopen(p) ==
  /\ At(p, "reopen") /\ dir # None
  /\ CanMap(dir, file[map[p]].size0)
  /\ map' = [map EXCEPT ![p] = dir]
  /\ mapped' = [mapped EXCEPT ![p] = file[map[p]].size0]
  /\ GoTo(p, "rest")
  /\ UNCHANGED <<dir, made, file, mode, owner, checked, starts>>

\* count is read again and the other sub-segments are mapped (none here).
Rest(p) ==
  /\ At(p, "rest") /\ file[map[p]].size > 0
  /\ GoTo(p, "attached")
  /\ UNCHANGED <<dir, made, file, procVars>>

----------------------------------------------------------------------------
(* The destructor, and the end of a process.                               *)

\* ~sub_segment: shm_close, or the munmap of shm_destroy.
Close(p) ==
  /\ At(p, "attached")
  /\ Unmap(p, IF owner[p] THEN "destroy" ELSE "out")
  /\ UNCHANGED <<dir, made, file, owner>>

\* unlink of the name; DeleteFile may be refused while a process has the file
\* open or mapped, and its result is not looked at.
DeleteName ==
  \/ dir' = None
  \/ ~Posix /\ (\E q \in Proc : map[q] = dir) /\ UNCHANGED dir

\* The creator deletes the name, whatever file it leads to by now.
Destroy(p) ==
  /\ At(p, "destroy")
  /\ DeleteName
  /\ owner' = [owner EXCEPT ![p] = FALSE]
  /\ GoTo(p, "out")
  /\ UNCHANGED <<made, file, mode, map, mapped, checked, starts>>

\* shm_remove: a program gets rid of what earlier runs have left.
Remove(p) ==
  /\ p \in Cleaners /\ At(p, "out") /\ dir # None
  /\ DeleteName
  /\ UNCHANGED <<made, file, pc, procVars>>

Crash(p) ==
  /\ MayCrash /\ pc[p] \notin {"out", "crashed", "faulted"}
  /\ Unmap(p, "crashed")
  /\ owner' = [owner EXCEPT ![p] = FALSE]
  /\ UNCHANGED <<dir, made, file>>

Next ==
  /\ \E p \in Proc :
       \/ \E m \in Modes[p] : Start(p, m)
       \/ Unlink(p) \/ Excl(p) \/ Exists(p) \/ CreateAlways(p) \/ CreateRefused(p)
       \/ Trunc(p) \/ SetEnd(p) \/ Mmap(p) \/ CreateFails(p) \/ ViewFails(p)
       \/ Heap(p) \/ Magic(p) \/ Count(p) \/ Entry(p)
       \/ Open(p) \/ OpenFails(p) \/ Check(p) \/ BadMagic(p) \/ Fault(p)
       \/ ReadSize(p) \/ Reopen(p) \/ Rest(p)
       \/ Close(p) \/ Destroy(p) \/ Remove(p) \/ Crash(p)
  /\ UNCHANGED os

Spec == Init /\ [][Next]_vars

----------------------------------------------------------------------------
(* Properties.                                                             *)

\* Who has attached to the file whose magic number it has checked works on a
\* heap that is finished: the magic number is written after the heap and read
\* before it is used, also when the creator is killed halfway, when others
\* create the name anew meanwhile and, on Windows, in the same file.
HeapBeforeUse ==
  \A p \in Proc :
    At(p, "attached") /\ map[p] = checked[p] => file[map[p]].heap > 0

\* Who has attached reaches every byte of the mapping it believes to have,
\* though the name may have led to another file at the second opening.
MappingInFile ==
  \A p \in Proc : At(p, "attached") => mapped[p] <= file[map[p]].size

\* No file is given two heaps: of the creators of one name, each of which may
\* have unlinked the other's file, none builds in a file that is not its own.
OneBuilder == \A f \in 1..made : file[f].heap <= 1

\* So it is on POSIX, where O_EXCL keeps creators apart.
BuiltOnce == Posix => OneBuilder

\* When everybody has closed, or has failed to create or to open, the name is
\* gone: no constructor that throws and no destructor leaves a file behind.
NameGone ==
  (\A p \in Proc : pc[p] \in {"out", "faulted"}) => dir = None

\* So it is on POSIX; the Windows shm_create has no clean-up.
NothingLeft == Posix => NameGone

\* Whoever attaches works on a finished heap, also when the second opening by
\* name has led to another file than the first.
HeapAlways == \A p \in Proc : At(p, "attached") => file[map[p]].heap > 0

\* A table whose magic number is set can be read: whoever attaches maps the
\* whole of sub-segment 0.
WholeSegmentZero ==
  \A p \in Proc : At(p, "attached") => mapped[p] = file[map[p]].size

\* Processes that open or create one name and stay attached share one memory.
OneMemory ==
  \A p, q \in Proc : At(p, "attached") /\ At(q, "attached") => map[p] = map[q]

\* Opening what cannot be opened yet throws; it does not end the process.
OpenSurvives == \A p \in Proc : ~At(p, "faulted")

====
