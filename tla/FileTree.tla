------------------------------ MODULE FileTree ------------------------------
(***************************************************************************)
(* The file tree of kmOS (core/file.cc, core/filesystem.cc), the system    *)
(* calls that walk it (core/api_posix.cc) and the tables of open files of  *)
(* the processes (core/process.cc).  Every file is a node with pointers to *)
(* its parent, its first child and its two siblings; a new child becomes   *)
(* the first one.  Nothing is ever unlinked, except what lies under a      *)
(* directory that a file system is mounted on: it is deleted.              *)
(*                                                                         *)
(* A path is the sequence of its components, "" between two slashes.  A    *)
(* step that follows a null or a freed pointer, or that copies a component *)
(* of negative length, sets fault; what the machine does then is not       *)
(* modelled.  Calls are taken one at a time, each in one step: a timer     *)
(* interrupt in the middle of one is not modelled.                         *)
(***************************************************************************)
EXTENDS Integers, SequencesExt, FiniteSetsExt

CONSTANTS Layout,           \* the children of the directories that fsm.init makes
          Files,            \* the blocks of memory for files made after fsm.init
          Names,            \* the names that callers give to files
          Made,             \* the kinds of files that drivers and callers construct
          Garbage,          \* a name that no path contains
          Paths,            \* the paths that callers give
          NewPaths,         \* the paths that they give to new links
          default_tty,      \* the components of the path of the terminal
          Disk,             \* the entries of the directories of the mounted device
          Procs,            \* the processes
          Boot,             \* the process that kmain creates
          CONFIG_MAX_FILE,  \* the size of a table of open files, 32
          STD_FILES,        \* the descriptors that create opens, 3
          kMaxMounts,       \* 8
          Modulus,          \* offsets are counted modulo this number, 2^32
          MaxOffset,        \* reads and writes start at most here, a bound
          NULL              \* the null pointer

Static == DOMAIN Layout
Nodes == Static \cup Files
Ptr == Nodes \cup {NULL}
Cap == Cardinality(Nodes)
Directories == {"directory", "ext2dir"}
Homes == [device |-> <<"dev">>, socket |-> <<"sys", "sockets", "">>,
          module |-> <<"sys", "mods", "">>, user |-> <<"sys", "usr", "">>,
          variable |-> <<"sys", "env", "">>]
Kinds == DOMAIN Homes \cup Directories \cup {"node", "link", "ext2file", "free"}
Path == [abs : BOOLEAN, comps : Seq(STRING)]
ROOT_INO == 2
Fds == 0 .. CONFIG_MAX_FILE - 1

\* The directories of Layout make a tree: each but the root has one place in one of
\* them, one level below it.  init also makes proc, and usr, mods and sockets in sys.
ASSUME LayoutAssumption ==
  /\ IsFiniteSet(Static) /\ Static \subseteq STRING /\ {"/", "dev"} \subseteq Static
  /\ Layout \in [Static -> Seq(Static)]
  /\ UNION {ToSet(Layout[d]) : d \in Static} = Static \ {"/"}
  /\ \A d, e \in Static : \A i \in DOMAIN Layout[d], j \in DOMAIN Layout[e] :
       Layout[d][i] = Layout[e][j] => d = e /\ i = j
  /\ \E level \in [Static -> 0 .. Cardinality(Static)] :
       \A d \in Static : \A i \in DOMAIN Layout[d] : level[Layout[d][i]] = level[d] + 1

\* The entries of a directory of the device have different names.  Names are as the
\* constructor File::File leaves them: checkName has replaced characters in them, and
\* entries whose names are the same after that are not covered.
ASSUME DeviceAssumption ==
  /\ ROOT_INO \in DOMAIN Disk
  /\ \A ino \in DOMAIN Disk :
       /\ Disk[ino] \in Seq([name : STRING, kind : {"ext2dir", "ext2file"}, ino : DOMAIN Disk])
       /\ \A i, j \in DOMAIN Disk[ino] : Disk[ino][i].name = Disk[ino][j].name => i = j

ASSUME FileTreeAssumption ==
  /\ IsFiniteSet(Files) /\ Files \cap Static = {} /\ Made \subseteq DOMAIN Homes
  /\ NULL \notin Nodes /\ Names \subseteq STRING /\ Garbage \notin Names
  /\ \A p \in Paths \cup NewPaths : p \in Path /\ (~p.abs /\ p.comps # <<>> => p.comps[1] # "")
  /\ default_tty \in Seq(STRING)
  /\ Boot \in Procs /\ {CONFIG_MAX_FILE, STD_FILES, kMaxMounts, MaxOffset} \subseteq Nat
  /\ Modulus \in Nat /\ Modulus > 4 /\ MaxOffset < Modulus - 1

VARIABLES file,     \* class File, for every block of memory
          mounts,   \* mount_count
          alive,    \* the processes that exist
          openfp,   \* openfp of every process
          cdir,     \* cdir of every process
          fault,    \* a wild pointer was used
          pending   \* history: the children a directory had when it was opened
                    \* that getdents has not returned through the descriptor

vars == <<file, mounts, alive, openfp, cdir, fault, pending>>

Closed == [fp |-> NULL, ptr |-> 0]
Free == [kind |-> "free", name |-> Garbage, parent |-> NULL, child |-> NULL, next |-> NULL,
         prec |-> NULL, link |-> NULL, ino |-> 0, loaded |-> FALSE]
Live(h) == {n \in Nodes : h[n].kind # "free"}

TypeOK ==
  /\ file \in [Nodes -> [kind : Kinds, name : STRING \cup {Garbage}, parent : Ptr, child : Ptr,
                         next : Ptr, prec : Ptr, link : Ptr, ino : {0} \cup DOMAIN Disk,
                         loaded : BOOLEAN]]
  /\ mounts \in 0 .. kMaxMounts /\ alive \subseteq Procs /\ fault \in BOOLEAN
  /\ openfp \in [Procs -> [Fds -> [fp : Ptr, ptr : 0 .. Modulus - 1]]]
  /\ cdir \in [Procs -> Ptr] /\ pending \in [Procs -> [Fds -> SUBSET Nodes]]

-------------------------------------------------------------------------------
(* Files.  The operators take and return the memory h of all the files.    *)

\* The constructor, with a name that has been through checkName.
New(h, n, nm, k) == [h EXCEPT ![n] = [Free EXCEPT !.kind = k, !.name = nm]]

\* Mutant: addChild without the pointer back from the former first child.
addChildForward(h, d, n) ==
  [h EXCEPT ![n].parent = d, ![n].prec = NULL, ![n].next = h[d].child, ![d].child = n]

\* Mutant: addChild without setNext: the other children are lost.
addChildAlone(h, d, n) == [h EXCEPT ![n].parent = d, ![n].prec = NULL, ![d].child = n]

addChild(h, d, n) ==
  LET first == h[d].child
      linked == [h EXCEPT ![n].parent = d, ![n].prec = NULL, ![n].next = first, ![d].child = n]
  IN IF first = NULL THEN linked ELSE [linked EXCEPT ![first].prec = n]

\* The children of d, from the first along the next pointers.
Kids(h, d) ==
  LET First[i \in Nat] ==
        IF i = 0 THEN <<>>
        ELSE LET kids == First[i - 1]
                 n == IF kids = <<>> THEN h[d].child ELSE h[Last(kids)].next
             IN IF n = NULL THEN kids ELSE Append(kids, n)
  IN First[Cap]

\* The files whose parent pointers lead to n, and n.
Subtree(h, n) ==
  LET Up[i \in Nat] ==
        IF i = 0 THEN {n} ELSE LET up == Up[i - 1] IN up \cup {m \in Live(h) : h[m].parent \in up}
  IN Up[Cap]

\* ~File: n leaves the list of its siblings and takes its children with it.
Delete(h, n) ==
  LET f == h[n]
      before == IF f.prec = NULL THEN [h EXCEPT ![f.parent].child = f.next]
                                 ELSE [h EXCEPT ![f.prec].next = f.next]
      after == IF f.next = NULL THEN before ELSE [before EXCEPT ![f.next].prec = f.prec]
      gone == Subtree(h, n)
  IN [m \in Nodes |-> IF m \in gone THEN Free ELSE after[m]]

find(h, d, nm) ==
  LET kids == Kids(h, d)
      Hits == {i \in DOMAIN kids : h[kids[i]].name = nm}
  IN IF Hits = {} THEN NULL ELSE kids[Min(Hits)]

Unused(h) == Files \ Live(h)
Fresh(h) == CHOOSE n \in Unused(h) : TRUE

\* An entry becomes a child of d; NoMemory tells when there is no block for one.
AddEntry(h, d, e) ==
  LET m == Fresh(h)
  IN IF Unused(h) = {} THEN h
     ELSE [addChild(New(h, m, e.name, e.kind), d, m) EXCEPT ![m].ino = e.ino]

\* The entries of the directory that n numbers, in their order: the device can fail
\* at the inode of any entry, which is left out, or at a block, which ends the loop.
load_directory(h, d, n) ==
  LET entries == Disk[h[d].ino]
      loaded[i \in Nat] == IF i = 0 THEN h
                           ELSE IF i \in n \cap DOMAIN entries THEN AddEntry(loaded[i - 1], d, entries[i])
                           ELSE loaded[i - 1]
  IN loaded[Len(entries)]

\* Mutant: a scan counts as done only if it loaded everything.
scanUntilComplete(h, d, n) ==
  IF h[d].kind = "ext2dir" /\ ~h[d].loaded /\ 0 \in n
  THEN [load_directory(h, d, n) EXCEPT ![d].loaded = DOMAIN Disk[h[d].ino] \subseteq n] ELSE h

\* Ext2Directory::scan, a no-op for the other kinds.  If 0 is not in n the inode of
\* the directory could not be read: then a later scan tries again.
scan(h, d, n) ==
  IF h[d].kind = "ext2dir" /\ ~h[d].loaded /\ 0 \in n
  THEN [load_directory(h, d, n) EXCEPT ![d].loaded = TRUE] ELSE h

\* Mutant: a lookup stops at links.
FollowNothing(h, n) == n

Follow(h, n) == IF h[n].kind = "link" /\ h[n].link # NULL THEN h[n].link ELSE n

\* A scan makes more files than there is memory for: new returns a null pointer,
\* and the constructor runs on it.
NoMemory(h, d, n) ==
  /\ h[d].kind = "ext2dir" /\ ~h[d].loaded /\ 0 \in n
  /\ Cardinality(n \cap DOMAIN Disk[h[d].ino]) > Cardinality(Unused(h))

(***************************************************************************)
(* The loop of path and path_parent over the components.  st is "go" while *)
(* it runs and at its regular end; "none" and "missing" are the early      *)
(* returns, for a component that is not a directory and for a name that    *)
(* does not exist; via are the nodes that the walk found.                  *)
(***************************************************************************)
Step(w, c, isPath, n) ==
  LET here == IF isPath THEN scan(w.h, w.fp, n) ELSE w.h
      found == find(here, w.fp, c)
  IN IF w.fp = NULL \/ w.fp \notin Live(w.h) THEN [w EXCEPT !.st = "fault"]
     ELSE IF w.h[w.fp].kind \notin Directories THEN [w EXCEPT !.st = "none"]
     ELSE CASE c = "" -> [w EXCEPT !.st = "fault"]
            [] c = ".." -> [w EXCEPT !.fp = w.h[w.fp].parent]
            [] c = "." -> w
            [] OTHER -> IF isPath /\ NoMemory(w.h, w.fp, n) THEN [w EXCEPT !.st = "fault"]
                        ELSE IF found = NULL THEN [w EXCEPT !.h = here, !.st = "missing", !.miss = c]
                        ELSE [w EXCEPT !.h = here, !.fp = Follow(here, found), !.via = @ \cup {found}]

Walk(h, start, comps, isPath, n) ==
  LET W[i \in Nat] ==
        IF i = 0 THEN [h |-> h, fp |-> start, st |-> "go", miss |-> Garbage, via |-> {}]
        ELSE LET w == W[i - 1]
             IN IF w.st # "go" \/ \A j \in i .. Len(comps) : comps[j] = "" THEN w
                ELSE Step(w, comps[i], isPath, n)
  IN W[Len(comps)]

\* path for process p, with the outcome n of a scan of the device.
path(p, q, n) == Walk(file, IF q.abs THEN "/" ELSE cdir[p], q.comps, TRUE, n)
Result(w) == IF w.st = "go" THEN w.fp ELSE NULL

path_parent(h, q) == Walk(h, "/", q.comps, FALSE, {})

-------------------------------------------------------------------------------
(* The file system.                                                        *)

\* The directory that init puts f into, and the place it has there.
ParentOf(f) == CHOOSE d \in Static : f \in ToSet(Layout[d])
PlaceOf(f) == CHOOSE i \in DOMAIN Layout[ParentOf(f)] : Layout[ParentOf(f)][i] = f

InitialDirectory(f) ==
  LET list == Layout[ParentOf(f)]
      i == PlaceOf(f)
  IN [Free EXCEPT !.kind = "directory", !.name = f,
        !.child = IF Layout[f] = <<>> THEN NULL ELSE Layout[f][1],
        !.parent = IF f = "/" THEN NULL ELSE ParentOf(f),
        !.next = IF f = "/" \/ i = Len(list) THEN NULL ELSE list[i + 1],
        !.prec = IF f = "/" \/ i = 1 THEN NULL ELSE list[i - 1]]

\* Filesystem::init creates the directories; the first process has no current
\* directory and no open files.
Init ==
  /\ file = [f \in Nodes |-> IF f \in Static THEN InitialDirectory(f) ELSE Free]
  /\ mounts = 0 /\ alive = {Boot} /\ fault = FALSE
  /\ openfp = [p \in Procs |-> [fd \in Fds |-> Closed]]
  /\ cdir = [p \in Procs |-> NULL]
  /\ pending = [p \in Procs |-> [fd \in Fds |-> {}]]

Fault == fault' = TRUE /\ UNCHANGED <<file, mounts, alive, openfp, cdir, pending>>

\* A change of the tree alone; files that are freed are no longer awaited.
Update(h) ==
  /\ file' = h
  /\ pending' = [p \in Procs |-> [fd \in Fds |-> pending[p][fd] \cap Live(h)]]

\* The constructors of Device, Socket, ModLink, User and Variable.
NewFile(k, nm, n) ==
  LET w == path(Boot, [abs |-> TRUE, comps |-> Homes[k]], n)
  IN /\ Unused(w.h) # {} /\ Result(w) # NULL
     /\ IF Result(w) \notin Live(w.h) THEN Fault
        ELSE /\ Update(addChild(New(w.h, Fresh(w.h), nm, k), w.fp, Fresh(w.h)))
             /\ UNCHANGED <<mounts, alive, openfp, cdir, fault>>

\* Filesystem::mknod, through the pointer dev.
mknod(nm) ==
  /\ Unused(file) # {}
  /\ IF "dev" \notin Live(file) THEN Fault
     ELSE /\ Update(addChild(New(file, Fresh(file), nm, "node"), "dev", Fresh(file)))
          /\ UNCHANGED <<mounts, alive, openfp, cdir, fault>>

\* The name of the new link: read from a freed block if a component is missing,
\* and never written if path_parent finds all of newf.
LinkNames(w) == IF w.st = "missing" THEN {w.miss, Garbage} ELSE Names \cup {Garbage}

\* call_symlink.
link(p, fname, newf, n) ==
  LET w == path(p, fname, n)
      v == path_parent(w.h, newf)
      d == IF v.st = "none" THEN NULL ELSE v.fp
  IN /\ w.st # "fault" => Result(w) # NULL
     /\ Unused(w.h) # {}
     /\ IF \/ "fault" \in {w.st, v.st} \/ d = NULL \/ d \notin Live(w.h) THEN Fault
        ELSE \E nm \in LinkNames(v) :
               LET m == Fresh(w.h)
               IN /\ Update([addChild(New(w.h, m, nm, "link"), d, m) EXCEPT ![m].link = w.fp])
                  /\ UNCHANGED <<mounts, alive, openfp, cdir, fault>>

\* Ext2Filesystem::mount: a new directory m takes the name and the parent of mp.
MountOver(h, mp, m) ==
  LET made == [New(h, m, h[mp].name, "ext2dir") EXCEPT ![m].ino = ROOT_INO]
  IN addChild(Delete(made, mp), h[mp].parent, m)

\* Filesystem::mount, if the driver accepts the device.
mount(p, q, n) ==
  LET w == path(p, q, n)
      mp == Result(w)
  IN /\ mounts < kMaxMounts
     /\ w.st # "fault" => mp # NULL
     /\ Unused(w.h) # {}
     /\ IF w.st = "fault" \/ mp \notin Live(w.h) \/ mp = "/" THEN Fault
        ELSE /\ w.h[mp].kind \in Directories
             /\ Update(MountOver(w.h, mp, Fresh(w.h)))
             /\ mounts' = mounts + 1 /\ UNCHANGED <<alive, openfp, cdir, fault>>

\* ls and cat use the file they find, which cd only compares with null; ls scans it.
Misused(w, cmd, n) ==
  /\ cmd # "cd" /\ Result(w) # NULL
  /\ Result(w) \notin Live(w.h) \/ (cmd = "ls" /\ NoMemory(w.h, w.fp, n))

\* The commands ls, cd and cat of the shell.
Lookup(p, q, cmd, n) ==
  LET w == path(p, q, n)
      h == IF cmd = "ls" /\ Result(w) \in Live(w.h) THEN scan(w.h, w.fp, n) ELSE w.h
  IN IF w.st = "fault" \/ Misused(w, cmd, n) THEN Fault
     ELSE Update(h) /\ UNCHANGED <<mounts, alive, openfp, cdir, fault>>

-------------------------------------------------------------------------------
(* Descriptors.                                                            *)

FreeFds(t) == {fd \in Fds : t[fd].fp = NULL}

\* Process::addFile, for the table t.
addFile(t, fp) ==
  IF fp = NULL \/ FreeFds(t) = {} THEN t ELSE [t EXCEPT ![Min(FreeFds(t))] = [fp |-> fp, ptr |-> 0]]

\* The entries that process p can read through descriptors of the new table t.
Awaited(p, h, t) ==
  [fd \in Fds |-> IF t[fd] = openfp[p][fd] THEN pending[p][fd] \cap Live(h)
                  ELSE IF t[fd].fp \in Live(h) THEN ToSet(Kids(h, t[fd].fp)) ELSE {}]

\* Process p gets the table t while the tree becomes h.
SetTable(p, h, t) ==
  /\ file' = h /\ openfp' = [openfp EXCEPT ![p] = t]
  /\ pending' = [q \in Procs |-> IF q = p THEN Awaited(p, h, t)
                                 ELSE [fd \in Fds |-> pending[q][fd] \cap Live(h)]]

\* call_open: a path that is not found is a null pointer to open.
open(p, q, n) ==
  LET w == path(p, q, n)
  IN IF Result(w) = NULL \/ w.fp \notin Live(w.h) THEN Fault
     ELSE SetTable(p, w.h, addFile(openfp[p], w.fp)) /\ UNCHANGED <<mounts, alive, cdir, fault>>

\* call_close.
close(p, fd) ==
  /\ fd \in Fds /\ openfp[p][fd].fp # NULL
  /\ IF openfp[p][fd].fp \notin Live(file) THEN Fault
     ELSE SetTable(p, file, [openfp[p] EXCEPT ![fd] = Closed]) /\ UNCHANGED <<mounts, alive, cdir, fault>>

\* What read and write of a file return: -1 is NOT_DEFINED, -2 ERROR_MEMORY, -4
\* ERROR_PARAM and -128 RETURN_FAILURE; a block device that has transferred all the
\* bytes returns RETURN_OK, which is 0.  The size of other transfers is 0 or 1.
Returns(k, op) ==
  CASE k = "device" -> {-128, -4, -2, 0}
    [] k = "variable" -> {-1, 0, 1}
    [] k = "ext2file" /\ op = "read" -> {0, 1}
    [] OTHER -> {-1}

\* What is awaited after a transfer.  In a file that is no directory the offset
\* counts bytes from then on, and nothing is awaited.
StillAwaited(p, fd) ==
  IF file[openfp[p][fd].fp].kind \in Directories THEN pending ELSE [pending EXCEPT ![p][fd] = {}]

\* Mutant: an offset that does not wrap.
TransferUnwrapped(p, fd, op) ==
  /\ openfp[p][fd].fp # NULL /\ openfp[p][fd].ptr <= MaxOffset
  /\ IF openfp[p][fd].fp \notin Live(file) THEN Fault
     ELSE \E ret \in Returns(file[openfp[p][fd].fp].kind, op) :
            /\ openfp' = [openfp EXCEPT ![p][fd].ptr = @ + ret]
            /\ pending' = StillAwaited(p, fd)
            /\ UNCHANGED <<file, mounts, alive, cdir, fault>>

\* call_read and call_write add what the file returns to the offset, errors too: of
\* a directory that is -1, and from 0 the offset wraps to the largest one.
Transfer(p, fd, op) ==
  /\ openfp[p][fd].fp # NULL /\ openfp[p][fd].ptr <= MaxOffset
  /\ IF openfp[p][fd].fp \notin Live(file) THEN Fault
     ELSE \E ret \in Returns(file[openfp[p][fd].fp].kind, op) :
            /\ openfp' = [openfp EXCEPT ![p][fd].ptr = (@ + ret) % Modulus]
            /\ pending' = StillAwaited(p, fd)
            /\ UNCHANGED <<file, mounts, alive, cdir, fault>>

\* Mutant: getdents adds the index of the entry to the offset.
getdentsJump(p, fd) ==
  LET o == openfp[p][fd]
      kids == Kids(file, o.fp)
  IN /\ o.fp # NULL
     /\ IF o.fp \notin Live(file) THEN Fault
        ELSE /\ o.ptr < Len(kids)
             /\ openfp' = [openfp EXCEPT ![p][fd].ptr = (@ + o.ptr + 1) % Modulus]
             /\ pending' = [pending EXCEPT ![p][fd] = @ \ {kids[o.ptr + 1]}]
             /\ UNCHANGED <<file, mounts, alive, cdir, fault>>

\* call_getdents: the child whose index is the offset.
getdents(p, fd) ==
  LET o == openfp[p][fd]
      kids == Kids(file, o.fp)
  IN /\ o.fp # NULL
     /\ IF o.fp \notin Live(file) THEN Fault
        ELSE /\ o.ptr < Len(kids)
             /\ openfp' = [openfp EXCEPT ![p][fd].ptr = (@ + 1) % Modulus]
             /\ pending' = [pending EXCEPT ![p][fd] = @ \ {kids[o.ptr + 1]}]
             /\ UNCHANGED <<file, mounts, alive, cdir, fault>>

\* call_dup2: the offset of the copy is 0, and newfd is not closed.
dup2(p, oldfd, newfd) ==
  LET fp == IF oldfd \in Fds THEN openfp[p][oldfd].fp ELSE NULL
      t == [openfp[p] EXCEPT ![newfd] = [fp |-> fp, ptr |-> 0]]
  IN /\ newfd \in Fds
     /\ SetTable(p, file, t) /\ UNCHANGED <<mounts, alive, cdir, fault>>

\* call_chdir, to any file.
chdir(p, q, n) ==
  LET w == path(p, q, n)
  IN IF w.st = "fault" THEN Fault
     ELSE /\ Result(w) # NULL /\ Update(w.h)
          /\ cdir' = [cdir EXCEPT ![p] = w.fp] /\ UNCHANGED <<mounts, alive, openfp, fault>>

\* Process::fork: the child has a copy of the table, offsets included.
fork(p, q) ==
  /\ q \notin alive /\ alive' = alive \cup {q}
  /\ openfp' = [openfp EXCEPT ![q] = openfp[p]]
  /\ cdir' = [cdir EXCEPT ![q] = cdir[p]]
  /\ pending' = [pending EXCEPT ![q] = pending[p]]
  /\ UNCHANGED <<file, mounts, fault>>

\* A child without a directory is deleted: ~File, of a file without a parent.
forkFails(q) == q \notin alive /\ Fault

\* execv and Process::create: the new process has the terminal open, if there is one.
execv(p, f, q, n) ==
  LET w == path(p, f, n)
      tty == Walk(w.h, "/", default_tty, TRUE, n)
      opened[i \in Nat] == IF i = 0 THEN [fd \in Fds |-> Closed]
                           ELSE addFile(opened[i - 1], Result(tty))
  IN /\ q \notin alive
     /\ w.st # "fault" => Result(w) # NULL
     /\ IF w.st = "fault" \/ w.fp \notin Live(w.h) \/ tty.st = "fault" THEN Fault
        ELSE /\ SetTable(q, tty.h, opened[STD_FILES]) /\ alive' = alive \cup {q}
             /\ cdir' = [cdir EXCEPT ![q] = NULL] /\ UNCHANGED <<mounts, fault>>

-------------------------------------------------------------------------------
\* Which inodes a scan can read, if a directory is left to be scanned: 0 stands for
\* its own, the other numbers for those of its entries.
Outcomes ==
  IF \E d \in Live(file) : file[d].kind = "ext2dir" /\ ~file[d].loaded
  THEN {{}} \cup {{0} \cup S : S \in SUBSET (1 .. Max({Len(Disk[i]) : i \in DOMAIN Disk}))} ELSE {{}}

FileSystemStep == \E n \in Outcomes :
  \/ \E k \in Made, nm \in Names : NewFile(k, nm, n)
  \/ \E p \in alive, q \in Paths :
       \/ \E newf \in NewPaths : link(p, q, newf, n)
       \/ mount(p, q, n)
       \/ \E cmd \in {"ls", "cd", "cat"} : Lookup(p, q, cmd, n)

SystemCall(p) ==
  \/ \E q \in Paths, n \in Outcomes :
       \/ open(p, q, n)
       \/ chdir(p, q, n)
       \/ \E child \in Procs : execv(p, q, child, n)
  \/ \E fd \in 0 .. CONFIG_MAX_FILE : close(p, fd)
  \/ \E fd \in Fds, op \in {"read", "write"} : Transfer(p, fd, op)
  \/ \E fd \in Fds : getdents(p, fd)
  \/ \E oldfd, newfd \in 0 .. CONFIG_MAX_FILE : dup2(p, oldfd, newfd)
  \/ \E child \in Procs : fork(p, child) \/ forkFails(child)

Next == ~fault /\ (FileSystemStep \/ (\E nm \in Names : mknod(nm)) \/ \E p \in alive : SystemCall(p))

Spec == Init /\ [][Next]_vars

-------------------------------------------------------------------------------
(* Properties.                                                             *)

\* However files are added, loaded from the device and deleted by a mount, the
\* pointers make a tree: along next every directory has each of its children
\* once, prec leads back, and every file is reached from the root.
TreeOK ==
  /\ \A d \in Live(file) :
       LET kids == Kids(file, d)
       IN \A i \in DOMAIN kids :
            /\ kids[i] \in Live(file) /\ file[kids[i]].parent = d
            /\ file[kids[i]].prec = IF i = 1 THEN NULL ELSE kids[i - 1]
            /\ \A j \in 1 .. i - 1 : kids[i] # kids[j]
  /\ Live(file) = Subtree(file, "/")
  /\ \A n \in Live(file) \ {"/"} : n \in ToSet(Kids(file, file[n].parent))

\* path follows one link for each component.  As long as no mount has deleted files
\* that is enough, since no link leads to another one, and no link dangles.
LinksResolve ==
  mounts = 0 => \A n \in Live(file) : file[n].kind = "link" =>
                  file[n].link \in Live(file) /\ file[file[n].link].kind # "link"

\* getdents finds the next entry by its index, while other processes add files
\* to the directory, load it from the device or mount on it.  What the directory
\* held when it was opened is returned or still ahead of the offset, so that
\* getdents skips none, though entries may come twice.  The one exception: a read
\* or a write of a directory returns -1, which the call adds to the offset.  After
\* an entry this only repeats it, but at the start the offset becomes the largest
\* one, and getdents finds nothing through the descriptor any more.
EntriesAhead ==
  \A p \in alive, fd \in Fds : openfp[p][fd].fp \in Live(file) =>
    LET kids == Kids(file, openfp[p][fd].fp)
    IN \A i \in DOMAIN kids : kids[i] \in pending[p][fd] =>
         i > openfp[p][fd].ptr \/ openfp[p][fd].ptr = Modulus - 1

\* A directory of the device is loaded by whichever lookup comes first and, if
\* its inode could not be read, by a later one: no entry appears twice.
LoadedOnce ==
  \A d \in Live(file) : file[d].kind = "ext2dir" =>
    \A m, n \in ToSet(Kids(file, d)) :
      /\ {file[m].kind, file[n].kind} \subseteq {"ext2dir", "ext2file"}
      /\ file[m].name = file[n].name
      => m = n

\* A path from the root that leads to a file leads to that file after every step,
\* unless the step made a file that takes the place of one on the way, or a mount
\* deleted one on the way.
PathStable == [][
  file' # file => \A q \in Paths :
    LET old == Walk(file, "/", q.comps, TRUE, {})
        new == Walk(file', "/", q.comps, TRUE, {})
    IN q.abs /\ old.st = "go" /\ old.fp \in Live(file) =>
         \/ new.st = "go" /\ new.fp = old.fp
         \/ \E n \in new.via : n \notin Live(file)
         \/ mounts' # mounts /\ \E n \in old.via \cup {old.fp} : n \notin Live(file')]_vars
===============================================================================
